------------------------------ MODULE ItemLock ------------------------------
(***************************************************************************)
(* What tracker.Service promises to its callers (src/tracker/service.go):  *)
(* LockItem(rid) returns to one goroutine at a time per item, the item     *)
(* stays with it until its UnlockItem(rid), items do not disturb one       *)
(* another, and a goroutine that asks for an item is served in the end.    *)
(* How the service finds or creates the lock of an item is MuTracker's     *)
(* business; the workers of the facade (module SyncService) are built on    *)
(* this specification only.                                                *)
(***************************************************************************)
CONSTANTS Threads,   \* the goroutines that use the service
          Rids,      \* the identifiers of the items
          None       \* neither of them

VARIABLES holder,    \* holder[r]: the goroutine that has item r, or None
          waiting    \* waiting[t]: the item t waits for, or None

lockVars == <<holder, waiting>>

LockTypeOK ==
  /\ holder \in [Rids -> Threads \cup {None}]
  /\ waiting \in [Threads -> Rids \cup {None}]

LockInit ==
  /\ holder = [r \in Rids |-> None]
  /\ waiting = [t \in Threads |-> None]

\* A goroutine takes one item at a time: every caller unlocks (by defer)
\* before it asks again.
Request(t, r) ==
  /\ waiting[t] = None
  /\ \A s \in Rids : holder[s] # t
  /\ waiting' = [waiting EXCEPT ![t] = r]
  /\ UNCHANGED holder

Grant(t, r) ==
  /\ waiting[t] = r
  /\ holder[r] = None
  /\ holder' = [holder EXCEPT ![r] = t]
  /\ waiting' = [waiting EXCEPT ![t] = None]

Release(t, r) ==
  /\ holder[r] = t
  /\ holder' = [holder EXCEPT ![r] = None]
  /\ UNCHANGED waiting

LockNext == \E t \in Threads, r \in Rids :
  Request(t, r) \/ Grant(t, r) \/ Release(t, r)

LockSpec == LockInit /\ [][LockNext]_lockVars

\* A goroutine that waits for an item gets it.
Served == \A t \in Threads, r \in Rids : waiting[t] = r ~> holder[r] = t
=============================================================================
