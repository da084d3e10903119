------------------------------ MODULE MuTracker ------------------------------
(***************************************************************************)
(* tracker/mutracker: the map from item to lock (MuTracker.trackers), the  *)
(* RWMutex over the map (MuTracker.mutex) and the lock of one item         *)
(* (resourceMu: a sync.Mutex and an atomic flag beside it).  Goroutines    *)
(* run LockItem, UnlockItem, IsItemLocked and LockedItems; every step that *)
(* another goroutine can see is an action.                                 *)
(*                                                                         *)
(* A sync.RWMutex is modelled as Go implements it: a writer first          *)
(* announces itself, which keeps new readers out, and then waits until the *)
(* readers inside have left.                                               *)
(***************************************************************************)
EXTENDS Integers

CONSTANTS Threads,   \* the goroutines
          Rids,      \* the items' identifiers
          Mutexes,   \* the addresses a resourceMu can have
          Unowned,   \* the items that callers may unlock without holding them
          None       \* the nil pointer, and "no goroutine"

ASSUME NoneIsNothing == None \notin Threads \cup Rids \cup Mutexes
ASSUME UnownedAreItems == Unowned \subseteq Rids

\* The items that are unlocked by who locked them: all items of the facade,
\* which always calls "defer UnlockItem(rid)" after LockItem(rid).
Owned == Rids \ Unowned

VARIABLES
  pc,         \* pc[t]: where t is
  arg,        \* arg[t]: the rid of t's call
  state,      \* state[t]: the resourceMu t's call works on (Go's local "state")
  todo,       \* todo[t]: the items t's query still has to look at
  report,     \* report[t]: the items t's query has found locked
  readers,    \* the goroutines inside mutex.RLock
  writer,     \* the goroutine that announced itself with mutex.Lock, or None
  trackers,   \* trackers[r]: the resourceMu of item r, None when it has none
  owner,      \* owner[m]: the goroutine that has resourceMu m's sync.Mutex
  locked      \* locked[m]: resourceMu m's atomic flag

mapVars  == <<readers, writer, trackers>>
muVars   == <<owner, locked>>
callVars == <<arg, state, todo, report>>
vars     == <<pc, callVars, mapVars, muVars>>

\* Where a goroutine can be.  LockItem: rlock, lookup, announce, drain,
\* acquire, flag, then held until it calls UnlockItem: unlock, cas, release,
\* runlock.  The queries: ask, scan.
PCs == {"idle", "rlock", "lookup", "announce", "drain", "acquire", "flag",
        "held", "unlock", "cas", "release", "runlock", "ask", "scan"}

Waiting == {"rlock", "lookup", "announce", "drain", "acquire"}
Reading == {"lookup", "cas", "release", "runlock", "scan"}
Owning  == {"flag", "held", "unlock", "cas", "release"}
Flagged == {"held", "unlock", "cas"}

TypeOK ==
  /\ pc \in [Threads -> PCs]
  /\ arg \in [Threads -> Rids \cup {None}]
  /\ state \in [Threads -> Mutexes \cup {None}]
  /\ todo \in [Threads -> SUBSET Rids]
  /\ report \in [Threads -> SUBSET Rids]
  /\ readers \in SUBSET Threads
  /\ writer \in Threads \cup {None}
  /\ trackers \in [Rids -> Mutexes \cup {None}]
  /\ owner \in [Mutexes -> Threads \cup {None}]
  /\ locked \in [Mutexes -> {0, 1}]

Init ==
  /\ pc = [t \in Threads |-> "idle"]
  /\ arg = [t \in Threads |-> None]
  /\ state = [t \in Threads |-> None]
  /\ todo = [t \in Threads |-> {}]
  /\ report = [t \in Threads |-> {}]
  /\ readers = {}
  /\ writer = None
  /\ trackers = [r \in Rids |-> None]
  /\ owner = [m \in Mutexes |-> None]
  /\ locked = [m \in Mutexes |-> 0]

Goto(t, from, to) == pc[t] = from /\ pc' = [pc EXCEPT ![t] = to]

----------------------------------------------------------------------------
(* The RWMutex over the map *)

RLock(t) ==
  /\ writer = None
  /\ readers' = readers \cup {t}
  /\ UNCHANGED <<writer, trackers>>

RUnlock(t) ==
  /\ readers' = readers \ {t}
  /\ UNCHANGED <<writer, trackers>>

----------------------------------------------------------------------------
(* LockItem *)

LockItemCall(t, r) ==
  /\ Goto(t, "idle", "rlock")
  /\ arg' = [arg EXCEPT ![t] = r]
  /\ UNCHANGED <<state, todo, report, mapVars, muVars>>

LockItemRLock(t) ==
  /\ Goto(t, "rlock", "lookup")
  /\ RLock(t)
  /\ UNCHANGED <<callVars, muVars>>

\* state, exists := s.trackers[rid] and the RUnlock after it: no writer can
\* come between the two.
LockItemLookup(t) ==
  /\ Goto(t, "lookup", IF trackers[arg[t]] = None THEN "announce" ELSE "acquire")
  /\ state' = [state EXCEPT ![t] = trackers[arg[t]]]
  /\ RUnlock(t)
  /\ UNCHANGED <<arg, todo, report, muVars>>

LockItemAnnounce(t) ==
  /\ Goto(t, "announce", "drain")
  /\ writer = None
  /\ writer' = t
  /\ UNCHANGED <<callVars, readers, trackers, muVars>>

\* An address that nothing points to: what newResourceMu can return.
Fresh == {m \in Mutexes : /\ \A r \in Rids : trackers[r] # m
                          /\ \A t \in Threads : state[t] # m}

\* [mutant] no second look at the map under the write lock.
LockForUnchecked(r, m) == m \in Fresh

\* What the writer puts in the map: the lock another goroutine created in the
\* meantime, else a new one.
LockFor(r, m) == IF trackers[r] # None THEN m = trackers[r] ELSE m \in Fresh

\* The critical section of mutex.Lock: check again, create, insert, Unlock.
LockItemCreate(t) ==
  /\ Goto(t, "drain", "acquire")
  /\ readers = {}
  /\ \E m \in Mutexes :
       /\ LockFor(arg[t], m)
       /\ trackers' = [trackers EXCEPT ![arg[t]] = m]
       /\ state' = [state EXCEPT ![t] = m]
       /\ owner' = IF m \in Fresh THEN [owner EXCEPT ![m] = None] ELSE owner
       /\ locked' = IF m \in Fresh THEN [locked EXCEPT ![m] = 0] ELSE locked
  /\ writer' = None
  /\ UNCHANGED <<arg, todo, report, readers>>

\* resourceMu.lock: the mutex, and then the flag.
Acquire(t) ==
  /\ Goto(t, "acquire", "flag")
  /\ owner[state[t]] = None
  /\ owner' = [owner EXCEPT ![state[t]] = t]
  /\ UNCHANGED <<callVars, mapVars, locked>>

SetFlag(t) ==
  /\ Goto(t, "flag", "held")
  /\ locked' = [locked EXCEPT ![state[t]] = 1]
  /\ UNCHANGED <<callVars, mapVars, owner>>

----------------------------------------------------------------------------
(* UnlockItem *)

UnlockItemCall(t) ==
  /\ Goto(t, "held", "unlock")
  /\ UNCHANGED <<callVars, mapVars, muVars>>

UnlockItemRLock(t) ==
  /\ Goto(t, "unlock", "cas")
  /\ RLock(t)
  /\ UNCHANGED <<callVars, muVars>>

\* [mutant] the flag is loaded and not swapped.
ClearFlagByLoad(t) ==
  LET m == trackers[arg[t]] IN
  /\ Goto(t, "cas", IF m # None /\ locked[m] = 1 THEN "release" ELSE "runlock")
  /\ state' = [state EXCEPT ![t] = m]
  /\ UNCHANGED <<arg, todo, report, mapVars, owner, locked>>

\* resourceMu.unlock: only the call whose CompareAndSwap finds the flag set
\* unlocks the mutex.
ClearFlag(t) ==
  LET m == trackers[arg[t]] IN
  /\ pc[t] = "cas"
  /\ IF m # None /\ locked[m] = 1
     THEN /\ pc' = [pc EXCEPT ![t] = "release"]
          /\ locked' = [locked EXCEPT ![m] = 0]
          /\ state' = [state EXCEPT ![t] = m]
     ELSE /\ pc' = [pc EXCEPT ![t] = "runlock"]
          /\ UNCHANGED <<locked, state>>
  /\ UNCHANGED <<arg, todo, report, mapVars, owner>>

ReleaseMutex(t) ==
  /\ Goto(t, "release", "runlock")
  /\ owner' = [owner EXCEPT ![state[t]] = None]
  /\ UNCHANGED <<callVars, mapVars, locked>>

\* [mutant] the deferred RUnlock is forgotten.
UnlockItemReturnLeak(t) ==
  /\ Goto(t, "runlock", "idle")
  /\ arg' = [arg EXCEPT ![t] = None]
  /\ state' = [state EXCEPT ![t] = None]
  /\ UNCHANGED <<todo, report, mapVars, muVars>>

\* The deferred RUnlock, and the return to the caller.
UnlockItemReturn(t) ==
  /\ Goto(t, "runlock", "idle")
  /\ RUnlock(t)
  /\ arg' = [arg EXCEPT ![t] = None]
  /\ state' = [state EXCEPT ![t] = None]
  /\ UNCHANGED <<todo, report, muVars>>

\* UnlockItem by a goroutine that holds nothing, as in the tests "Unlock
\* non-existent item" and "Unlock already unlocked item".
StrayUnlockCall(t, r) ==
  /\ r \in Unowned
  /\ Goto(t, "idle", "unlock")
  /\ arg' = [arg EXCEPT ![t] = r]
  /\ UNCHANGED <<state, todo, report, mapVars, muVars>>

----------------------------------------------------------------------------
(* IsItemLocked (one item) and LockedItems (the whole map) *)

QueryCall(t, S) ==
  /\ Goto(t, "idle", "ask")
  /\ todo' = [todo EXCEPT ![t] = S]
  /\ UNCHANGED <<arg, state, report, mapVars, muVars>>

QueryRLock(t) ==
  /\ Goto(t, "ask", "scan")
  /\ RLock(t)
  /\ UNCHANGED <<callVars, muVars>>

QueryRead(t, r) ==
  /\ pc[t] = "scan"
  /\ r \in todo[t]
  /\ todo' = [todo EXCEPT ![t] = @ \ {r}]
  /\ report' = IF trackers[r] # None /\ locked[trackers[r]] = 1
               THEN [report EXCEPT ![t] = @ \cup {r}] ELSE report
  /\ UNCHANGED <<pc, arg, state, mapVars, muVars>>

QueryReturn(t) ==
  /\ Goto(t, "scan", "idle")
  /\ todo[t] = {}
  /\ RUnlock(t)
  /\ report' = [report EXCEPT ![t] = {}]
  /\ UNCHANGED <<arg, state, todo, muVars>>

----------------------------------------------------------------------------
(* The specification *)

Call(t) == \/ \E r \in Rids : LockItemCall(t, r)
           \/ \E r \in Rids : QueryCall(t, {r})
           \/ QueryCall(t, Rids)
           \/ \E r \in Rids : StrayUnlockCall(t, r)

\* Everything a goroutine does inside a call, and giving the item back.
Step(t) == \/ LockItemRLock(t)
           \/ LockItemLookup(t)
           \/ LockItemAnnounce(t)
           \/ LockItemCreate(t)
           \/ Acquire(t)
           \/ SetFlag(t)
           \/ UnlockItemCall(t)
           \/ UnlockItemRLock(t)
           \/ ClearFlag(t)
           \/ ReleaseMutex(t)
           \/ UnlockItemReturn(t)
           \/ QueryRLock(t)
           \/ \E r \in Rids : QueryRead(t, r)
           \/ QueryReturn(t)

Next == \E t \in Threads : Call(t) \/ Step(t)

Spec == Init /\ [][Next]_vars

\* Goroutines are scheduled and callers unlock by defer.  A goroutine that is
\* blocked has one step it can take, and that step is strongly fair in Go: the
\* RWMutex admits those already waiting at each RUnlock and Unlock, and a
\* sync.Mutex enters starvation mode and hands itself to the oldest waiter.
Fairness == \A t \in Threads : SF_vars(Step(t))

FairSpec == Spec /\ Fairness

----------------------------------------------------------------------------
(* Properties *)

\* Between the return of LockItem(r) and the call of UnlockItem(r) no other
\* goroutine is there for the same r, although one of them may have found the
\* lock in the map and another may have created it (mutracker.go:23-51).
MutualExclusion == \A t, u \in Threads :
  (pc[t] = "held" /\ pc[u] = "held" /\ arg[t] = arg[u] /\ arg[t] \in Owned) => t = u

\* The flag the queries read is right: an item between lock and unlock is
\* reported as locked, and an item reported as locked has a goroutine that
\* holds it (muresource.go:20-35).
FlagAccuracy == \A r \in Owned :
  (\E t \in Threads : pc[t] \in Flagged /\ arg[t] = r)
    <=> (trackers[r] # None /\ locked[trackers[r]] = 1)

\* The sync.Mutex is never unlocked while it is unlocked, which would be a
\* fatal error in Go, even when goroutines unlock what they do not hold
\* (muresource.go:26-30; the test "Unlock already unlocked item").
NoFatalUnlock == \A t \in Threads : pc[t] = "release" => owner[state[t]] # None

\* Each goroutine that calls LockItem gets the item (mutracker.go:23-51).
LockItemReturns == \A t \in Threads : pc[t] = "rlock" ~> pc[t] = "held"

\* The goroutine that has been given item r and has not given it back.
Holder(r) ==
  IF \E t \in Threads : pc[t] \in Owning /\ arg[t] = r
  THEN CHOOSE t \in Threads : pc[t] \in Owning /\ arg[t] = r
  ELSE None

Abstract == INSTANCE ItemLock WITH
  Rids    <- Owned,
  holder  <- [r \in Owned |-> Holder(r)],
  waiting <- [t \in Threads |-> IF pc[t] \in Waiting /\ arg[t] \in Owned
                                THEN arg[t] ELSE None]

\* MuTracker implements the abstract item lock: every step of LockItem and
\* UnlockItem asks for an item, is given it, gives it back, or is invisible to
\* the callers (mutracker.go:23-63).
ImplementsItemLock == Abstract!LockSpec
============================================================================
