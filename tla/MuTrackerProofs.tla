--------------------------- MODULE MuTrackerProofs ---------------------------
(***************************************************************************)
(* Proofs about MuTracker, for any goroutines, items and addresses.        *)
(*                                                                         *)
(* Mutual exclusion is not inductive: it needs the link between a          *)
(* goroutine's local pointer and the map (Pointers), the fact that no two  *)
(* items share a lock (Separate), and who has the sync.Mutex (Ownership).  *)
(* For the items that goroutines unlock without holding them there is no   *)
(* ownership; what remains is that setting the flag, clearing it and       *)
(* unlocking the mutex pass a baton (Baton).                               *)
(***************************************************************************)
EXTENDS MuTracker, TLAPS

\* The readers of the map are the goroutines that are between RLock and
\* RUnlock, the writer is the one that drains them.
Lockers ==
  /\ \A t \in Threads : t \in readers <=> pc[t] \in Reading
  /\ \A t \in Threads : writer = t <=> pc[t] = "drain"

Separate == \A r, s \in Rids :
  trackers[r] = trackers[s] /\ trackers[r] # None => r = s

\* Inside LockItem and UnlockItem the goroutine has an item; once it has found
\* or created the lock, it has the one in the map.
Pointers == \A t \in Threads :
  /\ pc[t] \notin {"idle", "ask", "scan"} => arg[t] \in Rids
  /\ pc[t] \in {"acquire", "flag", "held", "release"} =>
       state[t] = trackers[arg[t]] /\ state[t] # None
  /\ pc[t] \in {"unlock", "cas"} /\ arg[t] \in Owned => trackers[arg[t]] # None

Ownership == \A r \in Owned : trackers[r] # None =>
  /\ \A t \in Threads : owner[trackers[r]] = t <=> pc[t] \in Owning /\ arg[t] = r
  /\ locked[trackers[r]] = 1 <=> \E t \in Threads : pc[t] \in Flagged /\ arg[t] = r

Baton ==
  /\ \A t, u \in Threads :
       pc[t] \in {"flag", "release"} /\ pc[u] \in {"flag", "release"}
         /\ state[t] = state[u] => t = u
  /\ \A t \in Threads : pc[t] \in {"flag", "release"} =>
       owner[state[t]] # None /\ locked[state[t]] = 0
  /\ \A m \in Mutexes : locked[m] = 1 => owner[m] # None

IInv == TypeOK /\ Lockers /\ Separate /\ Pointers /\ Ownership /\ Baton
-----------------------------------------------------------------------------

\* The initial states satisfy the invariant: nothing is locked, no lock exists.
LEMMA InitIInv == Init => IInv
  BY NoneIsNothing DEF Init, IInv, TypeOK, Lockers, Separate, Pointers, Ownership,
    Baton, PCs, Reading, Owning, Flagged, Owned

\* Every step of a goroutine, and a stutter, keep the invariant.
LEMMA NextIInv == IInv /\ [Next]_vars => IInv'
<1> SUFFICES ASSUME IInv, [Next]_vars PROVE IInv'
  OBVIOUS
<1> USE NoneIsNothing, UnownedAreItems
<1> USE DEF IInv, TypeOK, Lockers, Separate, Pointers, Ownership, Baton, Goto, Owned,
      PCs, Reading, Owning, Flagged, callVars, mapVars, muVars
<1>1. ASSUME NEW t \in Threads, NEW r \in Rids, LockItemCall(t, r) PROVE IInv'
  BY <1>1 DEF LockItemCall
<1>2. ASSUME NEW t \in Threads, NEW r \in Rids, StrayUnlockCall(t, r) PROVE IInv'
  BY <1>2 DEF StrayUnlockCall
<1>3. ASSUME NEW t \in Threads, NEW S \in SUBSET Rids, QueryCall(t, S) PROVE IInv'
  BY <1>3 DEF QueryCall
<1>4. ASSUME NEW t \in Threads, LockItemRLock(t) PROVE IInv'
  BY <1>4 DEF LockItemRLock, RLock
<1>5. ASSUME NEW t \in Threads, LockItemLookup(t) PROVE IInv'
  BY <1>5 DEF LockItemLookup, RUnlock
<1>6. ASSUME NEW t \in Threads, LockItemAnnounce(t) PROVE IInv'
  BY <1>6 DEF LockItemAnnounce
<1>7. ASSUME NEW t \in Threads, LockItemCreate(t) PROVE IInv'
  BY <1>7 DEF LockItemCreate, Fresh, LockFor
<1>8. ASSUME NEW t \in Threads, Acquire(t) PROVE IInv'
  BY <1>8 DEF Acquire
<1>9. ASSUME NEW t \in Threads, SetFlag(t) PROVE IInv'
  BY <1>9 DEF SetFlag
<1>10. ASSUME NEW t \in Threads, UnlockItemCall(t) PROVE IInv'
  BY <1>10 DEF UnlockItemCall
<1>11. ASSUME NEW t \in Threads, UnlockItemRLock(t) PROVE IInv'
  BY <1>11 DEF UnlockItemRLock, RLock
<1>12. ASSUME NEW t \in Threads, ClearFlag(t) PROVE IInv'
  BY <1>12 DEF ClearFlag
<1>13. ASSUME NEW t \in Threads, ReleaseMutex(t) PROVE IInv'
  BY <1>13 DEF ReleaseMutex
<1>14. ASSUME NEW t \in Threads, UnlockItemReturn(t) PROVE IInv'
  BY <1>14 DEF UnlockItemReturn, RUnlock
<1>15. ASSUME NEW t \in Threads, QueryRLock(t) PROVE IInv'
  BY <1>15 DEF QueryRLock, RLock
<1>16. ASSUME NEW t \in Threads, NEW r \in Rids, QueryRead(t, r) PROVE IInv'
  BY <1>16 DEF QueryRead
<1>17. ASSUME NEW t \in Threads, QueryReturn(t) PROVE IInv'
  BY <1>17 DEF QueryReturn, RUnlock
<1>18. CASE UNCHANGED vars
  BY <1>18 DEF vars
<1> HIDE DEF IInv
<1>19. ASSUME NEW t \in Threads, Call(t) PROVE IInv'
  BY <1>1, <1>2, <1>3, <1>19 DEF Call
<1>20. ASSUME NEW t \in Threads, Step(t) PROVE IInv'
  BY <1>4, <1>5, <1>6, <1>7, <1>8, <1>9, <1>10, <1>11, <1>12, <1>13, <1>14, <1>15,
    <1>16, <1>17, <1>20 DEF Step
<1>21. QED
  BY <1>18, <1>19, <1>20 DEF Next

LEMMA InvariantHolds == Spec => []IInv
  BY InitIInv, NextIInv, PTL DEF Spec

\* The variables keep their types, and with them every lookup is in range.
THEOREM TypeCorrect == Spec => []TypeOK
<1>1. IInv => TypeOK
  BY DEF IInv
<1>2. QED
  BY <1>1, InvariantHolds, PTL

\* Two goroutines never have the same item: LockItem gives an item out again only
\* after UnlockItem, for any number of goroutines, also while the lock of the
\* item is being created by one of them.
THEOREM MutualExclusionHolds == Spec => []MutualExclusion
<1>1. IInv => MutualExclusion
  BY NoneIsNothing DEF IInv, TypeOK, Pointers, Ownership, MutualExclusion, Owned, Owning
<1>2. QED
  BY <1>1, InvariantHolds, PTL

\* What IsItemLocked and LockedItems read agrees with who has the item.
THEOREM FlagAccuracyHolds == Spec => []FlagAccuracy
<1>1. IInv => FlagAccuracy
  BY NoneIsNothing DEF IInv, TypeOK, Pointers, Ownership, FlagAccuracy, Owned, Flagged
<1>2. QED
  BY <1>1, InvariantHolds, PTL

\* Go's "fatal error: sync: unlock of unlocked mutex" cannot happen, whoever
\* calls UnlockItem and however often.
THEOREM NoFatalUnlockHolds == Spec => []NoFatalUnlock
<1>1. IInv => NoFatalUnlock
  BY DEF IInv, Baton, NoFatalUnlock
<1>2. QED
  BY <1>1, InvariantHolds, PTL

-----------------------------------------------------------------------------
(* MuTracker implements ItemLock *)

Has(t, r) == pc[t] \in Owning /\ arg[t] = r

Wants(t) == IF pc[t] \in Waiting /\ arg[t] \in Owned THEN arg[t] ELSE None

\* The abstract holder of an item is the one goroutine that has it.
HoldersRight == \A r \in Owned :
  /\ Holder(r) \in Threads \cup {None}
  /\ \A t \in Threads : Holder(r) = t <=> Has(t, r)

\* In every state of the invariant at most one goroutine has an item, so the
\* abstract holder is determined.
LEMMA HolderIsUnique == IInv => HoldersRight
<1> SUFFICES ASSUME IInv, NEW r \in Owned
             PROVE  /\ Holder(r) \in Threads \cup {None}
                    /\ \A t \in Threads : Holder(r) = t <=> Has(t, r)
  BY DEF HoldersRight
<1>1. \A t, u \in Threads : Has(t, r) /\ Has(u, r) => t = u
  BY NoneIsNothing DEF IInv, TypeOK, Pointers, Ownership, Owned, Owning, Has
<1>2. QED
  BY <1>1, NoneIsNothing DEF Holder, Has

LockHolder == [r \in Owned |-> Holder(r)]
LockWaiting == [t \in Threads |-> Wants(t)]

\* Every step of the tracker asks for an item, is granted it, gives it back, or
\* changes nothing that the abstract lock shows.
LEMMA StepRefines ==
  IInv /\ HoldersRight /\ HoldersRight' /\ [Next]_vars
    => [Abstract!LockNext]_(Abstract!lockVars)
<1> SUFFICES ASSUME IInv, HoldersRight, HoldersRight', [Next]_vars
             PROVE  [Abstract!LockNext]_(Abstract!lockVars)
  OBVIOUS
<1> USE NoneIsNothing, UnownedAreItems
<1> DEFINE Stutter == LockHolder' = LockHolder /\ LockWaiting' = LockWaiting
<1> DEFINE Asks(t, r) == /\ LockWaiting[t] = None
                         /\ \A s \in Owned : LockHolder[s] # t
                         /\ LockWaiting' = [LockWaiting EXCEPT ![t] = r]
                         /\ LockHolder' = LockHolder
<1> DEFINE Gets(t, r) == /\ LockWaiting[t] = r
                         /\ LockHolder[r] = None
                         /\ LockHolder' = [LockHolder EXCEPT ![r] = t]
                         /\ LockWaiting' = [LockWaiting EXCEPT ![t] = None]
<1> DEFINE Gives(t, r) == /\ LockHolder[r] = t
                          /\ LockHolder' = [LockHolder EXCEPT ![r] = None]
                          /\ LockWaiting' = LockWaiting
<1> DEFINE Abs == Stutter \/ \E t \in Threads, r \in Owned : Asks(t, r) \/ Gets(t, r) \/ Gives(t, r)
<1>1. Abs => [Abstract!LockNext]_(Abstract!lockVars)
  BY DEF Abstract!LockNext, Abstract!lockVars, Abstract!Request, Abstract!Grant,
    Abstract!Release, LockHolder, LockWaiting, Wants
<1>2. ASSUME NEW t \in Threads, NEW r \in Rids, LockItemCall(t, r) PROVE Abs
  <2>1. \A u \in Threads, s \in Owned : Has(u, s)' <=> Has(u, s)
    BY <1>2 DEF IInv, TypeOK, LockItemCall, Goto, Has, Owning
  <2>2. LockHolder' = LockHolder
    BY <2>1 DEF HoldersRight, LockHolder
  <2>3. CASE r \in Owned
    <3>1. LockWaiting[t] = None /\ LockWaiting' = [LockWaiting EXCEPT ![t] = r]
      BY <1>2, <2>3 DEF IInv, TypeOK, LockItemCall, Goto, LockWaiting, Wants, Waiting
    <3>2. \A s \in Owned : LockHolder[s] # t
      BY <1>2 DEF HoldersRight, LockHolder, Has, Owning, LockItemCall, Goto
    <3>3. QED
      BY <2>2, <2>3, <3>1, <3>2
  <2>4. CASE r \notin Owned
    <3>1. LockWaiting' = LockWaiting
      BY <1>2, <2>4 DEF IInv, TypeOK, LockItemCall, Goto, LockWaiting, Wants, Waiting
    <3>2. QED
      BY <2>2, <3>1
  <2>5. QED
    BY <2>3, <2>4
<1>3. ASSUME NEW t \in Threads, Acquire(t) PROVE Abs
  <2> DEFINE r == arg[t]
  <2>1. CASE r \in Owned
    <3>1. \A u \in Threads, s \in Owned : Has(u, s)' <=> Has(u, s) \/ (u = t /\ s = r)
      BY <1>3 DEF IInv, TypeOK, Acquire, Goto, Has, Owning, callVars
    <3>2. \A u \in Threads : ~ Has(u, r)
      BY <1>3, <2>1 DEF IInv, TypeOK, Pointers, Ownership, Acquire, Goto, Has, Owning, Owned
    <3>3. LockHolder[r] = None /\ LockHolder' = [LockHolder EXCEPT ![r] = t]
      BY <2>1, <3>1, <3>2 DEF HoldersRight, LockHolder
    <3>4. LockWaiting[t] = r /\ LockWaiting' = [LockWaiting EXCEPT ![t] = None]
      BY <1>3, <2>1 DEF IInv, TypeOK, Acquire, Goto, LockWaiting, Wants, Waiting, callVars
    <3>5. QED
      BY <2>1, <3>3, <3>4
  <2>2. CASE r \notin Owned
    <3>1. \A u \in Threads, s \in Owned : Has(u, s)' <=> Has(u, s)
      BY <1>3, <2>2 DEF IInv, TypeOK, Acquire, Goto, Has, Owning, callVars
    <3>2. LockWaiting' = LockWaiting
      BY <1>3, <2>2 DEF IInv, TypeOK, Acquire, Goto, LockWaiting, Wants, Waiting, callVars
    <3>3. QED
      BY <3>1, <3>2 DEF HoldersRight, LockHolder
  <2>3. QED
    BY <2>1, <2>2
<1>4. ASSUME NEW t \in Threads, ReleaseMutex(t) PROVE Abs
  <2> DEFINE r == arg[t]
  <2>1. LockWaiting' = LockWaiting
    BY <1>4 DEF IInv, TypeOK, ReleaseMutex, Goto, LockWaiting, Wants, Waiting, callVars
  <2>2. \A u \in Threads, s \in Owned : Has(u, s)' <=> Has(u, s) /\ ~(u = t /\ s = r)
    BY <1>4 DEF IInv, TypeOK, ReleaseMutex, Goto, Has, Owning, callVars
  <2>3. CASE r \in Owned
    <3>1. Has(t, r)
      BY <1>4 DEF ReleaseMutex, Goto, Has, Owning
    <3>2. LockHolder[r] = t /\ LockHolder' = [LockHolder EXCEPT ![r] = None]
      BY <2>2, <2>3, <3>1 DEF HoldersRight, LockHolder
    <3>3. QED
      BY <2>1, <2>3, <3>2
  <2>4. CASE r \notin Owned
    BY <2>1, <2>2, <2>4 DEF HoldersRight, LockHolder
  <2>5. QED
    BY <2>3, <2>4
<1>5. ASSUME /\ \A u \in Threads, s \in Owned : Has(u, s)' <=> Has(u, s)
             /\ \A u \in Threads : Wants(u)' = Wants(u)
      PROVE  Abs
  BY <1>5 DEF HoldersRight, LockHolder, LockWaiting
<1> HIDE DEF Abs
<1>6. ASSUME NEW t \in Threads, Call(t) PROVE Abs
  <2>1. ASSUME NEW r \in Rids, StrayUnlockCall(t, r) PROVE Abs
    BY <1>5, <2>1 DEF IInv, TypeOK, StrayUnlockCall, Goto, Has, Wants, Owning, Waiting, Owned
  <2>2. ASSUME NEW S, QueryCall(t, S) PROVE Abs
    BY <1>5, <2>2 DEF IInv, TypeOK, QueryCall, Goto, Has, Wants, Owning, Waiting
  <2>3. QED
    BY <1>2, <1>6, <2>1, <2>2 DEF Call
<1>7. ASSUME NEW t \in Threads, Step(t) PROVE Abs
  <2> USE DEF IInv, TypeOK, Goto, Has, Wants, Owning, Waiting, callVars
  <2>1. CASE LockItemRLock(t)
    BY <1>5, <2>1 DEF LockItemRLock
  <2>2. CASE LockItemLookup(t)
    BY <1>5, <2>2 DEF LockItemLookup
  <2>3. CASE LockItemAnnounce(t)
    BY <1>5, <2>3 DEF LockItemAnnounce
  <2>4. CASE LockItemCreate(t)
    BY <1>5, <2>4 DEF LockItemCreate
  <2>5. CASE SetFlag(t)
    BY <1>5, <2>5 DEF SetFlag
  <2>6. CASE UnlockItemCall(t)
    BY <1>5, <2>6 DEF UnlockItemCall
  <2>7. CASE UnlockItemRLock(t)
    BY <1>5, <2>7 DEF UnlockItemRLock
  <2>8. CASE ClearFlag(t)
    BY <1>5, <2>8, UnownedAreItems DEF ClearFlag, Ownership, Owned, Flagged, Pointers
  <2>9. CASE UnlockItemReturn(t)
    BY <1>5, <2>9 DEF UnlockItemReturn
  <2>10. CASE QueryRLock(t)
    BY <1>5, <2>10 DEF QueryRLock
  <2>11. CASE \E r \in Rids : QueryRead(t, r)
    BY <1>5, <2>11 DEF QueryRead
  <2>12. CASE QueryReturn(t)
    BY <1>5, <2>12 DEF QueryReturn
  <2> HIDE DEF IInv
  <2>13. QED
    BY <1>3, <1>4, <1>7, <2>1, <2>2, <2>3, <2>4, <2>5, <2>6, <2>7, <2>8, <2>9, <2>10,
      <2>11, <2>12 DEF Step
<1>8. ASSUME UNCHANGED vars PROVE Abs
  BY <1>5, <1>8 DEF vars, callVars, Has, Wants
<1>9. QED
  BY <1>1, <1>6, <1>7, <1>8 DEF Next

\* What the facade relies on when it locks an item: MuTracker is an item lock.
THEOREM TrackerImplementsItemLock == Spec => ImplementsItemLock
<1>1. Init => Abstract!LockInit
  BY DEF Init, Abstract!LockInit, Holder, Owning, Waiting
<1>2. QED
  BY <1>1, InvariantHolds, HolderIsUnique, StepRefines, PTL
    DEF Spec, ImplementsItemLock, Abstract!LockSpec
=============================================================================
