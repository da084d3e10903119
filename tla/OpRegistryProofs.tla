-------------------------- MODULE OpRegistryProofs --------------------------
(***************************************************************************)
(* Proofs about OpRegistry, for any operations, clients and bound.         *)
(*                                                                         *)
(* What a client is told (each message once, the end once, no change       *)
(* without a signal) rests on the life of an entry: it is not in the map   *)
(* before Insert, its report changes only while it is ONGOING (Life), it   *)
(* becomes disposable at the moment its end is returned (Disposal), and    *)
(* only disposable entries are cleaned up (Listing).                       *)
(***************************************************************************)
EXTENDS OpRegistry, FiniteSetTheorems, TLAPS

\* The goroutine inside entry.mu is the entry's worker.
MuHeld == \A o \in Ops :
  mu[o] = IF pc[o] \in {"mutated", "count", "changed"} THEN o ELSE Nobody

Unborn == {"new", "insert"}

Life == \A o \in Ops :
  /\ pc[o] \in WorkerPCs
  /\ pc[o] \in Unborn => /\ o \notin operations
                         /\ sent[o] = 0 /\ auxData[o] = 0 /\ ~ unseen[o]
  /\ pc[o] \in Unborn \cup {"notify", "run", "mutated"} => status[o] = "ONGOING"
  /\ pc[o] \in {"count", "changed", "done"} => status[o] # "ONGOING"

DisposalOf(o) ==
  /\ ends[o] = IF disposable[o] THEN 1 ELSE 0
  /\ disposable[o] => status[o] # "ONGOING" /\ auxData[o] = 0 /\ ~ unseen[o]
  /\ o \notin operations => pc[o] \in Unborn \/ disposable[o]

Disposal == \A o \in Ops : DisposalOf(o)

Listing == \A c \in Clients :
  /\ pc[c] \in ClientPCs
  /\ \A o \in todo[c] : pc[o] \notin Unborn
  /\ \A o \in toClean[c] : disposable[o]

\* From the look at the context to the end of MarkTerminated.
Verdict == \A o \in Ops :
  /\ pc[o] = "check" /\ status[o] = "ONGOING" /\ early[o] => cancelled[o]
  /\ pc[o] = "mark" /\ status[o] = "ONGOING" =>
       /\ verdict[o] # "ONGOING"
       /\ early[o] => verdict[o] = "CANCELLED"
       /\ verdict[o] = "CANCELLED" => cancelled[o]

IInv == /\ TypeOK /\ MuHeld /\ Life /\ Disposal /\ Listing /\ Verdict
        /\ NoLostChange /\ MessagesDeliveredOnce /\ CancelIsReported

-----------------------------------------------------------------------------

\* The registry starts empty, with all workers before NewOperation.
LEMMA InitIInv == Init => IInv
<1> SUFFICES ASSUME Init PROVE IInv
  OBVIOUS
<1> USE GoroutinesDiffer, NobodyIsNoOp, MaxMessagesIsNat
<1>1. TypeOK
  <2>1. pc \in [Ops \cup Clients -> WorkerPCs \cup ClientPCs]
    BY DEF Init, WorkerPCs, ClientPCs
  <2>2. activeOps \in Int /\ auxData \in [Ops -> 0 .. MaxMessages] /\ sent \in [Ops -> 0 .. MaxMessages]
    BY DEF Init
  <2>3. QED
    BY <2>1, <2>2 DEF Init, TypeOK, Statuses
<1>2. MuHeld
  BY DEF Init, TypeOK, MuHeld, Life, Disposal, DisposalOf, Listing, Verdict, NoLostChange,
    MessagesDeliveredOnce, CancelIsReported, Unborn, WorkerPCs, ClientPCs, Statuses
<1>3. Life
  BY DEF Init, TypeOK, MuHeld, Life, Disposal, DisposalOf, Listing, Verdict, NoLostChange,
    MessagesDeliveredOnce, CancelIsReported, Unborn, WorkerPCs, ClientPCs, Statuses
<1>4. Disposal
  BY DEF Init, TypeOK, MuHeld, Life, Disposal, DisposalOf, Listing, Verdict, NoLostChange,
    MessagesDeliveredOnce, CancelIsReported, Unborn, WorkerPCs, ClientPCs, Statuses
<1>5. Listing
  BY DEF Init, TypeOK, MuHeld, Life, Disposal, DisposalOf, Listing, Verdict, NoLostChange,
    MessagesDeliveredOnce, CancelIsReported, Unborn, WorkerPCs, ClientPCs, Statuses
<1>6. Verdict
  BY DEF Init, TypeOK, MuHeld, Life, Disposal, DisposalOf, Listing, Verdict, NoLostChange,
    MessagesDeliveredOnce, CancelIsReported, Unborn, WorkerPCs, ClientPCs, Statuses
<1>7. NoLostChange
  BY DEF Init, TypeOK, MuHeld, Life, Disposal, DisposalOf, Listing, Verdict, NoLostChange,
    MessagesDeliveredOnce, CancelIsReported, Unborn, WorkerPCs, ClientPCs, Statuses
<1>8. MessagesDeliveredOnce
  BY DEF Init, TypeOK, MuHeld, Life, Disposal, DisposalOf, Listing, Verdict, NoLostChange,
    MessagesDeliveredOnce, CancelIsReported, Unborn, WorkerPCs, ClientPCs, Statuses
<1>9. CancelIsReported
  BY DEF Init, TypeOK, MuHeld, Life, Disposal, DisposalOf, Listing, Verdict, NoLostChange,
    MessagesDeliveredOnce, CancelIsReported, Unborn, WorkerPCs, ClientPCs, Statuses
<1>10. QED
  BY <1>1, <1>2, <1>3, <1>4, <1>5, <1>6, <1>7, <1>8, <1>9 DEF IInv

\* Every step of a worker or a client, and a stutter, keep the invariant.
LEMMA NextIInv == IInv /\ [Next]_vars => IInv'
<1> SUFFICES ASSUME IInv, [Next]_vars PROVE IInv'
  OBVIOUS
<1> USE GoroutinesDiffer, NobodyIsNoOp, MaxMessagesIsNat
<1> USE DEF IInv, TypeOK, MuHeld, Life, Disposal, DisposalOf, Listing, Verdict, NoLostChange,
      MessagesDeliveredOnce, CancelIsReported, Unborn, WorkerPCs, ClientPCs, Statuses,
      Goto, Raise, entryVars, listVars, historyVars
<1>1. ASSUME NEW o \in Ops, NewOperation(o) PROVE IInv'
  <2>1. TypeOK'
    BY <1>1 DEF NewOperation
  <2>2. MuHeld'
    BY <1>1 DEF NewOperation
  <2>3. Life'
    BY <1>1 DEF NewOperation
  <2>4. Disposal'
    BY <1>1 DEF NewOperation
  <2>5. Listing'
    BY <1>1 DEF NewOperation
  <2>6. Verdict'
    BY <1>1 DEF NewOperation
  <2>7. NoLostChange'
    BY <1>1 DEF NewOperation
  <2>8. MessagesDeliveredOnce'
    BY <1>1 DEF NewOperation
  <2>9. CancelIsReported'
    BY <1>1 DEF NewOperation
  <2>10. QED
    BY <2>1, <2>2, <2>3, <2>4, <2>5, <2>6, <2>7, <2>8, <2>9
<1>2. ASSUME NEW o \in Ops, Insert(o) PROVE IInv'
  <2>1. TypeOK'
    BY <1>2 DEF Insert
  <2>2. MuHeld'
    BY <1>2 DEF Insert
  <2>3. Life'
    BY <1>2 DEF Insert
  <2>4. Disposal'
    BY <1>2 DEF Insert
  <2>5. Listing'
    BY <1>2 DEF Insert
  <2>6. Verdict'
    BY <1>2 DEF Insert
  <2>7. NoLostChange'
    BY <1>2 DEF Insert
  <2>8. MessagesDeliveredOnce'
    BY <1>2 DEF Insert
  <2>9. CancelIsReported'
    BY <1>2 DEF Insert
  <2>10. QED
    BY <2>1, <2>2, <2>3, <2>4, <2>5, <2>6, <2>7, <2>8, <2>9
<1>3. ASSUME NEW o \in Ops, NotifyNew(o) PROVE IInv'
  BY <1>3 DEF NotifyNew
<1>4. ASSUME NEW o \in Ops, Mutate(o) PROVE IInv'
  <2>1. TypeOK'
    BY <1>4 DEF Mutate
  <2>2. MuHeld'
    BY <1>4 DEF Mutate
  <2>3. Life'
    BY <1>4 DEF Mutate
  <2>4. Disposal'
    BY <1>4 DEF Mutate
  <2>5. Listing'
    BY <1>4 DEF Mutate
  <2>6. Verdict'
    BY <1>4 DEF Mutate
  <2>7. NoLostChange'
    BY <1>4 DEF Mutate
  <2>8. MessagesDeliveredOnce'
    BY <1>4 DEF Mutate
  <2>9. CancelIsReported'
    BY <1>4 DEF Mutate
  <2>10. QED
    BY <2>1, <2>2, <2>3, <2>4, <2>5, <2>6, <2>7, <2>8, <2>9
<1>5. ASSUME NEW o \in Ops, NotifyMutated(o) PROVE IInv'
  BY <1>5 DEF NotifyMutated
<1>6. ASSUME NEW o \in Ops, MarkTerminatedCall(o) PROVE IInv'
  BY <1>6 DEF MarkTerminatedCall
<1>7. ASSUME NEW o \in Ops, CheckCancelled(o) PROVE IInv'
  <2>1. TypeOK'
    BY <1>7 DEF CheckCancelled
  <2>2. MuHeld'
    BY <1>7 DEF CheckCancelled
  <2>3. Life'
    BY <1>7 DEF CheckCancelled
  <2>4. Disposal'
    BY <1>7 DEF CheckCancelled
  <2>5. Listing'
    BY <1>7 DEF CheckCancelled
  <2>6. Verdict'
    BY <1>7 DEF CheckCancelled
  <2>7. NoLostChange'
    BY <1>7 DEF CheckCancelled
  <2>8. MessagesDeliveredOnce'
    BY <1>7 DEF CheckCancelled
  <2>9. CancelIsReported'
    BY <1>7 DEF CheckCancelled
  <2>10. QED
    BY <2>1, <2>2, <2>3, <2>4, <2>5, <2>6, <2>7, <2>8, <2>9
<1>8. ASSUME NEW o \in Ops, MarkStatus(o) PROVE IInv'
  <2>1. TypeOK'
    BY <1>8 DEF MarkStatus
  <2>2. MuHeld'
    BY <1>8 DEF MarkStatus
  <2>3. Life'
    BY <1>8 DEF MarkStatus
  <2>4. Disposal'
    <3> SUFFICES ASSUME NEW p \in Ops PROVE DisposalOf(p)'
      BY DEF Disposal
    <3>1. CASE p = o
      BY <1>8, <3>1 DEF MarkStatus
    <3>2. CASE p # o
      BY <1>8, <3>2 DEF MarkStatus
    <3>3. QED
      BY <3>1, <3>2
  <2>5. Listing'
    BY <1>8 DEF MarkStatus
  <2>6. Verdict'
    BY <1>8 DEF MarkStatus
  <2>7. NoLostChange'
    <3>1. pc'[o] = "count" /\ \A p \in Ops \cup Clients : p # o => pc'[p] = pc[p]
      BY <1>8 DEF MarkStatus
    <3>2. \A p \in Ops : p # o => unseen'[p] = unseen[p]
      BY <1>8 DEF MarkStatus
    <3>3. todo' = todo /\ dirtyFlag' = dirtyFlag
      BY <1>8 DEF MarkStatus
    <3>4. NoLostChange
      OBVIOUS
    <3>5. QED
      BY <1>8, <3>1, <3>2, <3>3, <3>4 DEF MarkStatus
  <2>8. MessagesDeliveredOnce'
    BY <1>8 DEF MarkStatus
  <2>9. CancelIsReported'
    BY <1>8 DEF MarkStatus
  <2>10. QED
    BY <2>1, <2>2, <2>3, <2>4, <2>5, <2>6, <2>7, <2>8, <2>9
<1>9. ASSUME NEW o \in Ops, MarkRefused(o) PROVE IInv'
  BY <1>9 DEF MarkRefused
<1>10. ASSUME NEW o \in Ops, CountDown(o) PROVE IInv'
  BY <1>10 DEF CountDown
<1>11. ASSUME NEW o \in Ops, NotifyEnd(o) PROVE IInv'
  BY <1>11 DEF NotifyEnd
<1>12. ASSUME NEW o \in Ops, Cancel(o) PROVE IInv'
  BY <1>12 DEF Cancel
<1>13. ASSUME NEW c \in Clients, ListReports(c) PROVE IInv'
  BY <1>13 DEF ListReports
<1>14. ASSUME NEW c \in Clients, ListRLock(c) PROVE IInv'
  BY <1>14 DEF ListRLock
<1>15. ASSUME NEW c \in Clients, ListRUnlock(c) PROVE IInv'
  BY <1>15 DEF ListRUnlock
<1>16. ASSUME NEW c \in Clients, ListReturn(c) PROVE IInv'
  <2>1. TypeOK'
    BY <1>16 DEF ListReturn
  <2>2. MuHeld'
    BY <1>16 DEF ListReturn
  <2>3. Life'
    BY <1>16 DEF ListReturn
  <2>4. Disposal'
    BY <1>16 DEF ListReturn
  <2>5. Listing'
    BY <1>16 DEF ListReturn
  <2>6. Verdict'
    BY <1>16 DEF ListReturn
  <2>7. NoLostChange'
    BY <1>16 DEF ListReturn
  <2>8. MessagesDeliveredOnce'
    BY <1>16 DEF ListReturn
  <2>9. CancelIsReported'
    BY <1>16 DEF ListReturn
  <2>10. QED
    BY <2>1, <2>2, <2>3, <2>4, <2>5, <2>6, <2>7, <2>8, <2>9
<1>17. ASSUME NEW c \in Clients, NEW o \in Ops, ListVisit(c, o) PROVE IInv'
  <2>1. CASE VisitDisposable(c, o)
    <3>1. TypeOK'
      BY <1>17, <2>1 DEF ListVisit, VisitDisposable
    <3>2. MuHeld'
      BY <1>17, <2>1 DEF ListVisit, VisitDisposable
    <3>3. Life'
      BY <1>17, <2>1 DEF ListVisit, VisitDisposable
    <3>4. Disposal'
      BY <1>17, <2>1 DEF ListVisit, VisitDisposable
    <3>5. Listing'
      BY <1>17, <2>1 DEF ListVisit, VisitDisposable
    <3>6. Verdict'
      BY <1>17, <2>1 DEF ListVisit, VisitDisposable
    <3>7. NoLostChange'
      BY <1>17, <2>1 DEF ListVisit, VisitDisposable
    <3>8. MessagesDeliveredOnce'
      BY <1>17, <2>1 DEF ListVisit, VisitDisposable
    <3>9. CancelIsReported'
      BY <1>17, <2>1 DEF ListVisit, VisitDisposable
    <3>10. QED
      BY <3>1, <3>2, <3>3, <3>4, <3>5, <3>6, <3>7, <3>8, <3>9
  <2>2. CASE VisitReport(c, o)
    <3>1. TypeOK'
      BY <1>17, <2>2 DEF ListVisit, VisitReport
    <3>2. MuHeld'
      BY <1>17, <2>2 DEF ListVisit, VisitReport
    <3>3. Life'
      BY <1>17, <2>2 DEF ListVisit, VisitReport
    <3>4. Disposal'
      <4> SUFFICES ASSUME NEW p \in Ops PROVE DisposalOf(p)'
        BY DEF Disposal
      <4>1. CASE p = o
        <5>1. disposable'[o] = (status[o] # "ONGOING")
          BY <2>2 DEF VisitReport
        <5>2. ends[o] = 0 /\ ends'[o] = IF status[o] # "ONGOING" THEN 1 ELSE 0
          BY <2>2 DEF VisitReport
        <5>3. auxData'[o] = 0 /\ unseen'[o] = FALSE
          BY <2>2 DEF VisitReport
        <5>4. status' = status /\ operations' = operations /\ pc' = pc
          BY <1>17 DEF ListVisit
        <5>5. o \notin operations => pc[o] \in Unborn
          BY <2>2 DEF VisitReport
        <5>6. QED
          BY <4>1, <5>1, <5>2, <5>3, <5>4, <5>5
      <4>2. CASE p # o
        BY <1>17, <2>2, <4>2 DEF ListVisit, VisitReport
      <4>3. QED
        BY <4>1, <4>2
    <3>5. Listing'
      BY <1>17, <2>2 DEF ListVisit, VisitReport
    <3>6. Verdict'
      BY <1>17, <2>2 DEF ListVisit, VisitReport
    <3>7. NoLostChange'
      BY <1>17, <2>2 DEF ListVisit, VisitReport
    <3>8. MessagesDeliveredOnce'
      BY <1>17, <2>2 DEF ListVisit, VisitReport
    <3>9. CancelIsReported'
      BY <1>17, <2>2 DEF ListVisit, VisitReport
    <3>10. QED
      BY <3>1, <3>2, <3>3, <3>4, <3>5, <3>6, <3>7, <3>8, <3>9
  <2>3. QED
    BY <1>17, <2>1, <2>2 DEF ListVisit
<1>18. CASE UNCHANGED vars
  BY <1>18 DEF vars
<1> HIDE DEF IInv
<1>19. ASSUME NEW o \in Ops, Work(o) PROVE IInv'
  BY <1>1, <1>2, <1>3, <1>4, <1>5, <1>6, <1>7, <1>8, <1>9, <1>10, <1>11, <1>19 DEF Work
<1>20. ASSUME NEW c \in Clients, List(c) PROVE IInv'
  BY <1>14, <1>15, <1>16, <1>17, <1>20 DEF List
<1>21. QED
  BY <1>12, <1>13, <1>18, <1>19, <1>20 DEF Next

LEMMA InvariantHolds == Spec => []IInv
  BY InitIInv, NextIInv, PTL DEF Spec

\* The variables keep their types; with them, a report is never mutated beyond
\* the messages its worker sent.
THEOREM TypeCorrect == Spec => []TypeOK
<1>1. IInv => TypeOK
  BY DEF IInv
<1>2. QED
  BY <1>1, InvariantHolds, PTL

\* No change is lost by a ListReports that clears the flag at the same time.
THEOREM NoLostChangeHolds == Spec => []NoLostChange
<1>1. IInv => NoLostChange
  BY DEF IInv
<1>2. QED
  BY <1>1, InvariantHolds, PTL

\* Messages in AuxData reach the clients exactly once, for any number of clients.
THEOREM MessagesDeliveredOnceHolds == Spec => []MessagesDeliveredOnce
<1>1. IInv => MessagesDeliveredOnce
  BY DEF IInv
<1>2. QED
  BY <1>1, InvariantHolds, PTL

\* An entry is removed only after its final status was returned, and that status
\* is returned once.
THEOREM EndReportedOnceHolds == Spec => []EndReportedOnce
<1>1. IInv => EndReportedOnce
  BY DEF IInv, Disposal, DisposalOf, EndReportedOnce, Unborn
<1>2. QED
  BY <1>1, InvariantHolds, PTL

\* Cancelling before the worker ends is never reported as COMPLETED.
THEOREM CancelIsReportedHolds == Spec => []CancelIsReported
<1>1. IInv => CancelIsReported
  BY DEF IInv
<1>2. QED
  BY <1>1, InvariantHolds, PTL

-----------------------------------------------------------------------------
(* The number of active operations                                         *)

Active == {o \in Ops : pc[o] # "new" /\ (status[o] = "ONGOING" \/ pc[o] = "count")}

Counted == IsFiniteSet(Active) /\ activeOps = Cardinality(Active)

\* NewOperation counts up and CountDown down, each with the one operation that
\* becomes or ceases to be active; no other step changes who is active.
LEMMA NextCounted == IInv /\ Counted /\ [Next]_vars => Counted'
<1> SUFFICES ASSUME IInv, Counted, [Next]_vars PROVE Counted'
  OBVIOUS
<1> USE GoroutinesDiffer DEF IInv, TypeOK, Life, Unborn, WorkerPCs, ClientPCs, Goto, Active, entryVars, listVars, historyVars
<1>1. ASSUME Active' = Active, activeOps' = activeOps PROVE Counted'
  BY <1>1 DEF Counted
<1>2. ASSUME NEW o \in Ops, NewOperation(o) PROVE Counted'
  <2>1. o \notin Active /\ Active' = Active \cup {o}
    BY <1>2 DEF NewOperation
  <2>2. activeOps' = activeOps + 1
    BY <1>2 DEF NewOperation
  <2> HIDE DEF Active
  <2>3. QED
    BY <2>1, <2>2, FS_AddElement DEF Counted
<1>3. ASSUME NEW o \in Ops, CountDown(o) PROVE Counted'
  <2>1. o \in Active /\ Active' = Active \ {o}
    BY <1>3 DEF CountDown
  <2>2. activeOps' = activeOps - 1
    BY <1>3 DEF CountDown
  <2> HIDE DEF Active
  <2>3. QED
    BY <2>1, <2>2, FS_RemoveElement DEF Counted
<1>4. ASSUME NEW o \in Ops, Work(o), ~NewOperation(o), ~CountDown(o) PROVE Active' = Active /\ activeOps' = activeOps
  <2>1. CASE Insert(o) \/ NotifyNew(o) \/ Mutate(o) \/ NotifyMutated(o)
    BY <2>1 DEF Insert, NotifyNew, Mutate, NotifyMutated
  <2>2. CASE MarkTerminatedCall(o) \/ CheckCancelled(o) \/ MarkRefused(o) \/ NotifyEnd(o)
    BY <2>2 DEF MarkTerminatedCall, CheckCancelled, MarkRefused, NotifyEnd
  <2>3. CASE MarkStatus(o)
    BY <2>3 DEF MarkStatus
  <2>4. QED
    BY <1>4, <2>1, <2>2, <2>3 DEF Work
<1>5. ASSUME NEW c \in Clients, ListReports(c) \/ List(c) PROVE Active' = Active /\ activeOps' = activeOps
  <2>1. /\ activeOps' = activeOps /\ status' = status
        /\ \A o \in Ops : pc'[o] = pc[o]
    BY <1>5 DEF ListReports, List, ListRLock, ListVisit, ListRUnlock, ListReturn
  <2>2. QED
    BY <2>1
<1>6. ASSUME NEW o \in Ops, Cancel(o) PROVE Active' = Active /\ activeOps' = activeOps
  BY <1>6 DEF Cancel
<1>7. ASSUME UNCHANGED vars PROVE Active' = Active /\ activeOps' = activeOps
  BY <1>7 DEF vars
<1> HIDE DEF Active
<1>8. QED
  BY <1>1, <1>2, <1>3, <1>4, <1>5, <1>6, <1>7 DEF Next

\* ActiveOperations is right in every interleaving, also when a worker terminates
\* its operation twice (opcache.go:96-120).
THEOREM ActiveCountHolds == Spec => []ActiveCount
<1>1. Init => Counted
  <2> SUFFICES ASSUME Init PROVE Counted
    OBVIOUS
  <2>1. Active = {}
    BY DEF Init, Active
  <2>2. QED
    BY <2>1, FS_EmptySet DEF Init, Counted
<1>2. Counted => ActiveCount
  BY DEF Counted, Active, ActiveCount
<1>3. QED
  BY <1>1, <1>2, NextCounted, InvariantHolds, PTL DEF Spec
=============================================================================
