----------------------------- MODULE OpRegistry -----------------------------
(***************************************************************************)
(* operation/opcache: the registry of running operations.  Each operation  *)
(* has one worker goroutine, which creates the entry, mutates its report   *)
(* and terminates it; clients poll with ListReports and may cancel.        *)
(*                                                                         *)
(* The entry's fields are guarded by entry.mu and the map by mapMutex, but *)
(* activeOps, dirtyFlag and the cancellation of the context are atomics    *)
(* that everyone sees at once: each access to one of them is a step.       *)
(* A report is abstracted to the number of messages its AuxData holds.     *)
(***************************************************************************)
EXTENDS Integers, FiniteSets

CONSTANTS Ops,          \* the operations, each standing for its worker too
          Clients,      \* the goroutines that poll and cancel
          MaxMessages,  \* bound: how often a worker mutates its report
          Nobody        \* entry.mu is free

ASSUME GoroutinesDiffer == Ops \cap Clients = {}
ASSUME NobodyIsNoOp == Nobody \notin Ops
ASSUME MaxMessagesIsNat == MaxMessages \in Nat

VARIABLES
  pc,          \* where a worker or client is
  operations,  \* the keys of Registry.operations
  activeOps,   \* Registry.activeOps
  dirtyFlag,   \* Registry.dirtyFlag
  mu,          \* mu[o]: o while its worker is inside entry.mu, else Nobody
  status,      \* details.Status
  disposable,  \* details.Disposable
  auxData,     \* the number of messages in report.AuxData
  cancelled,   \* entry.ctx is cancelled
  verdict,     \* verdict[o]: MarkTerminated's local "status"
  todo,        \* todo[c]: the entries that c's ListReports has still to visit
  toClean,     \* toClean[c]: ListReports' local slice
  \* History, for the properties only:
  sent,        \* sent[o]: messages o's worker has put in its report
  got,         \* got[o]: messages of o that some ListReports has returned
  unseen,      \* unseen[o]: o has changed since a ListReports last returned it
  ends,        \* ends[o]: how many ListReports returned o with its final status
  early        \* early[o]: o was cancelled before MarkTerminated was called

entryVars   == <<mu, status, disposable, auxData>>
listVars    == <<todo, toClean>>
historyVars == <<sent, got, unseen, ends, early>>
vars == <<pc, operations, activeOps, dirtyFlag, entryVars, cancelled, verdict,
          listVars, historyVars>>

WorkerPCs == {"new", "insert", "notify", "run", "mutated", "check", "mark",
              "count", "changed", "done"}
ClientPCs == {"idle", "rlock", "scan", "clean"}
Statuses  == {"ONGOING", "COMPLETED", "CANCELLED"}

TypeOK ==
  /\ pc \in [Ops \cup Clients -> WorkerPCs \cup ClientPCs]
  /\ operations \in SUBSET Ops
  /\ activeOps \in Int
  /\ dirtyFlag \in BOOLEAN
  /\ mu \in [Ops -> Ops \cup {Nobody}]
  /\ status \in [Ops -> Statuses]
  /\ disposable \in [Ops -> BOOLEAN]
  /\ auxData \in [Ops -> 0 .. MaxMessages]
  /\ cancelled \in [Ops -> BOOLEAN]
  /\ verdict \in [Ops -> Statuses]
  /\ todo \in [Clients -> SUBSET Ops]
  /\ toClean \in [Clients -> SUBSET Ops]
  /\ sent \in [Ops -> 0 .. MaxMessages]
  /\ got \in [Ops -> 0 .. MaxMessages]
  /\ unseen \in [Ops -> BOOLEAN]
  /\ ends \in [Ops -> Nat]
  /\ early \in [Ops -> BOOLEAN]

Init ==
  /\ pc = [p \in Ops \cup Clients |-> IF p \in Ops THEN "new" ELSE "idle"]
  /\ operations = {}
  /\ activeOps = 0
  /\ dirtyFlag = FALSE
  /\ mu = [o \in Ops |-> Nobody]
  /\ status = [o \in Ops |-> "ONGOING"]
  /\ disposable = [o \in Ops |-> FALSE]
  /\ auxData = [o \in Ops |-> 0]
  /\ cancelled = [o \in Ops |-> FALSE]
  /\ verdict = [o \in Ops |-> "ONGOING"]
  /\ todo = [c \in Clients |-> {}]
  /\ toClean = [c \in Clients |-> {}]
  /\ sent = [o \in Ops |-> 0]
  /\ got = [o \in Ops |-> 0]
  /\ unseen = [o \in Ops |-> FALSE]
  /\ ends = [o \in Ops |-> 0]
  /\ early = [o \in Ops |-> FALSE]

Goto(p, from, to) == pc[p] = from /\ pc' = [pc EXCEPT ![p] = to]

\* mapMutex: ListReports is the only reader that stays inside.
MapIsFree == \A c \in Clients : pc[c] # "scan"

Raise == dirtyFlag' = TRUE

----------------------------------------------------------------------------
(* The worker: NewOperation *)

NewOperation(o) ==
  /\ Goto(o, "new", "insert")
  /\ activeOps' = activeOps + 1
  /\ UNCHANGED <<operations, dirtyFlag, entryVars, cancelled, verdict, listVars, historyVars>>

Insert(o) ==
  /\ Goto(o, "insert", "notify")
  /\ MapIsFree
  /\ operations' = operations \cup {o}
  /\ unseen' = [unseen EXCEPT ![o] = TRUE]
  /\ UNCHANGED <<activeOps, dirtyFlag, entryVars, cancelled, verdict, listVars, sent, got, ends, early>>

NotifyNew(o) ==
  /\ Goto(o, "notify", "run")
  /\ Raise
  /\ UNCHANGED <<operations, activeOps, entryVars, cancelled, verdict, listVars, historyVars>>

(* MutateReport: the mutator and the flag, both inside entry.mu *)

Mutate(o) ==
  /\ Goto(o, "run", "mutated")
  /\ o \in operations
  /\ sent[o] < MaxMessages
  /\ mu[o] = Nobody
  /\ mu' = [mu EXCEPT ![o] = o]
  /\ auxData' = [auxData EXCEPT ![o] = @ + 1]
  /\ sent' = [sent EXCEPT ![o] = @ + 1]
  /\ unseen' = [unseen EXCEPT ![o] = TRUE]
  /\ UNCHANGED <<operations, activeOps, dirtyFlag, status, disposable, cancelled, verdict, listVars, got, ends, early>>

NotifyMutated(o) ==
  /\ Goto(o, "mutated", "run")
  /\ Raise
  /\ mu' = [mu EXCEPT ![o] = Nobody]
  /\ UNCHANGED <<operations, activeOps, status, disposable, auxData, cancelled, verdict, listVars, historyVars>>

(* MarkTerminated: getEntry, IsCancelled, and the rest inside entry.mu.  A  *)
(* worker may call it again; an entry that was cleaned up is not found.     *)

MarkTerminatedCall(o) ==
  /\ pc[o] \in {"run", "done"}
  /\ o \in operations
  /\ pc' = [pc EXCEPT ![o] = "check"]
  /\ early' = [early EXCEPT ![o] = IF status[o] = "ONGOING" THEN cancelled[o] ELSE @]
  /\ UNCHANGED <<operations, activeOps, dirtyFlag, entryVars, cancelled, verdict, listVars, sent, got, unseen, ends>>

\* [mutant] the context is not looked at.
CheckNothing(o) ==
  /\ Goto(o, "check", "mark")
  /\ verdict' = [verdict EXCEPT ![o] = "COMPLETED"]
  /\ UNCHANGED <<operations, activeOps, dirtyFlag, entryVars, cancelled, listVars, historyVars>>

CheckCancelled(o) ==
  /\ Goto(o, "check", "mark")
  /\ verdict' = [verdict EXCEPT ![o] = IF cancelled[o] THEN "CANCELLED" ELSE "COMPLETED"]
  /\ UNCHANGED <<operations, activeOps, dirtyFlag, entryVars, cancelled, listVars, historyVars>>

\* [mutant] a second call terminates the operation a second time.
MarkAgain(o) ==
  /\ Goto(o, "mark", "count")
  /\ mu[o] = Nobody
  /\ status' = [status EXCEPT ![o] = verdict[o]]
  /\ mu' = [mu EXCEPT ![o] = o]
  /\ unseen' = [unseen EXCEPT ![o] = TRUE]
  /\ UNCHANGED <<disposable, auxData, operations, activeOps, dirtyFlag, cancelled, verdict, listVars, sent, got, ends, early>>

MarkStatus(o) ==
  /\ Goto(o, "mark", "count")
  /\ mu[o] = Nobody
  /\ status[o] = "ONGOING"
  /\ status' = [status EXCEPT ![o] = verdict[o]]
  /\ mu' = [mu EXCEPT ![o] = o]
  /\ unseen' = [unseen EXCEPT ![o] = TRUE]
  /\ UNCHANGED <<disposable, auxData, operations, activeOps, dirtyFlag, cancelled, verdict, listVars, sent, got, ends, early>>

\* The error "operation has already been terminated".
MarkRefused(o) ==
  /\ Goto(o, "mark", "done")
  /\ mu[o] = Nobody
  /\ status[o] # "ONGOING"
  /\ UNCHANGED <<operations, activeOps, dirtyFlag, entryVars, cancelled, verdict, listVars, historyVars>>

CountDown(o) ==
  /\ Goto(o, "count", "changed")
  /\ activeOps' = activeOps - 1
  /\ UNCHANGED <<operations, dirtyFlag, entryVars, cancelled, verdict, listVars, historyVars>>

\* [mutant] termination does not raise the flag.
NotifyNoEnd(o) ==
  /\ Goto(o, "changed", "done")
  /\ mu' = [mu EXCEPT ![o] = Nobody]
  /\ UNCHANGED <<operations, activeOps, dirtyFlag, status, disposable, auxData, cancelled, verdict, listVars, historyVars>>

NotifyEnd(o) ==
  /\ Goto(o, "changed", "done")
  /\ Raise
  /\ mu' = [mu EXCEPT ![o] = Nobody]
  /\ UNCHANGED <<operations, activeOps, status, disposable, auxData, cancelled, verdict, listVars, historyVars>>

----------------------------------------------------------------------------
(* The client *)

Cancel(o) ==
  /\ o \in operations
  /\ cancelled' = [cancelled EXCEPT ![o] = TRUE]
  /\ UNCHANGED <<pc, operations, activeOps, dirtyFlag, entryVars, verdict, listVars, historyVars>>

ListReports(c) ==
  /\ Goto(c, "idle", "rlock")
  /\ dirtyFlag' = FALSE
  /\ UNCHANGED <<operations, activeOps, entryVars, cancelled, verdict, listVars, historyVars>>

ListRLock(c) ==
  /\ Goto(c, "rlock", "scan")
  /\ todo' = [todo EXCEPT ![c] = operations]
  /\ UNCHANGED <<operations, activeOps, dirtyFlag, entryVars, cancelled, verdict, toClean, historyVars>>

\* An entry that an earlier call has returned with its final status.
VisitDisposable(c, o) ==
  /\ disposable[o]
  /\ toClean' = [toClean EXCEPT ![c] = @ \cup {o}]
  /\ UNCHANGED <<disposable, auxData, got, unseen, ends>>

\* [mutant] every entry that was returned once is disposable.
ReportAndDispose(c, o) ==
  /\ ~ disposable[o]
  /\ disposable' = [disposable EXCEPT ![o] = TRUE]
  /\ auxData' = [auxData EXCEPT ![o] = 0]
  /\ got' = [got EXCEPT ![o] = @ + auxData[o]]
  /\ unseen' = [unseen EXCEPT ![o] = FALSE]
  /\ ends' = [ends EXCEPT ![o] = IF status[o] # "ONGOING" THEN @ + 1 ELSE @]
  /\ UNCHANGED toClean

\* [mutant] the AuxData that was returned stays in the entry.
ReportAndKeep(c, o) ==
  /\ ~ disposable[o]
  /\ disposable' = [disposable EXCEPT ![o] = status[o] # "ONGOING"]
  /\ got' = [got EXCEPT ![o] = @ + auxData[o]]
  /\ unseen' = [unseen EXCEPT ![o] = FALSE]
  /\ ends' = [ends EXCEPT ![o] = IF status[o] # "ONGOING" THEN @ + 1 ELSE @]
  /\ UNCHANGED <<toClean, auxData>>

VisitReport(c, o) ==
  /\ ~ disposable[o]
  /\ disposable' = [disposable EXCEPT ![o] = status[o] # "ONGOING"]
  /\ auxData' = [auxData EXCEPT ![o] = 0]
  /\ got' = [got EXCEPT ![o] = @ + auxData[o]]
  /\ unseen' = [unseen EXCEPT ![o] = FALSE]
  /\ ends' = [ends EXCEPT ![o] = IF status[o] # "ONGOING" THEN @ + 1 ELSE @]
  /\ UNCHANGED toClean

\* One turn of the loop, inside entry.mu.
ListVisit(c, o) ==
  /\ pc[c] = "scan"
  /\ o \in todo[c]
  /\ mu[o] = Nobody
  /\ todo' = [todo EXCEPT ![c] = @ \ {o}]
  /\ VisitDisposable(c, o) \/ VisitReport(c, o)
  /\ UNCHANGED <<pc, operations, activeOps, dirtyFlag, mu, status, cancelled, verdict, sent, early>>

\* [mutant] the flag is cleared after the entries were read.
ListRUnlockClear(c) ==
  /\ Goto(c, "scan", "clean")
  /\ todo[c] = {}
  /\ dirtyFlag' = FALSE
  /\ UNCHANGED <<operations, activeOps, entryVars, cancelled, verdict, listVars, historyVars>>

ListRUnlock(c) ==
  /\ Goto(c, "scan", "clean")
  /\ todo[c] = {}
  /\ UNCHANGED <<operations, activeOps, dirtyFlag, entryVars, cancelled, verdict, listVars, historyVars>>

\* The deletions, inside mapMutex (skipped when there are none), and the return.
ListReturn(c) ==
  /\ Goto(c, "clean", "idle")
  /\ toClean[c] = {} \/ MapIsFree
  /\ operations' = operations \ toClean[c]
  /\ toClean' = [toClean EXCEPT ![c] = {}]
  /\ UNCHANGED <<activeOps, dirtyFlag, entryVars, cancelled, verdict, todo, historyVars>>

----------------------------------------------------------------------------
(* The specification *)

\* The worker up to its last call of MarkTerminated.
Work(o) == \/ NewOperation(o)
           \/ Insert(o)
           \/ NotifyNew(o)
           \/ Mutate(o)
           \/ NotifyMutated(o)
           \/ MarkTerminatedCall(o)
           \/ CheckCancelled(o)
           \/ MarkStatus(o)
           \/ MarkRefused(o)
           \/ CountDown(o)
           \/ NotifyEnd(o)

\* The rest of a ListReports that has started.
List(c) == \/ ListRLock(c)
           \/ \E o \in Ops : ListVisit(c, o)
           \/ ListRUnlock(c)
           \/ ListReturn(c)

Next == \/ \E o \in Ops : Work(o) \/ Cancel(o)
        \/ \E c \in Clients : ListReports(c) \/ List(c)

Spec == Init /\ [][Next]_vars

\* A client that lists the reports when HasChanges() says so.
Poll(c) == dirtyFlag /\ ListReports(c)

\* Workers and started calls are scheduled and every worker ends with
\* MarkTerminated (their bodies are loops over finite lists).  mapMutex and
\* entry.mu serve their waiters (SF).  Clients poll when there are changes.
Fairness ==
  /\ \A o \in Ops : SF_vars(Work(o) /\ pc[o] # "done")
  /\ \A c \in Clients : SF_vars(List(c)) /\ SF_vars(Poll(c))

FairSpec == Spec /\ Fairness

----------------------------------------------------------------------------
(* Properties *)

\* ActiveOperations counts the operations between NewOperation and the end of
\* MarkTerminated, so it is 0 when all workers are done, however often they
\* terminated (opcache.go:96-120; TestRegistry_Concurrency).
ActiveCount ==
  activeOps = Cardinality({o \in Ops : pc[o] # "new" /\ (status[o] = "ONGOING" \/ pc[o] = "count")})

\* A change that no ListReports has returned is announced: HasChanges is true,
\* or the worker is about to make it true, or a ListReports that has cleared
\* the flag has still to visit the entry (opcache.go:81, 117, 144, 149).
NoLostChange == \A o \in Ops : unseen[o] =>
  \/ dirtyFlag
  \/ pc[o] \in {"notify", "mutated", "count", "changed"}
  \/ \E c \in Clients : pc[c] = "rlock" \/ (pc[c] = "scan" /\ o \in todo[c])

\* Each message put in AuxData is returned by one ListReports, once, also when
\* several clients list at a time and when the entry is cleaned up
\* (opcache.go:159-169).
MessagesDeliveredOnce == \A o \in Ops :
  /\ sent[o] = got[o] + auxData[o]
  /\ pc[o] # "new" /\ disposable[o] => auxData[o] = 0

\* The final status of an operation is returned once, and no entry leaves the
\* registry before that (opcache.go:159-166, 176-182).
EndReportedOnce == \A o \in Ops :
  /\ ends[o] <= 1
  /\ o \notin operations /\ pc[o] \notin {"new", "insert"} => ends[o] = 1

\* An operation that was cancelled before its worker called MarkTerminated never
\* ends as COMPLETED, and only a cancelled one ends as CANCELLED
\* (opcache.go:102-105, 122-129).
CancelIsReported == \A o \in Ops :
  /\ status[o] = "COMPLETED" => ~ early[o]
  /\ status[o] = "CANCELLED" => cancelled[o]

\* A client that lists whenever HasChanges is true is told of the end of every
\* operation (opcache.go:96-120, 148-193).
EndIsSeen == \A o \in Ops : (pc[o] = "run") ~> (ends[o] = 1)
============================================================================
