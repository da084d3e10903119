----------------------------- MODULE Operations ------------------------------
(***************************************************************************)
(* The background operations of the facade and of the library, from the     *)
(* call that begins one to the return of its worker: update, export,        *)
(* integrity check, export of a vault, import of URLs, import of a vault.    *)
(* Each takes the vault, counts its cards, hands them to a scheduler with    *)
(* `Workers` handlers, adds every result to its report, marks itself         *)
(* terminated and gives the vault back, in an order of its own.  Clients     *)
(* load, unload, cancel and flush meanwhile.                                 *)
(*                                                                         *)
(* What dealing with a card does to the stores is in SyncService; here it    *)
(* has a result.  The steps on the vault are those of VaultManager, those    *)
(* on the cache of cache.go are in ResultCache.                              *)
(***************************************************************************)
EXTENDS ResultCache

CONSTANTS Ops,      \* the goroutines that run an operation each; the others are clients
          Workers   \* handlers of one scheduler

ASSUME OpsAreGoroutines == Ops \subseteq Goroutines
ASSUME WorkersIsPositive == Workers \in Nat \ {0}

VARIABLES
  kind,      \* kind[o]: operation.Action, "none" before it begins
  stage,     \* stage[o]: how far its worker is
  status,    \* status[o]: Details.Status
  cancelled, \* the operations whose context is cancelled
  card,      \* card[o][c]: what has become of card c in operation o
  report,    \* report[o]: the counters of operation.Report
  uncounted  \* history: what Total counts and no handler is given

opVars == <<kind, stage, status, cancelled, card, report, uncounted>>
everything == <<vars, cacheVars, opVars>>

FacadeKinds == {"Update", "Export", "Integrity", "ExportVault", "Import"}
Kinds == FacadeKinds \cup {"ImportVault"}
Results == {"success", "failure", "other"}  \* other: unchanged, fixed or duplicate
Stages == {"none", "begun", "counted", "cards", "ending", "completing", "cancelling", "ended", "lost"}

OpTypeOK ==
  /\ CacheTypeOK
  /\ \A o \in Ops : pc[o] \notin {"load", "close", "flush", "taken", "find"}
  /\ kind \in [Ops -> Kinds \cup {"none"}]
  /\ stage \in [Ops -> Stages]
  /\ status \in [Ops -> {"none", "ONGOING", "COMPLETED", "CANCELLED"}]
  /\ cancelled \subseteq Ops
  /\ card \in [Ops -> [Cards -> {"no", "waiting", "busy", "done"} \cup Results]]
  /\ \A o \in Ops : Cardinality({c \in Cards : card[o][c] \in {"busy"} \cup Results}) <= Workers

Blank == [total |-> 0, progress |-> 0, invalid |-> 0, success |-> 0, failure |-> 0, other |-> 0]

OpInit ==
  /\ CacheInit
  /\ kind = [o \in Ops |-> "none"]
  /\ stage = [o \in Ops |-> "none"]
  /\ status = [o \in Ops |-> "none"]
  /\ cancelled = {}
  /\ card = [o \in Ops |-> [c \in Cards |-> "no"]]
  /\ report = [o \in Ops |-> Blank]
  /\ uncounted = [o \in Ops |-> 0]

Advance(o, from, to) == stage[o] = from /\ stage' = [stage EXCEPT ![o] = to]

\* NewOperation, called once the vault is held.
NewOperation(o, k) ==
  /\ Advance(o, "none", "begun")
  /\ Set(kind, o, k)
  /\ Set(status, o, "ONGOING")
  /\ UNCHANGED <<cancelled, card, report, uncounted>>

\* UpdateCards, ExportLatestCards, CheckIntegrity, ExportVault, ImportURLs.
BeginFacade(o, k) == BeginOp(o) /\ NewOperation(o, k) /\ UNCHANGED cacheVars

BeginImportVault(o, n) == ImportVault(o, n) /\ NewOperation(o, "ImportVault") /\ UNCHANGED cacheVars

\* Create and Load, or the worker returns at the first error.
PrepareVault(o) ==
  /\ stage[o] = "begun"
  /\ ImportCreate(o) \/ ImportOpen(o)
  /\ UNCHANGED <<cacheVars, opVars>>

VaultNotMade(o) ==
  /\ ImportFails(o)
  /\ Advance(o, "begun", "ending")
  /\ UNCHANGED <<cacheVars, kind, status, cancelled, card, report, uncounted>>

----------------------------------------------------------------------------
(* How each kind finds its cards                                           *)

\* The rest of the preparation changes only the operation.
Prepare(o) ==
  /\ pc[o] \in {"using", "import"}
  /\ UNCHANGED <<vars, cacheVars, kind, status, cancelled>>

Given(o, S) == Set(card, o, [c \in Cards |-> IF c \in S THEN "waiting" ELSE "no"])

\* The ids of the call; or the records of the vault, or the items of the index,
\* which are counted after they were read.
TakeCards(o) ==
  /\ Prepare(o)
  /\ kind[o] \in {"Update", "Export", "ExportVault", "ImportVault"}
  /\ Advance(o, "begun", "cards")
  /\ \E S \in SUBSET Cards :
       /\ Given(o, S)
       /\ report' = [report EXCEPT ![o].total = Cardinality(S)]
  /\ UNCHANGED uncounted

\* MkdirAll or a read fails; BasicIntegrity answers false; the index or the
\* directory of an exported vault cannot be read.
CannotPrepare(o) ==
  /\ Prepare(o)
  /\ kind[o] \in {"ExportVault", "ImportVault", "Integrity"}
  /\ Advance(o, "begun", "ending")
  /\ UNCHANGED <<card, report, uncounted>>

\* setIntegrityTotal with the ids of BasicIntegrity, setImportTotal with the lines.
Count(o) ==
  /\ Prepare(o)
  /\ kind[o] \in {"Integrity", "Import"}
  /\ Advance(o, "begun", "counted")
  /\ \E n \in 0 .. Cardinality(Cards) : report' = [report EXCEPT ![o].total = n]
  /\ UNCHANGED <<card, uncounted>>

\* FindRecords: the records that have not been deleted since.
FindRecords(o) ==
  /\ Prepare(o)
  /\ kind[o] = "Integrity"
  /\ Advance(o, "counted", "cards")
  /\ \E S \in SUBSET Cards :
       /\ Cardinality(S) <= report[o].total
       /\ Given(o, S)
       /\ Set(uncounted, o, report[o].total - Cardinality(S))
  /\ UNCHANGED report

\* [mutant] the invalid lines are not counted as progress.
KnownURLsOnly(o) ==
  /\ Prepare(o)
  /\ kind[o] = "Import"
  /\ Advance(o, "counted", "cards")
  /\ \E S \in SUBSET Cards, invalid \in {0, 1} :
       /\ Cardinality(S) + invalid <= report[o].total
       /\ Given(o, S)
       /\ report' = [report EXCEPT ![o].invalid = invalid]
       /\ Set(uncounted, o, report[o].total - Cardinality(S) - invalid)

\* FindURLs answers.  An invalid line is progress already; a line that repeats
\* another has no task of its own.
FindURLs(o) ==
  /\ Prepare(o)
  /\ kind[o] = "Import"
  /\ Advance(o, "counted", "cards")
  /\ \E S \in SUBSET Cards, invalid \in {0, 1} :
       /\ Cardinality(S) + invalid <= report[o].total
       /\ Given(o, S)
       /\ report' = [report EXCEPT ![o].invalid = invalid, ![o].progress = invalid]
       /\ Set(uncounted, o, report[o].total - Cardinality(S) - invalid)

\* FindRecords fails, after Total was set: the check still ends.
CannotFindRecords(o) ==
  /\ Prepare(o)
  /\ kind[o] = "Integrity"
  /\ Advance(o, "counted", "ending")
  /\ Set(uncounted, o, report[o].total)
  /\ UNCHANGED <<card, report>>

\* FindURLs fails: ImportURLs returns an error and nobody terminates the operation.
CannotFindURLs(o) ==
  /\ kind[o] = "Import"
  /\ Advance(o, "counted", "lost")
  /\ EndOp(o)
  /\ UNCHANGED <<cacheVars, kind, status, cancelled, card, report, uncounted>>

----------------------------------------------------------------------------
(* The scheduler and its handlers                                          *)

Busy(o) == {c \in Cards : card[o][c] \in {"busy"} \cup Results}

\* scheduler.Exec: cards go to the handlers until there are none or the context
\* is cancelled; one that is being dealt with is always finished.
Take(o, c) ==
  /\ stage[o] = "cards"
  /\ card[o][c] = "waiting"
  /\ Cardinality(Busy(o)) < Workers
  /\ card' = [card EXCEPT ![o][c] = "busy"]
  /\ UNCHANGED <<vars, cacheVars, kind, stage, status, cancelled, report, uncounted>>

\* What the handler does with the card; an update or an export asks for the
\* card's record to be sent to the clients, even if it failed.
Deal(o, c, result) ==
  /\ card[o][c] = "busy"
  /\ result = "other" => kind[o] \in {"Update", "Integrity", "Import"}
  /\ card' = [card EXCEPT ![o][c] = result]
  /\ IF kind[o] \in {"Update", "Export"} THEN Push(o, c) ELSE UNCHANGED cacheVars
  /\ UNCHANGED <<vars, kind, stage, status, cancelled, report, uncounted>>

\* The mutator that the handler gives to MutateReport.
Report(o, c) ==
  /\ card[o][c] \in Results
  /\ report' = [report EXCEPT ![o].progress = @ + 1, ![o][card[o][c]] = @ + 1]
  /\ card' = [card EXCEPT ![o][c] = "done"]
  /\ UNCHANGED <<vars, cacheVars, kind, stage, status, cancelled, uncounted>>

\* [mutant] a worker does not wait for its handlers.
EndCardsAtOnce(o) ==
  /\ Advance(o, "cards", "ending")
  /\ o \in cancelled \/ \A c \in Cards : card[o][c] # "waiting"
  /\ UNCHANGED <<vars, cacheVars, kind, status, cancelled, card, report, uncounted>>

\* Exec returns; CleanupCreators and the index of an exported vault follow.
EndCards(o) ==
  /\ Advance(o, "cards", "ending")
  /\ Busy(o) = {}
  /\ o \in cancelled \/ \A c \in Cards : card[o][c] # "waiting"
  /\ UNCHANGED <<vars, cacheVars, kind, status, cancelled, card, report, uncounted>>

----------------------------------------------------------------------------
(* The end of the operation                                                *)

\* ImportVault closes its catalog before the operation is terminated.
CloseImport(o) ==
  /\ stage[o] = "ending"
  /\ ImportEnd(o)
  /\ UNCHANGED <<cacheVars, opVars>>

\* MarkTerminated looks at the context first.
CheckCancelled(o) ==
  /\ pc[o] # "import"
  /\ Advance(o, "ending", IF o \in cancelled THEN "cancelling" ELSE "completing")
  /\ UNCHANGED <<vars, cacheVars, kind, status, cancelled, card, report, uncounted>>

\* [mutant] an operation whose context is cancelled is not marked.
MarkIfCompleted(o) ==
  /\ Advance(o, "completing", "ended")
  /\ Set(status, o, "COMPLETED")
  /\ UNCHANGED <<vars, cacheVars, kind, cancelled, card, report, uncounted>>

MarkTerminated(o) ==
  /\ \/ Advance(o, "completing", "ended") /\ Set(status, o, "COMPLETED")
     \/ Advance(o, "cancelling", "ended") /\ Set(status, o, "CANCELLED")
  /\ UNCHANGED <<vars, cacheVars, kind, cancelled, card, report, uncounted>>

\* The deferred unlock runs when the clients may have seen the end.
Return(o) == stage[o] = "ended" /\ EndOp(o) /\ UNCHANGED <<cacheVars, opVars>>

----------------------------------------------------------------------------
(* Clients                                                                 *)

Cancel(o) ==
  /\ status[o] = "ONGOING"
  /\ o \notin cancelled
  /\ cancelled' = cancelled \cup {o}
  /\ UNCHANGED <<vars, cacheVars, kind, stage, status, card, report, uncounted>>

Begin(o) ==
  \/ \E k \in FacadeKinds : BeginFacade(o, k)
  \/ \E n \in Names : BeginImportVault(o, n)

OperationStep(o) ==
  \/ PrepareVault(o) \/ VaultNotMade(o)
  \/ TakeCards(o) \/ CannotPrepare(o)
  \/ Count(o) \/ FindRecords(o) \/ CannotFindRecords(o) \/ FindURLs(o) \/ CannotFindURLs(o)
  \/ \E c \in Cards :
       \/ Take(o, c)
       \/ \E result \in Results : Deal(o, c, result)
       \/ Report(o, c)
  \/ EndCards(o) \/ CloseImport(o)
  \/ CheckCancelled(o) \/ MarkTerminated(o) \/ Return(o)

Clients == Goroutines \ Ops

OpNext ==
  \/ \E o \in Ops : Begin(o) \/ OperationStep(o) \/ Cancel(o)
  \/ \E g \in Clients :
       \/ FlushStep(g) /\ UNCHANGED opVars
       \/ FacadeStep(g) /\ UNCHANGED <<cacheVars, opVars>>

\* Go runs every goroutine; a handler returns (its requests have timeouts, its
\* lock is given back: SyncService); a client that began a flush or a load goes on.
OpFairness ==
  /\ \A o \in Ops : WF_everything(OperationStep(o))
  /\ \A g \in Clients : WF_everything((FlushGoesOn(g) /\ UNCHANGED opVars)
                            \/ (LoadGoesOn(g) /\ UNCHANGED <<cacheVars, opVars>>))

OpSpec == OpInit /\ [][OpNext]_everything /\ OpFairness

----------------------------------------------------------------------------
(* Properties *)

\* Whatever the interleaving of the handlers, the counters of a report add up to
\* its progress; a report that is COMPLETED has accounted for every card that its
\* Total counts, unless that card was never given to a handler, even when the
\* cancellation came while MarkTerminated ran (opcache.go:96-120, the mutators
\* of sync_update.go:272-286 and their like).
ReportAdds == \A o \in Ops :
  LET r == report[o]
  IN  /\ r.progress = r.invalid + r.success + r.failure + r.other
      /\ r.progress + uncounted[o] <= r.total
      /\ status[o] = "COMPLETED" /\ uncounted[o] = 0 => r.progress = r.total
      /\ status[o] = "COMPLETED" => \A c \in Cards : card[o][c] \in {"no", "done"}

\* When a client sees the end of an operation, no handler of it is still at
\* work: its report will not change, its cards are not locked, whoever flushes
\* now gets its last requests, and the catalog of an imported vault is closed
\* (scheduler.Exec, then MarkTerminated; fslibrary.go:197-207).
EndIsFinal == \A o \in Ops : status[o] \in {"COMPLETED", "CANCELLED"} =>
  /\ Busy(o) = {}
  /\ kind[o] = "ImportVault" => pc[o] = "idle"
  /\ kind[o] \in {"Update", "Export"} =>
       Cardinality(Pushed(o)) = report[o].success + report[o].failure + report[o].other

\* Every operation that begins ends, whether or not it is cancelled, and gives
\* the vault back, but for an import whose known URLs cannot be read; and what a
\* flush took is answered whatever happens to the vault.
OperationsEnd ==
  /\ \A o \in Ops : stage[o] # "none" ~> stage[o] \in {"ended", "lost"} /\ pc[o] = "idle"
  /\ \A g \in Clients : pc[g] = "taken" ~> batch[g] = <<>>
==============================================================================
