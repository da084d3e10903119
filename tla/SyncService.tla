----------------------------- MODULE SyncService -----------------------------
(***************************************************************************)
(* facade/sync_*.go, export_latest.go and favorite.go: the workers of the  *)
(* background operations, at work on the records of one vault at the same  *)
(* time.  Updates, integrity checks and exports lock the item they work on *)
(* with the tracker (module ItemLock); imports and favorites do not.  A    *)
(* call of the catalog is one step (module CardCatalog), the website is    *)
(* external.  A worker's report and its push to the result cache are in    *)
(* modules OpRegistry and ResultCache.                                     *)
(*                                                                         *)
(* A record is abstracted to its UpdateTime (the version of its card), its *)
(* sync status, the version last marked as exported, and its favorite.     *)
(***************************************************************************)
EXTENDS ItemLock, Naturals

CONSTANTS MaxVersion  \* bound: versions a website publishes of one card

ASSUME MaxVersionIsNat == MaxVersion \in Nat \ {0}
ASSUME NoneIsNoThread == None \notin Threads

VARIABLES
  records,   \* records[r]: the record of card r, or NoRecord
  remote,    \* remote[r]: the version that the website has of r
  files,     \* files[r]: the version in r's exported file, 0 when there is none
  pc,        \* pc[t]: where worker t is
  job,       \* job[t]: what t works on and what it has read
  wanted,    \* wanted[r]: history, the favorite that the calls on r amount to
  unmarked,  \* unmarked[r]: history, the last export of r wrote and did not mark
  intruded   \* intruded[r]: history, an import saved r while a worker held the item

dataVars == <<records, remote, files, wanted, unmarked, intruded>>
vars == <<lockVars, dataVars, pc, job>>

Versions == 1 .. MaxVersion
Record == [version : Versions,
           status : {"success", "unchanged", "failed"},
           exported : 0 .. MaxVersion,
           favorite : BOOLEAN]
NoRecord == [version |-> 0]

\* read is the version in the record that t read, new the one it fetched; both
\* are 0 as long as there is none.
Job == [kind : {"update", "export", "integrity", "import"}, rid : Rids,
        read : 0 .. MaxVersion, new : 0 .. MaxVersion]
NoJob == [kind |-> "none"]

\* Where a worker holds its item.
Inside == {"find", "fetch", "fetch all", "save", "unchanged", "failed", "write", "mark", "repair", "unlock"}

TypeOK ==
  /\ LockTypeOK
  /\ records \in [Rids -> Record \cup {NoRecord}]
  /\ remote \in [Rids -> Versions]
  /\ files \in [Rids -> 0 .. MaxVersion]
  /\ pc \in [Threads -> Inside \cup {"idle", "queued", "lock", "import", "insert"}]
  /\ job \in [Threads -> Job \cup {NoJob}]
  /\ wanted \in [Rids -> BOOLEAN]
  /\ unmarked \in [Rids -> BOOLEAN]
  /\ intruded \in [Rids -> BOOLEAN]
  /\ \A t \in Threads :
       /\ pc[t] = "idle" <=> job[t] = NoJob
       /\ pc[t] \in Inside => holder[job[t].rid] = t

Init ==
  /\ LockInit
  /\ remote = [r \in Rids |-> 1]
  /\ records \in [Rids -> {NoRecord, [version |-> 1, status |-> "success", exported |-> 0, favorite |-> FALSE]}]
  /\ files = [r \in Rids |-> 0]
  /\ pc = [t \in Threads |-> "idle"]
  /\ job = [t \in Threads |-> NoJob]
  /\ wanted = [r \in Rids |-> FALSE]
  /\ unmarked = [r \in Rids |-> FALSE]
  /\ intruded = [r \in Rids |-> FALSE]

Goto(t, from, to) == pc[t] = from /\ pc' = [pc EXCEPT ![t] = to]

\* [mutant] a save of a known card resets what only its owner may change.
UpsertAll(old, v) == [version |-> v, status |-> "success", exported |-> 0, favorite |-> FALSE]

\* SaveRecord: on conflict it leaves the export data and the favorite alone.
Upsert(old, v) ==
  IF old = NoRecord THEN [version |-> v, status |-> "success", exported |-> 0, favorite |-> FALSE]
  ELSE [old EXCEPT !.version = v, !.status = "success"]

----------------------------------------------------------------------------
(* Taking the item                                                         *)

\* A worker of UpdateCards or ExportLatestCards takes the next id: LockItem.
StartItem(t, r, kind) ==
  /\ Goto(t, "idle", "lock")
  /\ job' = [job EXCEPT ![t] = [kind |-> kind, rid |-> r, read |-> 0, new |-> 0]]
  /\ Request(t, r)
  /\ UNCHANGED dataVars

\* CheckIntegrity reads all records at its beginning; a worker takes one later.
StartIntegrity(t, r) ==
  /\ records[r] # NoRecord
  /\ Goto(t, "idle", "queued")
  /\ job' = [job EXCEPT ![t] = [kind |-> "integrity", rid |-> r, read |-> records[r].version, new |-> 0]]
  /\ UNCHANGED <<lockVars, dataVars>>

LockQueued(t) ==
  /\ Goto(t, "queued", "lock")
  /\ Request(t, job[t].rid)
  /\ UNCHANGED <<dataVars, job>>

\* [mutant] LockItem returns although another worker has the item.
AcquireAnyway(t) ==
  /\ Goto(t, "lock", IF job[t].kind = "integrity" THEN "repair" ELSE "find")
  /\ holder' = [holder EXCEPT ![job[t].rid] = t]
  /\ waiting' = [waiting EXCEPT ![t] = None]
  /\ UNCHANGED <<dataVars, job>>

\* LockItem returns.
Acquire(t) ==
  /\ Goto(t, "lock", IF job[t].kind = "integrity" THEN "repair" ELSE "find")
  /\ Grant(t, job[t].rid)
  /\ UNCHANGED <<dataVars, job>>

\* [mutant] the worker returns without UnlockItem.
ForgetUnlock(t) ==
  /\ Goto(t, "unlock", "idle")
  /\ job' = [job EXCEPT ![t] = NoJob]
  /\ UNCHANGED <<lockVars, dataVars>>

\* The deferred UnlockItem.
Unlock(t) ==
  /\ Goto(t, "unlock", "idle")
  /\ Release(t, job[t].rid)
  /\ job' = [job EXCEPT ![t] = NoJob]
  /\ intruded' = [intruded EXCEPT ![job[t].rid] = FALSE]
  /\ UNCHANGED <<records, remote, files, wanted, unmarked>>

FindRecord(t) ==
  /\ pc[t] = "find"
  /\ LET rec == records[job[t].rid]
     IN  IF rec = NoRecord
         THEN Goto(t, "find", "unlock") /\ UNCHANGED job
         ELSE /\ Goto(t, "find", IF job[t].kind = "update" THEN "fetch" ELSE "write")
              /\ job' = [job EXCEPT ![t].read = rec.version]
  /\ UNCHANGED <<lockVars, dataVars>>

----------------------------------------------------------------------------
(* UpdateCards: updateSingleCard                                           *)

\* The metadata is newer than the record, or the call forces the update, or the
\* creator has changed: all is fetched.  Otherwise the card is unchanged.
FetchMetadata(t) ==
  /\ \/ Goto(t, "fetch", "fetch all")
     \/ Goto(t, "fetch", "unchanged") /\ remote[job[t].rid] <= job[t].read
  /\ UNCHANGED <<lockVars, dataVars, job>>

FetchAll(t) ==
  /\ Goto(t, "fetch all", "save")
  /\ job' = [job EXCEPT ![t].new = remote[job[t].rid]]
  /\ UNCHANGED <<lockVars, dataVars>>

SaveCard(t) ==
  /\ Goto(t, "save", "unlock")
  /\ records' = [records EXCEPT ![job[t].rid] = Upsert(@, job[t].new)]
  /\ UNCHANGED <<lockVars, remote, files, wanted, unmarked, job, intruded>>

\* The website or the catalog returns an error.
StepFails(t) ==
  /\ \E from \in {"fetch", "fetch all", "save"} : Goto(t, from, "failed")
  /\ UNCHANGED <<lockVars, dataVars, job>>

\* setSyncStatus; its own error, as after a cancellation, is ignored.
SetSyncStatus(t, status) ==
  /\ Goto(t, status, "unlock")
  /\ \/ records' = [records EXCEPT ![job[t].rid].status = status]
     \/ UNCHANGED records
  /\ UNCHANGED <<lockVars, remote, files, wanted, unmarked, job, intruded>>

----------------------------------------------------------------------------
(* CheckIntegrity: FixRecordIntegrity of the record read before            *)

\* The record is fine, or it is broken and cannot be repaired.
NothingRepaired(t) == Goto(t, "repair", "unlock") /\ UNCHANGED <<lockVars, dataVars, job>>

\* The record that was read, with the card of its version, is saved again.
Repair(t) ==
  /\ Goto(t, "repair", "unlock")
  /\ records' = [records EXCEPT ![job[t].rid] = Upsert(@, job[t].read)]
  /\ UNCHANGED <<lockVars, remote, files, wanted, unmarked, job, intruded>>

----------------------------------------------------------------------------
(* ExportLatestCards: exportCard                                           *)

\* The card of the record's version is read and written.  A card has a file of its own
\* when the template tells cards apart (EntStore!ExportedApart).
WriteCard(t) ==
  /\ Goto(t, "write", "mark")
  /\ files' = [files EXCEPT ![job[t].rid] = job[t].read]
  /\ UNCHANGED <<lockVars, records, remote, wanted, unmarked, job, intruded>>

\* The card cannot be read, or the file cannot be written.
WriteFails(t) == Goto(t, "write", "unlock") /\ UNCHANGED <<lockVars, dataVars, job>>

\* markExported; its error is ignored.
MarkExported(t) ==
  /\ Goto(t, "mark", "unlock")
  /\ \/ /\ records' = [records EXCEPT ![job[t].rid].exported = job[t].read]
        /\ unmarked' = [unmarked EXCEPT ![job[t].rid] = FALSE]
     \/ /\ unmarked' = [unmarked EXCEPT ![job[t].rid] = TRUE]
        /\ UNCHANGED records
  /\ UNCHANGED <<lockVars, remote, files, wanted, job, intruded>>

----------------------------------------------------------------------------
(* ImportURLs and favorites: no item lock                                  *)

\* The URL was not among the known ones when the import began.
StartImport(t, r) ==
  /\ records[r] = NoRecord
  /\ Goto(t, "idle", "import")
  /\ job' = [job EXCEPT ![t] = [kind |-> "import", rid |-> r, read |-> 0, new |-> 0]]
  /\ UNCHANGED <<lockVars, dataVars>>

ImportFetch(t) ==
  /\ Goto(t, "import", "insert")
  /\ job' = [job EXCEPT ![t].new = remote[job[t].rid]]
  /\ UNCHANGED <<lockVars, dataVars>>

ImportSave(t) ==
  /\ Goto(t, "insert", "idle")
  /\ records' = [records EXCEPT ![job[t].rid] = Upsert(@, job[t].new)]
  /\ job' = [job EXCEPT ![t] = NoJob]
  /\ intruded' = [intruded EXCEPT ![job[t].rid] = holder[job[t].rid] # None]
  /\ UNCHANGED <<lockVars, remote, files, wanted, unmarked>>

ImportFails(t) ==
  /\ Goto(t, "import", "idle") \/ Goto(t, "insert", "idle")
  /\ job' = [job EXCEPT ![t] = NoJob]
  /\ UNCHANGED <<lockVars, dataVars>>

ToggleFavorite(r) ==
  /\ records[r] # NoRecord
  /\ records' = [records EXCEPT ![r].favorite = ~@]
  /\ wanted' = [wanted EXCEPT ![r] = ~@]
  /\ UNCHANGED <<lockVars, remote, files, unmarked, pc, job, intruded>>

UpdateFavorites(r, favorite) ==
  /\ records[r] # NoRecord
  /\ records' = [records EXCEPT ![r].favorite = favorite]
  /\ wanted' = [wanted EXCEPT ![r] = favorite]
  /\ UNCHANGED <<lockVars, remote, files, unmarked, pc, job, intruded>>

\* The website publishes a new version of the card.
Publish(r) ==
  /\ remote[r] < MaxVersion
  /\ remote' = [remote EXCEPT ![r] = @ + 1]
  /\ UNCHANGED <<lockVars, records, files, wanted, unmarked, pc, job, intruded>>

\* What a worker does next, once it has begun.
WorkerStep(t) ==
  \/ LockQueued(t) \/ FindRecord(t) \/ Unlock(t)
  \/ FetchMetadata(t) \/ FetchAll(t) \/ SaveCard(t) \/ StepFails(t)
  \/ SetSyncStatus(t, "unchanged") \/ SetSyncStatus(t, "failed")
  \/ NothingRepaired(t) \/ Repair(t)
  \/ WriteCard(t) \/ WriteFails(t) \/ MarkExported(t)
  \/ ImportFetch(t) \/ ImportSave(t) \/ ImportFails(t)

Next ==
  \/ \E t \in Threads :
       \/ \E r \in Rids : \/ StartItem(t, r, "update") \/ StartItem(t, r, "export")
                          \/ StartIntegrity(t, r) \/ StartImport(t, r)
       \/ Acquire(t) \/ WorkerStep(t)
  \/ \E r \in Rids :
       \/ ToggleFavorite(r) \/ Publish(r)
       \/ \E favorite \in BOOLEAN : UpdateFavorites(r, favorite)

Spec == Init /\ [][Next]_vars

\* Goroutines run, requests to websites end with an answer or an error, and the
\* tracker serves who waits (Served of ItemLock; MuTracker!LockItemReturns).
FairSpec == Spec /\ \A t \in Threads : WF_vars(WorkerStep(t)) /\ SF_vars(Acquire(t))

----------------------------------------------------------------------------
(* Properties *)

\* Updates never take a card back to an older version, however many work on
\* it: only a repair from a record that was read before a newer save can, and an
\* import that began when the URL was not known yet, by its own save or by
\* saving while an update holds the item.
UpdatesMoveOn == [][\A r \in Rids :
  (records[r] # NoRecord /\ records'[r].version < records[r].version)
    => intruded[r] \/ \E t \in Threads : pc[t] \in {"repair", "insert"} /\ pc'[t] # pc[t] /\ job[t].rid = r]_vars

\* The version marked as exported is the one in the file, once the export that
\* wrote it has marked it (export_latest.go:117-135, both under the item's lock).
ExportIsMarked == \A r \in Rids : records[r] # NoRecord =>
  \/ records[r].exported = files[r]
  \/ unmarked[r]
  \/ \E t \in Threads : pc[t] = "mark" /\ job[t].rid = r

\* A favorite set while the card is updated, repaired or imported again is kept.
FavoriteKept == \A r \in Rids : records[r] # NoRecord => records[r].favorite = wanted[r]

\* Every card that a worker took is dealt with, whatever the others do.
CardsAreDone == \A t \in Threads : pc[t] = "lock" ~> pc[t] = "idle"

\* A repair works on the record as it is (README.md:131, "Use tracker for
\* per-card operations to prevent race conditions").  It works on the record read
\* when the whole check began, and an import saves without the tracker.
RepairIsCurrent == \A t \in Threads :
  pc[t] = "repair" => job[t].read = records[job[t].rid].version
==============================================================================
