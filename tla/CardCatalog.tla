----------------------------- MODULE CardCatalog -----------------------------
(***************************************************************************)
(* store/catalog over the record store (erecord, SQLite) and a blob store: *)
(* the two stores that hold one card.  SaveCard, RestoreCard and Delete    *)
(* open a transaction of the record store, work in it, commit a            *)
(* transaction of the blob store inside it, and then commit the record     *)
(* transaction.  The record store's mutex is held for writing all along,   *)
(* so the calls run one at a time; the two commits are two events, and     *)
(* either may fail (an error, a cancelled context) or the process may end  *)
(* between them.                                                           *)
(*                                                                         *)
(* A record is abstracted to the URL that identifies it and its UpdateTime,*)
(* the version of its card; the content of a card is abstracted to the URL *)
(* it was fetched from.  A record's id comes from SQLite's AUTOINCREMENT   *)
(* counter, which is part of the transaction: rolling back gives it back.  *)
(***************************************************************************)
EXTENDS BlobOps

CONSTANTS Writers,      \* goroutines that call the catalog
          MaxSeq,       \* bound: ids taken from the counter
          MaxFailures,  \* bound: calls that failed after the blob store's commit
          Nobody        \* the record store's mutex is free

ASSUME NobodyIsNoWriter == Nobody \notin Writers
ASSUME BoundsAreNats == MaxSeq \in Nat /\ MaxFailures \in Nat

Ids == 1 .. MaxSeq
Urls == Contents

VARIABLES
  blobEngine,    \* the blob store in use (fixed)
  records,   \* records[r]: the committed record, or None
  seq,       \* the committed AUTOINCREMENT counter
  cards,     \* cards[r]: the committed card of the blob store
  thumbs,    \* thumbs[r]: its thumbnail
  lock,      \* who holds the record store's mutex for writing
  pc,        \* pc[w]: "blob" in the record transaction, "commit" after the blob's,
             \* "cancelled" if the context was cancelled in the blob's
  job,       \* job[w]: the call that w is in
  late,      \* late[r]: history, what calls on r committed to the blob store alone
             \* since the last call on r that succeeded
  failures,  \* history: how many calls did so
  check      \* the basic integrity check of the vault: the ids it has read, and
             \* history, which calls committed to the blob store since then

catalogVars == <<blobEngine, records, seq, cards, thumbs, lock, pc, job, late, failures, check>>
recordStore == <<records, seq>>
blobStore == <<cards, thumbs>>

Records == [url : Urls, version : Versions]
ASSUME NoneIsNoRecord == None \notin Records

NoJob == [kind |-> "none"]
SaveJobs == [kind : {"save"}, rid : Ids, rec : Records]
DeleteJobs == [kind : {"delete"}, rid : Ids]

NotChecking == [step |-> "idle"]
Reads == [step : {"read"}, rids : SUBSET Ids, since : SUBSET {"put", "delete"}]

TypeOK ==
  /\ blobEngine \in Engines
  /\ records \in [Ids -> Records \cup {None}]
  /\ seq \in 0 .. MaxSeq
  /\ cards \in [Ids -> Cards]
  /\ thumbs \in [Ids -> Contents \cup {None}]
  /\ lock \in Writers \cup {Nobody}
  /\ pc \in [Writers -> {"idle", "blob", "commit", "cancelled"}]
  /\ job \in [Writers -> SaveJobs \cup DeleteJobs \cup {NoJob}]
  /\ late \in [Ids -> {"none", "put", "delete"}]
  /\ failures \in 0 .. MaxFailures
  /\ check \in Reads \cup [step : {"done"}, ok : BOOLEAN] \cup {NotChecking}
  /\ \A w \in Writers : (pc[w] = "idle" <=> job[w] = NoJob) /\ (lock = w <=> pc[w] # "idle")

CatalogInit ==
  /\ blobEngine \in Engines
  /\ records = [r \in Ids |-> None]
  /\ seq = 0
  /\ cards = [r \in Ids |-> NoCard]
  /\ thumbs = [r \in Ids |-> None]
  /\ lock = Nobody
  /\ pc = [w \in Writers |-> "idle"]
  /\ job = [w \in Writers |-> NoJob]
  /\ late = [r \in Ids |-> "none"]
  /\ failures = 0
  /\ check = NotChecking

\* The id that the upsert of url gives: the one of its record, or a new one.
\* (An upsert takes an id from the counter in both cases.)
RidOf(url) == IF \E r \in Ids : records[r] # None /\ records[r].url = url
              THEN CHOOSE r \in Ids : records[r] # None /\ records[r].url = url
              ELSE seq + 1

\* Takes the mutex and begins the record transaction; nothing of what the
\* transaction does is seen by others before it commits.
Start(w, j) ==
  /\ pc[w] = "idle"
  /\ lock = Nobody
  /\ lock' = w
  /\ pc' = [pc EXCEPT ![w] = "blob"]
  /\ job' = [job EXCEPT ![w] = j]
  /\ UNCHANGED <<blobEngine, recordStore, blobStore, late, failures, check>>

\* [mutant] the mutex is not taken for the transaction.
StartSaveUnlocked(w, url, v) ==
  /\ pc[w] = "idle"
  /\ seq < MaxSeq
  /\ lock' = w
  /\ pc' = [pc EXCEPT ![w] = "blob"]
  /\ job' = [job EXCEPT ![w] = [kind |-> "save", rid |-> RidOf(url), rec |-> [url |-> url, version |-> v]]]
  /\ UNCHANGED <<blobEngine, recordStore, blobStore, late, failures, check>>

\* SaveCard and RestoreCard: SaveRecord (or RestoreRecord) in the transaction.
StartSave(w, url, v) ==
  /\ seq < MaxSeq
  /\ Start(w, [kind |-> "save", rid |-> RidOf(url), rec |-> [url |-> url, version |-> v]])

\* Delete of one id: the record goes in the transaction.
StartDelete(w, r) == Start(w, [kind |-> "delete", rid |-> r])

\* The call returns and the deferred Unlock runs.
Return(w) ==
  /\ lock' = Nobody
  /\ pc' = [pc EXCEPT ![w] = "idle"]
  /\ job' = [job EXCEPT ![w] = NoJob]

\* A statement of the record transaction fails, or the blob store does: the
\* record transaction rolls back and the blob store has nothing of the call.
Rollback(w) ==
  /\ pc[w] = "blob"
  /\ Return(w)
  /\ UNCHANGED <<blobEngine, recordStore, blobStore, late, failures, check>>

\* What a check that has read the records does not know of: a call of kind k.
Unseen(k) == check' = IF check.step = "read" THEN [check EXCEPT !.since = @ \cup {k}] ELSE check

PutBlob(w) ==
  /\ pc[w] = "blob"
  /\ job[w].kind = "save"
  /\ LET r == job[w].rid
         rec == job[w].rec
     IN  /\ cards' = [cards EXCEPT ![r] = AfterPut(blobEngine, @, rec.version, rec.url)]
         /\ thumbs' = [thumbs EXCEPT ![r] = rec.url]
  /\ pc' = [pc EXCEPT ![w] = "commit"]
  /\ Unseen("put")
  /\ UNCHANGED <<blobEngine, recordStore, lock, job, late, failures>>

\* The context is cancelled while pblob lists the versions to prune, which gives
\* none; the batch is committed, and the record transaction cannot be.
PutCancelled(w) ==
  /\ pc[w] = "blob"
  /\ job[w].kind = "save"
  /\ blobEngine = "pblob"
  /\ failures < MaxFailures    \* the call will fail
  /\ LET r == job[w].rid
         rec == job[w].rec
     IN  /\ cards' = [cards EXCEPT ![r][rec.version] = rec.url]
         /\ thumbs' = [thumbs EXCEPT ![r] = rec.url]
  /\ pc' = [pc EXCEPT ![w] = "cancelled"]
  /\ Unseen("put")
  /\ UNCHANGED <<blobEngine, recordStore, lock, job, late, failures>>

\* [mutant] the card's thumbnail goes and its versions stay.
DeleteThumbnail(w) ==
  /\ pc[w] = "blob"
  /\ job[w].kind = "delete"
  /\ thumbs' = [thumbs EXCEPT ![job[w].rid] = None]
  /\ pc' = [pc EXCEPT ![w] = "commit"]
  /\ Unseen("delete")
  /\ UNCHANGED <<blobEngine, recordStore, cards, lock, job, late, failures>>

DeleteBlob(w) ==
  /\ pc[w] = "blob"
  /\ job[w].kind = "delete"
  /\ cards' = [cards EXCEPT ![job[w].rid] = NoCard]
  /\ thumbs' = [thumbs EXCEPT ![job[w].rid] = None]
  /\ pc' = [pc EXCEPT ![w] = "commit"]
  /\ Unseen("delete")
  /\ UNCHANGED <<blobEngine, recordStore, lock, job, late, failures>>

CommitSave(w) ==
  /\ pc[w] = "commit"
  /\ job[w].kind = "save"
  /\ records' = [records EXCEPT ![job[w].rid] = job[w].rec]
  /\ seq' = seq + 1
  /\ late' = [late EXCEPT ![job[w].rid] = "none"]
  /\ Return(w)
  /\ UNCHANGED <<blobEngine, blobStore, failures, check>>

CommitDelete(w) ==
  /\ pc[w] = "commit"
  /\ job[w].kind = "delete"
  /\ records' = [records EXCEPT ![job[w].rid] = None]
  /\ late' = [late EXCEPT ![job[w].rid] = "none"]
  /\ Return(w)
  /\ UNCHANGED <<blobEngine, seq, blobStore, failures, check>>

\* What is left behind when a call of kind k ends after the blob's commit alone.
LateAfter(before, k) == IF k = "delete" \/ before = "delete" THEN "delete" ELSE "put"

\* The blob store has committed and the record transaction does not: its Commit
\* returns an error, as it does when the operation's context was cancelled.
CommitFails(w) ==
  /\ pc[w] \in {"commit", "cancelled"}
  /\ failures < MaxFailures
  /\ failures' = failures + 1
  /\ late' = [late EXCEPT ![job[w].rid] = LateAfter(@, job[w].kind)]
  /\ Return(w)
  /\ UNCHANGED <<blobEngine, recordStore, blobStore, check>>

\* The process ends and is started again; SQLite rolls the transaction back.
Crash ==
  /\ lock # Nobody
  /\ IF pc[lock] # "blob"
     THEN /\ failures < MaxFailures
          /\ failures' = failures + 1
          /\ late' = [late EXCEPT ![job[lock].rid] = LateAfter(@, job[lock].kind)]
     ELSE UNCHANGED <<late, failures>>
  /\ lock' = Nobody
  /\ pc' = [w \in Writers |-> "idle"]
  /\ job' = [w \in Writers |-> NoJob]
  /\ check' = NotChecking
  /\ UNCHANGED <<blobEngine, recordStore, blobStore>>

----------------------------------------------------------------------------
(* BasicIntegrity: the ids of the records are read under the mutex, those  *)
(* of the blobs later and without it, between a call's two commits too.    *)

RecordRids == {r \in Ids : records[r] # None}

\* RIDs(): pblob goes through all keys, thumbnails included.
BlobRids == {r \in Ids : cards[r] # NoCard \/ (blobEngine = "pblob" /\ thumbs[r] # None)}

ReadRecordRids ==
  /\ check.step # "read"
  /\ lock = Nobody
  /\ check' = [step |-> "read", rids |-> RecordRids, since |-> {}]
  /\ UNCHANGED <<blobEngine, recordStore, blobStore, lock, pc, job, late, failures>>

\* [mutant] every record has a blob, the blobs without a record do not count.
BasicIntegrityOneWay == Cardinality(check.rids) <= Cardinality(BlobRids)

\* It compares how many ids there are in the two stores.
BasicIntegrity == Cardinality(check.rids) = Cardinality(BlobRids)

ReadBlobRids ==
  /\ check.step = "read"
  /\ check' = [step |-> "done", ok |-> BasicIntegrity]
  /\ UNCHANGED <<blobEngine, recordStore, blobStore, lock, pc, job, late, failures>>

CatalogNext ==
  \/ \E w \in Writers :
       \/ \E url \in Urls, v \in Versions : StartSave(w, url, v)
       \/ \E r \in Ids : StartDelete(w, r)
       \/ Rollback(w) \/ PutBlob(w) \/ PutCancelled(w) \/ DeleteBlob(w)
       \/ CommitSave(w) \/ CommitDelete(w) \/ CommitFails(w)
  \/ Crash \/ ReadRecordRids \/ ReadBlobRids

CatalogSpec == CatalogInit /\ [][CatalogNext]_catalogVars

----------------------------------------------------------------------------
(* Properties *)

\* The card of every record is there, in the record's version, with its
\* thumbnail (GetCardBytes(rec.UpdateTime) of export and upload reads it).  Two
\* things take it away: calls that failed between the two commits, and sqlblob,
\* which prunes after the insert (store.go:253) and so drops a version that is
\* older than all MaxVersions stored ones.
RecordHasCard == \A r \in RecordRids :
  LET rec == records[r]
      stored == VersionsOf(cards[r])
  IN  lock = Nobody =>
        \/ cards[r][rec.version] = rec.url /\ thumbs[r] = rec.url
        \/ late[r] = "delete"
        \/ late[r] = "put" /\ Cardinality(stored) >= MaxVersions
        \/ blobEngine = "sqlblob" /\ Cardinality(stored) = MaxVersions /\ \A v \in stored : v > rec.version

\* A call that fails before the blob store's commit, or with a crash before it,
\* leaves the stores as they were: an item is in both stores or in neither,
\* unless a call on it ended between the two commits.
AgreeUnlessLate == lock = Nobody =>
  \A r \in Ids : late[r] = "none" => (r \in RecordRids <=> r \in BlobRids)

\* Comparing the numbers of ids, read one after the other, is as good as comparing
\* the ids as long as nothing is deleted (the facade has no delete): a check that
\* passes saw the same ids in both stores, though cards were saved meanwhile.  One
\* that fails, which ends the whole integrity operation (sync_integrity.go:48),
\* does so because the stores differ or because of a card saved meanwhile.
IntegrityIsExact == [][(check.step = "read" /\ check'.step = "done") =>
  /\ (check'.ok /\ "delete" \notin check.since \cup {late[r] : r \in Ids}) => check.rids = BlobRids
  /\ ~check'.ok => check.since # {} \/ \E r \in Ids : late[r] # "none"]_catalogVars

\* The two stores hold the same items whenever no call is under way (README.md:45,
\* "Ensures transactional consistency between stores").
StoresAgree == lock = Nobody => RecordRids = BlobRids
==============================================================================
