# card-client in TLA+

Models of card-client (a client library that imports, updates, stores and exports
character cards), their model checking with TLC, and proofs with TLAPS.  Paths
and lines below are those of the repository (`src/...` is left out).

## The system

| Component | State | Operations | Talks to |
|---|---|---|---|
| item tracker (`tracker`, `tracker/mutracker`) | map from item to lock, RWMutex over the map, an atomic flag per lock | LockItem, UnlockItem, IsItemLocked, LockedItems | called by the workers of updates, integrity checks, exports |
| operation registry (`operation/opcache`) | map of entries (report, cancel function, mutex), dirty flag, count of active operations | NewOperation, MutateReport, MarkTerminated, Cancel, ListReports, HasChanges | written by workers, polled by clients |
| blob stores (`store/blob/pblob`, `sqlblob`) | versions of each card, thumbnail | Put (with pruning), DeleteVersion(s), Delete, reads, transactions | called by the catalog |
| record store (`store/record/erecord`) | SQLite tables of records, creators, tags, full-text index; one RWMutex | SaveRecord, RestoreRecord, Update..., ToggleFavorite, Delete, queries, WithTx | called by the catalog |
| catalog (`store/catalog`) | the two stores above | SaveCard, RestoreCard, Delete, BasicIntegrity, FixRecordIntegrity | called by the facade and the library |
| vault manager (`facade/vault.go`) | the loaded vault, an RWMutex | LoadVault, UnloadVault, beginReadOp | every operation of the facade |
| vault library (`library/fslibrary`) | map of vaults, directories | Create, Load, Delete, ImportVault and its worker | vault manager, registry, catalog |
| workers (`facade/sync_*.go`, `export_*.go`) | one goroutine per operation, parallel handlers per card | UpdateCards, ImportURLs, CheckIntegrity, ExportLatestCards, ExportVault | tracker, registry, catalog, result cache, websites |
| result cache (`facade/cache.go`) | requests (card, operation) waiting | Push, HasRequests, Flush | workers push, clients flush, reads the loaded vault |
| favorites, queries, uploads (`facade`) | pending uploads | toggles, reads, LoadLocalCard, AcceptLocalCard | catalog |
| ent code (`store/record/erecord/ent`) | none: generated builders of statements over the tables | mutations, creates, updates, deletes, queries, predicates | called by the record store only |
| templates (`store/templater`) | none | what a token stands for | exports |
| preferences, credentials, client composition | files, keyring, none | I/O, wiring | |

What is hard here: everything runs on goroutines under five kinds of locks that
are taken and given back independently (map of trackers, item, record store,
vault, registry map and entries); a card lives in two stores that commit one
after the other; a worker holds what it read across network requests;
operations end by cancellation at any point; clients poll.  `PROJECT.json`
lists the hazards one by one, with the properties that guard against each.

What makes each component correct:

* tracker: one goroutine per item, everyone is served, no unlock of an
  unlocked mutex (which ends a Go process), the flag tells the truth;
* registry: a change is announced, a message is delivered once, the end of an
  operation is reported exactly once and in the end, cancelled is cancelled;
* blob stores: at most MaxVersions versions, never the newest lost, both engines are one store
  of whole cards whatever their keys and tables;
* catalog: a record's card is there; the stores agree unless a call ended
  between its commits; the check of their agreement is exact when nothing saves meanwhile;
* vault manager and library: nobody uses a closed catalog, none stays open, imports keep apart;
* record store and integrity: search and tag names stay in step with the cards,
  checks converge, filters find what they ask for, a failing statement leaves
  nothing of its call, an exported vault is restored as it was;
* result cache and operations: each request is answered once, a report adds up, an end is final, every operation ends;
* workers: an update never goes back, an export is marked with what was
  written, a favorite is never lost, every card is dealt with.

## Modules

| Module | Models | Extends |
|---|---|---|
| `ItemLock` | what `tracker.Service` promises (abstract) | |
| `MuTracker` | `mutracker.go`, `muresource.go`, step by step | |
| `MuTrackerProofs` | theorems about MuTracker, refinement of ItemLock | MuTracker |
| `OpRegistry` | `opcache.go`, step by step | |
| `OpRegistryProofs` | theorems about OpRegistry | OpRegistry |
| `BlobOps` | what Put and pruning do to the versions of a card (pure) | |
| `BlobStore` | what a blob store promises, on whole cards (abstract) | BlobOps |
| `BlobEngines` | `pblob` on Pebble's ordered keys, `sqlblob` on two tables | BlobOps |
| `BlobEnginesProofs` | theorems about BlobEngines, refinement of BlobStore; lemmas about BlobOps | BlobEngines |
| `CardCatalog` | catalog over record store and blob store, with failures | BlobOps |
| `CardCatalogProofs` | theorems about CardCatalog | CardCatalog, BlobEnginesProofs |
| `VaultManager` | `vault.go` and the library's vaults and imports | |
| `ResultCache` | `cache.go` | VaultManager |
| `Operations` | a whole background operation of each kind, with its clients | ResultCache |
| `OperationsProofs` | theorems about VaultManager, ResultCache and Operations | Operations |
| `SyncService` | one card's way through updates, exports, integrity checks, imports | ItemLock |
| `SyncServiceProofs` | theorems about SyncService | SyncService |
| `RecordOps` | what saving, deleting, cleaning up and repairing do to records and cards (pure) | |
| `RecordStore` | a vault's records under saves, field updates, deletes and integrity checks (abstract) | RecordOps |
| `RecordStoreProofs` | theorems about RecordStore and RecordOps | RecordStore |
| `EntTables` | the tables of the record database and what a statement does to them | |
| `EntBuilders` | the generated builders that write: mutation, create, upsert, update, delete | EntTables |
| `EntQueries` | the generated queries and predicates, the store's filters and reads | EntBuilders |
| `ExportFiles` | the templates' tokens, the names of exported files, the files an import takes | EntQueries |
| `EntStore` | `erecord/store.go`, statement by statement; ExportVault and ImportVault | ExportFiles |
| `EntStoreProofs` | theorems about EntStore, refinement of RecordStore | EntStore |
| `MC...` | constants and symmetry for TLC | the module of that name |

Three detailed modules implement abstract ones: `MuTracker` implements
`ItemLock`, `BlobEngines` implements `BlobStore`, and `EntStore` implements
`RecordStore`; each is model-checked and proved.  What is built on a component uses
its abstract module: the workers of `SyncService` lock with `ItemLock`, the
catalog of `CardCatalog` puts with the operators of `BlobOps`.

How state and actions correspond to the code:

* **MuTracker.** `trackers`, `readers`/`writer` are the map and its RWMutex (a
  writer announces itself and then drains the readers, as Go's does), `owner`
  and `locked` are a resourceMu's mutex and flag; `arg` and `state` are a call's
  local variables.  LockItem's fast path, the second look under the write lock,
  the mutex and the flag are separate actions, so are the compare-and-swap and
  the unlock of UnlockItem.  Items in `Unowned` are also unlocked by goroutines
  that do not hold them.
* **OpRegistry.** One action per access of the map, of an entry under its mutex
  and of each atomic.  Reports are abstracted to a status and the list of
  messages (AuxData); a history records which changes each listing has shown.
* **BlobOps, BlobStore.** A card is a function from version (UpdateTime) to
  content.  `engine` chooses pblob (prune, then insert, not for a version that
  exists) or sqlblob (insert, then prune).  BlobStore also has what Pebble still
  keeps under a key that was set twice, because DeleteVersion is a SingleDelete.
* **BlobEngines.** Pebble's keys are prefix, id and version with its sign bit
  flipped, in their byte order; deletes and scans are the keys of a range
  (`InRange`, `DeleteRanges`), and what is listed is sorted (`SignBit` is the sign
  bit, so versions are numbers below it).  A call is one indexed batch that commits or not; a
  cancelled context makes the list of versions empty and lets the batch commit.
  The rows of sqlblob's two tables have a generated id, and its pruning is a delete of
  the rows a query selects.
* **CardCatalog.** It has the record store's mutex (`lock`), the committed
  records and the AUTOINCREMENT counter; a call is Start (begin, SaveRecord),
  PutBlob or DeleteBlob (the blob store's own commit, also with a cancelled context:
  PutCancelled), Commit; Rollback, CommitFails and Crash are the ways to end
  early.  `late` remembers which items were left between the commits.
  BasicIntegrity reads the ids of one store and then, in a second step, of the other.
* **VaultManager.** A catalog is an entry of `catalogs`; `readers` and `writer` are
  vaultMu.  Refused calls (busy, loading, no vault) change nothing and are not steps.
* **ResultCache.** HasRequests, the taking of the requests and the reading
  of records are steps of a flush (`batch`); a request is a card and the operation
  that asked for it, and `answers` counts what each has been answered.
* **Operations.** An operation's `stage` is where its goroutine is: begun, counted,
  at its cards, ending, looking at its context, terminated.  Each kind finds its cards in
  its own way, and with its own errors; the scheduler hands at most `Workers`
  of them out; a handler deals with a card, pushes to the cache, and reports, in
  three steps.  `uncounted` (a history) is what Total counts and no handler is given.
  Stage "lost" is ImportURLs returning without MarkTerminated.
* **SyncService.** Every call of the catalog is one step (the record store's
  mutex makes it so), every request to a website is one, and the item is locked
  with the actions of ItemLock.  A record is its version, sync status, exported
  version and favorite.  `intruded`, `unmarked` and `wanted` are histories.
* **RecordOps, RecordStore.** A vault's records, creators, tags, full-text rows
  and sheets are one record of functions, `vault`; each call
  is one exclusive transaction, hence one operator and one step.  Creators take
  the nickname given last, tags keep the name given first, fts collects a row
  per save, as the SQL statements have it.  `snapshot` is the list of records that
  CheckIntegrity reads when it begins; a repair is decided (CheckOne) and then saved
  (Repair), with other calls in between.  FixIntegrity is followed condition by
  condition; the descriptive fields are one title.  Update times have
  a unit finer than the seconds a sheet keeps.  Whole checks are folds over the
  records in any order.
* **EntTables, EntBuilders, EntQueries, EntStore.** `db` holds the rows of the
  tables, the pairs of the edge table and the AUTOINCREMENT counter.  A statement
  checks unique indexes and foreign keys, cascades, fires the delete trigger
  of fts, and gives a database, an id and an error.  A mutation is the set of
  columns that were given a value and what it does to the edges; setters are
  grouped as the columns are.  A call of the store is the sequence of statements
  of `store.go`, one after the other, of which one may fail (`Failures`), and a transaction that
  commits or rolls back.  Predicates are sets of rows; joins, ordering, limits and
  counts are followed as the query builder writes them.  An export followed by an
  import is one expression on the present state (`ExportVault`, `ImportVault`): no
  call runs in between.
* **ExportFiles.** A path is the sequence of the values that the template's tokens have in
  a record, and whether it ends in .png; the text between tokens and the characters that
  `filex` replaces are left out.  An exported folder is an index and a function from file names to
  cards, and an import reads the id from the name, as `buildCardFileMap` does.

## Runs

| Run | Question | Instance |
|---|---|---|
| `mutracker` | do the item locks exclude, is everyone served, do they implement ItemLock? | 2 goroutines, 2 items (1 unowned), 3 mutexes, fair |
| `registry` | are changes, messages and ends reported, and once, and always? | 1 operation, 2 clients, 3 messages, fair |
| `blob` | do the keys and tables implement whole cards, what stays after puts, deletes, compactions? | 2 cards, 3 versions, 2 kept, 2 contents |
| `catalog` | when do the two stores agree, which cards can be lost, what is the check worth? | 2 callers, 2 URLs, 3 versions (2 kept), 3 ids, 2 late failures |
| `catalog_agreement` | do they always agree? (no) | the same |
| `vault` | who uses which catalog? | 3 goroutines, 2 vaults, 3 catalogs |
| `operations` | do reports add up, is the end final, is every request answered, does every operation end? | 1 operation of any kind and of up to 2 cards, 2 handlers, 2 clients, 1 vault, 2 catalogs, fair |
| `sync` | do workers on one card spoil each other's work, is every card dealt with? | 2 workers, 1 card, 3 versions, fair |
| `stale_repair` | does a repair work on the current record? (no) | 3 workers, 1 card, 2 versions |
| `records` | do search, tags and integrity stay right? | 2 cards, 2 creators, 2 nicknames, 2 tags, 3 update times |
| `second_check` | is a repaired record OK? (no) | the same |
| `ent` | do the statements implement whole calls, are constraints and filters right, does a vault survive export and import, can two cards get one file? | 2 cards, 2 ids, 2 update times, filters of every kind, failures at the first and the last statement |

Why these bounds: the races of the tracker and the registry are between two
goroutines at one item or entry; a second item shows that items do not disturb
one another, and `OpRegistryProofs` covers several operations.  Two kept versions are the least for which prune-then-insert and
insert-then-prune differ, and three versions prune more than once.  In `blob` the second card
has the next id and one version, so that a range that is one key too long would
reach it, and a version is offered with two contents, so that a put may repeat.
Two late failures lose a card when two versions are kept, and three ids let an id that was given back
be given out again.  Three goroutines let a load, a user and an import meet.
In `operations` two handlers of one operation race for its report, and two
clients load, unload, cancel and flush; operations meet one another only at
the vault (`vault`), the registry (`registry`) and the cards (`sync`).  Two items
never share state but for the map of trackers, so workers meet at one card, and their
races there are between two.  In `records` the two cards share a creator, who
changes nickname, and a tag with two names; what the website gives
(`MCFetched`) is right, or wrong in one or in several fields, and two of the
update times fall in one second.  Two checks do not suffice there, three do.
In `ent` the second card later takes the first one's character id, which
breaks a unique index, and loses a tag; a failure of the first statement and of the last
are the two ends of what a rollback has to undo; three templates are the default, one by the
character's id, and one whose files an import does not take.
`VaultManager` is run with `Exclusive = FALSE`, which allows every behaviour that
a locked directory (`TRUE`) allows.  Symmetry is used in `catalog` and
`vault` only, which check no liveness.

Bounds on counters and inputs, all named: `MaxSeq`, `MaxFailures` (CardCatalog),
`MaxCatalogs`, `MaxVaults` (VaultManager), `MaxVersion` (SyncService), `MaxMessages`
(OpRegistry), `MaxRid` (EntStore); reaching one disables the action that would exceed it.
`MaxTime` bounds the update times a website may give, `MaxMarked` how many cards
are favorites, exported or failed at once, `ImportTimes` the times of imports, `Failures` the statements that
may fail (EntStore), `Offered` what is put (BlobEngines).  Deadlock is checked in
every run.

### Where the code does otherwise

* `catalog_agreement`: the blob store keeps a card whose record was rolled back,
  against README.md:45; the id of that record goes to the next import.
* `stale_repair`: `CheckIntegrity` repairs from records read when it began and
  imports save without the item's lock, against README.md:131.
* `second_check`: the first half of FixIntegrity's `||` keeps the second from
  running (store/resource/resource.go:61), and clearing the time of a book that is gone
  changes what the sheet was compared with: a record reported FIXED is FIXED again
  by the next check, against store/catalog/catalog_test.go:1414.

The properties of the passing runs state other limits of the code openly:
a put may be pruned at once (`LastPutReadable`, sqlblob), a card goes back to an
older version by a repair or an import (`UpdatesMoveOn`), `BasicIntegrity` may answer
wrongly while something saves (`IntegrityIsExact`), one import never ends (`OperationsEnd`).

## Fairness

`MuTracker` (`SF_vars(Step(t))`): the Go scheduler runs every goroutine that can
go on, a holder comes back to unlock (the facade defers it), and Go's mutexes do
not starve (a waiter of more than 1 ms gets the mutex next; a waiting writer keeps
new readers out), so a goroutine whose step is possible again and again takes it.
`OpRegistry` (strong fairness of `Work` before the end, `List` and `Poll`): the
worker goes on to MarkTerminated, and a client polls and lists; strong, because
they contend for the same mutexes.
`SyncService` (`WF_vars(WorkerStep(t))`, `SF_vars(Acquire(t))`): workers go on, a
request to a website ends with an answer or an error, and the tracker serves who
waits, which is what `LockItemReturns` shows.
`Operations` (weak fairness of `OperationStep(o)`, and of a client's `FlushGoesOn`
or `LoadGoesOn`): an operation that has begun is a goroutine that goes on, its
handlers return (what `CardsAreDone` shows of one card), and a client that has
begun a flush or a load finishes it.  Weak is enough: vaultMu is only tried, so
nothing a goroutine is about to do is taken from it.
Nothing is assumed of users, websites or of who begins an operation, loads or cancels.

## Proofs

All theorems hold for any number of goroutines, items, operations, clients,
vaults, cards, versions, creators, tags and values.  Assumed are only the named assumptions
on constants: the bounds are natural numbers (`BoundsAreNats`), `None` and `Nobody` are none of the others
(`NoneIsNoValue`, `NoneIsNoRow`, `NoneIsNoData`, ...),
versions are natural numbers and slugs finitely many integers (they have an order; `SlugsAreInts`), at least two versions are kept
(`AtLeastTwo`), the cards of one operation are finitely many (`CardsAreFinite`), a website gives
only metadata and sheets (`FetchedIsWhatMayBeSaved`), what is put are contents under versions
(`OfferedIsWhatMayBePut`), ids are natural numbers and versions fit below the sign bit of a key
(`RidsAreNats`, `VersionsFit`), filters, templates and times of imports are such (`FiltersAreFilters`,
`TemplatesAreTemplates`, `ImportTimesAreTimes`), and a second has at least one unit (`SecondsAreNats`).
TLC evaluates each in a run.

* `MuTrackerProofs`: `TypeCorrect`, `MutualExclusionHolds`, `FlagAccuracyHolds`,
  `NoFatalUnlockHolds` and `TrackerImplementsItemLock`.  The invariant ties each
  program counter to what its goroutine owns: who is past the mutex is the owner
  of the resourceMu that the map has for its item, no two items share one, and a
  flag is set only while its owner is between setting and clearing it.  Mutual
  exclusion alone is not inductive: it needs that an item's entry in the map
  never changes once it is there, and that the write lock covers the second look.
  The refinement maps `holder[r]` to the goroutine between LockItem's return and UnlockItem.
* `OpRegistryProofs`: `TypeCorrect`, `NoLostChangeHolds`, `MessagesDeliveredOnceHolds`,
  `EndReportedOnceHolds`, `CancelIsReportedHolds`, `ActiveCountHolds`.
  A change not shown yet implies that the flag is set, or that its writer is
  just before setting it, or that a client has cleared it and is still to list.
  The active count is a cardinality: each step adds one operation to the set it
  counts, takes one away, or leaves it, and counting twice is excluded because
  only one caller moves the status from ONGOING.
* `OperationsProofs`, of VaultManager: `UsedIsOpenHolds`, `OpenIsHeldHolds`, `ImportsApartHolds`.
  The invariant says who is inside vaultMu (`Locks`), that the handles of those
  who use, close or import are indices of catalogs (`Handles`), and that a
  catalog in somebody's hands is the loaded one or is nobody else's (`Apart`);
  "nobody uses a closed catalog" alone is not inductive, because closing
  needs that the closed one is not the loaded one and that no reader is left.
* `SyncServiceProofs`: `TypeCorrect`, `ExportIsMarkedHolds`, `FavoriteKeptHolds` and the action
  property `UpdatesMoveOnHolds`.  The invariant says of each worker what its stage lets it rely on
  (`StageOf`: an export between writing and marking has read the version that is
  in the file; an update about to save has fetched something no older than
  the record, unless an import intruded) and of each card how record, file and
  website relate (`Stored`, `Marked`).  Two lemmas carry the steps: one for workers
  that leave the data alone, one for those that change what is kept of their
  card, where the item's lock keeps all others inside away.

* `BlobEnginesProofs`: `EnginesImplementBlobStore`, `BlobsRetained`, `BlobsReadable` and the action property
  `NewestDoSurvive`.  The refinement reads whole cards out of the keys and the rows, and the
  proof goes the other way about: what each operation of an engine does to the card of every
  item.  At its base is what `BlobOps` says of a Put (`AfterPutKeeps`): at most MaxVersions versions
  if the card had no more, the one just put unless sqlblob finds all the others newer, and every
  other unless a put pruned it.  Three layers carry the rest.  A set of numbers or keys that is sorted is listed by rank, so
  the k-th of a list has k - 1 before it; this turns "all but the last MaxVersions - 1" of
  pblob and "the newest MaxVersions" of sqlblob's query into the newest n of
  `BlobOps`.  The order of the keys says that an item's range holds its
  card and its thumbnail and nothing of the next item, and that a version's sign bit does
  not change the order.  Then a put, a pruning, a delete and a compaction are followed
  on each item, and each call is a step of `BlobStore` or a stutter.  The invariant adds to the types
  (`TypeInv`) that a card is within MaxVersions as far as pruning can see (`Few`) and
  that the last Put's content is there until something deletes it (`LastIsThere`).  Both are said
  of whole cards, and so are proved once for both engines.
* `CardCatalogProofs`: `TypeCorrect`, `RecordsHaveCards`, `StoresAgreeUnlessLate` and the action
  property `CountingIsExact`.  None of the three properties is inductive: between the two
  commits they do not hold, and whether the commit or the rollback comes is open.  The invariant says that
  every item but that of the call under way is settled (`Settled`: record and card agree or
  `late` says why not; what a Put left of a card is cited from `BlobEnginesProofs`, whose lemmas
  about BlobOps assume nothing of the engines), and that what a call has done so far would settle its item
  whichever way it ends (`Saves`, `Deletes`).  Of a check it says which of the
  ids it read may be stale (`Checking`), from which comparing two cardinalities is exact
  because one of the sets is part of the other.
* `OperationsProofs`, of Operations: `OperationsTypeCorrect`, `RequestsAnsweredOnce`, `ReportsAdd`, `EndsAreFinal` and
  `EndsStay` (after its end an operation's status, report and cards never change, and
  it pushes nothing more).  The invariant has three parts that share few variables, so that a step
  of one leaves the others as they were: the vault's lock and catalogs (`VaultOk`), the requests
  (`CacheOk`, `BatchesHeld`) and the operations (`OpsOk`).  `ReportAdds` alone says nothing of a
  report before its end; `Tally` equates its counters with the cardinalities of the cards that are
  reported and that were given out, at every stage.  `Course` says what a stage
  has behind it: no handler is at work past the cards, none waits when the
  context was found alive.  `PushesDealt` (a request is pushed exactly when the
  handler has its result) gives both the requests that `EndIsFinal` counts
  and that no request is pushed twice, without which `AnsweredOnce` would not be inductive.
* `RecordStoreProofs`: `RecordTypesCorrect`, `RecordsSearchable`, `CardsHaveTagNames` and `ChecksDoConverge`.
  The invariant says of every card what its row refers to (`Kept`: its creator and its tags
  are there, its sheet is in its version, its text in fts, the sheet's tags are the names
  of the row's) and of a check that what it holds was a record once (`Checking`); the creators are
  needed because CleanupCreators deletes some.  The order of a card's tags is that of their slugs:
  `EveryPlace` shows that ranks fill it without a gap.  `ChecksDoConverge` follows one card
  through three checks: the first sets the sheet right; the second, which finds the sheet right,
  sets the record's own fields right but may, by the book's time, change what the
  sheet is compared with; the third sets the sheet right again and leaves the record as it is.  That
  a check of the others does not undo it, for any number of cards in any order, is an induction
  over the length of the fold: the shortest fold that went wrong would have a shorter one
  before it.  It holds for any record and sheet, not only for those in `MCFetched`.
* `EntStoreProofs`: `InOrderInvariance`, `DuplicatesOnly`, `FilesApart`, `FiltersMean`, `CardsHeld`,
  `TablesImplementRecordStore` and `ImportDoesRestore`.  The first invariant is that the tables are in order (`DbOk`: a row refers to
  rows that are there, no two records agree on a unique index, ids are within the counter).
  The statements of a SaveRecord are followed once: when none fails, what they leave is one
  equation (`Saved`), and they fail only where another record has one of the ids or where a
  failure is injected, so a constraint means a duplicate and foreign keys never break.
  A filter is proved predicate by predicate: each names a set of rows, a join or subquery
  finds the same set, and as every record has one creator and a tag at most once, no row comes
  twice.  `CardsHeld` adds what a vault is for: every record's card is in its version, with the tag
  names of the tables and with its text in fts, no card is kept without its record, a running check
  has read each record once, and no status is unknown to the abstract module.  For the
  refinement (`VaultOf`, `ReadIn`: records are named by their URL, not by their id) each
  action of `EntStore` is a call of `RecordStore` or a stutter: a URL names
  one row because it is a unique index, whatever ids were given out, given back and given out again.  An import is followed transaction by
  transaction (`Restored`: the first n cards of the order are there under ids 1 to n, and every tag
  and creator is as in the vault exported or not there yet); its next card is never in conflict,
  since the unique indexes of the vault exported keep the two records apart.

Induction over numbers is done through the least number that fails, which needs no operator as
a parameter (`MinExists`, and the well-foundedness of < that the library states).

Left to TLC:

* liveness (`LockItemReturns`, `EndIsSeen`, `CardsAreDone`, `OperationsEnd`), which needs fairness.  The invariants and
  action properties of the passing runs are all proved.

## Not modelled

* Local upload (`facade/upload.go`): a map of pending cards under one mutex.
  `uploadService.catalog` is never set (facade/facade.go:93), so accepting a
  pending card panics, and there is no behaviour after it.
* Templates that do not tell cards apart: two cards may get one path, and then one file.
  `ExportedApart` is about those with the website and an id, and `SyncService` gives every card a file.
  CREATE_DATE and UPDATE_DATE are replaced by seconds (templater.go:83-89), so they are as CREATE_TIME and UPDATE_TIME.
* Wiring (`client`, `facade.go`), preferences and credentials: no protocol of their own.
* The bytes of images and thumbnails, the names of folders, the manifests of vaults.
* Generated code that the store never calls (eager loading of edges it does not
  ask for, `Only`, `GroupBy`, hooks, tracing) and the parts of a builder that are the same
  column after column: one column stands for its group (EntTables names the groups).

## Plan

Done: every module above with its runs; every invariant and action property of the passing
runs proved, and the three refinements.  What would come next:

1. The vault that a request is about (a flush after another load), and the compiled template
   that an export service keeps.
2. Half-open catalogs (Load failing between its two stores).
