------------------------------ MODULE EntStore -------------------------------
(***************************************************************************)
(* The record store as it is written: each call of the store is a sequence *)
(* of statements on tables that one transaction commits or rolls back, and *)
(* the store's mutex, which all of its copies share, lets nothing read or  *)
(* write between them; the catalog puts or deletes cards by record id in   *)
(* the last step of a transaction (that step's failures are CardCatalog's  *)
(* subject).  The result implements RecordStore.                           *)
(***************************************************************************)
EXTENDS ExportFiles

CONSTANTS
  Fetched,       \* Fetched[u]: what FetchAll may give for u, as in RecordStore, and the card's ids
  ImportTimes,   \* bound: times of imports
  Failures,      \* bound: the statements that may fail (a lock, the disk)
  MaxMarked,     \* bound: fields that are not as an import leaves them
  Filters        \* the filters that FilterMeans compares

ASSUME FiltersAreFilters == Filters \subseteq ResourceFilters
ASSUME ImportTimesAreTimes == ImportTimes \subseteq 0 .. MaxTime

VARIABLES
  db,         \* the committed tables
  sheets,     \* sheets[rid][t]: the sheet in the card's version t
  checking,   \* as in RecordStore ...
  snapshot,   \* ... with the entities that were read
  repair

vars == <<db, sheets, checking, snapshot, repair>>

----------------------------------------------------------------------------
(* The refinement *)

RidOf(u) == CHOOSE r \in Records(db) : db.records[r].normalized_url = u
StoredUrls == FindURLs(db, Urls)

\* The metadata in an entity, without its ids: ToMetadata of the record mapped from it.
MetadataOf(e) ==
  [creator |-> e.columns.creator_id, nick |-> e.creator.nickname, title |-> e.columns.title,
   update |-> e.columns.update_time, book |-> e.columns.book_update_time,
   greetings |-> e.columns.greetings_count,
   names |-> [s \in {t.id : t \in ToSet(e.tags)} |-> (CHOOSE t \in ToSet(e.tags) : t.id = s).name]]

KeyOf(e) == [c \in {"source", "normalized_url", "platform_id", "character_id"} |-> e.columns[c]]

AbstractRow(r) ==
  LET row == db.records[r]
  IN  [creator |-> row.creator_id, tags |-> {s \in Slugs : <<r, s>> \in db.record_tags},
       title |-> row.title, update |-> row.update_time, book |-> row.book_update_time,
       greetings |-> row.greetings_count, mark |-> row.favorite, status |-> row.sync_status]

AbstractVault ==
  [rows     |-> [u \in Urls |-> IF u \in StoredUrls THEN AbstractRow(RidOf(u)) ELSE None],
   creators |-> db.creators,
   tags     |-> db.tags,
   fts      |-> [u \in Urls |-> {row.text : row \in {x \in db.fts : u \in StoredUrls /\ x.id = RidOf(u)}}],
   sheets   |-> [u \in Urls |-> IF u \in StoredUrls THEN sheets[RidOf(u)] ELSE [t \in 1 .. MaxTime |-> None]]]

\* What was read of a record that is deleted is no longer checked.
Checkable == {e \in snapshot : e.id \in Records(db)}

R == INSTANCE RecordStore WITH
       vault <- AbstractVault,
       snapshot <- [u \in {e.columns.normalized_url : e \in Checkable} |->
                      MetadataOf(CHOOSE e \in Checkable : e.columns.normalized_url = u)],
       repair <- IF repair = None THEN None
                 ELSE [url |-> repair.key.normalized_url, record |-> repair.metadata, sheet |-> repair.sheet]

ASSUME FetchedIsWhatMayBeSaved == \A u \in Urls : \A f \in Fetched[u] :
  /\ f.key \in [source : Sources, normalized_url : {u}, platform_id : Ids, character_id : Ids]
  /\ f.metadata \in R!Metadata /\ f.sheet \in R!Sheets

ASSUME NoneIsNoData ==
  /\ None \notin R!Sheets /\ None \notin R!Rows
  /\ None \notin [url : Urls, record : R!Metadata, sheet : R!Sheets]
  /\ None \notin [key : [source : Sources, normalized_url : Urls, platform_id : Ids, character_id : Ids],
                  metadata : R!Metadata, sheet : R!Sheets]

----------------------------------------------------------------------------
(* Statements and transactions                                             *)

UpsertTags(d, names) == InsertTags(d, MapCreateBulk(names))

UpsertCreator(d, cid, nick) == UpsertCreatorRow(d, NewCreator(cid, nick))

\* The row of a card that is saved.
SavedRow(time, key, m) ==
  [import |-> time, source |-> key.source, normalized_url |-> key.normalized_url,
   platform_id |-> key.platform_id, character_id |-> key.character_id, title |-> m.title,
   creator_id |-> m.creator, update_time |-> m.update, book_update_time |-> m.book,
   greetings_count |-> m.greetings, sync_status |-> "SUCCESS", exported |-> -1, favorite |-> FALSE]

\* SaveRecord leaves the import, the export and the favorite of a known card.
SavedColumns == UpdateSync(UpdateGreetingsCount(UpdateTimes(UpdateDescription(UpdateIdentity({})))))

\* [mutant] a conflict on the character's id is resolved.
SaveConflictOnId == OnConflictColumns({"source", "character_id"}, SavedColumns)

SaveConflict == OnConflictColumns({"normalized_url"}, SavedColumns)

\* [mutant] a restored card is marked like a new one.
RestoredRowAsNew(rec) == SetFavorite(BuildRecord(rec.columns), FALSE)

\* The row of a record that is restored.
RestoredRow(rec) == BuildRecord(rec.columns)

\* INSERT OR REPLACE into fts, where no column is a key.
UpsertFTS(d, r, text) == Ok([d EXCEPT !.fts = @ \cup {[id |-> r, text |-> text]}], r)

ReplaceTags(d, r, tids) == UpdateOneRecord(d, r, AddTagIDs(ClearTags(NewRecordMutation), tids))

\* One statement of a transaction tx for the metadata m of a card.
Statement(s, tx, m, row, conflict, text) ==
  CASE s = "tags"    -> UpsertTags(tx.db, m.names)
    [] s = "creator" -> UpsertCreator(tx.db, m.creator, m.nick)
    [] s = "record"  -> CreateRecord(tx.db, row, conflict)
    [] s = "fts"     -> UpsertFTS(tx.db, tx.id, text)
    [] s = "edges"   -> ReplaceTags(tx.db, tx.id, DOMAIN m.names)

\* The statements one after the other, up to one that breaks a constraint or is
\* the one named failing (or none).
Statements(tx, m, row, conflict, text, failing) ==
  LET Do(r, s) == IF r.err # "none" THEN r
                  ELSE IF s = failing THEN [r EXCEPT !.err = "failed"]
                  ELSE Statement(s, r, m, row, conflict, text)
  IN  Do(Do(Do(Do(Do(tx, "tags"), "creator"), "record"), "fts"), "edges")

\* SaveRecord of what the fetcher gave, or of a repair.
SaveRecord(tx, key, m, sheet, time, failing) ==
  Statements(tx, m, BuildRecord(SavedRow(time, key, m)), SaveConflict, sheet.text, failing)

\* RestoreRecord of a record that was exported.
RestoreRecord(tx, rec, sheet) ==
  LET row == RestoredRow(rec)
  IN  Statements(tx, MetadataOf(rec), row, OnConflictColumns({"normalized_url"}, UpdateNewValues(row)),
                 sheet.text, "none")

\* [mutant] what was done before the failure is committed.
CommitAnyway(tx) == Commit(tx)

\* WithTx: commit, or roll back.
WithTx(tx) == IF tx.err = "none" THEN Commit(tx) ELSE Rollback(db, tx)

TagNamesOf(rec) == [i \in DOMAIN rec.tags |-> rec.tags[i].name]

\* SaveCard: the card is put under the id and the version of the record that is
\* found then, with the names in the store.  That FindRecord fails is as a failure of
\* the last statement.
SaveCard(key, m, sheet, time, failing) ==
  LET tx  == SaveRecord(BeginTx(db), key, m, sheet, time, failing)
      rec == FindRecord(tx.db, tx.id)
  IN  /\ db' = WithTx(tx)
      /\ sheets' = IF tx.err # "none" THEN sheets
                   ELSE [sheets EXCEPT ![rec.id][rec.columns.update_time] = [sheet EXCEPT !.tags = TagNamesOf(rec)]]

\* RestoreCard: the card is put with the names of the record given; a vault is
\* [db, sheets, err] here, for it is another than the one loaded.
RestoreCard(v, rec, sheet) ==
  LET tx == RestoreRecord(BeginTx(v.db), rec, sheet)
  IN  IF tx.err # "none" THEN [v EXCEPT !.err = tx.err]
      ELSE [v EXCEPT !.db = Commit(tx), !.sheets[tx.id] = [sheet EXCEPT !.tags = TagNamesOf(rec)]]

\* ExportVault: the index of the records, and a file with the card of each in its version.
ExportVault(template) ==
  LET index == [r \in Records(db) |-> FindRecord(db, r)]
      File(r) == VaultFile(template, index[r])
  IN  [index |-> index,
       cards |-> [f \in {File(r) : r \in Records(db)} |-> sheets[f.rid][index[f.rid].columns.update_time]]]

\* The records of the index that have a file.
Items(folder) == DOMAIN folder.index \cap DOMAIN CardFiles(DOMAIN folder.cards)

\* importVaultCard, into the vault v.
ImportVaultCard(v, folder, r) ==
  RestoreCard(v, folder.index[r], folder.cards[CardFiles(DOMAIN folder.cards)[r]])

\* ImportVault of an exported folder into a new vault, the items in the given order.
ImportVault(folder, order) ==
  LET after[i \in 0 .. Len(order)] ==
        IF i = 0 THEN [db |-> EmptyDb, sheets |-> [r \in Rids |-> None], err |-> "none"]
        ELSE ImportVaultCard(after[i - 1], folder, order[i])
  IN  after[Len(order)]

\* Bound: a card is inserted only while there is an id left.
Failing(u) ==
  IF u \in StoredUrls \/ db.seq < MaxRid THEN Failures \cup {"none"} ELSE Failures \cap {"tags", "creator"}

----------------------------------------------------------------------------
(* Actions *)

Init ==
  /\ db = EmptyDb
  /\ sheets = [r \in Rids |-> [t \in 1 .. MaxTime |-> None]]
  /\ checking = FALSE
  /\ snapshot = {}
  /\ repair = None

Save(u) ==
  /\ \E f \in Fetched[u], time \in ImportTimes, failing \in Failing(u) :
       SaveCard(f.key, f.metadata, f.sheet, time, failing)
  /\ UNCHANGED <<checking, snapshot, repair>>

Delete(r) ==
  /\ r \in Records(db)
  /\ db' = DeleteWhere(db, IDIn(db, {r}))
  /\ sheets' = [sheets EXCEPT ![r] = [t \in 1 .. MaxTime |-> None]]
  /\ UNCHANGED <<checking, snapshot, repair>>

Marked(d) ==
  LET imported == [sync_status |-> "SUCCESS", exported |-> -1, favorite |-> FALSE]
  IN  {f \in Records(d) \X DOMAIN imported : d.records[f[1]][f[2]] # imported[f[2]]}

\* A call that is one statement; it may fail, which leaves everything.
Update(r) ==
  /\ Cardinality(Marked(r.db)) <= MaxMarked
  /\ db' = WithTx(r)
  /\ UNCHANGED <<sheets, checking, snapshot, repair>>

ToggleFavorite(r) == Update(ModifyFavorite(db, r))

UpdateFavoriteData(rids, favorite) ==
  Update(Ok(UpdateRecords(db, IDIn(db, rids), SetFavorite(NewRecordMutation, favorite)), 0))

\* The version of the record that was exported.
UpdateExportData(r) ==
  /\ r \in Records(db)
  /\ Update(UpdateOneRecord(db, r, SetExport(NewRecordMutation, db.records[r].update_time)))

UpdateSyncData(r, status) == Update(UpdateOneRecord(db, r, SetSync(NewRecordMutation, status)))

CheckStart ==
  /\ ~checking
  /\ checking' = TRUE
  /\ snapshot' = FindRecords(db, Rids)
  /\ UNCHANGED <<db, sheets, repair>>

\* FixRecordIntegrity of the entity, by its id, up to its SaveCard.
CheckOne(e) ==
  /\ repair = None
  /\ LET sheet == sheets[e.id][e.columns.update_time]
         fix == R!FixIntegrity(MetadataOf(e), sheet)
     IN  repair' = IF sheet = None \/ fix.integrity # "FIXED" THEN None
                   ELSE [key |-> KeyOf(e), metadata |-> fix.record, sheet |-> fix.sheet]
  /\ snapshot' = snapshot \ {e}
  /\ UNCHANGED <<db, sheets, checking>>

\* The version is the time of its import if the card was deleted in between.
Repair ==
  /\ repair # None
  /\ \E failing \in Failing(repair.key.normalized_url) :
       SaveCard(repair.key, repair.metadata, repair.sheet, repair.metadata.update, failing)
  /\ repair' = None
  /\ UNCHANGED <<checking, snapshot>>

CheckEnd ==
  /\ checking
  /\ snapshot = {} /\ repair = None
  /\ checking' = FALSE
  /\ db' = DeleteCreators(db, CreatorRows(db) \ HasRecords(db))
  /\ UNCHANGED <<sheets, snapshot, repair>>

Next ==
  \/ \E u \in Urls : Save(u)
  \/ \E r \in Rids : Delete(r) \/ ToggleFavorite(r) \/ UpdateExportData(r)
  \/ \E rids \in SUBSET Rids, favorite \in BOOLEAN : UpdateFavoriteData(rids, favorite)
  \/ \E r \in Rids, status \in R!Statuses : UpdateSyncData(r, status)
  \/ CheckStart
  \/ \E e \in snapshot : CheckOne(e)
  \/ Repair
  \/ CheckEnd

Spec == Init /\ [][Next]_vars

----------------------------------------------------------------------------
(* Properties *)

\* The statements of a transaction, with ids that the database gives out, rows in
\* four tables, upserts, cascades and a trigger, amount to one step of RecordStore
\* on whole cards, or to none (store.go:312-532, catalog.go:113-132).
ImplementsRecordStore == R!Spec

\* A save breaks a constraint only when another card has one of its ids: never for
\* the card's own row, and never for a creator or a tag that is missing.  An import
\* that calls such a card a duplicate is right (sync_import.go:181-187).
ConstraintMeansDuplicate == \A u \in Urls : \A f \in Fetched[u] :
  LET tx == SaveRecord(BeginTx(db), f.key, f.metadata, f.sheet, 1, "none")
  IN  u \in StoredUrls \/ db.seq < MaxRid =>
        /\ tx.err \in {"none", "constraint"}
        /\ tx.err = "constraint" => \E other \in Records(db) :
             LET row == db.records[other]
             IN  /\ row.normalized_url # u
                 /\ row.source = f.key.source
                 /\ row.platform_id = f.key.platform_id \/ row.character_id = f.key.character_id

\* What the parts of a filter ask: of a card's title and its creator's nickname, of
\* its row, of one of its texts, and of the names of its tags.
AskedOfStrings(tf, title, nick) ==
  \E o \in Occurs[IF tf.regex THEN "pattern" ELSE "literal"][tf.value][IF tf.field = "title" THEN title ELSE nick] :
    (tf.wholeWord => o.whole) /\ (tf.caseSensitive => o.exact)

AskedOfRow(bf, row) == bf.value <=> IF bf.field = "favorite" THEN row.mark ELSE row.book # 0

AskedOfText(cf, text) ==
  LET InField(field) == IF cf.valueMode = "ALL" THEN cf.values \subseteq Words[text][field]
                        ELSE cf.values \cap Words[text][field] # {}
  IN  IF cf.fieldMode = "ALL" THEN \A field \in cf.fields : InField(field) ELSE \E field \in cf.fields : InField(field)

AskedOfNames(tf, names) == IF tf.mode = "ALL" THEN tf.names \subseteq names ELSE tf.names # {} => tf.names \cap names # {}

\* What a filter asks of a card, in terms of the vault's content.
Asked(f, u) ==
  LET row == AbstractVault.rows[u]
  IN  /\ \A tf \in f.texts : AskedOfStrings(tf, row.title, AbstractVault.creators[row.creator])
      /\ \A bf \in f.booleans : AskedOfRow(bf, row)
      /\ f.sources # {} => db.records[RidOf(u)].source \in f.sources
      /\ f.statuses # {} => row.status \in f.statuses
      /\ \A cf \in f.contents : cf.values = {} \/ cf.fields = {} \/ \E text \in AbstractVault.fts[u] : AskedOfText(cf, text)
      /\ AskedOfNames(f.tags, {AbstractVault.tags[s] : s \in row.tags})

\* A filter finds exactly the cards that have what it asks for, each once, and
\* their number, whatever rows deletions and saves have left in the tables
\* (filter.go:90-246, store.go:147-160).
FilterMeans == \A f \in Filters :
  LET asked == {RidOf(u) : u \in {w \in StoredUrls : Asked(f, w)}}
  IN  /\ Count(db, f) = Cardinality(asked)
      /\ \A ids \in FindPagedRIDs(db, f, 0, -1) : ToSet(ids) = asked /\ Len(ids) = Cardinality(asked)

\* Importing the exported vault, in whatever order the workers take the files, fails
\* nowhere and gives the same records with other ids, and the same cards, which a
\* search finds by their text alone; every card if the template gives them names
\* that an import takes (export_vault.go, fslibrary.go:196-307, store.go:386-447).
ImportRestores == \A template \in Templates :
  LET folder == ExportVault(template)
  IN  /\ template.png => Items(folder) = Records(db)
      /\ \A order \in SetToSeqs(Items(folder)) :
           LET copy == ImportVault(folder, order)
           IN  /\ copy.err = "none"
               /\ \A i \in DOMAIN order :
                    LET rec == FindRecord(db, order[i])
                        sheet == sheets[order[i]][rec.columns.update_time]
                    IN  /\ FindRecord(copy.db, i) = [rec EXCEPT !.id = i]
                        /\ copy.sheets[i] = sheet
                        /\ {row.text : row \in {x \in copy.db.fts : x.id = i}} = {sheet.text}

\* Templates whose files are one card's each, as the default's are: a website's id
\* and the website, whose pairs the database keeps apart.
Identifying == {t \in Templates : {"SOURCE", "PLATFORM_ID"} \subseteq Range(t.tokens)
                                    \/ {"SOURCE", "CHARACTER_ID"} \subseteq Range(t.tokens)}

\* Whatever was saved, renumbered by its website, rolled back or deleted, no export
\* with such a template writes two cards into one file, of which the last would
\* stay and both be marked as exported (export_latest.go:142-145, preferences/keys.go:59).
ExportedApart == \A template \in Identifying : \A r1, r2 \in Records(db) :
  ExportPath(template, FindRecord(db, r1)) = ExportPath(template, FindRecord(db, r2)) => r1 = r2
==============================================================================
