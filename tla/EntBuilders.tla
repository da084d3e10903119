----------------------------- MODULE EntBuilders -----------------------------
(***************************************************************************)
(* The generated builders of package ent that write: a mutation collects   *)
(* the values of columns and the tags to add, remove or clear; Save checks *)
(* it and makes one statement of it.  Hooks and interceptors are never     *)
(* registered.  A column that is not in set has no value ("exists" of its  *)
(* getter is false).                                                       *)
(***************************************************************************)
EXTENDS EntTables

----------------------------------------------------------------------------
(* Mutations *)

NewRecordMutation == [set |-> [c \in {} |-> None], tags |-> {}, removedtags |-> {}, clearedtags |-> FALSE]

SetColumns(m, values) ==
  [m EXCEPT !.set = [c \in DOMAIN values \cup DOMAIN @ |-> IF c \in DOMAIN values THEN values[c] ELSE @[c]]]

SetImport(m, time) == SetColumns(m, [import |-> time])

SetIdentity(m, key) ==
  SetColumns(m, [source |-> key.source, normalized_url |-> key.normalized_url,
                 platform_id |-> key.platform_id, character_id |-> key.character_id])

SetDescription(m, title, cid) == SetColumns(m, [title |-> title, creator_id |-> cid])

SetTimes(m, update, book) == SetColumns(m, [update_time |-> update, book_update_time |-> book])

SetGreetingsCount(m, greetings) == SetColumns(m, [greetings_count |-> greetings])

SetSync(m, status) == SetColumns(m, [sync_status |-> status])

SetExport(m, version) == SetColumns(m, [exported |-> version])

SetFavorite(m, favorite) == SetColumns(m, [favorite |-> favorite])

AddTagIDs(m, tids) == [m EXCEPT !.tags = @ \cup tids]

\* [mutant] only the tags added later are known to the update.
ClearNoTags(m) == m

ClearTags(m) == [m EXCEPT !.clearedtags = TRUE]

----------------------------------------------------------------------------
(* Creating a record, or updating the one that is in conflict with it      *)

\* RecordEntityCreate with a setter called for every column, as each caller does.
BuildRecord(v) ==
  LET identified == SetIdentity(SetImport(NewRecordMutation, v.import), v)
      described  == SetTimes(SetDescription(identified, v.title, v.creator_id), v.update_time, v.book_update_time)
      synced     == SetSync(SetGreetingsCount(described, v.greetings_count), v.sync_status)
  IN  SetFavorite(SetExport(synced, v.exported), v.favorite)

RecordDefaults(m) == IF "greetings_count" \in DOMAIN m.set THEN m ELSE SetGreetingsCount(m, -1)

IsValidStatus(status) == status \in SyncStatuses

\* Every column is required, and so is the edge to the creator, which is its column.
CheckRecord(m) == Columns \subseteq DOMAIN m.set /\ m.set.source \in Sources /\ IsValidStatus(m.set.sync_status)

\* The row that is to be inserted.
RecordRow(m) == [c \in Columns |-> m.set[c]]

\* RecordEntityUpsert: the columns that a row in conflict takes from the new one,
\* group by group as the mutation's setters (the upsert's own Set and Add are
\* never called).
UpdateIdentity(columns) == columns \cup {"source", "normalized_url", "platform_id", "character_id"}

UpdateDescription(columns) == columns \cup {"title", "creator_id"}

UpdateTimes(columns) == columns \cup {"update_time", "book_update_time"}

UpdateGreetingsCount(columns) == columns \cup {"greetings_count"}

UpdateSync(columns) == columns \cup {"sync_status"}

\* UpdateNewValues: what the mutation sets, but the import, which never changes.
UpdateNewValues(m) == DOMAIN m.set \ {"import"}

OnConflictColumns(columns, updated) == [columns |-> columns, update |-> updated]

\* RecordEntityCreate.Save
CreateRecord(db, mutation, conflict) ==
  LET m == RecordDefaults(mutation)
  IN  IF ~CheckRecord(m) THEN Fail(db, "validation") ELSE InsertRecord(db, RecordRow(m), conflict)

----------------------------------------------------------------------------
(* Updating and deleting records                                           *)

CheckUpdate(m) ==
  /\ "source" \in DOMAIN m.set => m.set.source \in Sources
  /\ "sync_status" \in DOMAIN m.set => IsValidStatus(m.set.sync_status)

\* The tags whose edges an update clears: those removed count only if not all are cleared.
ClearedEdges(m) == IF m.clearedtags THEN Slugs ELSE m.removedtags

\* RecordEntityUpdateOne.Save of the row with id r.
UpdateOneRecord(db, r, m) ==
  IF ~CheckUpdate(m) THEN Fail(db, "validation")
  ELSE UpdateRecord(db, r, m.set, ClearedEdges(m), m.tags)

\* RecordEntityUpdate.Save of the rows in where, which sets favorite only.
UpdateRecords(db, where, m) ==
  [db EXCEPT !.records = [r \in Rids |-> IF r \in where THEN [@[r] EXCEPT !.favorite = m.set.favorite] ELSE @[r]]]

\* RecordEntityUpdateOne.Modify with the expression NOT favorite.
ModifyFavorite(db, r) ==
  IF r \notin Records(db) THEN Fail(db, "not found")
  ELSE Ok([db EXCEPT !.records[r].favorite = ~@], r)

\* RecordEntityDelete.Exec of the rows in where.
DeleteWhere(db, where) == DeleteRecords(db, where \cap Records(db))

----------------------------------------------------------------------------
(* Creators and tags *)

NewCreator(cid, nick) == [id |-> cid, nickname |-> nick]

CheckCreator(m) == m.nickname # None

\* The row that is to be inserted: the nickname stands for all of it.
CreatorRow(m) == m.nickname

\* UpdateNewValues: all but the id.
UpdateNewCreatorValues(row, excluded) == excluded

\* CreatorEntityCreate.Save with OnConflict.
UpsertCreatorRow(db, m) ==
  IF ~CheckCreator(m) THEN Fail(db, "validation")
  ELSE Ok([db EXCEPT !.creators[m.id] =
             IF @ = None THEN CreatorRow(m) ELSE UpdateNewCreatorValues(@, CreatorRow(m))], 0)

\* CreatorEntityDelete.Exec
DeleteCreators(db, where) ==
  [db EXCEPT !.creators = [c \in Creators |-> IF c \in where THEN None ELSE @[c]]]

NewTag(tid, name) == [id |-> tid, name |-> name]

CheckTag(m) == m.name # None

TagRow(m) == m.name

\* DoNothing: a row in conflict stays.
DoNothing(row, excluded) == row

\* MapCreateBulk of a card's tags: one builder for each.
MapCreateBulk(names) == {NewTag(s, names[s]) : s \in DOMAIN names}

\* TagEntityCreateBulk.Save with OnConflict, one statement for all tags; with no
\* tags none is made.
InsertTags(db, tags) ==
  LET Row(s) == TagRow(CHOOSE t \in tags : t.id = s)
  IN  IF \E t \in tags : ~CheckTag(t) THEN Fail(db, "validation")
      ELSE Ok([db EXCEPT !.tags = [s \in Slugs |->
                 IF s \notin {t.id : t \in tags} THEN @[s]
                 ELSE IF @[s] = None THEN Row(s) ELSE DoNothing(@[s], Row(s))]], 0)

----------------------------------------------------------------------------
(* Transactions *)

\* A transaction works on the tables as they are; its statements do not begin
\* transactions of their own.
BeginTx(db) == Ok(db, 0)

Commit(tx) == tx.db

Rollback(db, tx) == db
=============================================================================
