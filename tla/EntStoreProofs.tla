---------------------------- MODULE EntStoreProofs ----------------------------
(***************************************************************************)
(* Proofs about EntStore, for any cards, ids, filters and templates.  What *)
(* a transaction leaves of the tables is one equation (Saved), if none of  *)
(* its statements fails; the tables stay in order (DbOk): references go to *)
(* rows that are there, and the unique indexes are.  From this follow what *)
(* constraints, filters and paths mean; that each record's card is held in *)
(* its version with its names and its text (AllHeld); that every call is a *)
(* call of RecordStore, with records named by their URL; and that an       *)
(* import, one transaction after the other, restores the vault exported.   *)
(***************************************************************************)
EXTENDS EntStore, FiniteSetTheorems, WellFoundedInduction, TLAPS

-----------------------------------------------------------------------------
(* Tables in order                                                         *)

DbTypes(d) ==
  /\ d = [records |-> d.records, creators |-> d.creators, tags |-> d.tags,
          record_tags |-> d.record_tags, fts |-> d.fts, seq |-> d.seq]
  /\ d.records \in [Rids -> Rows \cup {None}]
  /\ d.creators \in [Creators -> Nicknames \cup {None}]
  /\ d.tags \in [Slugs -> Names \cup {None}]
  /\ d.record_tags \in SUBSET (Rids \X Slugs)
  /\ d.fts \in SUBSET [id : Rids, text : Texts]
  /\ d.seq \in 0 .. MaxRid

\* What a row refers to is there, and ids were given out.
Refs(d) ==
  /\ \A r \in Records(d) : r <= d.seq /\ d.creators[d.records[r].creator_id] # None
  /\ \A e \in d.record_tags : e[1] \in Records(d) /\ d.tags[e[2]] # None
  /\ \A row \in d.fts : row.id \in Records(d)

Same(row1, row2, index) == \A c \in index : row1[c] = row2[c]

Unique(d) == \A r1, r2 \in Records(d), index \in UniqueIndexes :
  Same(d.records[r1], d.records[r2], index) => r1 = r2

DbOk(d) == DbTypes(d) /\ Refs(d) /\ Unique(d)

LEMMA RowColumns ==
  ASSUME NEW row \in Rows
  PROVE  /\ row = [c \in Columns |-> row[c]] /\ DOMAIN row = Columns
         /\ row.import \in 0 .. MaxTime /\ row.source \in Sources /\ row.normalized_url \in Urls
         /\ row.platform_id \in Ids /\ row.character_id \in Ids /\ row.title \in Titles
         /\ row.creator_id \in Creators /\ row.update_time \in 1 .. MaxTime
         /\ row.book_update_time \in 0 .. MaxTime /\ row.greetings_count \in -1 .. 1
         /\ row.sync_status \in SyncStatuses /\ row.exported \in {-1} \cup 1 .. MaxTime
         /\ row.favorite \in BOOLEAN
BY DEF Rows, Columns

LEMMA ColumnsMakeRow ==
  ASSUME NEW row, DOMAIN row = Columns, row = [c \in Columns |-> row[c]],
         row.import \in 0 .. MaxTime, row.source \in Sources, row.normalized_url \in Urls,
         row.platform_id \in Ids, row.character_id \in Ids, row.title \in Titles,
         row.creator_id \in Creators, row.update_time \in 1 .. MaxTime,
         row.book_update_time \in 0 .. MaxTime, row.greetings_count \in -1 .. 1,
         row.sync_status \in SyncStatuses, row.exported \in {-1} \cup 1 .. MaxTime,
         row.favorite \in BOOLEAN
  PROVE  row \in Rows
BY DEF Rows, Columns

LEMMA StoredRows ==
  ASSUME NEW d, DbTypes(d)
  PROVE  /\ Records(d) \subseteq Rids
         /\ \A r \in Records(d) : d.records[r] \in Rows /\ d.records[r] # None
BY DEF DbTypes, Records

LEMMA EmptyIsOk == DbOk(EmptyDb)
<1>1. Records(EmptyDb) = {}
  BY DEF Records, EmptyDb
<1>2. DbTypes(EmptyDb)
  BY BoundsAreNats DEF DbTypes, EmptyDb
<1>3. EmptyDb.record_tags = {} /\ EmptyDb.fts = {}
  BY DEF EmptyDb
<1>4. QED
  BY <1>1, <1>2, <1>3 DEF DbOk, Refs, Unique

\* A card has one row.
Rid(d, u) == CHOOSE r \in Records(d) : d.records[r].normalized_url = u

LEMMA UrlHasOneRow ==
  ASSUME NEW d, DbOk(d), NEW r1 \in Records(d), NEW r2 \in Records(d),
         d.records[r1].normalized_url = d.records[r2].normalized_url
  PROVE  r1 = r2
BY DEF DbOk, Unique, Same, UniqueIndexes

LEMMA UrlOfRow ==
  ASSUME NEW d, DbOk(d), NEW r \in Records(d)
  PROVE  /\ d.records[r].normalized_url \in FindURLs(d, Urls)
         /\ Rid(d, d.records[r].normalized_url) = r
<1>1. d.records[r].normalized_url \in Urls
  BY StoredRows, RowColumns DEF DbOk
<1>2. Rid(d, d.records[r].normalized_url) = r
  BY UrlHasOneRow DEF Rid
<1>3. QED
  BY <1>1, <1>2 DEF FindURLs, NormalizedURLIn

LEMMA RowOfUrl ==
  ASSUME NEW d, DbOk(d), NEW u \in FindURLs(d, Urls)
  PROVE  u \in Urls /\ Rid(d, u) \in Records(d) /\ d.records[Rid(d, u)].normalized_url = u
<1>1. PICK r \in Records(d) : d.records[r].normalized_url = u /\ u \in Urls
  BY DEF FindURLs, NormalizedURLIn
<1>2. QED
  BY <1>1 DEF Rid

-----------------------------------------------------------------------------
(* Statements                                                              *)

\* The row that an insert of row is put into, and what is put there.
Target(d, u) == IF u \in FindURLs(d, Urls) THEN Rid(d, u) ELSE d.seq + 1

Resolved(d, row, columns) ==
  IF row.normalized_url \in FindURLs(d, Urls)
  THEN SetExcluded(d.records[Rid(d, row.normalized_url)], row, columns) ELSE row

LEMMA InsertPuts ==
  ASSUME NEW d, DbOk(d), NEW row \in Rows, NEW columns
  PROVE  InsertRecord(d, row, OnConflictColumns({"normalized_url"}, columns))
           = PutRecord(d, Target(d, row.normalized_url), Resolved(d, row, columns))
<1> DEFINE u == row.normalized_url
           conflict == OnConflictColumns({"normalized_url"}, columns)
           same == {r \in Records(d) : \A c \in conflict.columns : d.records[r][c] = row[c]}
<1>1. conflict.columns = {"normalized_url"} /\ conflict.update = columns
  BY DEF OnConflictColumns
<1>2. same = {r \in Records(d) : d.records[r].normalized_url = u}
  BY <1>1
<1>3. CASE u \in FindURLs(d, Urls)
  <2>1. same = {Rid(d, u)}
    BY <1>2, <1>3, RowOfUrl, UrlOfRow
  <2>2. (CHOOSE r \in same : TRUE) = Rid(d, u) /\ same # {}
    BY <2>1
  <2>3. InsertRecord(d, row, conflict) = PutRecord(d, Rid(d, u), SetExcluded(d.records[Rid(d, u)], row, conflict.update))
    BY <2>2 DEF InsertRecord
  <2>4. QED
    BY <1>1, <1>3, <2>3 DEF Target, Resolved
<1>4. CASE u \notin FindURLs(d, Urls)
  <2>1. same = {}
    BY <1>2, <1>4, UrlOfRow
  <2>2. InsertRecord(d, row, conflict) = PutRecord(d, d.seq + 1, row)
    BY <2>1 DEF InsertRecord
  <2>3. QED
    BY <1>4, <2>2 DEF Target, Resolved
<1>5. QED
  BY <1>3, <1>4

\* With the columns that SaveRecord and RestoreRecord name the resolved row has the
\* ids, the creator and what describes the card from the new one.
LEMMA ResolvedRow ==
  ASSUME NEW d, DbOk(d), NEW row \in Rows, NEW columns \in SUBSET Columns,
         SavedColumns \subseteq columns
  PROVE  /\ Resolved(d, row, columns) \in Rows
         /\ \A c \in columns : Resolved(d, row, columns)[c] = row[c]
         /\ \A c \in Columns \ columns : Resolved(d, row, columns)[c] =
              IF row.normalized_url \in FindURLs(d, Urls) THEN d.records[Rid(d, row.normalized_url)][c] ELSE row[c]
<1> DEFINE u == row.normalized_url
<1>1. CASE u \notin FindURLs(d, Urls)
  BY <1>1 DEF Resolved
<1>2. CASE u \in FindURLs(d, Urls)
  <2>1. d.records[Rid(d, u)] \in Rows
    BY <1>2, RowOfUrl, StoredRows DEF DbOk
  <2> DEFINE old == d.records[Rid(d, u)]
             new == [c \in Columns |-> IF c \in columns THEN row[c] ELSE old[c]]
  <2>2. Resolved(d, row, columns) = new
    BY <1>2 DEF Resolved, SetExcluded
  <2> HIDE DEF old
  <2>3. new \in Rows
    <3>1. /\ \A c \in Columns : new[c] \in {row[c], old[c]}
          /\ DOMAIN new = Columns /\ new = [c \in Columns |-> new[c]]
      OBVIOUS
    <3> HIDE DEF new
    <3>2. old \in Rows
      BY <2>1 DEF old
    <3>3. Columns = {"import", "source", "normalized_url", "platform_id", "character_id", "title",
            "creator_id", "update_time", "book_update_time", "greetings_count",
            "sync_status", "exported", "favorite"}
      BY DEF Columns
    <3>4. /\ new.import \in 0 .. MaxTime /\ new.source \in Sources /\ new.normalized_url \in Urls
          /\ new.platform_id \in Ids /\ new.character_id \in Ids /\ new.title \in Titles
          /\ new.creator_id \in Creators /\ new.update_time \in 1 .. MaxTime
      BY <3>1, <3>2, <3>3, RowColumns
    <3>5. /\ new.book_update_time \in 0 .. MaxTime /\ new.greetings_count \in -1 .. 1
          /\ new.sync_status \in SyncStatuses /\ new.exported \in {-1} \cup 1 .. MaxTime
          /\ new.favorite \in BOOLEAN
      BY <3>1, <3>2, <3>3, RowColumns
    <3>6. QED
      BY <3>1, <3>4, <3>5, ColumnsMakeRow
  <2>4. QED
    BY <1>2, <2>2, <2>3 DEF old
<1>3. QED
  BY <1>1, <1>2

\* The names of tags after names were given to some, of which a tag keeps its first.
Named(tags, names) == [s \in Slugs |-> IF s \in DOMAIN names /\ tags[s] = None THEN names[s] ELSE tags[s]]

LEMMA MetadataTypes ==
  ASSUME NEW m \in R!Metadata
  PROVE  /\ m.creator \in Creators /\ m.nick \in Nicknames /\ m.title \in Titles /\ m.update \in 1 .. MaxTime
         /\ m.book \in 0 .. MaxTime /\ m.greetings \in 0 .. 1
         /\ DOMAIN m.names \in SUBSET Slugs /\ m.names \in [DOMAIN m.names -> Names]
         /\ m = [creator |-> m.creator, nick |-> m.nick, title |-> m.title, update |-> m.update,
                 book |-> m.book, greetings |-> m.greetings, names |-> m.names]
BY DEF R!Metadata, R!Times

LEMMA TagsInserted ==
  ASSUME NEW d, DbOk(d), NEW names, DOMAIN names \in SUBSET Slugs, names \in [DOMAIN names -> Names]
  PROVE  /\ UpsertTags(d, names) = Ok([d EXCEPT !.tags = Named(d.tags, names)], 0)
         /\ DbOk([d EXCEPT !.tags = Named(d.tags, names)])
         /\ \A s \in DOMAIN names : Named(d.tags, names)[s] # None
<1> DEFINE tags == MapCreateBulk(names)
           Row(s) == TagRow(CHOOSE t \in tags : t.id = s)
<1>1. {t.id : t \in tags} = DOMAIN names
  <2>1. \A s \in DOMAIN names : NewTag(s, names[s]).id = s
    BY DEF NewTag
  <2>2. \A t \in tags : \E s \in DOMAIN names : t = NewTag(s, names[s])
    BY DEF MapCreateBulk
  <2>3. \A s \in DOMAIN names : NewTag(s, names[s]) \in tags
    BY DEF MapCreateBulk
  <2> HIDE DEF tags
  <2>4. ASSUME NEW s \in DOMAIN names PROVE \E t \in tags : s = t.id
    BY <2>1, <2>3
  <2>5. ASSUME NEW t \in tags PROVE t.id \in DOMAIN names
    BY <2>1, <2>2
  <2>6. QED
    BY <2>4, <2>5
<1>2. ASSUME NEW s \in DOMAIN names PROVE Row(s) = names[s]
  <2>1. NewTag(s, names[s]) \in tags /\ NewTag(s, names[s]).id = s
    BY DEF MapCreateBulk, NewTag
  <2>2. \A t \in tags : t.id = s => t = NewTag(s, names[s])
    BY DEF MapCreateBulk, NewTag
  <2>3. (CHOOSE t \in tags : t.id = s) = NewTag(s, names[s])
    BY <2>1, <2>2
  <2>4. TagRow(NewTag(s, names[s])) = names[s]
    BY DEF TagRow, NewTag
  <2>5. QED
    BY <2>3, <2>4
<1>3. \A t \in tags : CheckTag(t)
  <2>1. \A s \in DOMAIN names : names[s] # None
    BY NoneIsNoValue
  <2>2. QED
    BY <2>1 DEF MapCreateBulk, NewTag, CheckTag
<1> DEFINE new == [s \in Slugs |-> IF s \notin {t.id : t \in tags} THEN d.tags[s]
                                   ELSE IF d.tags[s] = None THEN Row(s) ELSE DoNothing(d.tags[s], Row(s))]
<1>4. UpsertTags(d, names) = Ok([d EXCEPT !.tags = new], 0)
  BY <1>3 DEF UpsertTags, InsertTags, DbOk, DbTypes
<1>5. new = Named(d.tags, names)
  <2> HIDE DEF Row
  <2>1. \A s \in Slugs : new[s] = Named(d.tags, names)[s]
    BY <1>1, <1>2 DEF Named, DoNothing
  <2>2. QED
    BY <2>1 DEF Named
<1> HIDE DEF new
<1>6. /\ Named(d.tags, names) \in [Slugs -> Names \cup {None}]
      /\ \A s \in Slugs : d.tags[s] # None => Named(d.tags, names)[s] = d.tags[s]
      /\ \A s \in DOMAIN names : Named(d.tags, names)[s] # None
  BY NoneIsNoValue DEF Named, DbOk, DbTypes
<1>7. DbOk([d EXCEPT !.tags = Named(d.tags, names)])
  <2> DEFINE e == [d EXCEPT !.tags = Named(d.tags, names)]
  <2>1. /\ e.records = d.records /\ e.creators = d.creators /\ e.record_tags = d.record_tags
        /\ e.fts = d.fts /\ e.seq = d.seq /\ e.tags = Named(d.tags, names)
        /\ e = [records |-> e.records, creators |-> e.creators, tags |-> e.tags,
                record_tags |-> e.record_tags, fts |-> e.fts, seq |-> e.seq]
    BY DEF DbOk, DbTypes
  <2> HIDE DEF e
  <2>2. Records(e) = Records(d)
    BY <2>1 DEF Records
  <2>3. DbTypes(e)
    BY <1>6, <2>1 DEF DbOk, DbTypes
  <2>4. Refs(e)
    <3>1. \A x \in e.record_tags : x[2] \in Slugs
      BY <2>1 DEF DbOk, DbTypes
    <3>2. QED
      BY <1>6, <2>1, <2>2, <3>1 DEF DbOk, Refs
  <2>5. Unique(e)
    BY <2>1, <2>2 DEF DbOk, Unique
  <2>6. QED
    BY <2>3, <2>4, <2>5 DEF DbOk, e
<1>8. QED
  BY <1>4, <1>5, <1>6, <1>7

LEMMA CreatorUpserted ==
  ASSUME NEW d, DbOk(d), NEW c \in Creators, NEW nick \in Nicknames
  PROVE  /\ UpsertCreator(d, c, nick) = Ok([d EXCEPT !.creators[c] = nick], 0)
         /\ DbOk([d EXCEPT !.creators[c] = nick])
<1>1. nick # None
  BY NoneIsNoValue
<1>2. UpsertCreator(d, c, nick) = Ok([d EXCEPT !.creators[c] = nick], 0)
  BY <1>1 DEF UpsertCreator, UpsertCreatorRow, NewCreator, CheckCreator, CreatorRow,
              UpdateNewCreatorValues, DbOk, DbTypes
<1> DEFINE e == [d EXCEPT !.creators[c] = nick]
<1>3. /\ e.records = d.records /\ e.creators = [d.creators EXCEPT ![c] = nick]
      /\ e.record_tags = d.record_tags /\ e.fts = d.fts /\ e.seq = d.seq /\ e.tags = d.tags
      /\ e = [records |-> e.records, creators |-> e.creators, tags |-> e.tags,
              record_tags |-> e.record_tags, fts |-> e.fts, seq |-> e.seq]
  BY DEF DbOk, DbTypes
<1> HIDE DEF e
<1>4. Records(e) = Records(d)
  BY <1>3 DEF Records
<1>5. DbTypes(e)
  BY <1>3 DEF DbOk, DbTypes
<1>6. Refs(e)
  <2>1. \A r \in Records(d) : d.records[r].creator_id \in Creators
    BY StoredRows, RowColumns DEF DbOk
  <2>2. \A x \in Creators : d.creators[x] # None => e.creators[x] # None
    BY <1>1, <1>3 DEF DbOk, DbTypes
  <2>3. QED
    BY <1>3, <1>4, <2>1, <2>2 DEF DbOk, Refs
<1>7. Unique(e)
  BY <1>3, <1>4 DEF DbOk, Unique
<1>8. QED
  BY <1>2, <1>5, <1>6, <1>7 DEF DbOk, e

\* A row put into a table in order, if no other has its ids and its creator is there.
Put(d, r, row) == [d EXCEPT !.records[r] = row, !.seq = IF r > @ THEN r ELSE @]

LEMMA PutKeepsOrder ==
  ASSUME NEW d, DbOk(d), NEW r \in Rids, NEW row \in Rows, r \in Records(d) \/ r = d.seq + 1,
         ~IsTaken(d, r, row), d.creators[row.creator_id] # None
  PROVE  /\ PutRecord(d, r, row) = Ok(Put(d, r, row), r)
         /\ DbOk(Put(d, r, row))
         /\ Records(Put(d, r, row)) = Records(d) \cup {r}
         /\ Put(d, r, row) = [records |-> [d.records EXCEPT ![r] = row], creators |-> d.creators, tags |-> d.tags,
              record_tags |-> d.record_tags, fts |-> d.fts, seq |-> IF r > d.seq THEN r ELSE d.seq]
<1> DEFINE e == Put(d, r, row)
<1>1. row.creator_id \in CreatorRows(d)
  BY RowColumns DEF CreatorRows
<1>2. PutRecord(d, r, row) = Ok(e, r)
  BY <1>1 DEF PutRecord, Put
<1>3. /\ e.records = [d.records EXCEPT ![r] = row] /\ e.creators = d.creators
      /\ e.record_tags = d.record_tags /\ e.fts = d.fts /\ e.tags = d.tags
      /\ e.seq = IF r > d.seq THEN r ELSE d.seq
      /\ e = [records |-> e.records, creators |-> e.creators, tags |-> e.tags,
              record_tags |-> e.record_tags, fts |-> e.fts, seq |-> e.seq]
  <2>1. e = [d EXCEPT !.records = [d.records EXCEPT ![r] = row], !.seq = IF r > d.seq THEN r ELSE d.seq]
    BY DEF Put
  <2> HIDE DEF e
  <2>2. QED
    BY <2>1 DEF DbOk, DbTypes
<1> HIDE DEF e
<1>4. row # None
  BY NoneIsNoRow
<1>5. Records(e) = Records(d) \cup {r}
  BY <1>3, <1>4 DEF Records, DbOk, DbTypes
<1>6. d.seq \in Nat /\ r \in Nat /\ r <= MaxRid /\ e.seq \in 0 .. MaxRid /\ d.seq <= e.seq /\ r <= e.seq
  BY <1>3, BoundsAreNats DEF DbOk, DbTypes, Rids
<1>7. DbTypes(e)
  BY <1>3, <1>6 DEF DbOk, DbTypes
<1>8. \A x \in Records(d) \ {r} : e.records[x] = d.records[x]
  BY <1>3, StoredRows DEF DbOk, DbTypes
<1>9. e.records[r] = row
  BY <1>3 DEF DbOk, DbTypes
<1>10. Refs(e)
  <2>1. \A x \in Records(d) : x \in Nat /\ x <= d.seq
    BY StoredRows DEF DbOk, Refs, Rids
  <2>2. \A x \in Records(e) : x <= e.seq
    BY <1>5, <1>6, <2>1
  <2>3. QED
    BY <1>3, <1>5, <1>8, <1>9, <2>2 DEF DbOk, Refs
<1>11. Unique(e)
  <2> SUFFICES ASSUME NEW r1 \in Records(e), NEW r2 \in Records(e), NEW index \in UniqueIndexes,
                      Same(e.records[r1], e.records[r2], index), r1 # r2
               PROVE  FALSE
    BY DEF Unique
  <2>1. ASSUME NEW x \in Records(d) \ {r}, \A c \in index : d.records[x][c] = row[c] PROVE FALSE
    BY <2>1 DEF IsTaken
  <2>2. CASE r1 = r
    BY <1>5, <1>8, <1>9, <2>1, <2>2 DEF Same
  <2>3. CASE r2 = r
    BY <1>5, <1>8, <1>9, <2>1, <2>3 DEF Same
  <2>4. CASE r1 # r /\ r2 # r
    BY <1>5, <1>8, <2>4 DEF DbOk, Unique
  <2>5. QED
    BY <2>2, <2>3, <2>4
<1>12. QED
  BY <1>2, <1>3, <1>5, <1>7, <1>10, <1>11 DEF DbOk, e

\* A row that is in order is none that another takes from.
LEMMA PutSame ==
  ASSUME NEW d, DbOk(d), NEW r \in Records(d)
  PROVE  PutRecord(d, r, d.records[r]) = Ok(d, r)
<1>1. r \in Rids /\ d.records[r] \in Rows /\ d.creators[d.records[r].creator_id] # None
  BY StoredRows DEF DbOk, Refs
<1>2. ~IsTaken(d, r, d.records[r])
  BY DEF IsTaken, DbOk, Unique, Same
<1>3. r <= d.seq /\ r \in Nat /\ d.seq \in Nat
  BY <1>1, BoundsAreNats DEF DbOk, DbTypes, Refs, Rids
<1>4. [d.records EXCEPT ![r] = d.records[r]] = d.records
  BY <1>1 DEF DbOk, DbTypes
<1>5. Put(d, r, d.records[r]) = d
  BY <1>1, <1>2, <1>3, <1>4, PutKeepsOrder DEF DbOk, DbTypes
<1>6. QED
  BY <1>1, <1>2, <1>5, PutKeepsOrder

\* A builder that was given some columns of v, and no tags.
Given(m, columns, v) ==
  m = [set |-> [c \in columns |-> v[c]], tags |-> {}, removedtags |-> {}, clearedtags |-> FALSE]

LEMMA GivenMore ==
  ASSUME NEW m, NEW columns, NEW v, Given(m, columns, v),
         NEW values, \A c \in DOMAIN values : values[c] = v[c]
  PROVE  Given(SetColumns(m, values), DOMAIN values \cup columns, v)
<1> DEFINE new == [c \in DOMAIN values \cup DOMAIN m.set |-> IF c \in DOMAIN values THEN values[c] ELSE m.set[c]]
<1>1. m.set = [c \in columns |-> v[c]]
  BY DEF Given
<1>2. new = [c \in DOMAIN values \cup columns |-> v[c]]
  BY <1>1
<1> HIDE DEF new
<1>3. SetColumns(m, values) = [m EXCEPT !.set = new]
  BY DEF SetColumns, new, Given
<1>4. QED
  BY <1>2, <1>3 DEF Given

\* A builder that is given every column of a row makes that row.
LEMMA BuiltRow ==
  ASSUME NEW v \in Rows
  PROVE  /\ Given(BuildRecord(v), Columns, v)
         /\ RecordRow(RecordDefaults(BuildRecord(v))) = v
         /\ CheckRecord(RecordDefaults(BuildRecord(v)))
<1> DEFINE m1 == SetImport(NewRecordMutation, v.import)
           m2 == SetIdentity(m1, v)
           m3 == SetDescription(m2, v.title, v.creator_id)
           m4 == SetTimes(m3, v.update_time, v.book_update_time)
           m5 == SetGreetingsCount(m4, v.greetings_count)
           m6 == SetSync(m5, v.sync_status)
           m7 == SetExport(m6, v.exported)
           m8 == SetFavorite(m7, v.favorite)
<1>1. BuildRecord(v) = m8
  BY DEF BuildRecord
<1>2. Given(NewRecordMutation, {}, v)
  BY DEF Given, NewRecordMutation
<1>3. Given(m1, {"import"} \cup {}, v)
  BY <1>2, GivenMore DEF SetImport
<1>4. Given(m2, {"source", "normalized_url", "platform_id", "character_id"} \cup ({"import"} \cup {}), v)
  BY <1>3, GivenMore DEF SetIdentity
<1> HIDE DEF m1, m2
<1> DEFINE C2 == {"source", "normalized_url", "platform_id", "character_id"} \cup ({"import"} \cup {})
<1>5. Given(m3, {"title", "creator_id"} \cup C2, v)
  BY <1>4, GivenMore DEF SetDescription
<1> HIDE DEF m3
<1>6. Given(m4, {"update_time", "book_update_time"} \cup ({"title", "creator_id"} \cup C2), v)
  BY <1>5, GivenMore DEF SetTimes
<1> HIDE DEF m4
<1> DEFINE C4 == {"update_time", "book_update_time"} \cup ({"title", "creator_id"} \cup C2)
<1>7. Given(m5, {"greetings_count"} \cup C4, v)
  BY <1>6, GivenMore DEF SetGreetingsCount
<1> HIDE DEF m5
<1>8. Given(m6, {"sync_status"} \cup ({"greetings_count"} \cup C4), v)
  BY <1>7, GivenMore DEF SetSync
<1> HIDE DEF m6
<1>9. Given(m7, {"exported"} \cup ({"sync_status"} \cup ({"greetings_count"} \cup C4)), v)
  BY <1>8, GivenMore DEF SetExport
<1> HIDE DEF m7
<1>10. Given(m8, {"favorite"} \cup ({"exported"} \cup ({"sync_status"} \cup ({"greetings_count"} \cup C4))), v)
  BY <1>9, GivenMore DEF SetFavorite
<1> HIDE DEF m8
<1>11. {"favorite"} \cup ({"exported"} \cup ({"sync_status"} \cup ({"greetings_count"} \cup C4))) = Columns
  BY DEF Columns
<1>12. Given(BuildRecord(v), Columns, v)
  BY <1>1, <1>10, <1>11
<1>13. RecordDefaults(BuildRecord(v)) = BuildRecord(v) /\ BuildRecord(v).set = v
  BY <1>12, RowColumns DEF RecordDefaults, Given, Columns
<1>14. RecordRow(BuildRecord(v)) = v
  BY <1>13, RowColumns DEF RecordRow
<1>15. CheckRecord(BuildRecord(v))
  BY <1>13, RowColumns DEF CheckRecord, IsValidStatus
<1>16. QED
  BY <1>12, <1>13, <1>14, <1>15

\* The columns that a conflict takes from the new row, and those that stay.
LEMMA ColumnsSaved ==
  /\ SavedColumns = Columns \ {"import", "exported", "favorite"}
  /\ \A v \in Rows : UpdateNewValues(BuildRecord(v)) = Columns \ {"import"}
<1>1. SavedColumns = Columns \ {"import", "exported", "favorite"}
  BY DEF SavedColumns, Columns, UpdateSync, UpdateGreetingsCount, UpdateTimes, UpdateDescription, UpdateIdentity
<1>2. ASSUME NEW v \in Rows PROVE UpdateNewValues(BuildRecord(v)) = Columns \ {"import"}
  BY BuiltRow DEF UpdateNewValues, Given
<1>3. QED
  BY <1>1, <1>2

\* The insert of a row: an update of the card's row if it has one, and otherwise a
\* row with the next id; or it breaks a constraint that the row would break.
LEMMA RecordInserted ==
  ASSUME NEW d, DbOk(d), NEW v \in Rows, NEW columns \in SUBSET Columns, SavedColumns \subseteq columns,
         d.creators[v.creator_id] # None, v.normalized_url \in FindURLs(d, Urls) \/ d.seq < MaxRid,
         NEW r, r = Target(d, v.normalized_url), NEW row, row = Resolved(d, v, columns),
         NEW done, done = CreateRecord(d, BuildRecord(v), OnConflictColumns({"normalized_url"}, columns))
  PROVE  /\ r \in Rids /\ row \in Rows /\ (r \in Records(d) \/ r = d.seq + 1)
         /\ IsTaken(d, r, row) => done = Fail(d, "constraint")
         /\ ~IsTaken(d, r, row) => done = Ok(Put(d, r, row), r) /\ DbOk(Put(d, r, row))
<1>1. done = PutRecord(d, r, row)
  BY BuiltRow, InsertPuts DEF CreateRecord
<1>2. r \in Rids /\ (r \in Records(d) \/ r = d.seq + 1)
  <2>1. CASE v.normalized_url \in FindURLs(d, Urls)
    BY <2>1, RowOfUrl, StoredRows DEF Target, DbOk
  <2>2. CASE v.normalized_url \notin FindURLs(d, Urls)
    BY <2>2, BoundsAreNats DEF Target, Rids, DbOk, DbTypes
  <2>3. QED
    BY <2>1, <2>2
<1>3. "creator_id" \in columns
  BY ColumnsSaved DEF Columns
<1>4. row \in Rows /\ row.creator_id = v.creator_id
  BY <1>3, ResolvedRow
<1>5. CASE IsTaken(d, r, row)
  BY <1>1, <1>2, <1>4, <1>5 DEF PutRecord
<1>6. CASE ~IsTaken(d, r, row)
  BY <1>1, <1>2, <1>4, <1>6, PutKeepsOrder
<1>7. QED
  BY <1>2, <1>4, <1>5, <1>6

LEMMA TextInserted ==
  ASSUME NEW d, DbOk(d), NEW r \in Records(d), NEW text \in Texts
  PROVE  DbOk([d EXCEPT !.fts = @ \cup {[id |-> r, text |-> text]}])
<1> DEFINE e == [d EXCEPT !.fts = @ \cup {[id |-> r, text |-> text]}]
<1>1. /\ e.records = d.records /\ e.creators = d.creators /\ e.record_tags = d.record_tags
      /\ e.fts = d.fts \cup {[id |-> r, text |-> text]} /\ e.seq = d.seq /\ e.tags = d.tags
      /\ e = [records |-> e.records, creators |-> e.creators, tags |-> e.tags,
              record_tags |-> e.record_tags, fts |-> e.fts, seq |-> e.seq]
  <2> DEFINE rows == d.fts \cup {[id |-> r, text |-> text]}
  <2>1. e = [d EXCEPT !.fts = rows]
    OBVIOUS
  <2> HIDE DEF e, rows
  <2>2. /\ e.records = d.records /\ e.creators = d.creators /\ e.record_tags = d.record_tags
        /\ e.fts = rows /\ e.seq = d.seq /\ e.tags = d.tags
        /\ e = [records |-> e.records, creators |-> e.creators, tags |-> e.tags,
                record_tags |-> e.record_tags, fts |-> e.fts, seq |-> e.seq]
    BY <2>1 DEF DbOk, DbTypes
  <2>3. QED
    BY <2>2 DEF rows
<1> HIDE DEF e
<1>2. Records(e) = Records(d) /\ r \in Rids
  BY <1>1, StoredRows DEF Records, DbOk
<1>3. DbTypes(e)
  <2>1. [id |-> r, text |-> text] \in [id : Rids, text : Texts]
    BY <1>2
  <2>2. e.fts \in SUBSET [id : Rids, text : Texts]
    BY <1>1, <2>1 DEF DbOk, DbTypes
  <2>3. QED
    BY <1>1, <2>2 DEF DbOk, DbTypes
<1>4. Refs(e)
  BY <1>1, <1>2 DEF DbOk, Refs
<1>5. Unique(e)
  BY <1>1, <1>2 DEF DbOk, Unique
<1>6. QED
  BY <1>3, <1>4, <1>5 DEF DbOk, e

\* The edges of a row that an update writes: those to the tags given.
LEMMA EdgesReplaced ==
  ASSUME NEW d, DbOk(d), NEW r \in Records(d), NEW tids \in SUBSET Slugs, \A s \in tids : d.tags[s] # None,
         NEW e, e = [d EXCEPT !.record_tags = (@ \ ({r} \X Slugs)) \cup ({r} \X tids)]
  PROVE  ReplaceTags(d, r, tids) = Ok(e, r) /\ DbOk(e)
<1> DEFINE m == AddTagIDs(ClearTags(NewRecordMutation), tids)
<1>1. /\ m.set = [c \in {} |-> None] /\ m.tags = tids /\ m.clearedtags = TRUE
  BY DEF AddTagIDs, ClearTags, NewRecordMutation
<1>2. CheckUpdate(m) /\ ClearedEdges(m) = Slugs
  BY <1>1 DEF CheckUpdate, ClearedEdges
<1> HIDE DEF m
<1> DEFINE row == [c \in Columns |-> IF c \in DOMAIN m.set THEN m.set[c] ELSE d.records[r][c]]
<1>3. row = d.records[r]
  <2>1. d.records[r] = [c \in Columns |-> d.records[r][c]]
    BY StoredRows, RowColumns DEF DbOk
  <2>2. row = [c \in Columns |-> d.records[r][c]]
    BY <1>1
  <2>3. QED
    BY <2>1, <2>2
<1>4. PutRecord(d, r, row) = Ok(d, r)
  BY <1>3, PutSame
<1>5. tids \subseteq TagRows(d)
  BY DEF TagRows
<1> HIDE DEF row
<1>6. UpdateRecord(d, r, m.set, Slugs, m.tags) = Ok(e, r)
  <2>1. (Ok(d, r)).db = d /\ (Ok(d, r)).err = "none"
    BY DEF Ok
  <2>2. QED
    BY <1>1, <1>4, <1>5, <2>1 DEF UpdateRecord, row
<1>7. ReplaceTags(d, r, tids) = Ok(e, r)
  BY <1>2, <1>6 DEF ReplaceTags, UpdateOneRecord, m
<1>8. /\ e.records = d.records /\ e.creators = d.creators /\ e.fts = d.fts /\ e.seq = d.seq /\ e.tags = d.tags
      /\ e.record_tags = (d.record_tags \ ({r} \X Slugs)) \cup ({r} \X tids)
      /\ e = [records |-> e.records, creators |-> e.creators, tags |-> e.tags,
              record_tags |-> e.record_tags, fts |-> e.fts, seq |-> e.seq]
  BY DEF DbOk, DbTypes
<1>9. Records(e) = Records(d) /\ r \in Rids
  BY <1>8, StoredRows DEF Records, DbOk
<1>10. DbTypes(e)
  <2>1. e.record_tags \in SUBSET (Rids \X Slugs)
    BY <1>8, <1>9 DEF DbOk, DbTypes
  <2>2. QED
    BY <1>8, <2>1 DEF DbOk, DbTypes
<1>11. Refs(e)
  <2>1. \A x \in e.record_tags : x[1] \in Records(e) /\ e.tags[x[2]] # None
    BY <1>8, <1>9 DEF DbOk, Refs
  <2>2. QED
    BY <1>8, <1>9, <2>1 DEF DbOk, Refs
<1>12. Unique(e)
  BY <1>8, <1>9 DEF DbOk, Unique
<1>13. QED
  BY <1>7, <1>10, <1>11, <1>12 DEF DbOk

-----------------------------------------------------------------------------
(* Transactions *)

LEMMA StatementIs ==
  ASSUME NEW x, NEW m, NEW row, NEW conflict, NEW text
  PROVE  /\ Statement("tags", x, m, row, conflict, text) = UpsertTags(x.db, m.names)
         /\ Statement("creator", x, m, row, conflict, text) = UpsertCreator(x.db, m.creator, m.nick)
         /\ Statement("record", x, m, row, conflict, text) = CreateRecord(x.db, row, conflict)
         /\ Statement("fts", x, m, row, conflict, text) = UpsertFTS(x.db, x.id, text)
         /\ Statement("edges", x, m, row, conflict, text) = ReplaceTags(x.db, x.id, DOMAIN m.names)
BY DEF Statement

\* What a save leaves of the tables.
Saved(d, m, r, row, text) ==
  [records     |-> [d.records EXCEPT ![r] = row],
   creators    |-> [d.creators EXCEPT ![m.creator] = m.nick],
   tags        |-> Named(d.tags, m.names),
   record_tags |-> (d.record_tags \ ({r} \X Slugs)) \cup ({r} \X DOMAIN m.names),
   fts         |-> d.fts \cup {[id |-> r, text |-> text]},
   seq         |-> IF r > d.seq THEN r ELSE d.seq]

\* A save or restore of the row v for the metadata m: it fails, in the worst case
\* because the row breaks a constraint, or it leaves what Saved says, in order.
LEMMA StatementsLeave ==
  ASSUME NEW d, DbOk(d), NEW m \in R!Metadata, NEW v \in Rows, v.creator_id = m.creator,
         NEW columns \in SUBSET Columns, SavedColumns \subseteq columns, NEW text \in Texts, NEW failing,
         v.normalized_url \in FindURLs(d, Urls) \/ d.seq < MaxRid \/ failing \in {"tags", "creator"},
         NEW r, r = Target(d, v.normalized_url), NEW row, row = Resolved(d, v, columns),
         NEW tx, tx = Statements(BeginTx(d), m, BuildRecord(v), OnConflictColumns({"normalized_url"}, columns),
                                 text, failing)
  PROVE  /\ tx.err = "none" =>
              /\ tx.id = r /\ tx.db = Saved(d, m, r, row, text)
              /\ r \in Rids /\ row \in Rows /\ (r \in Records(d) \/ r = d.seq + 1)
              /\ DbOk(tx.db)
         /\ failing = "none" =>
              IF IsTaken(d, r, row) THEN tx.err = "constraint" ELSE tx.err = "none"
<1> DEFINE M == BuildRecord(v)
           conflict == OnConflictColumns({"normalized_url"}, columns)
           Do(x, s) == IF x.err # "none" THEN x
                       ELSE IF s = failing THEN [x EXCEPT !.err = "failed"]
                       ELSE Statement(s, x, m, M, conflict, text)
           d1 == [d EXCEPT !.tags = Named(d.tags, m.names)]
           d2 == [d1 EXCEPT !.creators[m.creator] = m.nick]
           d3 == Put(d2, r, row)
           rows == d.fts \cup {[id |-> r, text |-> text]}
           edges == (d.record_tags \ ({r} \X Slugs)) \cup ({r} \X DOMAIN m.names)
           d4 == [d3 EXCEPT !.fts = @ \cup {[id |-> r, text |-> text]}]
           d5 == [d4 EXCEPT !.record_tags = (@ \ ({r} \X Slugs)) \cup ({r} \X DOMAIN m.names)]
           t0 == Ok(d, 0)
           t1 == Do(t0, "tags")
           t2 == Do(t1, "creator")
           t3 == Do(t2, "record")
           t4 == Do(t3, "fts")
           t5 == Do(t4, "edges")
<1>1. tx = t5
  BY DEF Statements, BeginTx
<1>2. /\ m.creator \in Creators /\ m.nick \in Nicknames /\ m.nick # None
      /\ DOMAIN m.names \in SUBSET Slugs /\ m.names \in [DOMAIN m.names -> Names]
  BY MetadataTypes, NoneIsNoValue
<1>3. \A x, id : Ok(x, id).db = x /\ Ok(x, id).id = id /\ Ok(x, id).err = "none"
  BY DEF Ok
<1>4. /\ UpsertTags(d, m.names) = Ok(d1, 0) /\ DbOk(d1)
      /\ \A s \in DOMAIN m.names : d1.tags[s] # None
      /\ d1 = [records |-> d.records, creators |-> d.creators, tags |-> Named(d.tags, m.names),
               record_tags |-> d.record_tags, fts |-> d.fts, seq |-> d.seq]
  BY <1>2, TagsInserted DEF DbOk, DbTypes
<1>5. /\ UpsertCreator(d1, m.creator, m.nick) = Ok(d2, 0) /\ DbOk(d2)
      /\ d2 = [records |-> d.records, creators |-> [d.creators EXCEPT ![m.creator] = m.nick],
               tags |-> Named(d.tags, m.names), record_tags |-> d.record_tags, fts |-> d.fts, seq |-> d.seq]
  <2> HIDE DEF d1
  <2>1. UpsertCreator(d1, m.creator, m.nick) = Ok(d2, 0) /\ DbOk(d2)
    BY <1>2, <1>4, CreatorUpserted
  <2>2. QED
    BY <1>4, <2>1
<1> HIDE DEF d1, d2
<1>6. /\ Records(d2) = Records(d) /\ FindURLs(d2, Urls) = FindURLs(d, Urls)
      /\ Target(d2, v.normalized_url) = r /\ Resolved(d2, v, columns) = row
      /\ IsTaken(d2, r, row) <=> IsTaken(d, r, row)
      /\ d2.creators[v.creator_id] # None
  <2>1. d2.records = d.records /\ d2.seq = d.seq /\ d2.creators[m.creator] = m.nick
    BY <1>2, <1>5 DEF DbOk, DbTypes
  <2>2. Records(d2) = Records(d)
    BY <2>1 DEF Records
  <2>3. FindURLs(d2, Urls) = FindURLs(d, Urls)
    BY <2>1, <2>2 DEF FindURLs, NormalizedURLIn
  <2>4. Rid(d2, v.normalized_url) = Rid(d, v.normalized_url)
    BY <2>1, <2>2 DEF Rid
  <2>5. IsTaken(d2, r, row) <=> IsTaken(d, r, row)
    BY <2>1, <2>2 DEF IsTaken
  <2>6. QED
    BY <1>2, <2>1, <2>2, <2>3, <2>4, <2>5 DEF Target, Resolved
<1>7. ASSUME v.normalized_url \in FindURLs(d, Urls) \/ d.seq < MaxRid
      PROVE  /\ r \in Rids /\ row \in Rows /\ (r \in Records(d) \/ r = d.seq + 1)
             /\ IsTaken(d, r, row) => CreateRecord(d2, M, conflict) = Fail(d2, "constraint")
             /\ ~IsTaken(d, r, row) => CreateRecord(d2, M, conflict) = Ok(d3, r) /\ DbOk(d3)
  <2>1. d2.seq = d.seq /\ (v.normalized_url \in FindURLs(d2, Urls) \/ d2.seq < MaxRid)
    BY <1>5, <1>6, <1>7
  <2>2. /\ r \in Rids /\ row \in Rows /\ (r \in Records(d2) \/ r = d2.seq + 1)
        /\ IsTaken(d2, r, row) => CreateRecord(d2, M, conflict) = Fail(d2, "constraint")
        /\ ~IsTaken(d2, r, row) => CreateRecord(d2, M, conflict) = Ok(Put(d2, r, row), r) /\ DbOk(Put(d2, r, row))
    <3>1. r = Target(d2, v.normalized_url) /\ row = Resolved(d2, v, columns) /\ DbOk(d2)
      BY <1>5, <1>6
    <3>2. ASSUME NEW done, done = CreateRecord(d2, BuildRecord(v), OnConflictColumns({"normalized_url"}, columns))
          PROVE  /\ r \in Rids /\ row \in Rows /\ (r \in Records(d2) \/ r = d2.seq + 1)
                 /\ IsTaken(d2, r, row) => done = Fail(d2, "constraint")
                 /\ ~IsTaken(d2, r, row) => done = Ok(Put(d2, r, row), r) /\ DbOk(Put(d2, r, row))
      BY <1>6, <2>1, <3>1, <3>2, RecordInserted
    <3>3. QED
      BY <3>2
  <2>3. d2.seq = d.seq
    BY <1>5
  <2>4. QED
    BY <1>6, <2>2, <2>3
<1>8. ASSUME v.normalized_url \in FindURLs(d, Urls) \/ d.seq < MaxRid, ~IsTaken(d, r, row)
      PROVE  /\ d3 = [records |-> [d.records EXCEPT ![r] = row], creators |-> [d.creators EXCEPT ![m.creator] = m.nick],
                      tags |-> Named(d.tags, m.names), record_tags |-> d.record_tags, fts |-> d.fts,
                      seq |-> IF r > d.seq THEN r ELSE d.seq]
             /\ r \in Records(d3) /\ DbOk(d4)
             /\ ReplaceTags(d4, r, DOMAIN m.names) = Ok(d5, r) /\ DbOk(d5)
             /\ d5 = Saved(d, m, r, row, text)
  <2>1. /\ d3 = [records |-> [d2.records EXCEPT ![r] = row], creators |-> d2.creators, tags |-> d2.tags,
                 record_tags |-> d2.record_tags, fts |-> d2.fts, seq |-> IF r > d2.seq THEN r ELSE d2.seq]
        /\ r \in Records(d3) /\ DbOk(d3)
    <3>1. "creator_id" \in columns
      BY ColumnsSaved DEF Columns
    <3>2. row.creator_id = v.creator_id
      BY <3>1, ResolvedRow
    <3>3. d2.seq = d.seq
      BY <1>5
    <3>4. /\ r \in Rids /\ row \in Rows /\ (r \in Records(d2) \/ r = d2.seq + 1)
          /\ ~IsTaken(d2, r, row) /\ d2.creators[row.creator_id] # None /\ DbOk(d2)
      BY <1>5, <1>6, <1>7, <1>8, <3>2, <3>3
    <3>5. QED
      BY <3>4, PutKeepsOrder
  <2>2. d3 = [records |-> [d.records EXCEPT ![r] = row], creators |-> [d.creators EXCEPT ![m.creator] = m.nick],
              tags |-> Named(d.tags, m.names), record_tags |-> d.record_tags, fts |-> d.fts,
              seq |-> IF r > d.seq THEN r ELSE d.seq]
    BY <1>5, <2>1
  <2> HIDE DEF d3
  <2>3. DbOk(d4)
    BY <2>1, TextInserted
  <2>4. d4 = [records |-> [d.records EXCEPT ![r] = row], creators |-> [d.creators EXCEPT ![m.creator] = m.nick],
              tags |-> Named(d.tags, m.names), record_tags |-> d.record_tags,
              fts |-> rows, seq |-> IF r > d.seq THEN r ELSE d.seq]
    <3>1. d3.fts \cup {[id |-> r, text |-> text]} = rows
      BY <2>2
    <3>2. d4 = [d3 EXCEPT !.fts = rows]
      BY <3>1
    <3> HIDE DEF d4, rows
    <3>3. QED
      BY <2>2, <3>2
  <2>5. r \in Records(d4)
    <3>1. d4.records = d3.records
      BY <2>2, <2>4
    <3>2. QED
      BY <2>1, <3>1 DEF Records
  <2> HIDE DEF d4, rows
  <2>6. \A s \in DOMAIN m.names : d4.tags[s] # None
    BY <1>4, <2>4
  <2>7. d5 = [d4 EXCEPT !.record_tags = edges]
    BY <2>4
  <2>8. ReplaceTags(d4, r, DOMAIN m.names) = Ok(d5, r) /\ DbOk(d5)
    <3>1. d5 = [d4 EXCEPT !.record_tags = (@ \ ({r} \X Slugs)) \cup ({r} \X DOMAIN m.names)]
      OBVIOUS
    <3> HIDE DEF d5
    <3>2. QED
      BY <1>2, <2>3, <2>5, <2>6, <3>1, EdgesReplaced
  <2> HIDE DEF d5, edges
  <2>9. d5 = [records |-> [d.records EXCEPT ![r] = row], creators |-> [d.creators EXCEPT ![m.creator] = m.nick],
              tags |-> Named(d.tags, m.names), record_tags |-> edges,
              fts |-> rows, seq |-> IF r > d.seq THEN r ELSE d.seq]
    BY <2>4, <2>7
  <2>10. d5 = Saved(d, m, r, row, text)
    BY <2>9 DEF Saved, edges, rows
  <2>11. QED
    BY <2>1, <2>2, <2>3, <2>8, <2>10
<1> HIDE DEF d3, d4, d5, M, conflict
<1>9. /\ \A x, s : x.err # "none" => Do(x, s) = x
      /\ \A x : Do(x, failing).err # "none"
      /\ \A x, s : x.err = "none" /\ s # failing => Do(x, s) = Statement(s, x, m, M, conflict, text)
      /\ t0.err = "none" /\ t0.db = d
  <2>1. ASSUME NEW x PROVE Do(x, failing).err # "none"
    <3>1. CASE x.err = "none"
      BY <3>1 DEF Ok
    <3>2. QED
      BY <3>1
  <2>2. QED
    BY <1>3, <2>1
<1>10. \A x : /\ Statement("tags", x, m, M, conflict, text) = UpsertTags(x.db, m.names)
              /\ Statement("creator", x, m, M, conflict, text) = UpsertCreator(x.db, m.creator, m.nick)
              /\ Statement("record", x, m, M, conflict, text) = CreateRecord(x.db, M, conflict)
              /\ Statement("fts", x, m, M, conflict, text) = UpsertFTS(x.db, x.id, text)
              /\ Statement("edges", x, m, M, conflict, text) = ReplaceTags(x.db, x.id, DOMAIN m.names)
  BY StatementIs
<1> HIDE DEF Do, t0
<1>11. failing # "tags" => t1 = Ok(d1, 0)
  BY <1>4, <1>9, <1>10
<1>12. failing # "tags" /\ failing # "creator" => t2 = Ok(d2, 0)
  BY <1>3, <1>5, <1>9, <1>10, <1>11
<1>13. failing = "tags" => t5.err # "none"
  BY <1>9
<1>14. failing = "creator" => t5.err # "none"
  BY <1>9
<1> HIDE DEF t2
<1>15. failing = "record" => t5.err # "none"
  BY <1>9
<1>16. failing \notin {"tags", "creator", "record"} => t3 = CreateRecord(d2, M, conflict)
  BY <1>3, <1>9, <1>10, <1>12
<1> HIDE DEF t3
<1>17. failing = "fts" => t5.err # "none"
  BY <1>9
<1>18. failing \notin {"tags", "creator", "record", "fts"} /\ t3 = Ok(d3, r) => t4 = Ok(d4, r)
  BY <1>3, <1>9, <1>10 DEF UpsertFTS, d4
<1> HIDE DEF t4
<1>19. failing = "edges" => t5.err # "none"
  BY <1>9
<1>20. CASE failing \in {"tags", "creator", "record", "fts", "edges"}
  BY <1>1, <1>13, <1>14, <1>15, <1>17, <1>19, <1>20
<1>21. CASE failing \notin {"tags", "creator", "record", "fts", "edges"}
  <2>1. v.normalized_url \in FindURLs(d, Urls) \/ d.seq < MaxRid
    BY <1>21
  <2>2. CASE IsTaken(d, r, row)
    <3>1. t3 = Fail(d2, "constraint") /\ t3.err = "constraint"
      BY <1>7, <1>16, <1>21, <2>1, <2>2 DEF Fail
    <3>2. t4 = t3
      BY <1>9, <3>1 DEF t4
    <3>3. t5.err = "constraint"
      BY <1>9, <3>1, <3>2
    <3>4. QED
      BY <1>1, <2>2, <3>3
  <2>3. CASE ~IsTaken(d, r, row)
    <3>1. t3 = Ok(d3, r)
      BY <1>7, <1>16, <1>21, <2>1, <2>3
    <3>2. t4 = Ok(d4, r)
      BY <1>18, <1>21, <3>1
    <3>3. t5 = ReplaceTags(d4, r, DOMAIN m.names)
      BY <1>3, <1>9, <1>10, <1>21, <3>2
    <3>4. t5 = Ok(d5, r)
      BY <1>8, <2>1, <2>3, <3>3
    <3>5. QED
      BY <1>1, <1>3, <1>7, <1>8, <2>1, <2>3, <3>4
  <2>4. QED
    BY <2>2, <2>3
<1>22. QED
  BY <1>20, <1>21

-----------------------------------------------------------------------------
(* Rows as they are read *)

\* How many of S come before s, and the one that comes i-th.
Below(S, s) == Cardinality({t \in S : t < s})
SlugAt(S, i) == CHOOSE s \in S : Below(S, s) = i - 1

\* A list of slugs has every slug in one place.
LEMMA EveryPlace ==
  ASSUME NEW S \in SUBSET Slugs
  PROVE  /\ Cardinality(S) \in Nat /\ IsFiniteSet(S)
         /\ \A i \in 1 .. Cardinality(S) : SlugAt(S, i) \in S
         /\ \A s \in S : \E i \in 1 .. Cardinality(S) : SlugAt(S, i) = s
<1> DEFINE n == Cardinality(S)
           place == [s \in S |-> Below(S, s) + 1]
<1>1. IsFiniteSet(S) /\ n \in Nat /\ S \subseteq Int
  BY SlugsAreInts, FS_Subset, FS_CardinalityType
<1>2. ASSUME NEW s \in S PROVE Below(S, s) \in 0 .. (n - 1)
  <2>1. {t \in S : t < s} \in SUBSET (S \ {s})
    BY <1>1
  <2>2. IsFiniteSet(S \ {s}) /\ Cardinality(S \ {s}) = n - 1
    BY <1>1, FS_RemoveElement
  <2>3. IsFiniteSet({t \in S : t < s}) /\ Cardinality({t \in S : t < s}) <= n - 1
    BY <2>1, <2>2, FS_Subset
  <2>4. Cardinality({t \in S : t < s}) \in Nat
    BY <2>3, FS_CardinalityType
  <2>5. QED
    BY <1>1, <2>3, <2>4 DEF Below
<1>3. ASSUME NEW s \in S, NEW t \in S, s < t PROVE Below(S, s) < Below(S, t)
  <2>1. {x \in S : x < s} \in SUBSET {x \in S : x < t}
    <3>1. s \in Int /\ t \in Int /\ \A x \in S : x \in Int
      BY <1>1
    <3>2. \A x \in Int : x < s => x < t
      BY <1>3, <3>1
    <3>3. QED
      BY <3>1, <3>2
  <2>2. s \in {x \in S : x < t} /\ s \notin {x \in S : x < s}
    BY <1>1, <1>3
  <2>3. {x \in S : x < t} \in SUBSET S
    OBVIOUS
  <2>4. IsFiniteSet({x \in S : x < t})
    BY <1>1, <2>3, FS_Subset
  <2>5. /\ Cardinality({x \in S : x < s}) <= Cardinality({x \in S : x < t})
        /\ Cardinality({x \in S : x < s}) # Cardinality({x \in S : x < t})
    BY <2>1, <2>2, <2>4, FS_Subset
  <2>6. Below(S, s) \in Int /\ Below(S, t) \in Int
    BY <1>2
  <2>7. QED
    BY <2>5, <2>6 DEF Below
<1>4. place \in [S -> 1 .. n]
  BY <1>1, <1>2
<1>5. \A s, t \in S : place[s] = place[t] => s = t
  <2>1. \A s, t \in S : Below(S, s) = Below(S, t) => s = t
    BY <1>1, <1>2, <1>3
  <2>2. QED
    BY <1>2, <2>1
<1>6. IsFiniteSet(1 .. n) /\ Cardinality(1 .. n) = n
  BY <1>1, FS_Interval
<1>7. place \in Surjection(S, 1 .. n)
  <2> HIDE DEF place
  <2>1. place \in Injection(S, 1 .. n)
    BY <1>4, <1>5 DEF Injection, IsInjective
  <2>2. QED
    BY <1>6, <2>1, FS_Injection
<1>8. ASSUME NEW i \in 1 .. n PROVE \E s \in S : Below(S, s) = i - 1
  <2>1. PICK s \in S : place[s] = i
    BY <1>7 DEF Surjection
  <2>2. Below(S, s) + 1 = i /\ Below(S, s) \in Int
    BY <1>2, <2>1
  <2>3. QED
    BY <2>2
<1>9. \A i \in 1 .. n : SlugAt(S, i) \in S
  BY <1>8 DEF SlugAt
<1>10. ASSUME NEW s \in S PROVE \E i \in 1 .. n : SlugAt(S, i) = s
  <2>1. place[s] \in 1 .. n /\ Below(S, s) = place[s] - 1
    BY <1>1, <1>2
  <2>2. \A t \in S : Below(S, t) = place[s] - 1 => t = s
    BY <1>1, <1>2, <1>5, <2>1
  <2>3. SlugAt(S, place[s]) = s
    BY <2>1, <2>2 DEF SlugAt
  <2>4. QED
    BY <2>1, <2>3
<1>11. QED
  BY <1>1, <1>9, <1>10

\* The tags of a row, and their names.
TagsOf(d, r) == {s \in Slugs : <<r, s>> \in d.record_tags}
NamesOf(d, r) == [s \in TagsOf(d, r) |-> d.tags[s]]

LEMMA TagsLoaded ==
  ASSUME NEW d, DbOk(d), NEW r \in Records(d)
  PROVE  /\ LoadTags(d, r) = [i \in 1 .. Cardinality(TagsOf(d, r)) |->
                                AssignTag(d, SlugAt(TagsOf(d, r), i))]
         /\ ToSet(LoadTags(d, r)) = {AssignTag(d, s) : s \in TagsOf(d, r)}
         /\ NamesOf(d, r) \in [TagsOf(d, r) -> Names]
<1> DEFINE S == TagsOf(d, r)
<1>1. S \in SUBSET Slugs /\ \A s \in S : d.tags[s] # None
  BY DEF TagsOf, DbOk, Refs
<1>2. TagRows(d) \cap S = S
  BY <1>1 DEF TagRows
<1>3. LoadTags(d, r) = [i \in 1 .. Cardinality(S) |-> AssignTag(d, SlugAt(S, i))]
  <2>1. LoadTags(d, r) = AllTags(d, S)
    BY DEF LoadTags, TagsOf
  <2> HIDE DEF S
  <2>2. AllTags(d, S) = [i \in 1 .. Cardinality(TagRows(d) \cap S) |->
                           AssignTag(d, SlugAt(TagRows(d) \cap S, i))]
    BY DEF AllTags, SlugAt, Below
  <2>3. QED
    BY <1>2, <2>1, <2>2
<1>4. NamesOf(d, r) \in [S -> Names]
  BY <1>1 DEF NamesOf, DbOk, DbTypes
<1> HIDE DEF S
<1>5. ToSet(LoadTags(d, r)) = {AssignTag(d, s) : s \in S}
  <2> DEFINE list == [i \in 1 .. Cardinality(S) |-> AssignTag(d, SlugAt(S, i))]
  <2>1. \A i \in DOMAIN list : list[i] = AssignTag(d, SlugAt(S, i)) /\ SlugAt(S, i) \in S
    BY <1>1, EveryPlace
  <2>2. \A s \in S : \E i \in DOMAIN list : list[i] = AssignTag(d, s)
    BY <1>1, EveryPlace
  <2> HIDE DEF list
  <2>3. {list[i] : i \in DOMAIN list} = {AssignTag(d, s) : s \in S}
    BY <2>1, <2>2
  <2>4. QED
    BY <1>3, <2>3 DEF ToSet, list
<1>6. QED
  BY <1>3, <1>4, <1>5 DEF S

LEMMA EntityIs ==
  ASSUME NEW d, DbOk(d), NEW r \in Records(d)
  PROVE  Entity(d, r) = [id |-> r, columns |-> d.records[r], tags |-> LoadTags(d, r),
                         creator |-> [id |-> d.records[r].creator_id,
                                      nickname |-> d.creators[d.records[r].creator_id]]]
<1> DEFINE c == d.records[r].creator_id
<1>1. c \in CreatorRows(d)
  BY StoredRows, RowColumns DEF DbOk, Refs, CreatorRows
<1>2. AllCreators(d, {c}) = {AssignCreator(d, c)}
  BY <1>1 DEF AllCreators
<1>3. LoadCreator(d, r) = AssignCreator(d, c)
  BY <1>2 DEF LoadCreator
<1>4. QED
  BY <1>3 DEF Entity, AssignRecord, AssignCreator

LEMMA MetadataIs ==
  ASSUME NEW d, DbOk(d), NEW r \in Records(d), NEW row, row = d.records[r]
  PROVE  MetadataOf(Entity(d, r)) =
           [creator |-> row.creator_id, nick |-> d.creators[row.creator_id], title |-> row.title,
            update |-> row.update_time, book |-> row.book_update_time, greetings |-> row.greetings_count,
            names |-> NamesOf(d, r)]
<1>a. ASSUME NEW x, x = Entity(d, r)
      PROVE  x.columns = row /\ x.tags = LoadTags(d, r) /\ x.creator.nickname = d.creators[row.creator_id]
  BY <1>a, EntityIs
<1> DEFINE e == Entity(d, r)
           loaded == {AssignTag(d, s) : s \in TagsOf(d, r)}
<1>1. /\ e.columns = row /\ e.tags = LoadTags(d, r) /\ e.creator.nickname = d.creators[row.creator_id]
      /\ ToSet(e.tags) = loaded
  <2>1. e.columns = row /\ e.tags = LoadTags(d, r) /\ e.creator.nickname = d.creators[row.creator_id]
    BY <1>a
  <2>2. ToSet(LoadTags(d, r)) = loaded
    BY TagsLoaded
  <2> HIDE DEF loaded
  <2>3. QED
    BY <2>1, <2>2
<1> HIDE DEF e
<1>2. \A s : AssignTag(d, s).id = s /\ AssignTag(d, s).name = d.tags[s]
  BY DEF AssignTag
<1>3. \A t \in loaded : t.id \in TagsOf(d, r) /\ t = AssignTag(d, t.id)
  BY <1>2
<1>4. \A s \in TagsOf(d, r) : AssignTag(d, s) \in loaded
  OBVIOUS
<1> HIDE DEF loaded
<1>5. {t.id : t \in loaded} = TagsOf(d, r)
  <2>1. ASSUME NEW s \in TagsOf(d, r) PROVE \E t \in loaded : s = t.id
    BY <1>2, <1>4
  <2>2. QED
    BY <1>3, <2>1
<1>6. ASSUME NEW s \in TagsOf(d, r) PROVE (CHOOSE t \in loaded : t.id = s).name = d.tags[s]
  <2>1. (CHOOSE t \in loaded : t.id = s) = AssignTag(d, s)
    BY <1>2, <1>3, <1>4
  <2>2. QED
    BY <1>2, <2>1
<1>7. [s \in {t.id : t \in loaded} |-> (CHOOSE t \in loaded : t.id = s).name] = NamesOf(d, r)
  BY <1>5, <1>6 DEF NamesOf
<1>8. QED
  BY <1>1, <1>7 DEF MetadataOf, e

LEMMA FoundIs ==
  ASSUME NEW d
  PROVE  /\ \A r \in Records(d) : FindRecord(d, r) = Entity(d, r)
         /\ \A rids : FindRecords(d, rids) = {Entity(d, r) : r \in Records(d) \cap rids}
<1>1. \A rids : And(d, {IDIn(d, rids)}) = Records(d) \cap rids
  BY DEF And, IDIn
<1>2. ASSUME NEW rids PROVE FindRecords(d, rids) = {Entity(d, r) : r \in Records(d) \cap rids}
  BY <1>1 DEF FindRecords, AllRows, Query
<1>3. ASSUME NEW r \in Records(d) PROVE FindRecord(d, r) = Entity(d, r)
  <2>1. And(d, {IDIn(d, {r})}) = {r}
    BY <1>1
  <2> DEFINE q == Query({IDIn(d, {r})}, <<>>, 0, 1)
  <2>2. q.where = {IDIn(d, {r})}
    BY DEF Query
  <2> HIDE DEF q
  <2>3. AllRows(d, q) = {Entity(d, r)}
    BY <2>1, <2>2 DEF AllRows
  <2>4. FirstRow(d, q) = Entity(d, r)
    BY <2>1, <2>2, <2>3 DEF FirstRow
  <2>5. QED
    BY <2>4 DEF FindRecord, q
<1>4. QED
  BY <1>2, <1>3


-----------------------------------------------------------------------------
(* Saving a card *)

Keys == [source : Sources, normalized_url : Urls, platform_id : Ids, character_id : Ids]

LEMMA SavedRowTypes ==
  ASSUME NEW time \in 0 .. MaxTime, NEW key \in Keys, NEW m \in R!Metadata
  PROVE  SavedRow(time, key, m) \in Rows
<1>1. /\ m.creator \in Creators /\ m.title \in Titles /\ m.update \in 1 .. MaxTime
      /\ m.book \in 0 .. MaxTime /\ m.greetings \in -1 .. 1
  BY MetadataTypes
<1>2. /\ key.source \in Sources /\ key.normalized_url \in Urls
      /\ key.platform_id \in Ids /\ key.character_id \in Ids
  BY DEF Keys
<1>3. "SUCCESS" \in SyncStatuses
  BY DEF SyncStatuses
<1>4. QED
  BY <1>1, <1>2, <1>3 DEF SavedRow, Rows

\* The row that a save of m under key leaves.
SavedAs(d, time, key, m) == Resolved(d, SavedRow(time, key, m), SavedColumns)

LEMMA SavedAsTypes ==
  ASSUME NEW d, DbOk(d), NEW time \in 0 .. MaxTime, NEW key \in Keys, NEW m \in R!Metadata,
         NEW row, row = SavedAs(d, time, key, m)
  PROVE  /\ row \in Rows
         /\ row.source = key.source /\ row.normalized_url = key.normalized_url
         /\ row.platform_id = key.platform_id /\ row.character_id = key.character_id
         /\ row.title = m.title /\ row.creator_id = m.creator /\ row.update_time = m.update
         /\ row.book_update_time = m.book /\ row.greetings_count = m.greetings
         /\ row.sync_status = "SUCCESS"
<1> DEFINE v == SavedRow(time, key, m)
<1>1. /\ v \in Rows
      /\ v.source = key.source /\ v.normalized_url = key.normalized_url
      /\ v.platform_id = key.platform_id /\ v.character_id = key.character_id
      /\ v.title = m.title /\ v.creator_id = m.creator /\ v.update_time = m.update
      /\ v.book_update_time = m.book /\ v.greetings_count = m.greetings
      /\ v.sync_status = "SUCCESS" /\ v.favorite = FALSE
  <2>1. v \in Rows
    BY SavedRowTypes
  <2>2. QED
    BY <2>1 DEF SavedRow
<1>2. row = Resolved(d, v, SavedColumns)
  BY DEF SavedAs
<1> HIDE DEF v
<1>3. SavedColumns \in SUBSET Columns
  BY ColumnsSaved
<1>4. /\ row \in Rows
      /\ \A c \in SavedColumns : row[c] = v[c]
      /\ \A c \in Columns \ SavedColumns : row[c] =
           IF key.normalized_url \in FindURLs(d, Urls) THEN d.records[Rid(d, key.normalized_url)][c] ELSE v[c]
  BY <1>1, <1>2, <1>3, ResolvedRow
<1>5. QED
  BY <1>1, <1>4, ColumnsSaved DEF Columns

\* What was counted in a record's card: no row keeps the default -1.
Counted(d) == \A r \in Records(d) : d.records[r].greetings_count \in 0 .. 1

LEMMA SaveLeaves ==
  ASSUME NEW d, DbOk(d), NEW time \in 0 .. MaxTime, NEW key \in Keys, NEW m \in R!Metadata,
         NEW sheet \in R!Sheets, NEW failing,
         key.normalized_url \in FindURLs(d, Urls) \/ d.seq < MaxRid \/ failing \in {"tags", "creator"},
         NEW r, r = Target(d, key.normalized_url), NEW row, row = SavedAs(d, time, key, m),
         NEW tx, tx = SaveRecord(BeginTx(d), key, m, sheet, time, failing)
  PROVE  /\ tx.err = "none" =>
              /\ tx.id = r /\ tx.db = Saved(d, m, r, row, sheet.text)
              /\ r \in Rids /\ (r \in Records(d) \/ r = d.seq + 1)
              /\ DbOk(tx.db)
         /\ failing = "none" =>
              IF IsTaken(d, r, row) THEN tx.err = "constraint" ELSE tx.err = "none"
<1> DEFINE v == SavedRow(time, key, m)
<1>1. v \in Rows /\ v.normalized_url = key.normalized_url /\ v.creator_id = m.creator
  <2>1. v \in Rows
    BY SavedRowTypes
  <2>2. QED
    BY <2>1 DEF SavedRow
<1>2. tx = Statements(BeginTx(d), m, BuildRecord(v), OnConflictColumns({"normalized_url"}, SavedColumns),
                      sheet.text, failing)
  BY DEF SaveRecord, SaveConflict
<1>3. row = Resolved(d, v, SavedColumns)
  BY DEF SavedAs
<1> HIDE DEF v
<1>4. SavedColumns \in SUBSET Columns /\ sheet.text \in Texts
  BY ColumnsSaved DEF R!Sheets
<1>5. r = Target(d, v.normalized_url)
  BY <1>1
<1>6. v.normalized_url \in FindURLs(d, Urls) \/ d.seq < MaxRid \/ failing \in {"tags", "creator"}
  BY <1>1
<1>7. QED
  BY <1>1, <1>2, <1>3, <1>4, <1>5, <1>6, StatementsLeave

\* The rows and the edges after a save.
LEMMA SavedRows ==
  ASSUME NEW d, DbOk(d), NEW m, NEW r \in Rids, NEW row \in Rows, NEW text,
         NEW e, e = Saved(d, m, r, row, text)
  PROVE  /\ Records(e) = Records(d) \cup {r} /\ e.records[r] = row
         /\ \A x \in Records(d) : x # r => e.records[x] = d.records[x]
<1>1. e.records = [d.records EXCEPT ![r] = row]
  BY DEF Saved
<1>2. row # None
  BY NoneIsNoRow
<1>3. d.records \in [Rids -> Rows \cup {None}]
  BY DEF DbOk, DbTypes
<1>4. QED
  BY <1>1, <1>2, <1>3 DEF Records

LEMMA SavedTags ==
  ASSUME NEW d, DbOk(d), NEW m \in R!Metadata, NEW r \in Rids, NEW row, NEW text,
         NEW e, e = Saved(d, m, r, row, text)
  PROVE  /\ TagsOf(e, r) = DOMAIN m.names
         /\ \A x \in Rids : x # r => TagsOf(e, x) = TagsOf(d, x)
<1>1. e.record_tags = (d.record_tags \ ({r} \X Slugs)) \cup ({r} \X DOMAIN m.names)
  BY DEF Saved
<1>2. DOMAIN m.names \in SUBSET Slugs
  BY MetadataTypes
<1>3. TagsOf(e, r) = DOMAIN m.names
  BY <1>1, <1>2 DEF TagsOf
<1>4. \A x \in Rids : x # r => TagsOf(e, x) = TagsOf(d, x)
  BY <1>1 DEF TagsOf
<1>5. QED
  BY <1>3, <1>4

LEMMA SameCardinality == \A S : R!Cardinality(S) = Cardinality(S)
BY Zenon DEF R!Cardinality, Cardinality

\* The names that a card is put with are those of its record's tags in the store.
LEMMA TagNamesAre ==
  ASSUME NEW d, DbOk(d), NEW r \in Records(d)
  PROVE  /\ TagNamesOf(Entity(d, r)) \in Seq(Names)
         /\ TagNamesOf(Entity(d, r)) = R!TagNames(NamesOf(d, r))
<1> DEFINE S == TagsOf(d, r)
           n == Cardinality(S)
           names == NamesOf(d, r)
           tags == [i \in 1 .. n |-> AssignTag(d, SlugAt(S, i))]
           list == [i \in 1 .. n |-> names[SlugAt(S, i)]]
<1>1. S \in SUBSET Slugs /\ names \in [S -> Names] /\ \A s \in S : names[s] = d.tags[s]
  BY TagsLoaded DEF TagsOf, NamesOf
<1>2. n \in Nat /\ \A i \in 1 .. n : SlugAt(S, i) \in S
  <2>1. S \in SUBSET Slugs
    BY <1>1
  <2> HIDE DEF S
  <2>2. QED
    BY <2>1, EveryPlace
<1>3. LoadTags(d, r) = tags
  BY TagsLoaded
<1>4. (Entity(d, r)).tags = tags
  <2>1. (Entity(d, r)).tags = LoadTags(d, r)
    BY EntityIs
  <2>2. QED
    BY <1>3, <2>1
<1> HIDE DEF S, names
<1>5. TagNamesOf(Entity(d, r)) = list
  <2>1. \A i \in 1 .. n : tags[i].name = names[SlugAt(S, i)]
    BY <1>1, <1>2 DEF AssignTag
  <2>2. DOMAIN tags = 1 .. n
    OBVIOUS
  <2> HIDE DEF tags
  <2>3. QED
    BY <1>4, <2>1, <2>2 DEF TagNamesOf
<1>6. list \in Seq(Names)
  <2>1. list \in [1 .. n -> Names]
    BY <1>1, <1>2
  <2> HIDE DEF list
  <2>2. QED
    BY <1>2, <2>1
<1>7. R!TagNames(names) = list
  <2>1. \A s : R!Before(S, s) = Below(S, s)
    BY SameCardinality DEF R!Before, Below
  <2>2. DOMAIN names = S /\ R!Cardinality(S) = n
    BY <1>1, SameCardinality
  <2>3. \A i : SlugAt(S, i) = CHOOSE s \in S : R!Before(S, s) = i - 1
    BY <2>1 DEF SlugAt
  <2>4. R!TagNames(names) = [i \in 1 .. R!Cardinality(DOMAIN names) |->
                               names[CHOOSE s \in DOMAIN names : R!Before(DOMAIN names, s) = i - 1]]
    BY DEF R!TagNames
  <2>5. QED
    BY <2>2, <2>3, <2>4
<1>8. QED
  BY <1>5, <1>6, <1>7 DEF names

LEMMA MetadataTyped ==
  ASSUME NEW d, DbOk(d), Counted(d), NEW r \in Records(d)
  PROVE  MetadataOf(Entity(d, r)) \in R!Metadata
<1> DEFINE row == d.records[r]
<1>1. row \in Rows /\ d.creators[row.creator_id] # None /\ row.greetings_count \in 0 .. 1
  BY StoredRows DEF DbOk, Refs, Counted
<1>2. /\ row.creator_id \in Creators /\ row.title \in Titles /\ row.update_time \in R!Times
      /\ row.book_update_time \in 0 .. MaxTime
  BY <1>1, RowColumns DEF R!Times
<1>3. d.creators[row.creator_id] \in Nicknames
  BY <1>1, <1>2 DEF DbOk, DbTypes
<1>4. NamesOf(d, r) \in UNION {[S -> Names] : S \in SUBSET Slugs}
  <2>1. TagsOf(d, r) \in SUBSET Slugs /\ NamesOf(d, r) \in [TagsOf(d, r) -> Names]
    BY TagsLoaded DEF TagsOf
  <2>2. QED
    BY <2>1
<1>5. ASSUME NEW x, x = row
      PROVE  MetadataOf(Entity(d, r)) =
           [creator |-> x.creator_id, nick |-> d.creators[x.creator_id], title |-> x.title,
            update |-> x.update_time, book |-> x.book_update_time, greetings |-> x.greetings_count,
            names |-> NamesOf(d, r)]
  BY <1>5, MetadataIs
<1> HIDE DEF row
<1>6. QED
  BY <1>1, <1>2, <1>3, <1>4, <1>5 DEF R!Metadata

\* SaveCard fails, or saves the row and puts the card with the names in the store.
LEMMA CardSaved ==
  ASSUME DbOk(db), NEW time \in 0 .. MaxTime, NEW key \in Keys, NEW m \in R!Metadata,
         NEW sheet \in R!Sheets, NEW failing,
         key.normalized_url \in FindURLs(db, Urls) \/ db.seq < MaxRid \/ failing \in {"tags", "creator"},
         SaveCard(key, m, sheet, time, failing),
         NEW r, r = Target(db, key.normalized_url), NEW row, row = SavedAs(db, time, key, m)
  PROVE  \/ db' = db /\ sheets' = sheets
         \/ /\ r \in Rids /\ (r \in Records(db) \/ r = db.seq + 1)
            /\ db' = Saved(db, m, r, row, sheet.text)
            /\ DbOk(db')
            /\ sheets' = [sheets EXCEPT ![r][m.update] =
                            [sheet EXCEPT !.tags = TagNamesOf(Entity(Saved(db, m, r, row, sheet.text), r))]]
<1> DEFINE tx == SaveRecord(BeginTx(db), key, m, sheet, time, failing)
           rec == FindRecord(tx.db, tx.id)
           d == Saved(db, m, r, row, sheet.text)
<1>1. /\ db' = WithTx(tx)
      /\ sheets' = IF tx.err # "none" THEN sheets
                   ELSE [sheets EXCEPT ![rec.id][rec.columns.update_time] = [sheet EXCEPT !.tags = TagNamesOf(rec)]]
  BY DEF SaveCard
<1>2. ASSUME NEW x, x = tx
      PROVE  x.err = "none" => /\ x.id = r /\ x.db = Saved(db, m, r, row, sheet.text)
                               /\ r \in Rids /\ (r \in Records(db) \/ r = db.seq + 1)
                               /\ DbOk(x.db)
  BY <1>2, SaveLeaves
<1> HIDE DEF tx
<1>3. CASE tx.err # "none"
  BY <1>1, <1>3 DEF WithTx, Rollback
<1>4. CASE tx.err = "none"
  <2>1. /\ tx.id = r /\ tx.db = d /\ r \in Rids /\ (r \in Records(db) \/ r = db.seq + 1) /\ DbOk(d)
    BY <1>2, <1>4
  <2>2. row \in Rows /\ row.update_time = m.update
    <3>1. row \in Rows
      BY SavedAsTypes
    <3>2. row.update_time = m.update
      BY SavedAsTypes
    <3>3. QED
      BY <3>1, <3>2
  <2>3. r \in Records(d) /\ d.records[r] = row
    <3>1. ASSUME NEW e, e = d PROVE r \in Records(e) /\ e.records[r] = row
      <4>1. Records(e) = Records(db) \cup {r}
        BY <2>1, <2>2, <3>1, SavedRows
      <4>2. e.records[r] = row
        BY <2>1, <2>2, <3>1, SavedRows
      <4>3. QED
        BY <4>1, <4>2
    <3>2. QED
      BY <3>1
  <2>4. db' = d
    BY <1>1, <1>4, <2>1 DEF WithTx, Commit
  <2> HIDE DEF d
  <2>5. rec = Entity(d, r)
    BY <2>1, <2>3, FoundIs
  <2>6. rec.id = r /\ rec.columns = row
    BY <2>1, <2>3, <2>5, EntityIs
  <2> HIDE DEF rec
  <2>7. sheets' = [sheets EXCEPT ![r][m.update] = [sheet EXCEPT !.tags = TagNamesOf(Entity(d, r))]]
    BY <1>1, <1>4, <2>2, <2>5, <2>6
  <2>8. QED
    BY <2>1, <2>4, <2>7 DEF d
<1>5. QED
  BY <1>3, <1>4


-----------------------------------------------------------------------------
(* The other statements *)

\* Rows that differ in their marks alone, and a change of no more.
Kin(row1, row2) ==
  /\ row1.import = row2.import /\ row1.source = row2.source /\ row1.normalized_url = row2.normalized_url
  /\ row1.platform_id = row2.platform_id /\ row1.character_id = row2.character_id
  /\ row1.title = row2.title /\ row1.creator_id = row2.creator_id
  /\ row1.update_time = row2.update_time /\ row1.book_update_time = row2.book_update_time
  /\ row1.greetings_count = row2.greetings_count

Changed(d, e) ==
  /\ e = [d EXCEPT !.records = e.records]
  /\ e.records \in [Rids -> Rows \cup {None}]
  /\ \A r \in Rids : r \notin Records(d) => e.records[r] = None
  /\ \A r \in Records(d) : e.records[r] # None /\ Kin(e.records[r], d.records[r])

LEMMA RowsChanged ==
  ASSUME NEW d, DbOk(d), NEW e, Changed(d, e)
  PROVE  DbOk(e) /\ Records(e) = Records(d)
<1>1. /\ e.creators = d.creators /\ e.record_tags = d.record_tags
      /\ e.fts = d.fts /\ e.seq = d.seq /\ e.tags = d.tags
      /\ e = [records |-> e.records, creators |-> e.creators, tags |-> e.tags,
              record_tags |-> e.record_tags, fts |-> e.fts, seq |-> e.seq]
  <2> DEFINE records == e.records
  <2>1. e = [d EXCEPT !.records = records]
    BY DEF Changed
  <2> HIDE DEF records
  <2>2. QED
    BY <2>1 DEF DbOk, DbTypes
<1>2. Records(e) = Records(d)
  BY DEF Changed, Records
<1>3. \A r \in Records(d) : Kin(e.records[r], d.records[r])
  BY DEF Changed
<1>4. DbTypes(e)
  BY <1>1 DEF DbOk, DbTypes, Changed
<1>5. Refs(e)
  BY <1>1, <1>2, <1>3 DEF DbOk, Refs, Kin
<1>6. Unique(e)
  <2>1. \A index \in UniqueIndexes : \A c \in index : c \in {"source", "platform_id", "character_id", "normalized_url"}
    BY DEF UniqueIndexes
  <2>2. \A r1, r2 \in Records(d), index \in UniqueIndexes :
          Same(e.records[r1], e.records[r2], index) => Same(d.records[r1], d.records[r2], index)
    BY <1>3, <2>1 DEF Same, Kin
  <2>3. QED
    BY <1>2, <2>2 DEF DbOk, Unique
<1>7. QED
  BY <1>2, <1>4, <1>5, <1>6 DEF DbOk

\* The marks of all rows but r.
SameMarks(d, e, r) == \A x \in Records(d) : x # r => e.records[x] = d.records[x]

LEMMA OneChanged ==
  ASSUME NEW d, DbOk(d), NEW r \in Records(d), NEW row \in Rows, Kin(row, d.records[r]),
         NEW e, e = [d EXCEPT !.records = [d.records EXCEPT ![r] = row]]
  PROVE  Changed(d, e) /\ e.records[r] = row /\ SameMarks(d, e, r)
<1> DEFINE records == [d.records EXCEPT ![r] = row]
<1>1. r \in Rids /\ row # None /\ d.records \in [Rids -> Rows \cup {None}]
  BY NoneIsNoRow, StoredRows DEF DbOk, DbTypes
<1>2. /\ records \in [Rids -> Rows \cup {None}] /\ records[r] = row
      /\ \A x \in Rids : x # r => records[x] = d.records[x]
  BY <1>1
<1> HIDE DEF records
<1>3. e = [d EXCEPT !.records = records] /\ e.records = records
  BY DEF records, DbOk, DbTypes
<1>4. \A x \in Records(d) : x \in Rids /\ Kin(d.records[x], d.records[x]) /\ d.records[x] # None
  BY DEF Kin, Records
<1>5. \A x \in Rids : x \notin Records(d) => records[x] = None
  BY <1>2 DEF Records
<1>6. \A x \in Records(d) : records[x] # None /\ Kin(records[x], d.records[x])
  BY <1>1, <1>2, <1>4
<1>7. Changed(d, e)
  BY <1>2, <1>3, <1>5, <1>6 DEF Changed
<1>8. QED
  BY <1>2, <1>3, <1>4, <1>7 DEF SameMarks

\* UpdateOneRecord of columns that identify nothing.
LEMMA OneUpdated ==
  ASSUME NEW d, DbOk(d), NEW r \in Records(d), NEW values, DOMAIN values \subseteq {"sync_status", "exported"},
         "sync_status" \in DOMAIN values => values.sync_status \in SyncStatuses,
         NEW row \in Rows, row = [c \in Columns |-> IF c \in DOMAIN values THEN values[c] ELSE d.records[r][c]],
         NEW e, e = [d EXCEPT !.records = [d.records EXCEPT ![r] = row]]
  PROVE  UpdateOneRecord(d, r, SetColumns(NewRecordMutation, values)) = Ok(e, r)
<1> DEFINE m == SetColumns(NewRecordMutation, values)
           old == d.records[r]
<1>1. /\ DOMAIN m.set = DOMAIN values /\ \A c \in DOMAIN values : m.set[c] = values[c]
      /\ m.tags = {} /\ m.removedtags = {} /\ m.clearedtags = FALSE
  BY DEF SetColumns, NewRecordMutation
<1>2. CheckUpdate(m) /\ ClearedEdges(m) = {}
  BY <1>1 DEF CheckUpdate, ClearedEdges, IsValidStatus
<1> HIDE DEF m
<1>3. [c \in Columns |-> IF c \in DOMAIN m.set THEN m.set[c] ELSE d.records[r][c]] = row
  BY <1>1
<1>4. /\ row.source = old.source /\ row.platform_id = old.platform_id /\ row.character_id = old.character_id
      /\ row.normalized_url = old.normalized_url /\ row.creator_id = old.creator_id
  BY DEF Columns
<1>5. \A index \in UniqueIndexes : \A c \in index : row[c] = old[c]
  BY <1>4 DEF UniqueIndexes
<1>6. r \in Rids /\ old \in Rows /\ d.creators[row.creator_id] # None
  BY <1>4, StoredRows DEF DbOk, Refs
<1>7. ~IsTaken(d, r, row)
  BY <1>5 DEF IsTaken, DbOk, Unique, Same
<1>8. r <= d.seq /\ r \in Nat /\ d.seq \in Nat
  BY <1>6, BoundsAreNats DEF DbOk, DbTypes, Refs, Rids
<1>9. /\ PutRecord(d, r, row) = Ok(Put(d, r, row), r)
      /\ Put(d, r, row) = [records |-> [d.records EXCEPT ![r] = row], creators |-> d.creators, tags |-> d.tags,
              record_tags |-> d.record_tags, fts |-> d.fts, seq |-> IF r > d.seq THEN r ELSE d.seq]
  BY <1>6, <1>7, PutKeepsOrder
<1>10. Put(d, r, row) = e /\ PutRecord(d, r, row) = Ok(e, r)
  BY <1>8, <1>9 DEF DbOk, DbTypes
<1>11. [e EXCEPT !.record_tags = (@ \ ({r} \X {})) \cup ({r} \X {})] = e
  <2>1. (e.record_tags \ ({r} \X {})) \cup ({r} \X {}) = e.record_tags
    OBVIOUS
  <2>2. [e EXCEPT !.record_tags = e.record_tags] = e
    BY <1>8, <1>9, <1>10
  <2>3. QED
    BY <2>1, <2>2
<1>12. UpdateRecord(d, r, m.set, {}, m.tags) = Ok(e, r)
  <2> DEFINE put == PutRecord(d, r, row)
  <2>1. put.db = e /\ put.err = "none"
    BY <1>10 DEF Ok
  <2>2. UpdateRecord(d, r, m.set, {}, {}) = Ok([put.db EXCEPT !.record_tags = (@ \ ({r} \X {})) \cup ({r} \X {})], r)
    BY <1>3, <2>1 DEF UpdateRecord
  <2> HIDE DEF put
  <2>3. QED
    BY <1>1, <1>11, <2>1, <2>2
<1>13. QED
  BY <1>2, <1>12 DEF UpdateOneRecord, m

LEMMA RecordsDeleted ==
  ASSUME NEW d, DbOk(d), NEW rids, NEW e, e = DeleteRecords(d, rids)
  PROVE  /\ DbOk(e) /\ Records(e) = Records(d) \ rids
         /\ \A r \in Records(e) : e.records[r] = d.records[r]
<1> DEFINE records == [r \in Rids |-> IF r \in rids THEN None ELSE d.records[r]]
           edges == {x \in d.record_tags : x[1] \notin rids}
           texts == {row \in d.fts : row.id \notin rids}
<1>1. e = [d EXCEPT !.records = records, !.record_tags = edges, !.fts = texts]
  BY DEF DeleteRecords, DbOk, DbTypes
<1>2. /\ records \in [Rids -> Rows \cup {None}] /\ \A r \in Rids : records[r] = IF r \in rids THEN None ELSE d.records[r]
      /\ edges \in SUBSET d.record_tags /\ texts \in SUBSET d.fts
      /\ \A x \in edges : x[1] \notin rids
      /\ \A row \in texts : row.id \notin rids
  BY DEF DbOk, DbTypes
<1> HIDE DEF records, edges, texts
<1>3. /\ e.records = records /\ e.creators = d.creators /\ e.record_tags = edges
      /\ e.fts = texts /\ e.seq = d.seq /\ e.tags = d.tags
      /\ e = [records |-> e.records, creators |-> e.creators, tags |-> e.tags,
              record_tags |-> e.record_tags, fts |-> e.fts, seq |-> e.seq]
  BY <1>1 DEF DbOk, DbTypes
<1>4. Records(e) = Records(d) \ rids /\ \A r \in Records(e) : e.records[r] = d.records[r]
  BY <1>2, <1>3 DEF Records
<1>5. DbTypes(e)
  BY <1>2, <1>3 DEF DbOk, DbTypes
<1>6. Refs(e)
  BY <1>2, <1>3, <1>4 DEF DbOk, Refs
<1>7. Unique(e)
  BY <1>4 DEF DbOk, Unique
<1>8. QED
  BY <1>4, <1>5, <1>6, <1>7 DEF DbOk

\* Only creators without records go.
LEMMA CreatorsDeleted ==
  ASSUME NEW d, DbOk(d), NEW e, e = DeleteCreators(d, CreatorRows(d) \ HasRecords(d))
  PROVE  DbOk(e) /\ e.records = d.records
<1> DEFINE gone == CreatorRows(d) \ HasRecords(d)
           creators == [c \in Creators |-> IF c \in gone THEN None ELSE d.creators[c]]
<1>1. e = [d EXCEPT !.creators = creators]
  BY DEF DeleteCreators, DbOk, DbTypes
<1>2. creators \in [Creators -> Nicknames \cup {None}]
  BY DEF DbOk, DbTypes
<1>3. \A r \in Records(d) : creators[d.records[r].creator_id] # None
  <2>1. \A r \in Records(d) : d.records[r].creator_id \in Creators /\ d.creators[d.records[r].creator_id] # None
    BY StoredRows, RowColumns DEF DbOk, Refs
  <2>2. QED
    BY <2>1 DEF HasRecords, CreatorRows
<1> HIDE DEF gone, creators
<1>4. /\ e.records = d.records /\ e.creators = creators /\ e.record_tags = d.record_tags
      /\ e.fts = d.fts /\ e.seq = d.seq /\ e.tags = d.tags
      /\ e = [records |-> e.records, creators |-> e.creators, tags |-> e.tags,
              record_tags |-> e.record_tags, fts |-> e.fts, seq |-> e.seq]
  BY <1>1 DEF DbOk, DbTypes
<1>5. Records(e) = Records(d)
  BY <1>4 DEF Records
<1>6. DbTypes(e)
  BY <1>2, <1>4 DEF DbOk, DbTypes
<1>7. Refs(e)
  BY <1>3, <1>4, <1>5 DEF DbOk, Refs
<1>8. Unique(e)
  BY <1>4, <1>5 DEF DbOk, Unique
<1>9. QED
  BY <1>4, <1>6, <1>7, <1>8 DEF DbOk


-----------------------------------------------------------------------------
(* Repairs *)

LEMMA TagNamesTyped ==
  ASSUME NEW names, DOMAIN names \in SUBSET Slugs, names \in [DOMAIN names -> Names]
  PROVE  R!TagNames(names) \in Seq(Names)
<1> DEFINE S == DOMAIN names
           n == Cardinality(S)
           list == [i \in 1 .. n |-> names[SlugAt(S, i)]]
<1> HIDE DEF S
<1>1. S \in SUBSET Slugs /\ names \in [S -> Names] /\ DOMAIN names = S
  BY DEF S
<1>2. n \in Nat /\ \A i \in 1 .. n : SlugAt(S, i) \in S
  BY <1>1, EveryPlace
<1>3. R!TagNames(names) = list
  <2>1. \A s : R!Before(S, s) = Below(S, s)
    BY SameCardinality DEF R!Before, Below
  <2>2. R!Cardinality(S) = n
    BY SameCardinality
  <2>3. \A i : SlugAt(S, i) = CHOOSE s \in S : R!Before(S, s) = i - 1
    BY <2>1 DEF SlugAt
  <2>4. R!TagNames(names) = [i \in 1 .. R!Cardinality(DOMAIN names) |->
                               names[CHOOSE s \in DOMAIN names : R!Before(DOMAIN names, s) = i - 1]]
    BY DEF R!TagNames
  <2>5. QED
    BY <1>1, <2>2, <2>3, <2>4
<1>4. list \in [1 .. n -> Names]
  BY <1>1, <1>2
<1> HIDE DEF list
<1>5. QED
  BY <1>2, <1>3, <1>4

LEMMA SyncedSheet ==
  ASSUME NEW m \in R!Metadata, NEW sheet \in R!Sheets
  PROVE  R!SyncSheetFields(m, sheet) \in R!Sheets
<1> DEFINE tags == R!TagNames(m.names)
           latest == R!LatestUpdateTime(m)
           modified == R!Seconds(latest)
           s1 == [sheet EXCEPT !.title = m.title]
           s2 == [s1 EXCEPT !.creator = m.nick]
           s3 == [s2 EXCEPT !.tags = tags]
<1>1. m.title \in Titles /\ m.nick \in Nicknames /\ tags \in Seq(Names)
  BY MetadataTypes, TagNamesTyped
<1>2. latest \in 0 .. MaxTime
  BY MetadataTypes, BoundsAreNats DEF R!LatestUpdateTime
<1>3. modified \in 0 .. MaxTime
  <2> HIDE DEF latest
  <2>1. latest \in Nat /\ PerSecond \in Nat \ {0} /\ MaxTime \in Nat /\ latest <= MaxTime
    BY <1>2, BoundsAreNats, SecondsAreNats
  <2>2. latest \div PerSecond \in Nat /\ latest \div PerSecond <= latest
    BY <2>1
  <2>3. QED
    BY <2>1, <2>2 DEF R!Seconds
<1>4. R!SyncSheetFields(m, sheet) = [s3 EXCEPT !.modified = modified]
  BY DEF R!SyncSheetFields
<1>5. s1 \in R!Sheets
  BY <1>1 DEF R!Sheets
<1> HIDE DEF tags, modified, s1
<1>6. s2 \in R!Sheets
  BY <1>1, <1>5 DEF R!Sheets
<1> HIDE DEF s2
<1>7. s3 \in R!Sheets
  BY <1>1, <1>6 DEF R!Sheets
<1> HIDE DEF s3
<1>8. QED
  BY <1>3, <1>4, <1>7 DEF R!Sheets

LEMMA SyncedRecord ==
  ASSUME NEW m \in R!Metadata, NEW sheet \in R!Sheets
  PROVE  R!SyncRecordFields(m, sheet) \in R!Metadata
<1> DEFINE book == IF ~sheet.book THEN 0 ELSE IF m.book = 0 THEN R!LatestUpdateTime(m) ELSE m.book
           m1 == [m EXCEPT !.greetings = sheet.greetings]
<1>1. sheet.greetings \in 0 .. 1
  BY DEF R!Sheets
<1>2. book \in 0 .. MaxTime
  BY MetadataTypes, BoundsAreNats DEF R!LatestUpdateTime
<1>3. m1 \in R!Metadata /\ m1.book = m.book
  BY <1>1 DEF R!Metadata
<1>4. R!SyncRecordFields(m, sheet) = [m1 EXCEPT !.book = book]
  BY <1>3 DEF R!SyncRecordFields, R!Metadata
<1> HIDE DEF m1, book
<1>5. QED
  BY <1>2, <1>3, <1>4 DEF R!Metadata

LEMMA FixTypes ==
  ASSUME NEW m \in R!Metadata, NEW sheet \in R!Sheets
  PROVE  (R!FixIntegrity(m, sheet)).record \in R!Metadata /\ (R!FixIntegrity(m, sheet)).sheet \in R!Sheets
BY SyncedSheet, SyncedRecord DEF R!FixIntegrity


-----------------------------------------------------------------------------
(* The invariant *)

SheetsTyped(s) == s \in [Rids -> [1 .. MaxTime -> R!Sheets \cup {None}]]

\* What a check has read, and what it has decided to save.
Read(e) == e.id \in Rids /\ e.columns \in Rows /\ MetadataOf(e) \in R!Metadata
Decided(x) == x.key \in Keys /\ x.metadata \in R!Metadata /\ x.sheet \in R!Sheets

\* Tables in order, and what is put into them and read of them is what may be.
InOrder ==
  /\ DbOk(db) /\ Counted(db)
  /\ SheetsTyped(sheets)
  /\ \A e \in snapshot : Read(e)
  /\ repair # None => Decided(repair)

LEMMA SheetPut ==
  ASSUME NEW s, SheetsTyped(s), NEW r \in Rids, NEW t \in 1 .. MaxTime, NEW sheet \in R!Sheets, NEW tags \in Seq(Names)
  PROVE  SheetsTyped([s EXCEPT ![r][t] = [sheet EXCEPT !.tags = tags]])
<1> DEFINE new == [sheet EXCEPT !.tags = tags]
<1>1. new \in R!Sheets
  BY DEF R!Sheets
<1> HIDE DEF new
<1>2. [s[r] EXCEPT ![t] = new] \in [1 .. MaxTime -> R!Sheets \cup {None}]
  BY <1>1 DEF SheetsTyped
<1>3. [s EXCEPT ![r][t] = new] = [s EXCEPT ![r] = [s[r] EXCEPT ![t] = new]]
  BY DEF SheetsTyped
<1>4. QED
  BY <1>2, <1>3 DEF SheetsTyped, new

LEMMA SavedCounted ==
  ASSUME NEW d, DbOk(d), Counted(d), NEW m, NEW r \in Rids, NEW row \in Rows, row.greetings_count \in 0 .. 1,
         NEW text, NEW e, e = Saved(d, m, r, row, text)
  PROVE  r \in Records(e) /\ Counted(e)
<1>1. Records(e) = Records(d) \cup {r}
  BY SavedRows
<1>2. e.records[r] = row
  BY SavedRows
<1>3. \A x \in Records(d) : x # r => e.records[x] = d.records[x]
  <2>1. e.records = [d.records EXCEPT ![r] = row]
    BY DEF Saved
  <2>2. QED
    BY <2>1, StoredRows DEF DbOk, DbTypes
<1>4. QED
  BY <1>1, <1>2, <1>3 DEF Counted

LEMMA SaveCardKeeps ==
  ASSUME InOrder, NEW time \in 0 .. MaxTime, NEW key \in Keys, NEW m \in R!Metadata, NEW sheet \in R!Sheets,
         NEW failing \in Failing(key.normalized_url), SaveCard(key, m, sheet, time, failing)
  PROVE  DbOk(db') /\ Counted(db') /\ SheetsTyped(sheets')
<1> DEFINE r == Target(db, key.normalized_url)
           row == SavedAs(db, time, key, m)
           d == Saved(db, m, r, row, sheet.text)
<1>1. key.normalized_url \in FindURLs(db, Urls) \/ db.seq < MaxRid \/ failing \in {"tags", "creator"}
  BY DEF Failing, StoredUrls
<1>2. ASSUME NEW x, x = r, NEW y, y = row
      PROVE  \/ db' = db /\ sheets' = sheets
             \/ /\ x \in Rids /\ (x \in Records(db) \/ x = db.seq + 1)
                /\ db' = Saved(db, m, x, y, sheet.text)
                /\ DbOk(db')
                /\ sheets' = [sheets EXCEPT ![x][m.update] =
                                [sheet EXCEPT !.tags = TagNamesOf(Entity(Saved(db, m, x, y, sheet.text), x))]]
  BY <1>1, <1>2, CardSaved DEF InOrder
<1>3. ASSUME NEW y, y = row PROVE y \in Rows /\ y.greetings_count = m.greetings
  <2>1. y \in Rows
    BY <1>3, SavedAsTypes DEF InOrder
  <2>2. y.greetings_count = m.greetings
    BY <1>3, SavedAsTypes DEF InOrder
  <2>3. QED
    BY <2>1, <2>2
<1> HIDE DEF r, row
<1>4. CASE db' = db /\ sheets' = sheets
  BY <1>4 DEF InOrder
<1>5. CASE ~(db' = db /\ sheets' = sheets)
  <2>1. /\ r \in Rids /\ db' = d /\ DbOk(d)
        /\ sheets' = [sheets EXCEPT ![r][m.update] = [sheet EXCEPT !.tags = TagNamesOf(Entity(d, r))]]
    BY <1>2, <1>5
  <2>2. row \in Rows /\ row.greetings_count = m.greetings
    BY <1>3
  <2>3. m.greetings \in 0 .. 1
    BY MetadataTypes
  <2>4. ASSUME NEW e, e = Saved(db, m, r, row, sheet.text) PROVE r \in Records(e) /\ Counted(e)
    BY <2>1, <2>2, <2>3, <2>4, SavedCounted DEF InOrder
  <2>5. r \in Records(d) /\ Counted(d)
    BY <2>4
  <2> HIDE DEF d
  <2>6. TagNamesOf(Entity(d, r)) \in Seq(Names)
    BY <2>1, <2>5, TagNamesAre
  <2>7. m.update \in 1 .. MaxTime
    BY MetadataTypes
  <2>8. SheetsTyped(sheets')
    BY <2>1, <2>6, <2>7, SheetPut DEF InOrder
  <2>9. QED
    BY <2>1, <2>5, <2>8
<1>6. QED
  BY <1>4, <1>5

LEMMA KeyTypes ==
  ASSUME NEW e, e.columns \in Rows
  PROVE  KeyOf(e) \in Keys
<1>1. /\ e.columns.source \in Sources /\ e.columns.normalized_url \in Urls
      /\ e.columns.platform_id \in Ids /\ e.columns.character_id \in Ids
  BY RowColumns
<1>2. QED
  BY <1>1 DEF KeyOf, Keys

LEMMA InOrderInit == Init => InOrder
<1> SUFFICES ASSUME Init PROVE InOrder
  OBVIOUS
<1>1. Records(EmptyDb) = {}
  BY DEF Records, EmptyDb
<1>2. DbOk(db) /\ Counted(db)
  BY <1>1, EmptyIsOk DEF Init, Counted
<1>3. QED
  BY <1>2 DEF Init, InOrder, SheetsTyped

LEMMA SaveInOrder == ASSUME InOrder, NEW u \in Urls, Save(u) PROVE InOrder'
<1>1. PICK f \in Fetched[u], time \in ImportTimes, failing \in Failing(u) :
        SaveCard(f.key, f.metadata, f.sheet, time, failing)
  BY DEF Save
<1>2. f.key \in Keys /\ f.key.normalized_url = u /\ f.metadata \in R!Metadata /\ f.sheet \in R!Sheets
  BY FetchedIsWhatMayBeSaved DEF Keys
<1>3. time \in 0 .. MaxTime
  BY ImportTimesAreTimes
<1>4. DbOk(db') /\ Counted(db') /\ SheetsTyped(sheets')
  BY <1>1, <1>2, <1>3, SaveCardKeeps
<1>5. snapshot' = snapshot /\ repair' = repair
  BY DEF Save
<1>6. QED
  BY <1>4, <1>5 DEF InOrder

LEMMA RepairInOrder == ASSUME InOrder, Repair PROVE InOrder'
<1>1. PICK failing \in Failing(repair.key.normalized_url) :
        SaveCard(repair.key, repair.metadata, repair.sheet, repair.metadata.update, failing)
  BY DEF Repair
<1>2. Decided(repair)
  BY DEF Repair, InOrder
<1>3. repair.metadata.update \in 0 .. MaxTime
  <2>1. repair.metadata.update \in 1 .. MaxTime
    BY <1>2, MetadataTypes DEF Decided
  <2>2. QED
    BY <2>1, BoundsAreNats
<1>4. DbOk(db') /\ Counted(db') /\ SheetsTyped(sheets')
  BY <1>1, <1>2, <1>3, SaveCardKeeps DEF Decided
<1>5. snapshot' = snapshot /\ repair' = None
  BY DEF Repair
<1>6. QED
  BY <1>4, <1>5 DEF InOrder

LEMMA DeleteInOrder == ASSUME InOrder, NEW r \in Rids, Delete(r) PROVE InOrder'
<1> DEFINE rids == IDIn(db, {r}) \cap Records(db)
<1>1. db' = DeleteRecords(db, rids)
  BY DEF Delete, DeleteWhere
<1> HIDE DEF rids
<1>2. /\ DbOk(db') /\ Records(db') = Records(db) \ rids
      /\ \A x \in Records(db') : db'.records[x] = db.records[x]
  BY <1>1, RecordsDeleted DEF InOrder
<1>3. Counted(db')
  BY <1>2 DEF Counted, InOrder
<1>4. SheetsTyped(sheets')
  BY DEF Delete, SheetsTyped, InOrder
<1>5. QED
  BY <1>2, <1>3, <1>4 DEF Delete, InOrder


LEMMA ChangeInOrder == ASSUME InOrder, Changed(db, db'), UNCHANGED <<sheets, snapshot, repair>> PROVE InOrder'
<1>1. DbOk(db') /\ Records(db') = Records(db)
  BY RowsChanged DEF InOrder
<1>2. \A r \in Records(db) : Kin(db'.records[r], db.records[r])
  BY DEF Changed
<1>3. Counted(db')
  BY <1>1, <1>2 DEF Counted, InOrder, Kin
<1>4. QED
  BY <1>1, <1>3 DEF InOrder

LEMMA SameInOrder == ASSUME InOrder, UNCHANGED <<db, sheets, snapshot, repair>> PROVE InOrder'
BY DEF InOrder, SheetsTyped

\* UpdateOneRecord of one column, or of none if there is no such record.
LEMMA OneEffect ==
  ASSUME InOrder, NEW r \in Rids, NEW values, DOMAIN values \subseteq {"sync_status", "exported"},
         "sync_status" \in DOMAIN values => values.sync_status \in SyncStatuses,
         "exported" \in DOMAIN values => values.exported \in {-1} \cup 1 .. MaxTime,
         Update(UpdateOneRecord(db, r, SetColumns(NewRecordMutation, values)))
  PROVE  \/ r \notin Records(db) /\ db' = db
         \/ /\ r \in Records(db) /\ Changed(db, db') /\ SameMarks(db, db', r)
            /\ db'.records[r].favorite <=> db.records[r].favorite
            /\ db'.records[r].sync_status =
                 IF "sync_status" \in DOMAIN values THEN values.sync_status ELSE db.records[r].sync_status
<1> DEFINE tx == UpdateOneRecord(db, r, SetColumns(NewRecordMutation, values))
<1>1. db' = WithTx(tx)
  BY DEF Update
<1>2. CASE r \notin Records(db)
  <2>1. tx.err # "none"
    BY <1>2 DEF UpdateOneRecord, UpdateRecord, Fail
  <2>2. QED
    BY <1>1, <1>2, <2>1 DEF WithTx, Rollback
<1>3. CASE r \in Records(db)
  <2> DEFINE old == db.records[r]
             row == [c \in Columns |-> IF c \in DOMAIN values THEN values[c] ELSE old[c]]
             e == [db EXCEPT !.records = [db.records EXCEPT ![r] = row]]
  <2>1. old \in Rows
    BY <1>3, StoredRows DEF InOrder, DbOk
  <2>2. row \in Rows /\ Kin(row, old)
    <3> HIDE DEF old
    <3>1. /\ DOMAIN row = Columns /\ row = [c \in Columns |-> row[c]]
          /\ row.sync_status \in SyncStatuses /\ row.exported \in {-1} \cup 1 .. MaxTime
          /\ \A c \in Columns : c # "sync_status" /\ c # "exported" => row[c] = old[c]
      BY <2>1, RowColumns DEF Columns
    <3> HIDE DEF row
    <3>2. \A c \in {"import", "source", "normalized_url", "platform_id", "character_id", "title",
            "creator_id", "update_time", "book_update_time", "greetings_count", "favorite"} : row[c] = old[c]
      BY <3>1 DEF Columns
    <3>3. /\ row.import \in 0 .. MaxTime /\ row.source \in Sources /\ row.normalized_url \in Urls
          /\ row.platform_id \in Ids /\ row.character_id \in Ids /\ row.title \in Titles
          /\ row.creator_id \in Creators /\ row.update_time \in 1 .. MaxTime
          /\ row.book_update_time \in 0 .. MaxTime /\ row.greetings_count \in -1 .. 1
          /\ row.favorite \in BOOLEAN
      BY <2>1, <3>2, RowColumns
    <3>4. row \in Rows
      BY <3>1, <3>3, ColumnsMakeRow
    <3>5. QED
      BY <3>2, <3>4 DEF Kin
  <2>3. ASSUME NEW y \in Rows, y = [c \in Columns |-> IF c \in DOMAIN values THEN values[c] ELSE db.records[r][c]],
               NEW x, x = [db EXCEPT !.records = [db.records EXCEPT ![r] = y]]
        PROVE  tx = Ok(x, r)
    BY <1>3, <2>3, OneUpdated DEF InOrder
  <2>4. tx = Ok(e, r)
    BY <2>2, <2>3
  <2>5. /\ row.favorite <=> old.favorite
        /\ row.sync_status = IF "sync_status" \in DOMAIN values THEN values.sync_status ELSE old.sync_status
    BY DEF Columns
  <2> HIDE DEF row, tx
  <2>6. db' = e
    BY <1>1, <2>4 DEF WithTx, Commit, Ok
  <2> HIDE DEF old
  <2>7. ASSUME NEW y \in Rows, y = row, NEW x, x = [db EXCEPT !.records = [db.records EXCEPT ![r] = y]]
        PROVE  Changed(db, x) /\ x.records[r] = y /\ SameMarks(db, x, r)
    <3>1. DbOk(db) /\ Kin(y, db.records[r])
      BY <2>2, <2>7 DEF InOrder, old
    <3> HIDE DEF row, old
    <3>2. Changed(db, x)
      BY <1>3, <2>7, <3>1, OneChanged
    <3>3. x.records[r] = y
      BY <1>3, <2>7, <3>1, StoredRows DEF DbOk, DbTypes
    <3>4. SameMarks(db, x, r)
      BY <1>3, <2>7, <3>1, OneChanged
    <3>5. QED
      BY <3>2, <3>3, <3>4
  <2>9. Changed(db, e) /\ e.records[r] = row /\ SameMarks(db, e, r)
    BY <2>2, <2>7
  <2> HIDE DEF e
  <2>8. QED
    BY <1>3, <2>5, <2>6, <2>9 DEF old
<1>4. QED
  BY <1>2, <1>3

LEMMA ExportEffect ==
  ASSUME InOrder, NEW r \in Rids, UpdateExportData(r)
  PROVE  /\ r \in Records(db) /\ Changed(db, db') /\ SameMarks(db, db', r)
         /\ db'.records[r].favorite <=> db.records[r].favorite
         /\ db'.records[r].sync_status = db.records[r].sync_status
<1> DEFINE v == db.records[r].update_time
<1>1. r \in Records(db) /\ Update(UpdateOneRecord(db, r, SetColumns(NewRecordMutation, [exported |-> v])))
  BY DEF UpdateExportData, SetExport
<1>2. v \in 1 .. MaxTime
  BY <1>1, StoredRows, RowColumns DEF InOrder, DbOk
<1> HIDE DEF v
<1> DEFINE values == [exported |-> v]
<1>3. DOMAIN values = {"exported"} /\ values.exported = v
  OBVIOUS
<1> HIDE DEF values
<1>4. QED
  BY <1>1, <1>2, <1>3, OneEffect DEF values

LEMMA SyncEffect ==
  ASSUME InOrder, NEW r \in Rids, NEW status \in R!Statuses, UpdateSyncData(r, status)
  PROVE  \/ r \notin Records(db) /\ db' = db
         \/ /\ r \in Records(db) /\ Changed(db, db') /\ SameMarks(db, db', r)
            /\ db'.records[r].favorite <=> db.records[r].favorite
            /\ db'.records[r].sync_status = status
<1> DEFINE values == [sync_status |-> status]
<1>1. Update(UpdateOneRecord(db, r, SetColumns(NewRecordMutation, values)))
  BY DEF UpdateSyncData, SetSync
<1>2. DOMAIN values = {"sync_status"} /\ values.sync_status = status /\ status \in SyncStatuses
  BY DEF SyncStatuses, R!Statuses
<1> HIDE DEF values
<1>3. QED
  BY <1>1, <1>2, OneEffect

LEMMA ToggleEffect ==
  ASSUME InOrder, NEW r \in Rids, ToggleFavorite(r)
  PROVE  \/ r \notin Records(db) /\ db' = db
         \/ /\ r \in Records(db) /\ Changed(db, db') /\ SameMarks(db, db', r)
            /\ db'.records[r].favorite <=> ~db.records[r].favorite
            /\ db'.records[r].sync_status = db.records[r].sync_status
<1>1. db' = WithTx(ModifyFavorite(db, r))
  BY DEF ToggleFavorite, Update
<1>2. CASE r \notin Records(db)
  BY <1>1, <1>2 DEF ModifyFavorite, Fail, WithTx, Rollback
<1>3. CASE r \in Records(db)
  <2> DEFINE old == db.records[r]
             row == [old EXCEPT !.favorite = ~old.favorite]
             e == [db EXCEPT !.records = [db.records EXCEPT ![r] = row]]
  <2>1. old \in Rows
    BY <1>3, StoredRows DEF InOrder, DbOk
  <2>2. db' = e
    BY <1>1, <1>3, <2>1 DEF ModifyFavorite, Ok, WithTx, Commit, InOrder, DbOk, DbTypes
  <2>3. row \in Rows /\ Kin(row, old) /\ row.sync_status = old.sync_status
    <3> HIDE DEF old
    <3>1. QED
      BY <2>1 DEF Rows, Kin
  <2>4. row.favorite <=> ~old.favorite
    <3> HIDE DEF old
    <3>1. QED
      BY <2>1 DEF Rows
  <2> HIDE DEF row
  <2> HIDE DEF old
  <2>5. ASSUME NEW y \in Rows, y = row, NEW x, x = [db EXCEPT !.records = [db.records EXCEPT ![r] = y]]
        PROVE  Changed(db, x) /\ x.records[r] = y /\ SameMarks(db, x, r)
    <3>1. DbOk(db) /\ Kin(y, db.records[r])
      BY <2>3, <2>5 DEF InOrder, old
    <3>2. Changed(db, x)
      BY <1>3, <2>5, <3>1, OneChanged
    <3>3. x.records[r] = y
      BY <1>3, <2>5, <3>1, StoredRows DEF DbOk, DbTypes
    <3>4. SameMarks(db, x, r)
      BY <1>3, <2>5, <3>1, OneChanged
    <3>5. QED
      BY <3>2, <3>3, <3>4
  <2>6. Changed(db, e) /\ e.records[r] = row /\ SameMarks(db, e, r)
    BY <2>3, <2>5
  <2> HIDE DEF e
  <2>7. QED
    BY <1>3, <2>2, <2>3, <2>4, <2>6 DEF old
<1>4. QED
  BY <1>2, <1>3

LEMMA FavoritesEffect ==
  ASSUME InOrder, NEW rids \in SUBSET Rids, NEW favorite \in BOOLEAN, UpdateFavoriteData(rids, favorite)
  PROVE  /\ Changed(db, db')
         /\ \A r \in Records(db) :
              /\ r \in rids => (db'.records[r].favorite <=> favorite)
              /\ r \notin rids => (db'.records[r].favorite <=> db.records[r].favorite)
              /\ db'.records[r].sync_status = db.records[r].sync_status
<1> DEFINE where == IDIn(db, rids)
           m == SetFavorite(NewRecordMutation, favorite)
           records == [r \in Rids |-> IF r \in where THEN [db.records[r] EXCEPT !.favorite = favorite] ELSE db.records[r]]
<1>1. m.set.favorite = favorite
  BY DEF SetFavorite, SetColumns, NewRecordMutation
<1>2. db' = WithTx(Ok(UpdateRecords(db, where, m), 0))
  BY DEF UpdateFavoriteData, Update
<1> HIDE DEF m
<1>3. db' = UpdateRecords(db, where, m)
  BY <1>2 DEF WithTx, Commit, Ok
<1>4. where = Records(db) \cap rids
  BY DEF IDIn
<1> HIDE DEF where
<1>5. db' = [db EXCEPT !.records = records]
  BY <1>1, <1>3 DEF UpdateRecords, InOrder, DbOk, DbTypes
<1>6. ASSUME NEW old \in Rows, NEW row, row = [old EXCEPT !.favorite = favorite]
      PROVE  row \in Rows /\ Kin(row, old) /\ (row.favorite <=> favorite) /\ row.sync_status = old.sync_status
  <2>1. row \in Rows /\ Kin(row, old) /\ row.sync_status = old.sync_status
    BY <1>6 DEF Rows, Kin
  <2>2. row.favorite <=> favorite
    BY <1>6 DEF Rows
  <2>3. QED
    BY <2>1, <2>2
<1>7. ASSUME NEW r \in where
      PROVE  /\ records[r] \in Rows /\ Kin(records[r], db.records[r])
             /\ records[r].favorite <=> favorite
             /\ records[r].sync_status = db.records[r].sync_status
  <2>1. r \in Rids /\ db.records[r] \in Rows
    BY <1>4, StoredRows DEF InOrder, DbOk
  <2>2. records[r] = [db.records[r] EXCEPT !.favorite = favorite]
    BY <2>1
  <2> HIDE DEF records
  <2>3. QED
    BY <1>6, <2>1, <2>2
<1>8. \A r \in Rids : r \notin where => records[r] = db.records[r]
  OBVIOUS
<1>9. records \in [Rids -> Rows \cup {None}]
  <2>1. \A r \in Rids : records[r] \in Rows \cup {None}
    <3>1. \A r \in Rids : db.records[r] \in Rows \cup {None}
      BY DEF InOrder, DbOk, DbTypes
    <3> HIDE DEF records
    <3>2. QED
      BY <1>7, <1>8, <3>1
  <2>2. QED
    BY <2>1
<1>10. DOMAIN records = Rids /\ db'.records = records
  BY <1>5 DEF InOrder, DbOk, DbTypes
<1> HIDE DEF records
<1>11. \A r \in Records(db) : r \in Rids /\ db.records[r] # None /\ Kin(db.records[r], db.records[r])
  BY DEF Records, Kin
<1>12. \A r \in Rids : r \notin Records(db) => records[r] = None
  BY <1>4, <1>8 DEF Records
<1>13. \A r \in Records(db) : records[r] # None /\ Kin(records[r], db.records[r])
  BY <1>7, <1>8, <1>11, NoneIsNoRow
<1>14. Changed(db, db')
  BY <1>5, <1>9, <1>10, <1>12, <1>13 DEF Changed
<1>15. QED
  BY <1>4, <1>7, <1>8, <1>10, <1>11, <1>14

\* The calls that change the marks of records.
Marking == /\ UNCHANGED <<sheets, snapshot, repair>>
           /\ db' = db \/ Changed(db, db')

LEMMA UpdatesMark ==
  ASSUME InOrder
  PROVE  /\ \A r \in Rids : ToggleFavorite(r) \/ UpdateExportData(r) => Marking
         /\ \A r \in Rids, status \in R!Statuses : UpdateSyncData(r, status) => Marking
         /\ \A rids \in SUBSET Rids, favorite \in BOOLEAN : UpdateFavoriteData(rids, favorite) => Marking
<1>1. ASSUME NEW r \in Rids, ToggleFavorite(r) PROVE Marking
  BY <1>1, ToggleEffect DEF Marking, ToggleFavorite, Update
<1>2. ASSUME NEW r \in Rids, UpdateExportData(r) PROVE Marking
  BY <1>2, ExportEffect DEF Marking, UpdateExportData, Update
<1>3. ASSUME NEW r \in Rids, NEW status \in R!Statuses, UpdateSyncData(r, status) PROVE Marking
  BY <1>3, SyncEffect DEF Marking, UpdateSyncData, Update
<1>4. ASSUME NEW rids \in SUBSET Rids, NEW favorite \in BOOLEAN, UpdateFavoriteData(rids, favorite) PROVE Marking
  BY <1>4, FavoritesEffect DEF Marking, UpdateFavoriteData, Update
<1>5. QED
  BY <1>1, <1>2, <1>3, <1>4

LEMMA MarkingInOrder == ASSUME InOrder, Marking PROVE InOrder'
BY ChangeInOrder, SameInOrder DEF Marking

LEMMA CheckStartInOrder == ASSUME InOrder, CheckStart PROVE InOrder'
<1>1. snapshot' = FindRecords(db, Rids) /\ UNCHANGED <<db, sheets, repair>>
  BY DEF CheckStart
<1>2. snapshot' = {Entity(db, r) : r \in Records(db) \cap Rids}
  BY <1>1, FoundIs
<1>3. ASSUME NEW r \in Records(db) PROVE Read(Entity(db, r))
  <2>1. (Entity(db, r)).id = r /\ (Entity(db, r)).columns = db.records[r]
    BY EntityIs DEF InOrder
  <2>2. r \in Rids /\ db.records[r] \in Rows
    BY StoredRows DEF InOrder, DbOk
  <2>3. MetadataOf(Entity(db, r)) \in R!Metadata
    BY MetadataTyped DEF InOrder
  <2>4. QED
    BY <2>1, <2>2, <2>3 DEF Read
<1>4. \A e \in snapshot' : Read(e)
  BY <1>2, <1>3
<1>5. QED
  BY <1>1, <1>4 DEF InOrder, SheetsTyped

LEMMA CheckOneInOrder == ASSUME InOrder, NEW e \in snapshot, CheckOne(e) PROVE InOrder'
<1> DEFINE m == MetadataOf(e)
           sheet == sheets[e.id][e.columns.update_time]
           fix == R!FixIntegrity(m, sheet)
<1>1. /\ repair' = IF sheet = None \/ fix.integrity # "FIXED" THEN None
                   ELSE [key |-> KeyOf(e), metadata |-> fix.record, sheet |-> fix.sheet]
      /\ snapshot' = snapshot \ {e} /\ UNCHANGED <<db, sheets>>
  BY DEF CheckOne
<1>2. e.id \in Rids /\ e.columns \in Rows /\ m \in R!Metadata
  BY DEF InOrder, Read
<1>3. e.columns.update_time \in 1 .. MaxTime
  BY <1>2, RowColumns
<1>4. sheet \in R!Sheets \cup {None}
  BY <1>2, <1>3 DEF InOrder, SheetsTyped
<1> HIDE DEF m, sheet
<1>5. sheet # None => fix.record \in R!Metadata /\ fix.sheet \in R!Sheets
  BY <1>2, <1>4, FixTypes
<1>6. KeyOf(e) \in Keys
  BY <1>2, KeyTypes
<1> HIDE DEF fix
<1>7. repair' # None => Decided(repair')
  BY <1>1, <1>5, <1>6 DEF Decided
<1>8. QED
  BY <1>1, <1>7 DEF InOrder, SheetsTyped

LEMMA CheckEndInOrder == ASSUME InOrder, CheckEnd PROVE InOrder'
<1>1. db' = DeleteCreators(db, CreatorRows(db) \ HasRecords(db)) /\ UNCHANGED <<sheets, snapshot, repair>>
  BY DEF CheckEnd
<1>2. DbOk(db') /\ db'.records = db.records
  BY <1>1, CreatorsDeleted DEF InOrder
<1>3. Counted(db')
  BY <1>2 DEF Counted, Records, InOrder
<1>4. QED
  BY <1>1, <1>2, <1>3 DEF InOrder, SheetsTyped

THEOREM InOrderInvariance == Spec => []InOrder
<1>1. Init => InOrder
  BY InOrderInit
<1>2. InOrder /\ [Next]_vars => InOrder'
  <2> SUFFICES ASSUME InOrder, [Next]_vars PROVE InOrder'
    OBVIOUS
  <2>1. CASE UNCHANGED vars
    BY <2>1, SameInOrder DEF vars
  <2>2. ASSUME NEW u \in Urls, Save(u) PROVE InOrder'
    BY <2>2, SaveInOrder
  <2>3. ASSUME NEW r \in Rids, Delete(r) PROVE InOrder'
    BY <2>3, DeleteInOrder
  <2>4. ASSUME NEW r \in Rids, ToggleFavorite(r) PROVE InOrder'
    BY <2>4, UpdatesMark, MarkingInOrder
  <2>5. ASSUME NEW r \in Rids, UpdateExportData(r) PROVE InOrder'
    BY <2>5, UpdatesMark, MarkingInOrder
  <2>6. ASSUME NEW rids \in SUBSET Rids, NEW favorite \in BOOLEAN, UpdateFavoriteData(rids, favorite) PROVE InOrder'
    BY <2>6, UpdatesMark, MarkingInOrder
  <2>7. ASSUME NEW r \in Rids, NEW status \in R!Statuses, UpdateSyncData(r, status) PROVE InOrder'
    BY <2>7, UpdatesMark, MarkingInOrder
  <2>8. CASE CheckStart
    BY <2>8, CheckStartInOrder
  <2>9. ASSUME NEW e \in snapshot, CheckOne(e) PROVE InOrder'
    BY <2>9, CheckOneInOrder
  <2>10. CASE Repair
    BY <2>10, RepairInOrder
  <2>11. CASE CheckEnd
    BY <2>11, CheckEndInOrder
  <2>12. QED
    BY <2>1, <2>2, <2>3, <2>4, <2>5, <2>6, <2>7, <2>8, <2>9, <2>10, <2>11 DEF Next
<1>3. QED
  BY <1>1, <1>2, PTL DEF Spec


-----------------------------------------------------------------------------
(* Duplicates *)

\* A row that a save would put takes from no row of its own card.
LEMMA TakenByAnother ==
  ASSUME NEW d, DbOk(d), NEW row \in Rows, NEW r, r = Target(d, row.normalized_url), IsTaken(d, r, row)
  PROVE  \E other \in Records(d) :
           /\ d.records[other].normalized_url # row.normalized_url
           /\ d.records[other].source = row.source
           /\ \/ d.records[other].platform_id = row.platform_id
              \/ d.records[other].character_id = row.character_id
<1>1. PICK index \in UniqueIndexes, other \in Records(d) \ {r} : \A c \in index : d.records[other][c] = row[c]
  BY DEF IsTaken
<1>2. d.records[other].normalized_url # row.normalized_url
  <2> SUFFICES ASSUME d.records[other].normalized_url = row.normalized_url PROVE FALSE
    OBVIOUS
  <2>1. row.normalized_url \in FindURLs(d, Urls) /\ Rid(d, row.normalized_url) = other
    BY UrlOfRow
  <2>2. QED
    BY <2>1 DEF Target
<1>3. index # {"normalized_url"}
  BY <1>1, <1>2
<1>4. index = {"source", "character_id"} \/ index = {"source", "platform_id"}
  BY <1>3 DEF UniqueIndexes
<1>5. QED
  BY <1>1, <1>2, <1>4

\* A save breaks a constraint only when another card has one of its ids, of the same
\* website (sync_import.go:181-187), for any cards, tables and numbers of records.
THEOREM DuplicatesOnly == Spec => []ConstraintMeansDuplicate
<1>1. InOrder => ConstraintMeansDuplicate
  <2> SUFFICES ASSUME InOrder, NEW u \in Urls, NEW f \in Fetched[u],
                      NEW tx, tx = SaveRecord(BeginTx(db), f.key, f.metadata, f.sheet, 1, "none"),
                      u \in StoredUrls \/ db.seq < MaxRid
               PROVE  /\ tx.err \in {"none", "constraint"}
                      /\ tx.err = "constraint" => \E other \in Records(db) :
                           LET row == db.records[other]
                           IN  /\ row.normalized_url # u
                               /\ row.source = f.key.source
                               /\ row.platform_id = f.key.platform_id \/ row.character_id = f.key.character_id
    BY DEF ConstraintMeansDuplicate
  <2>1. f.key \in Keys /\ f.key.normalized_url = u /\ f.metadata \in R!Metadata /\ f.sheet \in R!Sheets
    BY FetchedIsWhatMayBeSaved DEF Keys
  <2>2. 1 \in 0 .. MaxTime
    BY <2>1, MetadataTypes, BoundsAreNats
  <2>3. DbOk(db)
    BY DEF InOrder
  <2>4. f.key.normalized_url \in FindURLs(db, Urls) \/ db.seq < MaxRid
    BY <2>1 DEF StoredUrls
  <2> DEFINE r == Target(db, u)
             row == SavedAs(db, 1, f.key, f.metadata)
  <2>5. ASSUME NEW x, x = Target(db, f.key.normalized_url), NEW y, y = row
        PROVE  IF IsTaken(db, x, y) THEN tx.err = "constraint" ELSE tx.err = "none"
    BY <2>1, <2>2, <2>3, <2>4, <2>5, SaveLeaves
  <2>6. ASSUME NEW y, y = row
        PROVE  /\ y \in Rows /\ y.source = f.key.source /\ y.normalized_url = u
               /\ y.platform_id = f.key.platform_id /\ y.character_id = f.key.character_id
    BY <2>1, <2>2, <2>3, <2>6, SavedAsTypes
  <2> HIDE DEF row
  <2>7. IF IsTaken(db, r, row) THEN tx.err = "constraint" ELSE tx.err = "none"
    BY <2>1, <2>5
  <2>8. ASSUME tx.err = "constraint"
        PROVE  \E other \in Records(db) :
                 /\ db.records[other].normalized_url # row.normalized_url
                 /\ db.records[other].source = row.source
                 /\ \/ db.records[other].platform_id = row.platform_id
                    \/ db.records[other].character_id = row.character_id
    <3>1. IsTaken(db, r, row)
      BY <2>7, <2>8
    <3>2. row \in Rows /\ r = Target(db, row.normalized_url)
      BY <2>6
    <3>3. QED
      BY <2>3, <3>1, <3>2, TakenByAnother
  <2>9. /\ row.source = f.key.source /\ row.normalized_url = u
        /\ row.platform_id = f.key.platform_id /\ row.character_id = f.key.character_id
    BY <2>6
  <2>10. QED
    BY <2>7, <2>8, <2>9
<1>2. QED
  BY <1>1, InOrderInvariance, PTL

-----------------------------------------------------------------------------
(* Exported files *)

LEMMA TokenValues ==
  ASSUME NEW rec
  PROVE  /\ TokenValue(rec)["SOURCE"] = rec.columns.source
         /\ TokenValue(rec)["PLATFORM_ID"] = rec.columns.platform_id
         /\ TokenValue(rec)["CHARACTER_ID"] = rec.columns.character_id
BY DEF TokenValue

\* Files with the same name have the same values for each token of the template.
LEMMA SameValues ==
  ASSUME NEW template, NEW rec1, NEW rec2, ExportPath(template, rec1) = ExportPath(template, rec2),
         NEW token \in Range(template.tokens)
  PROVE  TokenValue(rec1)[token] = TokenValue(rec2)[token]
<1>1. PICK i \in DOMAIN template.tokens : template.tokens[i] = token
  BY DEF Range
<1>2. /\ (ExportPath(template, rec1)).values[i] = TokenValue(rec1)[template.tokens[i]]
      /\ (ExportPath(template, rec2)).values[i] = TokenValue(rec2)[template.tokens[i]]
  BY DEF ExportPath
<1>3. QED
  BY <1>1, <1>2

\* No export with a template that names a card by an id of its website writes two
\* cards into one file (export_latest.go:142-145, preferences/keys.go:59), for any
\* templates and any number of records.
THEOREM FilesApart == Spec => []ExportedApart
<1>1. InOrder => ExportedApart
  <2> SUFFICES ASSUME InOrder, NEW template \in Identifying, NEW r1 \in Records(db), NEW r2 \in Records(db),
                      ExportPath(template, FindRecord(db, r1)) = ExportPath(template, FindRecord(db, r2))
               PROVE  r1 = r2
    BY DEF ExportedApart
  <2> DEFINE rec1 == FindRecord(db, r1)
             rec2 == FindRecord(db, r2)
  <2>1. rec1.columns = db.records[r1] /\ rec2.columns = db.records[r2]
    BY FoundIs, EntityIs DEF InOrder
  <2>2. \A token \in Range(template.tokens) : TokenValue(rec1)[token] = TokenValue(rec2)[token]
    BY SameValues
  <2> HIDE DEF rec1, rec2
  <2>3. CASE {"SOURCE", "PLATFORM_ID"} \subseteq Range(template.tokens)
    <3>1. Same(db.records[r1], db.records[r2], {"source", "platform_id"})
      BY <2>1, <2>2, <2>3, TokenValues DEF Same
    <3>2. QED
      BY <3>1 DEF InOrder, DbOk, Unique, UniqueIndexes
  <2>4. CASE {"SOURCE", "CHARACTER_ID"} \subseteq Range(template.tokens)
    <3>1. Same(db.records[r1], db.records[r2], {"source", "character_id"})
      BY <2>1, <2>2, <2>4, TokenValues DEF Same
    <3>2. QED
      BY <3>1 DEF InOrder, DbOk, Unique, UniqueIndexes
  <2>5. QED
    BY <2>3, <2>4 DEF Identifying
<1>2. QED
  BY <1>1, InOrderInvariance, PTL


-----------------------------------------------------------------------------
(* Filters *)

\* The abstract vault's rows are those of the tables.
LEMMA AbstractIs ==
  ASSUME InOrder, NEW r \in Records(db), NEW u, u = db.records[r].normalized_url
  PROVE  /\ u \in Urls /\ u \in StoredUrls /\ RidOf(u) = r
         /\ AbstractVault.rows[u] = AbstractRow(r)
         /\ AbstractVault.creators = db.creators /\ AbstractVault.tags = db.tags
         /\ AbstractVault.fts[u] = {row.text : row \in {x \in db.fts : x.id = r}}
         /\ AbstractVault.sheets[u] = sheets[r]
<1>1. u \in StoredUrls /\ RidOf(u) = r
  BY UrlOfRow DEF InOrder, StoredUrls, RidOf, Rid
<1>2. u \in Urls
  BY StoredRows, RowColumns DEF InOrder, DbOk
<1>3. AbstractVault.rows[u] = AbstractRow(r)
  BY <1>1, <1>2 DEF AbstractVault
<1>4. AbstractVault.creators = db.creators /\ AbstractVault.tags = db.tags
  BY DEF AbstractVault
<1>5. AbstractVault.fts[u] = {row.text : row \in {x \in db.fts : x.id = r}}
  <2>1. AbstractVault.fts[u] = {row.text : row \in {x \in db.fts : u \in StoredUrls /\ x.id = RidOf(u)}}
    BY <1>2 DEF AbstractVault
  <2>2. {x \in db.fts : u \in StoredUrls /\ x.id = RidOf(u)} = {x \in db.fts : x.id = r}
    BY <1>1
  <2>3. QED
    BY <2>1, <2>2
<1>6. AbstractVault.sheets[u] = sheets[r]
  BY <1>1, <1>2 DEF AbstractVault
<1>7. QED
  BY <1>1, <1>2, <1>3, <1>4, <1>5, <1>6

\* What a filter asks, of the row of a card.
TextAsked(tf, r) == AskedOfStrings(tf, db.records[r].title, db.creators[db.records[r].creator_id])

BooleanAsked(bf, r) == bf.value <=> IF bf.field = "favorite" THEN db.records[r].favorite ELSE db.records[r].book_update_time # 0

TextsOf(r) == {row.text : row \in {x \in db.fts : x.id = r}}

ContentAsked(cf, r) == cf.values = {} \/ cf.fields = {} \/ \E text \in TextsOf(r) : AskedOfText(cf, text)

StoredNames(r) == {db.tags[s] : s \in TagsOf(db, r)}

LEMMA AskedIs ==
  ASSUME InOrder, NEW f, NEW r \in Records(db), NEW u, u = db.records[r].normalized_url
  PROVE  Asked(f, u) <=>
           /\ \A tf \in f.texts : TextAsked(tf, r)
           /\ \A bf \in f.booleans : BooleanAsked(bf, r)
           /\ f.sources # {} => db.records[r].source \in f.sources
           /\ f.statuses # {} => db.records[r].sync_status \in f.statuses
           /\ \A cf \in f.contents : ContentAsked(cf, r)
           /\ AskedOfNames(f.tags, StoredNames(r))
<1> DEFINE row == AbstractVault.rows[u]
<1>1. RidOf(u) = r /\ AbstractVault.creators = db.creators
  BY AbstractIs
<1>2. AbstractVault.fts[u] = TextsOf(r)
  BY AbstractIs DEF TextsOf
<1>3. row = AbstractRow(r) /\ AbstractVault.tags = db.tags
  BY AbstractIs
<1>4. /\ row.title = db.records[r].title /\ row.creator = db.records[r].creator_id
      /\ row.book = db.records[r].book_update_time
      /\ row.status = db.records[r].sync_status /\ row.tags = TagsOf(db, r)
  BY <1>3 DEF AbstractRow, TagsOf
<1>5. row.mark = db.records[r].favorite
  BY <1>3 DEF AbstractRow
<1>6. {AbstractVault.tags[s] : s \in row.tags} = StoredNames(r)
  BY <1>3, <1>4 DEF StoredNames
<1>7. Asked(f, u) <=>
        /\ \A tf \in f.texts : AskedOfStrings(tf, row.title, AbstractVault.creators[row.creator])
        /\ \A bf \in f.booleans : AskedOfRow(bf, row)
        /\ f.sources # {} => db.records[RidOf(u)].source \in f.sources
        /\ f.statuses # {} => row.status \in f.statuses
        /\ \A cf \in f.contents : cf.values = {} \/ cf.fields = {} \/ \E text \in AbstractVault.fts[u] : AskedOfText(cf, text)
        /\ AskedOfNames(f.tags, {AbstractVault.tags[s] : s \in row.tags})
  BY Zenon DEF Asked
<1> HIDE DEF row
<1>8. \A tf : AskedOfStrings(tf, row.title, AbstractVault.creators[row.creator]) <=> TextAsked(tf, r)
  BY <1>1, <1>4 DEF TextAsked
<1>9. \A bf : AskedOfRow(bf, row) <=> BooleanAsked(bf, r)
  BY <1>4, <1>5, Zenon DEF AskedOfRow, BooleanAsked
<1>10. \A cf : ContentAsked(cf, r) <=>
               cf.values = {} \/ cf.fields = {} \/ \E text \in AbstractVault.fts[u] : AskedOfText(cf, text)
  BY <1>2, Zenon DEF ContentAsked
<1>11. QED
  BY <1>1, <1>4, <1>6, <1>7, <1>8, <1>9, <1>10


LEMMA TextMeans ==
  ASSUME InOrder, NEW tf \in TextFilters, NEW r \in Records(db)
  PROVE  r \in TextPredicate(db, tf) <=> TextAsked(tf, r)
<1> DEFINE pattern == [kind |-> IF tf.regex THEN "pattern" ELSE "literal", value |-> tf.value,
                       boundaries |-> tf.wholeWord, insensitive |-> ~tf.caseSensitive]
           toggled == tf.caseSensitive \/ tf.regex \/ tf.wholeWord
           title == db.records[r].title
           cid == db.records[r].creator_id
           kind == IF tf.regex THEN "pattern" ELSE "literal"
           Matches(string) == \E o \in Occurs[kind][tf.value][string] :
                                (tf.wholeWord => o.whole) /\ (tf.caseSensitive => o.exact)
<1>1. cid \in CreatorRows(db)
  BY StoredRows, RowColumns DEF InOrder, DbOk, Refs, CreatorRows
<1>2. TextAsked(tf, r) <=> Matches(IF tf.field = "title" THEN title ELSE db.creators[cid])
  BY DEF TextAsked, AskedOfStrings
<1>3. ASSUME NEW string PROVE MatchString(pattern, string) <=> Matches(string)
  <2>1. /\ pattern.kind = kind /\ pattern.value = tf.value
        /\ pattern.boundaries <=> tf.wholeWord
        /\ pattern.insensitive <=> ~tf.caseSensitive
    OBVIOUS
  <2> HIDE DEF pattern, kind
  <2>2. QED
    BY <2>1 DEF MatchString
<1>4. ASSUME NEW string, ~toggled PROVE Occurs["literal"][tf.value][string] # {} <=> Matches(string)
  BY <1>4
<1> HIDE DEF Matches, pattern
<1>5. TextPredicate(db, tf) =
        IF tf.field = "title"
        THEN IF toggled THEN TitleRegex(db, pattern) ELSE TitleContainsFold(db, tf.value)
        ELSE HasCreatorWith(db, IF toggled THEN NicknameRegex(db, pattern) ELSE NicknameContainsFold(db, tf.value))
  BY DEF TextPredicate, pattern
<1>6. CASE tf.field = "title"
  <2>1. CASE toggled
    BY <1>2, <1>3, <1>5, <1>6, <2>1 DEF TitleRegex
  <2>2. CASE ~toggled
    BY <1>2, <1>4, <1>5, <1>6, <2>2 DEF TitleContainsFold
  <2>3. QED
    BY <2>1, <2>2
<1>7. CASE tf.field # "title"
  <2>1. CASE toggled
    <3>1. r \in TextPredicate(db, tf) <=> cid \in NicknameRegex(db, pattern)
      BY <1>5, <1>7, <2>1 DEF HasCreatorWith
    <3>2. QED
      BY <1>1, <1>2, <1>3, <1>7, <3>1 DEF NicknameRegex
  <2>2. CASE ~toggled
    <3>1. r \in TextPredicate(db, tf) <=> cid \in NicknameContainsFold(db, tf.value)
      BY <1>5, <1>7, <2>2 DEF HasCreatorWith
    <3>2. QED
      BY <1>1, <1>2, <1>4, <1>7, <2>2, <3>1 DEF NicknameContainsFold
  <2>3. QED
    BY <2>1, <2>2
<1>8. QED
  BY <1>6, <1>7

LEMMA BooleanMeans ==
  ASSUME InOrder, NEW bf \in [field : {"favorite", "has_book"}, value : BOOLEAN], NEW r \in Records(db)
  PROVE  r \in BooleanPredicate(db, bf) <=> BooleanAsked(bf, r)
<1>1. db.records[r].favorite \in BOOLEAN
  BY StoredRows, RowColumns DEF InOrder, DbOk
<1>2. CASE bf.field = "favorite"
  <2>1. BooleanPredicate(db, bf) = FavoriteEQ(db, bf.value)
    BY <1>2 DEF BooleanPredicate
  <2>2. BooleanAsked(bf, r) <=> (bf.value <=> db.records[r].favorite)
    BY <1>2 DEF BooleanAsked
  <2>3. r \in FavoriteEQ(db, bf.value) <=> db.records[r].favorite = bf.value
    BY DEF FavoriteEQ
  <2>4. QED
    BY <1>1, <2>1, <2>2, <2>3
<1>3. CASE bf.field = "has_book"
  <2>1. BooleanPredicate(db, bf) = IF bf.value THEN BookUpdateTimeNEQ(db, 0) ELSE BookUpdateTimeEQ(db, 0)
    BY <1>3 DEF BooleanPredicate
  <2>2. BooleanAsked(bf, r) <=> (bf.value <=> db.records[r].book_update_time # 0)
    BY <1>3 DEF BooleanAsked
  <2>3. /\ r \in BookUpdateTimeNEQ(db, 0) <=> db.records[r].book_update_time # 0
        /\ r \in BookUpdateTimeEQ(db, 0) <=> db.records[r].book_update_time = 0
    BY DEF BookUpdateTimeNEQ, BookUpdateTimeEQ
  <2>4. QED
    BY <2>1, <2>2, <2>3
<1>4. QED
  BY <1>2, <1>3

LEMMA ContentMeans ==
  ASSUME InOrder, NEW cf, cf.values # {}, cf.fields # {}, NEW r \in Records(db)
  PROVE  r \in ContentPredicate(db, cf) <=> ContentAsked(cf, r)
<1> DEFINE Field(row, field) == IF cf.valueMode = "ALL" THEN \A v \in cf.values : v \in Words[row.text][field]
                                ELSE \E v \in cf.values : v \in Words[row.text][field]
           Matches(row) == IF cf.fieldMode = "ALL" THEN \A f \in cf.fields : Field(row, f)
                           ELSE \E f \in cf.fields : Field(row, f)
<1>1. r \in ContentPredicate(db, cf) <=> \E row \in db.fts : Matches(row) /\ row.id = r
  BY DEF ContentPredicate, FtsMatch
<1>2. ASSUME NEW row PROVE Matches(row) <=> AskedOfText(cf, row.text)
  <2>1. \A f : (\A v \in cf.values : v \in Words[row.text][f]) <=> cf.values \subseteq Words[row.text][f]
    OBVIOUS
  <2>2. \A f : (\E v \in cf.values : v \in Words[row.text][f]) <=> cf.values \cap Words[row.text][f] # {}
    OBVIOUS
  <2>3. QED
    BY <2>1, <2>2 DEF AskedOfText
<1> HIDE DEF Matches
<1>3. (\E text \in TextsOf(r) : AskedOfText(cf, text)) <=> \E row \in db.fts : row.id = r /\ AskedOfText(cf, row.text)
  BY DEF TextsOf
<1>4. QED
  BY <1>1, <1>2, <1>3 DEF ContentAsked

LEMMA HasTagsMeans ==
  ASSUME InOrder, NEW names \in SUBSET Names, NEW r \in Records(db)
  PROVE  r \in HasTagsWith(db, NameIn(db, names)) <=> names \cap StoredNames(r) # {}
<1>1. r \in HasTagsWith(db, NameIn(db, names)) <=>
        \E s \in TagRows(db) : db.tags[s] \in names /\ <<r, s>> \in db.record_tags
  BY DEF HasTagsWith, NameIn
<1>2. \A s \in Slugs : <<r, s>> \in db.record_tags => s \in TagRows(db)
  BY DEF InOrder, DbOk, Refs, TagRows
<1>3. TagRows(db) \subseteq Slugs
  BY DEF TagRows
<1>4. names \cap StoredNames(r) # {} <=> \E s \in Slugs : <<r, s>> \in db.record_tags /\ db.tags[s] \in names
  BY DEF StoredNames, TagsOf
<1>5. QED
  BY <1>1, <1>2, <1>3, <1>4

LEMMA TagsMean ==
  ASSUME InOrder, NEW tf \in [names : SUBSET Names, mode : Modes], NEW r \in Records(db), tf.names # {}
  PROVE  r \in TagPredicate(db, tf) <=> AskedOfNames(tf, StoredNames(r))
<1>1. CASE tf.mode = "ANY"
  <2>1. TagPredicate(db, tf) = HasTagsWith(db, NameIn(db, tf.names))
    BY <1>1 DEF TagPredicate
  <2>2. AskedOfNames(tf, StoredNames(r)) <=> tf.names \cap StoredNames(r) # {}
    BY <1>1 DEF AskedOfNames
  <2>3. QED
    BY <2>1, <2>2, HasTagsMeans
<1>2. CASE tf.mode = "ALL"
  <2>1. TagPredicate(db, tf) = And(db, {HasTagsWith(db, NameIn(db, {name})) : name \in tf.names})
    BY <1>2 DEF TagPredicate
  <2>2. AskedOfNames(tf, StoredNames(r)) <=> tf.names \subseteq StoredNames(r)
    BY <1>2 DEF AskedOfNames
  <2>3. r \in TagPredicate(db, tf) <=> \A name \in tf.names : r \in HasTagsWith(db, NameIn(db, {name}))
    BY <2>1 DEF And
  <2>4. ASSUME NEW name \in tf.names
        PROVE  r \in HasTagsWith(db, NameIn(db, {name})) <=> name \in StoredNames(r)
    <3>1. {name} \in SUBSET Names
      OBVIOUS
    <3>2. r \in HasTagsWith(db, NameIn(db, {name})) <=> {name} \cap StoredNames(r) # {}
      BY <3>1, HasTagsMeans
    <3>3. QED
      BY <3>2
  <2>5. QED
    BY <2>2, <2>3, <2>4
<1>3. QED
  BY <1>1, <1>2 DEF Modes


LEMMA FilterTypes ==
  ASSUME NEW f \in ResourceFilters
  PROVE  /\ \A tf \in f.texts : tf \in TextFilters
         /\ \A bf \in f.booleans : bf \in [field : {"favorite", "has_book"}, value : BOOLEAN]
         /\ f.tags \in [names : SUBSET Names, mode : Modes] /\ f.tags.names \in SUBSET Names /\ f.tags.mode \in Modes
BY DEF ResourceFilters

\* The query of a filter selects what it asks for.
LEMMA FilterSelects ==
  ASSUME InOrder, NEW f \in ResourceFilters, NEW r \in Records(db)
  PROVE  r \in And(db, ApplyFilter(db, f)) <=> Asked(f, db.records[r].normalized_url)
<1>1. r \in And(db, ApplyFilter(db, f)) <=> \A p \in ApplyFilter(db, f) : r \in p
  BY DEF And
<1>2. (\A p \in ApplyFilter(db, f) : r \in p) <=>
        /\ \A tf \in f.texts : r \in TextPredicate(db, tf)
        /\ \A bf \in f.booleans : r \in BooleanPredicate(db, bf)
        /\ f.sources # {} => r \in SourceIn(db, f.sources)
        /\ f.statuses # {} => r \in SyncStatusIn(db, f.statuses)
        /\ \A cf \in f.contents : cf.values # {} /\ cf.fields # {} => r \in ContentPredicate(db, cf)
        /\ f.tags.names # {} => r \in TagPredicate(db, f.tags)
  BY DEF ApplyFilter
<1>3. (\A tf \in f.texts : r \in TextPredicate(db, tf)) <=> \A tf \in f.texts : TextAsked(tf, r)
  BY FilterTypes, TextMeans
<1>4. (\A bf \in f.booleans : r \in BooleanPredicate(db, bf)) <=> \A bf \in f.booleans : BooleanAsked(bf, r)
  BY FilterTypes, BooleanMeans
<1>5. /\ r \in SourceIn(db, f.sources) <=> db.records[r].source \in f.sources
      /\ r \in SyncStatusIn(db, f.statuses) <=> db.records[r].sync_status \in f.statuses
  BY DEF SourceIn, SyncStatusIn
<1>6. (\A cf \in f.contents : cf.values # {} /\ cf.fields # {} => r \in ContentPredicate(db, cf))
        <=> \A cf \in f.contents : ContentAsked(cf, r)
  <2>1. \A cf : cf.values # {} /\ cf.fields # {} => (r \in ContentPredicate(db, cf) <=> ContentAsked(cf, r))
    BY ContentMeans
  <2>2. \A cf : cf.values = {} \/ cf.fields = {} => ContentAsked(cf, r)
    BY DEF ContentAsked
  <2>3. QED
    BY <2>1, <2>2
<1>7. (f.tags.names # {} => r \in TagPredicate(db, f.tags)) <=> AskedOfNames(f.tags, StoredNames(r))
  <2>1. CASE f.tags.names # {}
    BY <2>1, FilterTypes, TagsMean
  <2>2. CASE f.tags.names = {}
    BY <2>2 DEF AskedOfNames
  <2>3. QED
    BY <2>1, <2>2
<1>8. Asked(f, db.records[r].normalized_url) <=>
        /\ \A tf \in f.texts : TextAsked(tf, r)
        /\ \A bf \in f.booleans : BooleanAsked(bf, r)
        /\ f.sources # {} => db.records[r].source \in f.sources
        /\ f.statuses # {} => db.records[r].sync_status \in f.statuses
        /\ \A cf \in f.contents : ContentAsked(cf, r)
        /\ AskedOfNames(f.tags, StoredNames(r))
  BY AskedIs
<1>9. QED
  BY <1>1, <1>2, <1>3, <1>4, <1>5, <1>6, <1>7, <1>8

\* A list of a set without repetitions has every member, in one place.
LEMMA ListsAreWhole ==
  ASSUME NEW S, IsFiniteSet(S), NEW ids \in SetToSeqs(S)
  PROVE  Page(ids, 0, -1) = ids /\ ToSet(ids) = S /\ Len(ids) = Cardinality(S)
<1> DEFINE n == Cardinality(S)
<1>1. n \in Nat
  BY FS_CardinalityType
<1>2. ids \in [1 .. n -> S] /\ \A i, j \in 1 .. n : i # j => ids[i] # ids[j]
  BY DEF SetToSeqs
<1> HIDE DEF n
<1>3. ids \in Seq(S) /\ Len(ids) = n
  BY <1>1, <1>2
<1>4. IsFiniteSet(1 .. n) /\ Cardinality(1 .. n) = n
  BY <1>1, FS_Interval
<1>5. ids \in Injection(1 .. n, S)
  BY <1>2 DEF Injection, IsInjective
<1>6. ids \in Surjection(1 .. n, S)
  BY <1>4, <1>5, FS_Injection DEF n
<1>7. ToSet(ids) = S
  BY <1>2, <1>6 DEF Surjection, ToSet
<1>8. Page(ids, 0, -1) = ids
  <2>1. Page(ids, 0, -1) = SubSeq(ids, 1, n)
    BY <1>1, <1>3 DEF Page
  <2>2. SubSeq(ids, 1, n) = ids
    BY <1>1, <1>2, <1>3
  <2>3. QED
    BY <2>1, <2>2
<1>9. QED
  BY <1>3, <1>7, <1>8 DEF n

\* A filter finds exactly the cards that have what it asks for, each once, and their
\* number (filter.go:90-246, store.go:147-160), for any filters and tables.
THEOREM FiltersMean == Spec => []FilterMeans
<1>1. InOrder => FilterMeans
  <2> SUFFICES ASSUME InOrder, NEW f \in Filters,
                      NEW asked, asked = {RidOf(u) : u \in {w \in StoredUrls : Asked(f, w)}}
               PROVE  /\ Count(db, f) = Cardinality(asked)
                      /\ \A ids \in FindPagedRIDs(db, f, 0, -1) : ToSet(ids) = asked /\ Len(ids) = Cardinality(asked)
    BY DEF FilterMeans
  <2> DEFINE found == And(db, ApplyFilter(db, f))
  <2>1. f \in ResourceFilters
    BY FiltersAreFilters
  <2>2. found = asked
    <3>1. ASSUME NEW r \in found PROVE r \in asked
      <4>1. r \in Records(db)
        BY DEF And
      <4>2. Asked(f, db.records[r].normalized_url)
        BY <2>1, <4>1, FilterSelects
      <4>3. db.records[r].normalized_url \in StoredUrls /\ RidOf(db.records[r].normalized_url) = r
        BY <4>1, AbstractIs
      <4>4. QED
        BY <4>2, <4>3
    <3>2. ASSUME NEW u \in StoredUrls, Asked(f, u) PROVE RidOf(u) \in found
      <4>1. RidOf(u) \in Records(db) /\ db.records[RidOf(u)].normalized_url = u
        BY RowOfUrl DEF InOrder, StoredUrls, RidOf, Rid
      <4>2. QED
        BY <2>1, <3>2, <4>1, FilterSelects
    <3> HIDE DEF found
    <3>3. QED
      BY <3>1, <3>2
  <2>3. IsFiniteSet(asked)
    <3>1. found \in SUBSET Rids
      BY DEF And, Records
    <3>2. IsFiniteSet(Rids)
      BY BoundsAreNats, FS_Interval DEF Rids
    <3>3. QED
      BY <2>2, <3>1, <3>2, FS_Subset
  <2>4. Count(db, f) = Cardinality(found)
    BY DEF Count, CountRows, Query
  <2>5. ASSUME NEW ids \in FindPagedRIDs(db, f, 0, -1)
        PROVE  \E list \in SetToSeqs(found) : ids = Page(list, 0, -1)
    BY DEF FindPagedRIDs, IDs, OrderedRows, Query
  <2> HIDE DEF found
  <2>6. ASSUME NEW ids \in FindPagedRIDs(db, f, 0, -1)
        PROVE  ToSet(ids) = asked /\ Len(ids) = Cardinality(asked)
    <3>1. PICK list \in SetToSeqs(asked) : ids = Page(list, 0, -1)
      BY <2>2, <2>5
    <3>2. Page(list, 0, -1) = list /\ ToSet(list) = asked /\ Len(list) = Cardinality(asked)
      BY <2>3, ListsAreWhole
    <3>3. QED
      BY <3>1, <3>2
  <2>7. QED
    BY <2>2, <2>4, <2>6
<1>2. QED
  BY <1>1, InOrderInvariance, PTL

-----------------------------------------------------------------------------
(* What the cards hold, and what a check has read.                         *)

NoSheets == [t \in 1 .. MaxTime |-> None]

TextsIn(d, r) == {row.text : row \in {x \in d.fts : x.id = r}}

\* The card of record r, in the record's version: with the names of the record's
\* tags, and a text that a search finds.
HeldIn(d, r, versions) ==
  /\ versions[d.records[r].update_time] # None
  /\ versions[d.records[r].update_time].tags = R!TagNames(NamesOf(d, r))
  /\ versions[d.records[r].update_time].text \in TextsIn(d, r)

Held(d, s) ==
  /\ \A r \in Records(d) : HeldIn(d, r, s[r])
  /\ \A r \in Rids : r \notin Records(d) => s[r] = NoSheets

\* An entity is of a record that was there, once, and keeps its URL.
ReadOnce(d, entities) ==
  /\ \A e \in entities : e.id \in Rids /\ e.id <= d.seq
  /\ \A e \in entities : e.id \in Records(d) => e.columns.normalized_url = d.records[e.id].normalized_url
  /\ \A e1, e2 \in entities : e1.id = e2.id => e1 = e2

\* No update has written another status.
Known(d) == \A r \in Records(d) : d.records[r].sync_status \in R!Statuses

AllHeld == InOrder /\ Held(db, sheets) /\ ReadOnce(db, snapshot) /\ Known(db)

LEMMA SavedMore ==
  ASSUME NEW d, DbOk(d), NEW m, NEW r \in Rids, NEW row \in Rows, NEW text
  PROVE  Records(Saved(d, m, r, row, text)) = Records(d) \cup {r}
BY SavedRows

LEMMA SavedOne ==
  ASSUME NEW d, DbOk(d), NEW m, NEW r \in Rids, NEW row \in Rows, NEW text
  PROVE  Saved(d, m, r, row, text).records[r] = row
BY SavedRows

LEMMA SavedOthers ==
  ASSUME NEW d, DbOk(d), NEW m, NEW r \in Rids, NEW row \in Rows, NEW text, NEW x \in Records(d), x # r
  PROVE  Saved(d, m, r, row, text).records[x] = d.records[x]
BY SavedRows

LEMMA HeldSame ==
  ASSUME NEW d, NEW e, NEW r, e.records[r].update_time = d.records[r].update_time,
         NamesOf(e, r) = NamesOf(d, r), TextsIn(d, r) \subseteq TextsIn(e, r),
         NEW versions, HeldIn(d, r, versions)
  PROVE  HeldIn(e, r, versions)
BY DEF HeldIn

\* The names and texts of the other cards stay.
LEMMA SavedNames ==
  ASSUME NEW d, DbOk(d), NEW m \in R!Metadata, NEW r \in Rids, NEW row, NEW text,
         NEW e, e = Saved(d, m, r, row, text), NEW x \in Records(d), x # r
  PROVE  NamesOf(e, x) = NamesOf(d, x) /\ TextsIn(e, x) = TextsIn(d, x)
<1>1. x \in Rids /\ TagsOf(e, x) = TagsOf(d, x)
  BY SavedTags DEF Records
<1>2. e.tags = Named(d.tags, m.names)
  BY DEF Saved
<1>3. \A s \in TagsOf(d, x) : s \in Slugs /\ d.tags[s] # None
  BY DEF TagsOf, DbOk, Refs
<1>4. \A s \in TagsOf(d, x) : e.tags[s] = d.tags[s]
  BY <1>2, <1>3 DEF Named
<1>5. NamesOf(e, x) = NamesOf(d, x)
  BY <1>1, <1>4 DEF NamesOf
<1>6. e.fts = d.fts \cup {[id |-> r, text |-> text]}
  BY DEF Saved
<1>7. TextsIn(e, x) = TextsIn(d, x)
  BY <1>6 DEF TextsIn
<1>8. QED
  BY <1>5, <1>7

LEMMA SavedTexts ==
  ASSUME NEW d, DbOk(d), NEW m, NEW r \in Rids, NEW row, NEW text, NEW e, e = Saved(d, m, r, row, text)
  PROVE  TextsIn(e, r) = TextsIn(d, r) \cup {text}
<1>1. e.fts = d.fts \cup {[id |-> r, text |-> text]}
  BY DEF Saved
<1> DEFINE new == [id |-> r, text |-> text]
<1>2. {x \in e.fts : x.id = r} = {x \in d.fts : x.id = r} \cup {new}
  BY <1>1
<1>3. new.text = text
  OBVIOUS
<1> HIDE DEF new
<1>4. QED
  BY <1>2, <1>3 DEF TextsIn

LEMMA SheetsAfterPut ==
  ASSUME NEW s, SheetsTyped(s), NEW r \in Rids, NEW t \in 1 .. MaxTime, NEW sheet
  PROVE  /\ [s EXCEPT ![r][t] = sheet][r][t] = sheet
         /\ [s EXCEPT ![r][t] = sheet][r] = [s[r] EXCEPT ![t] = sheet]
         /\ \A x \in Rids : x # r => [s EXCEPT ![r][t] = sheet][x] = s[x]
BY DEF SheetsTyped

LEMMA SavedHeld ==
  ASSUME NEW d, DbOk(d), NEW s, SheetsTyped(s), Held(d, s), NEW m \in R!Metadata, NEW r \in Rids,
         NEW row \in Rows, row.update_time = m.update, NEW sheet \in R!Sheets,
         NEW e, e = Saved(d, m, r, row, sheet.text), DbOk(e),
         NEW s2, s2 = [s EXCEPT ![r][m.update] = [sheet EXCEPT !.tags = TagNamesOf(Entity(e, r))]]
  PROVE  Held(e, s2)
<1>1. /\ Records(e) = Records(d) \cup {r} /\ e.records[r] = row
      /\ \A x \in Records(d) : x # r => e.records[x] = d.records[x]
  <2>1. Records(e) = Records(d) \cup {r}
    BY SavedMore
  <2>2. e.records[r] = row
    BY SavedOne
  <2>3. \A x \in Records(d) : x # r => e.records[x] = d.records[x]
    BY SavedOthers
  <2>4. QED
    BY <2>1, <2>2, <2>3
<1>2. TagNamesOf(Entity(e, r)) = R!TagNames(NamesOf(e, r))
  BY <1>1, TagNamesAre
<1> DEFINE put == [sheet EXCEPT !.tags = TagNamesOf(Entity(e, r))]
<1>3. put # None /\ put.tags = R!TagNames(NamesOf(e, r)) /\ put.text = sheet.text
  <2> DEFINE tags == TagNamesOf(Entity(e, r))
  <2>1. tags \in Seq(Names)
    BY <1>1, TagNamesAre
  <2> HIDE DEF tags
  <2>2. [sheet EXCEPT !.tags = tags] \in R!Sheets
    BY <2>1 DEF R!Sheets
  <2>3. [sheet EXCEPT !.tags = tags].tags = tags /\ [sheet EXCEPT !.tags = tags].text = sheet.text
    BY DEF R!Sheets
  <2>4. QED
    BY <1>2, <2>2, <2>3, NoneIsNoData DEF tags
<1> HIDE DEF put
<1>4. m.update \in 1 .. MaxTime
  BY MetadataTypes
<1>5. s2[r][m.update] = put /\ \A x \in Rids : x # r => s2[x] = s[x]
  <2> DEFINE t == m.update
  <2>1. s2 = [s EXCEPT ![r][t] = put] /\ t \in 1 .. MaxTime
    BY <1>4 DEF put
  <2> HIDE DEF t
  <2>2. s2[r][t] = put
    <3>1. s2[r] = [s[r] EXCEPT ![t] = put]
      BY <2>1 DEF SheetsTyped
    <3>2. s[r] \in [1 .. MaxTime -> R!Sheets \cup {None}]
      BY DEF SheetsTyped
    <3> HIDE DEF put
    <3>3. QED
      BY <2>1, <3>1, <3>2
  <2>3. \A x \in Rids : x # r => s2[x] = s[x]
    BY <2>1, SheetsAfterPut
  <2>4. QED
    BY <2>2, <2>3 DEF t
<1>6. HeldIn(e, r, s2[r])
  <2>1. TextsIn(e, r) = TextsIn(d, r) \cup {sheet.text}
    BY SavedTexts
  <2>2. e.records[r].update_time = m.update /\ s2[r][m.update] = put
    BY <1>1, <1>5
  <2>3. QED
    BY <1>3, <2>1, <2>2 DEF HeldIn
<1>7. ASSUME NEW x \in Records(d), x # r PROVE HeldIn(e, x, s2[x])
  <2>1. x \in Rids /\ HeldIn(d, x, s[x])
    BY DEF Held, Records
  <2>2. NamesOf(e, x) = NamesOf(d, x) /\ TextsIn(e, x) = TextsIn(d, x) /\ e.records[x] = d.records[x]
    BY <1>1, <1>7, SavedNames
  <2>3. QED
    BY <1>5, <1>7, <2>1, <2>2, HeldSame
<1>8. \A x \in Rids : x \notin Records(e) => s2[x] = NoSheets
  BY <1>1, <1>5 DEF Held
<1>9. QED
  BY <1>1, <1>6, <1>7, <1>8 DEF Held

LEMMA SavedRead ==
  ASSUME NEW d, DbOk(d), NEW entities, ReadOnce(d, entities), NEW m, NEW r \in Rids, r \in Records(d) \/ r = d.seq + 1,
         NEW row \in Rows, r \in Records(d) => row.normalized_url = d.records[r].normalized_url, NEW text,
         NEW e, e = Saved(d, m, r, row, text)
  PROVE  ReadOnce(e, entities)
<1>1. /\ Records(e) = Records(d) \cup {r} /\ e.records[r] = row
      /\ \A x \in Records(d) : x # r => e.records[x] = d.records[x]
  <2>1. Records(e) = Records(d) \cup {r}
    BY SavedMore
  <2>2. e.records[r] = row
    BY SavedOne
  <2>3. \A x \in Records(d) : x # r => e.records[x] = d.records[x]
    BY SavedOthers
  <2>4. QED
    BY <2>1, <2>2, <2>3
<1>2. e.seq = (IF r > d.seq THEN r ELSE d.seq) /\ d.seq \in Nat /\ r \in Nat
  BY BoundsAreNats DEF Saved, DbOk, DbTypes, Rids
<1>3. ASSUME NEW x \in entities PROVE x.id \in Rids /\ x.id <= e.seq
  BY <1>2 DEF ReadOnce, Rids
<1>4. ASSUME NEW x \in entities, x.id \in Records(e)
      PROVE  x.columns.normalized_url = e.records[x.id].normalized_url
  <2>1. x.id \in Rids /\ x.id <= d.seq
    BY DEF ReadOnce
  <2>2. x.id \in Records(d)
    BY <1>1, <1>2, <1>4, <2>1 DEF Rids
  <2>3. x.columns.normalized_url = d.records[x.id].normalized_url
    BY <2>2 DEF ReadOnce
  <2>4. QED
    BY <1>1, <2>2, <2>3
<1>5. QED
  BY <1>3, <1>4 DEF ReadOnce

\* The row r that a save of m for the card u puts.
RowFor(d, u, m, r, row) ==
  /\ row.normalized_url = u /\ row.title = m.title /\ row.creator_id = m.creator /\ row.update_time = m.update
  /\ row.book_update_time = m.book /\ row.greetings_count = m.greetings /\ row.sync_status = "SUCCESS"
  /\ r \in Records(d) => d.records[r].normalized_url = u /\ (row.favorite <=> d.records[r].favorite)
  /\ r \notin Records(d) => r = d.seq + 1 /\ u \notin FindURLs(d, Urls) /\ row.favorite = FALSE

LEMMA FavoriteStays ==
  ASSUME NEW d, DbOk(d), NEW time \in 0 .. MaxTime, NEW key \in Keys, NEW m \in R!Metadata,
         NEW row, row = SavedAs(d, time, key, m)
  PROVE  row.favorite = IF key.normalized_url \in FindURLs(d, Urls)
                        THEN d.records[Rid(d, key.normalized_url)].favorite ELSE FALSE
<1> DEFINE v == SavedRow(time, key, m)
<1>1. v \in Rows
  BY SavedRowTypes
<1>2. v.favorite = FALSE /\ v.normalized_url = key.normalized_url
  BY DEF SavedRow
<1>3. row = Resolved(d, v, SavedColumns)
  BY DEF SavedAs
<1> HIDE DEF v
<1>4. SavedColumns \in SUBSET Columns /\ "favorite" \in Columns \ SavedColumns
  BY ColumnsSaved DEF Columns
<1>5. \A c \in Columns \ SavedColumns : Resolved(d, v, SavedColumns)[c] =
        IF v.normalized_url \in FindURLs(d, Urls) THEN d.records[Rid(d, v.normalized_url)][c] ELSE v[c]
  BY <1>1, <1>4, ResolvedRow
<1>6. Resolved(d, v, SavedColumns)["favorite"] =
        IF v.normalized_url \in FindURLs(d, Urls) THEN d.records[Rid(d, v.normalized_url)]["favorite"] ELSE v["favorite"]
  BY <1>4, <1>5
<1>7. QED
  BY <1>2, <1>3, <1>6

LEMMA TargetFits ==
  ASSUME NEW d, DbOk(d), NEW time \in 0 .. MaxTime, NEW key \in Keys, NEW m \in R!Metadata,
         NEW r, r = Target(d, key.normalized_url), NEW row, row = SavedAs(d, time, key, m)
  PROVE  row \in Rows /\ RowFor(d, key.normalized_url, m, r, row)
<1> DEFINE u == key.normalized_url
<1>1. row \in Rows
  BY SavedAsTypes
<1>2. /\ row.normalized_url = u /\ row.title = m.title /\ row.creator_id = m.creator /\ row.update_time = m.update
      /\ row.book_update_time = m.book /\ row.greetings_count = m.greetings /\ row.sync_status = "SUCCESS"
  <2>1. row.normalized_url = u
    BY SavedAsTypes
  <2>2. row.title = m.title /\ row.creator_id = m.creator /\ row.update_time = m.update
    BY SavedAsTypes
  <2>3. row.book_update_time = m.book /\ row.greetings_count = m.greetings /\ row.sync_status = "SUCCESS"
    BY SavedAsTypes
  <2>4. QED
    BY <2>1, <2>2, <2>3
<1>3. row.favorite = IF u \in FindURLs(d, Urls) THEN d.records[Rid(d, u)].favorite ELSE FALSE
  BY FavoriteStays
<1> HIDE DEF u
<1>4. CASE u \in FindURLs(d, Urls)
  <2>1. r = Rid(d, u)
    BY <1>4 DEF Target, u
  <2>2. r \in Records(d) /\ d.records[r].normalized_url = u
    BY <1>4, <2>1, RowOfUrl
  <2>3. QED
    BY <1>1, <1>2, <1>3, <1>4, <2>1, <2>2 DEF RowFor, u
<1>5. CASE u \notin FindURLs(d, Urls)
  <2>1. r = d.seq + 1
    BY <1>5 DEF Target, u
  <2>2. r \notin Records(d)
    <3>1. d.seq \in Nat
      BY DEF DbOk, DbTypes
    <3>2. \A x \in Records(d) : x \in Int /\ x <= d.seq
      BY DEF DbOk, Refs, Records, Rids
    <3>3. QED
      BY <2>1, <3>1, <3>2
  <2>3. QED
    BY <1>1, <1>2, <1>3, <1>5, <2>1, <2>2 DEF RowFor, u
<1>6. QED
  BY <1>4, <1>5

\* What a call of SaveCard does, if anything: a row of a card that is there or a new
\* one, and the card under its id.
SavedFor(u, m, sheet, r, row) ==
  /\ r \in Rids /\ row \in Rows /\ RowFor(db, u, m, r, row)
  /\ db' = Saved(db, m, r, row, sheet.text) /\ DbOk(db')
  /\ sheets' = [sheets EXCEPT ![r][m.update] =
                  [sheet EXCEPT !.tags = TagNamesOf(Entity(Saved(db, m, r, row, sheet.text), r))]]

LEMMA SaveEffect ==
  ASSUME InOrder, NEW time \in 0 .. MaxTime, NEW key \in Keys, NEW m \in R!Metadata, NEW sheet \in R!Sheets,
         NEW failing \in Failing(key.normalized_url), SaveCard(key, m, sheet, time, failing)
  PROVE  \/ db' = db /\ sheets' = sheets
         \/ \E r, row : SavedFor(key.normalized_url, m, sheet, r, row)
<1> DEFINE r == Target(db, key.normalized_url)
           row == SavedAs(db, time, key, m)
<1>1. key.normalized_url \in FindURLs(db, Urls) \/ db.seq < MaxRid \/ failing \in {"tags", "creator"}
  BY DEF Failing, StoredUrls
<1>2. ASSUME NEW x, x = r, NEW y, y = row
      PROVE  \/ db' = db /\ sheets' = sheets
             \/ /\ x \in Rids /\ db' = Saved(db, m, x, y, sheet.text) /\ DbOk(db')
                /\ sheets' = [sheets EXCEPT ![x][m.update] =
                                [sheet EXCEPT !.tags = TagNamesOf(Entity(Saved(db, m, x, y, sheet.text), x))]]
  BY <1>1, <1>2, CardSaved DEF InOrder
<1>3. ASSUME NEW x, x = r, NEW y, y = row
      PROVE  y \in Rows /\ RowFor(db, key.normalized_url, m, x, y)
  BY <1>3, TargetFits DEF InOrder
<1> HIDE DEF r, row
<1>4. CASE db' = db /\ sheets' = sheets
  BY <1>4
<1>5. CASE ~(db' = db /\ sheets' = sheets)
  <2>1. SavedFor(key.normalized_url, m, sheet, r, row)
    BY <1>2, <1>3, <1>5 DEF SavedFor
  <2>2. QED
    BY <2>1
<1>6. QED
  BY <1>4, <1>5

LEMMA SavedHolds ==
  ASSUME AllHeld, NEW u, NEW m \in R!Metadata, NEW sheet \in R!Sheets, NEW r, NEW row,
         SavedFor(u, m, sheet, r, row), snapshot' = snapshot
  PROVE  Held(db', sheets') /\ ReadOnce(db', snapshot') /\ Known(db')
<1>1. /\ r \in Rids /\ row \in Rows /\ RowFor(db, u, m, r, row)
      /\ db' = Saved(db, m, r, row, sheet.text) /\ DbOk(db')
      /\ sheets' = [sheets EXCEPT ![r][m.update] = [sheet EXCEPT !.tags = TagNamesOf(Entity(db', r))]]
  BY DEF SavedFor
<1>2. DbOk(db) /\ SheetsTyped(sheets) /\ Held(db, sheets) /\ ReadOnce(db, snapshot)
  BY DEF AllHeld, InOrder
<1>3. /\ row.update_time = m.update /\ (r \in Records(db) \/ r = db.seq + 1)
      /\ r \in Records(db) => row.normalized_url = db.records[r].normalized_url
  BY <1>1 DEF RowFor
<1>4. Held(db', sheets')
  BY <1>1, <1>2, <1>3, SavedHeld
<1>5. ReadOnce(db', snapshot)
  BY <1>1, <1>2, <1>3, SavedRead
<1>6. Known(db')
  <2>1. row.sync_status = "SUCCESS" /\ Known(db)
    BY <1>1 DEF RowFor, AllHeld
  <2>2. ASSUME NEW e, e = db'
        PROVE  /\ Records(e) = Records(db) \cup {r} /\ e.records[r] = row
               /\ \A x \in Records(db) : x # r => e.records[x] = db.records[x]
    <3>1. e = Saved(db, m, r, row, sheet.text) /\ DbOk(db) /\ r \in Rids /\ row \in Rows
      BY <1>1, <1>2, <2>2
    <3>2. Records(e) = Records(db) \cup {r}
      BY <3>1, SavedMore
    <3>3. e.records[r] = row
      BY <3>1, SavedOne
    <3>4. \A x \in Records(db) : x # r => e.records[x] = db.records[x]
      BY <3>1, SavedOthers
    <3>5. QED
      BY <3>2, <3>3, <3>4
  <2>3. QED
    BY <2>1, <2>2 DEF Known, R!Statuses
<1>7. QED
  BY <1>4, <1>5, <1>6

LEMMA SaveHolds == ASSUME AllHeld, NEW u \in Urls, Save(u) PROVE AllHeld'
<1>1. InOrder'
  BY SaveInOrder DEF AllHeld
<1>2. PICK f \in Fetched[u], time \in ImportTimes, failing \in Failing(u) :
        SaveCard(f.key, f.metadata, f.sheet, time, failing)
  BY DEF Save
<1>3. f.key \in Keys /\ f.key.normalized_url = u /\ f.metadata \in R!Metadata /\ f.sheet \in R!Sheets
  BY FetchedIsWhatMayBeSaved DEF Keys
<1>4. time \in 0 .. MaxTime
  BY ImportTimesAreTimes
<1>5. \/ db' = db /\ sheets' = sheets
      \/ \E r, row : SavedFor(u, f.metadata, f.sheet, r, row)
  BY <1>2, <1>3, <1>4, SaveEffect DEF AllHeld
<1>6. snapshot' = snapshot
  BY DEF Save
<1>7. Held(db', sheets') /\ ReadOnce(db', snapshot') /\ Known(db')
  BY <1>3, <1>5, <1>6, SavedHolds DEF AllHeld
<1>8. QED
  BY <1>1, <1>7 DEF AllHeld

LEMMA RepairHolds == ASSUME AllHeld, Repair PROVE AllHeld'
<1>1. InOrder'
  BY RepairInOrder DEF AllHeld
<1>2. PICK failing \in Failing(repair.key.normalized_url) :
        SaveCard(repair.key, repair.metadata, repair.sheet, repair.metadata.update, failing)
  BY DEF Repair
<1>3. repair.key \in Keys /\ repair.metadata \in R!Metadata /\ repair.sheet \in R!Sheets
  BY DEF Repair, AllHeld, InOrder, Decided
<1>4. repair.metadata.update \in 0 .. MaxTime
  <2>1. repair.metadata.update \in 1 .. MaxTime
    BY <1>3, MetadataTypes
  <2>2. QED
    BY <2>1, BoundsAreNats
<1>5. \/ db' = db /\ sheets' = sheets
      \/ \E r, row : SavedFor(repair.key.normalized_url, repair.metadata, repair.sheet, r, row)
  BY <1>2, <1>3, <1>4, SaveEffect DEF AllHeld
<1>6. snapshot' = snapshot
  BY DEF Repair
<1>7. Held(db', sheets') /\ ReadOnce(db', snapshot') /\ Known(db')
  BY <1>3, <1>5, <1>6, SavedHolds DEF AllHeld
<1>8. QED
  BY <1>1, <1>7 DEF AllHeld

\* Marks are nothing that a card holds.
LEMMA ChangedNames ==
  ASSUME NEW d, DbOk(d), NEW e, Changed(d, e), NEW r \in Records(d)
  PROVE  /\ NamesOf(e, r) = NamesOf(d, r) /\ TextsIn(e, r) = TextsIn(d, r)
         /\ e.records[r].update_time = d.records[r].update_time
<1> DEFINE records == e.records
<1>1. e = [d EXCEPT !.records = records]
  BY DEF Changed
<1>2. Kin(e.records[r], d.records[r])
  BY DEF Changed
<1> HIDE DEF records
<1>3. e.record_tags = d.record_tags /\ e.tags = d.tags /\ e.fts = d.fts
  BY <1>1 DEF DbOk, DbTypes
<1>4. TagsOf(e, r) = TagsOf(d, r)
  BY <1>3 DEF TagsOf
<1>5. QED
  BY <1>2, <1>3, <1>4 DEF NamesOf, TextsIn, Kin

LEMMA ChangedHolds ==
  ASSUME AllHeld, Changed(db, db'), Known(db'), UNCHANGED <<sheets, snapshot, repair>>
  PROVE  AllHeld'
<1>1. InOrder'
  BY ChangeInOrder DEF AllHeld
<1>2. DbOk(db) /\ Held(db, sheets) /\ ReadOnce(db, snapshot)
  BY DEF AllHeld, InOrder
<1>3. Records(db') = Records(db)
  BY <1>2, RowsChanged
<1>4. ASSUME NEW r \in Records(db) PROVE HeldIn(db', r, sheets[r])
  <2>1. HeldIn(db, r, sheets[r])
    BY <1>2 DEF Held
  <2>2. /\ NamesOf(db', r) = NamesOf(db, r) /\ TextsIn(db', r) = TextsIn(db, r)
        /\ db'.records[r].update_time = db.records[r].update_time
    BY <1>2, ChangedNames
  <2>3. QED
    BY <2>1, <2>2, HeldSame
<1>5. Held(db', sheets)
  BY <1>2, <1>3, <1>4 DEF Held
<1>6. db'.seq = db.seq
  <2> DEFINE records == db'.records
  <2>1. db' = [db EXCEPT !.records = records]
    BY DEF Changed
  <2> HIDE DEF records
  <2>2. QED
    BY <1>2, <2>1 DEF DbOk, DbTypes
<1>7. \A r \in Records(db) : db'.records[r].normalized_url = db.records[r].normalized_url
  BY DEF Changed, Kin
<1>8. ReadOnce(db', snapshot)
  BY <1>2, <1>3, <1>6, <1>7 DEF ReadOnce
<1>9. QED
  BY <1>1, <1>5, <1>8 DEF AllHeld

LEMMA DeletedNames ==
  ASSUME NEW d, DbOk(d), NEW rids, NEW e, e = DeleteRecords(d, rids), NEW r \in Records(d), r \notin rids
  PROVE  NamesOf(e, r) = NamesOf(d, r) /\ TextsIn(e, r) = TextsIn(d, r) /\ e.seq = d.seq
<1> DEFINE records == [x \in Rids |-> IF x \in rids THEN None ELSE d.records[x]]
           edges == {x \in d.record_tags : x[1] \notin rids}
           texts == {row \in d.fts : row.id \notin rids}
<1>1. e = [d EXCEPT !.records = records, !.record_tags = edges, !.fts = texts]
  BY DEF DeleteRecords, DbOk, DbTypes
<1>2. \A s : <<r, s>> \in edges <=> <<r, s>> \in d.record_tags
  OBVIOUS
<1>3. \A x : x \in texts /\ x.id = r <=> x \in d.fts /\ x.id = r
  OBVIOUS
<1> HIDE DEF records, edges, texts
<1>4. e.record_tags = edges /\ e.fts = texts /\ e.seq = d.seq /\ e.tags = d.tags
  BY <1>1 DEF DbOk, DbTypes
<1>5. TagsOf(e, r) = TagsOf(d, r)
  BY <1>2, <1>4 DEF TagsOf
<1>6. NamesOf(e, r) = NamesOf(d, r)
  BY <1>4, <1>5 DEF NamesOf
<1>7. {x \in e.fts : x.id = r} = {x \in d.fts : x.id = r}
  BY <1>3, <1>4
<1>8. TextsIn(e, r) = TextsIn(d, r)
  BY <1>7 DEF TextsIn
<1>9. QED
  BY <1>4, <1>6, <1>8

LEMMA DeleteHolds == ASSUME AllHeld, NEW r \in Rids, Delete(r) PROVE AllHeld'
<1>1. InOrder'
  BY DeleteInOrder DEF AllHeld
<1>2. DbOk(db) /\ SheetsTyped(sheets) /\ Held(db, sheets) /\ ReadOnce(db, snapshot)
  BY DEF AllHeld, InOrder
<1>3. IDIn(db, {r}) \cap Records(db) = {r}
  BY DEF Delete, IDIn
<1>4. db' = DeleteRecords(db, {r})
  BY <1>3 DEF Delete, DeleteWhere
<1>5. Records(db') = Records(db) \ {r} /\ \A x \in Records(db') : db'.records[x] = db.records[x]
  BY <1>2, <1>4, RecordsDeleted
<1>6. sheets'[r] = NoSheets /\ \A x \in Rids : x # r => sheets'[x] = sheets[x]
  BY <1>2 DEF Delete, SheetsTyped, NoSheets
<1>7. ASSUME NEW x \in Records(db') PROVE HeldIn(db', x, sheets'[x])
  <2>1. x \in Records(db) /\ x # r /\ x \notin {r} /\ x \in Rids
    BY <1>5 DEF Records
  <2>2. HeldIn(db, x, sheets[x])
    BY <1>2, <2>1 DEF Held
  <2>3. NamesOf(db', x) = NamesOf(db, x) /\ TextsIn(db', x) = TextsIn(db, x)
    BY <1>2, <1>4, <2>1, DeletedNames
  <2>4. QED
    BY <1>5, <1>6, <2>1, <2>2, <2>3, HeldSame
<1>8. Held(db', sheets')
  BY <1>2, <1>5, <1>6, <1>7 DEF Held
<1>9. db'.seq = db.seq
  BY <1>4 DEF DeleteRecords, DbOk, DbTypes
<1>10. ReadOnce(db', snapshot)
  BY <1>2, <1>5, <1>9 DEF ReadOnce
<1>11. Known(db')
  BY <1>5 DEF AllHeld, Known
<1>12. QED
  BY <1>1, <1>8, <1>10, <1>11 DEF AllHeld, Delete

\* A call that changes marks, or finds nothing to change.
LEMMA MarksHold ==
  ASSUME AllHeld
  PROVE  /\ \A r \in Rids : ToggleFavorite(r) \/ UpdateExportData(r) => AllHeld'
         /\ \A r \in Rids, status \in R!Statuses : UpdateSyncData(r, status) => AllHeld'
         /\ \A rids \in SUBSET Rids, favorite \in BOOLEAN : UpdateFavoriteData(rids, favorite) => AllHeld'
<1>1. DbOk(db) /\ InOrder /\ Known(db)
  BY DEF AllHeld, InOrder
<1>2. ASSUME UNCHANGED <<db, sheets, snapshot, repair>> PROVE AllHeld'
  BY <1>2, SameInOrder DEF AllHeld
<1>3. ASSUME Changed(db, db'), UNCHANGED <<sheets, snapshot, repair>>,
             \A r \in Records(db) : db'.records[r].sync_status \in R!Statuses
      PROVE  AllHeld'
  <2>1. Records(db') = Records(db)
    BY <1>1, <1>3, RowsChanged
  <2>2. Known(db')
    BY <1>3, <2>1 DEF Known
  <2>3. QED
    BY <1>3, <2>2, ChangedHolds
<1>4. ASSUME NEW r \in Records(db), Changed(db, db'), SameMarks(db, db', r), db'.records[r].sync_status \in R!Statuses,
             UNCHANGED <<sheets, snapshot, repair>>
      PROVE  AllHeld'
  <2>1. \A x \in Records(db) : db'.records[x].sync_status \in R!Statuses
    BY <1>1, <1>4 DEF SameMarks, Known
  <2>2. QED
    BY <1>3, <1>4, <2>1
<1>5. ASSUME NEW r \in Rids, ToggleFavorite(r) PROVE AllHeld'
  <2>1. UNCHANGED <<sheets, snapshot, repair>>
    BY <1>5 DEF ToggleFavorite, Update
  <2>2. QED
    BY <1>1, <1>2, <1>4, <1>5, <2>1, ToggleEffect DEF Known
<1>6. ASSUME NEW r \in Rids, UpdateExportData(r) PROVE AllHeld'
  <2>1. UNCHANGED <<sheets, snapshot, repair>>
    BY <1>6 DEF UpdateExportData, Update
  <2>2. QED
    BY <1>1, <1>4, <1>6, <2>1, ExportEffect DEF Known
<1>7. ASSUME NEW r \in Rids, NEW status \in R!Statuses, UpdateSyncData(r, status) PROVE AllHeld'
  <2>1. UNCHANGED <<sheets, snapshot, repair>>
    BY <1>7 DEF UpdateSyncData, Update
  <2>2. QED
    BY <1>1, <1>2, <1>4, <1>7, <2>1, SyncEffect
<1>8. ASSUME NEW rids \in SUBSET Rids, NEW favorite \in BOOLEAN, UpdateFavoriteData(rids, favorite) PROVE AllHeld'
  <2>1. UNCHANGED <<sheets, snapshot, repair>>
    BY <1>8 DEF UpdateFavoriteData, Update
  <2>2. Changed(db, db') /\ \A r \in Records(db) : db'.records[r].sync_status = db.records[r].sync_status
    BY <1>1, <1>8, FavoritesEffect
  <2>3. \A r \in Records(db) : db'.records[r].sync_status \in R!Statuses
    BY <1>1, <2>2 DEF Known
  <2>4. QED
    BY <1>3, <2>1, <2>2, <2>3
<1>9. QED
  BY <1>5, <1>6, <1>7, <1>8

LEMMA CheckStartHolds == ASSUME AllHeld, CheckStart PROVE AllHeld'
<1>1. InOrder'
  BY CheckStartInOrder DEF AllHeld
<1>2. UNCHANGED <<db, sheets, repair>>
  BY DEF CheckStart
<1>3. snapshot' = {Entity(db, r) : r \in Records(db) \cap Rids}
  BY FoundIs DEF CheckStart
<1>4. \A r \in Records(db) : (Entity(db, r)).id = r /\ (Entity(db, r)).columns = db.records[r]
  BY EntityIs DEF AllHeld, InOrder
<1>5. \A r \in Records(db) : r \in Rids /\ r <= db.seq
  BY DEF AllHeld, InOrder, DbOk, Refs, Records
<1>6. ReadOnce(db, snapshot')
  BY <1>3, <1>4, <1>5 DEF ReadOnce
<1>7. QED
  BY <1>1, <1>2, <1>6 DEF AllHeld

LEMMA CheckOneHolds == ASSUME AllHeld, NEW e \in snapshot, CheckOne(e) PROVE AllHeld'
<1>1. InOrder'
  BY CheckOneInOrder DEF AllHeld
<1>2. snapshot' \subseteq snapshot /\ UNCHANGED <<db, sheets>>
  BY DEF CheckOne
<1>3. ReadOnce(db, snapshot')
  BY <1>2 DEF AllHeld, ReadOnce
<1>4. QED
  BY <1>1, <1>2, <1>3 DEF AllHeld

LEMMA CleanedIs ==
  ASSUME NEW d, DbOk(d), NEW e, e = DeleteCreators(d, CreatorRows(d) \ HasRecords(d))
  PROVE  /\ e.records = d.records /\ e.tags = d.tags /\ e.record_tags = d.record_tags
         /\ e.fts = d.fts /\ e.seq = d.seq
         /\ e.creators = [c \in Creators |-> IF c \in HasRecords(d) THEN d.creators[c] ELSE None]
<1> DEFINE gone == CreatorRows(d) \ HasRecords(d)
           creators == [c \in Creators |-> IF c \in gone THEN None ELSE d.creators[c]]
<1>1. e = [d EXCEPT !.creators = creators]
  BY DEF DeleteCreators, DbOk, DbTypes
<1>2. creators = [c \in Creators |-> IF c \in HasRecords(d) THEN d.creators[c] ELSE None]
  BY DEF CreatorRows
<1> HIDE DEF creators
<1>3. /\ e.records = d.records /\ e.creators = creators /\ e.record_tags = d.record_tags
      /\ e.fts = d.fts /\ e.seq = d.seq /\ e.tags = d.tags
  BY <1>1 DEF DbOk, DbTypes
<1>4. QED
  BY <1>2, <1>3

LEMMA CheckEndHolds == ASSUME AllHeld, CheckEnd PROVE AllHeld'
<1>1. InOrder'
  BY CheckEndInOrder DEF AllHeld
<1>2. db' = DeleteCreators(db, CreatorRows(db) \ HasRecords(db)) /\ UNCHANGED <<sheets, snapshot, repair>>
  BY DEF CheckEnd
<1>3. /\ db'.records = db.records /\ db'.tags = db.tags /\ db'.record_tags = db.record_tags
      /\ db'.fts = db.fts /\ db'.seq = db.seq
  BY <1>2, CleanedIs DEF AllHeld, InOrder
<1>4. Records(db') = Records(db)
  BY <1>3 DEF Records
<1>5. \A r : NamesOf(db', r) = NamesOf(db, r) /\ TextsIn(db', r) = TextsIn(db, r)
  BY <1>3 DEF NamesOf, TagsOf, TextsIn
<1>6. Held(db', sheets)
  BY <1>3, <1>4, <1>5 DEF AllHeld, Held, HeldIn
<1>7. ReadOnce(db', snapshot) /\ Known(db')
  BY <1>3, <1>4 DEF AllHeld, ReadOnce, Known
<1>8. QED
  BY <1>1, <1>2, <1>6, <1>7 DEF AllHeld

LEMMA AllHeldInit == Init => AllHeld
<1> SUFFICES ASSUME Init PROVE AllHeld
  OBVIOUS
<1>1. InOrder
  BY InOrderInit
<1>2. Records(db) = {}
  BY DEF Init, EmptyDb, Records
<1>3. Held(db, sheets) /\ ReadOnce(db, snapshot) /\ Known(db)
  BY <1>2 DEF Init, Held, ReadOnce, Known, NoSheets
<1>4. QED
  BY <1>1, <1>3 DEF AllHeld

LEMMA AllHeldStep == ASSUME AllHeld, [Next]_vars PROVE AllHeld'
<1>1. CASE UNCHANGED vars
  <2>1. UNCHANGED <<db, sheets, snapshot, repair>>
    BY <1>1 DEF vars
  <2>2. QED
    BY <2>1, SameInOrder DEF AllHeld
<1>2. ASSUME NEW u \in Urls, Save(u) PROVE AllHeld'
  BY <1>2, SaveHolds
<1>3. ASSUME NEW r \in Rids, Delete(r) PROVE AllHeld'
  BY <1>3, DeleteHolds
<1>4. ASSUME NEW r \in Rids, ToggleFavorite(r) \/ UpdateExportData(r) PROVE AllHeld'
  BY <1>4, MarksHold
<1>5. ASSUME NEW rids \in SUBSET Rids, NEW favorite \in BOOLEAN, UpdateFavoriteData(rids, favorite) PROVE AllHeld'
  BY <1>5, MarksHold
<1>6. ASSUME NEW r \in Rids, NEW status \in R!Statuses, UpdateSyncData(r, status) PROVE AllHeld'
  BY <1>6, MarksHold
<1>7. CASE CheckStart
  BY <1>7, CheckStartHolds
<1>8. ASSUME NEW e \in snapshot, CheckOne(e) PROVE AllHeld'
  BY <1>8, CheckOneHolds
<1>9. CASE Repair
  BY <1>9, RepairHolds
<1>10. CASE CheckEnd
  BY <1>10, CheckEndHolds
<1>11. QED
  BY <1>1, <1>2, <1>3, <1>4, <1>5, <1>6, <1>7, <1>8, <1>9, <1>10 DEF Next

\* The inductive invariant: tables in order, the card of every record in its version,
\* with the names and the text that are in the tables, no card without a record, and a check that
\* has read each record once.
THEOREM CardsHeld == Spec => []AllHeld
<1>1. AllHeld /\ [Next]_vars => AllHeld'
  BY AllHeldStep
<1>2. QED
  BY <1>1, AllHeldInit, PTL DEF Spec

-----------------------------------------------------------------------------
(* The cards in the tables.                                                *)

RowIn(d, r) ==
  LET row == d.records[r]
  IN  [creator |-> row.creator_id, tags |-> TagsOf(d, r), title |-> row.title, update |-> row.update_time,
       book |-> row.book_update_time, greetings |-> row.greetings_count, mark |-> row.favorite,
       status |-> row.sync_status]

HasRow(d, u) == u \in FindURLs(d, Urls)

VaultOf(d, s) ==
  [rows     |-> [u \in Urls |-> IF HasRow(d, u) THEN RowIn(d, Rid(d, u)) ELSE None],
   creators |-> d.creators,
   tags     |-> d.tags,
   fts      |-> [u \in Urls |-> IF HasRow(d, u) THEN TextsIn(d, Rid(d, u)) ELSE {}],
   sheets   |-> [u \in Urls |-> IF HasRow(d, u) THEN s[Rid(d, u)] ELSE NoSheets]]

OfRecords(d, entities) == {e \in entities : e.id \in Records(d)}
UrlsOf(entities) == {e.columns.normalized_url : e \in entities}

ReadIn(entities) ==
  [u \in UrlsOf(entities) |-> MetadataOf(CHOOSE e \in entities : e.columns.normalized_url = u)]

RepairIn(x) == IF x = None THEN None ELSE [url |-> x.key.normalized_url, record |-> x.metadata, sheet |-> x.sheet]

rSnapshot == [u \in {e.columns.normalized_url : e \in Checkable} |->
                MetadataOf(CHOOSE e \in Checkable : e.columns.normalized_url = u)]
rRepair == IF repair = None THEN None
           ELSE [url |-> repair.key.normalized_url, record |-> repair.metadata, sheet |-> repair.sheet]

LEMMA VaultMapped == AbstractVault = VaultOf(db, sheets) /\ AbstractVault' = VaultOf(db', sheets')
<1>1. AbstractVault = VaultOf(db, sheets)
  <2>1. ASSUME NEW u \in StoredUrls PROVE RidOf(u) = Rid(db, u) /\ AbstractRow(RidOf(u)) = RowIn(db, Rid(db, u))
    BY DEF RidOf, Rid, AbstractRow, RowIn, TagsOf
  <2>2. ASSUME NEW u \in Urls
        PROVE  {row.text : row \in {x \in db.fts : u \in StoredUrls /\ x.id = RidOf(u)}} =
                 IF u \in StoredUrls THEN TextsIn(db, Rid(db, u)) ELSE {}
    BY DEF RidOf, Rid, TextsIn
  <2>3. \A u \in Urls : u \in StoredUrls <=> HasRow(db, u)
    BY DEF StoredUrls, HasRow
  <2>4. QED
    BY <2>1, <2>2, <2>3 DEF AbstractVault, VaultOf, NoSheets
<1>2. AbstractVault' = VaultOf(db', sheets')
  <2>1. ASSUME NEW u \in StoredUrls'
        PROVE  RidOf(u)' = Rid(db', u) /\ AbstractRow(RidOf(u))' = RowIn(db', Rid(db', u))
    BY DEF RidOf, Rid, AbstractRow, RowIn, TagsOf
  <2>2. ASSUME NEW u \in Urls
        PROVE  {row.text : row \in {x \in db'.fts : u \in StoredUrls' /\ x.id = RidOf(u)'}} =
                 IF u \in StoredUrls' THEN TextsIn(db', Rid(db', u)) ELSE {}
    BY DEF RidOf, Rid, TextsIn
  <2>3. \A u \in Urls : u \in StoredUrls' <=> HasRow(db', u)
    BY DEF StoredUrls, HasRow
  <2>4. QED
    BY <2>1, <2>2, <2>3 DEF AbstractVault, VaultOf, NoSheets
<1>3. QED
  BY <1>1, <1>2

LEMMA OthersMapped ==
  /\ rSnapshot = ReadIn(OfRecords(db, snapshot)) /\ rSnapshot' = ReadIn(OfRecords(db', snapshot'))
  /\ rRepair = RepairIn(repair) /\ rRepair' = RepairIn(repair')
BY DEF rSnapshot, ReadIn, UrlsOf, OfRecords, Checkable, rRepair, RepairIn

LEMMA CardInTables ==
  ASSUME NEW d, DbOk(d), NEW r \in Records(d), NEW u, u = d.records[r].normalized_url
  PROVE  u \in Urls /\ HasRow(d, u) /\ Rid(d, u) = r
<1>1. HasRow(d, u) /\ Rid(d, u) = r
  BY UrlOfRow DEF HasRow
<1>2. u \in Urls
  BY StoredRows, RowColumns DEF DbOk
<1>3. QED
  BY <1>1, <1>2

LEMMA CardRow ==
  ASSUME NEW d, DbOk(d), NEW s, NEW r \in Records(d), NEW u, u = d.records[r].normalized_url
  PROVE  VaultOf(d, s).rows[u] = RowIn(d, r)
<1>1. u \in Urls /\ HasRow(d, u) /\ Rid(d, u) = r
  BY CardInTables
<1>2. QED
  BY <1>1 DEF VaultOf

LEMMA CardTexts ==
  ASSUME NEW d, DbOk(d), NEW s, NEW r \in Records(d), NEW u, u = d.records[r].normalized_url
  PROVE  VaultOf(d, s).fts[u] = TextsIn(d, r)
<1>1. u \in Urls /\ HasRow(d, u) /\ Rid(d, u) = r
  BY CardInTables
<1>2. QED
  BY <1>1 DEF VaultOf

LEMMA CardSheets ==
  ASSUME NEW d, DbOk(d), NEW s, NEW r \in Records(d), NEW u, u = d.records[r].normalized_url
  PROVE  VaultOf(d, s).sheets[u] = s[r]
<1>1. u \in Urls /\ HasRow(d, u) /\ Rid(d, u) = r
  BY CardInTables
<1>2. QED
  BY <1>1 DEF VaultOf

LEMMA NoCardInTables ==
  ASSUME NEW d, NEW s, NEW u \in Urls, ~HasRow(d, u)
  PROVE  VaultOf(d, s).rows[u] = None /\ VaultOf(d, s).fts[u] = {} /\ VaultOf(d, s).sheets[u] = NoSheets
BY DEF VaultOf

LEMMA VaultFields ==
  ASSUME NEW d, NEW s
  PROVE  /\ VaultOf(d, s).creators = d.creators /\ VaultOf(d, s).tags = d.tags
         /\ DOMAIN VaultOf(d, s).rows = Urls /\ DOMAIN VaultOf(d, s).fts = Urls /\ DOMAIN VaultOf(d, s).sheets = Urls
         /\ VaultOf(d, s).rows = [u \in Urls |-> VaultOf(d, s).rows[u]]
         /\ VaultOf(d, s).fts = [u \in Urls |-> VaultOf(d, s).fts[u]]
         /\ VaultOf(d, s).sheets = [u \in Urls |-> VaultOf(d, s).sheets[u]]
BY DEF VaultOf

\* A card whose row stays as it is stays as it is.
SameAt(d, s, e, s2, w) ==
  /\ \A r : r \in Records(d) /\ d.records[r].normalized_url = w
               <=> r \in Records(e) /\ e.records[r].normalized_url = w
  /\ \A r \in Records(d) : d.records[r].normalized_url = w =>
       RowIn(e, r) = RowIn(d, r) /\ TextsIn(e, r) = TextsIn(d, r) /\ s2[r] = s[r]

LEMMA CardSame ==
  ASSUME NEW d, DbOk(d), NEW s, NEW e, DbOk(e), NEW s2, NEW w \in Urls, SameAt(d, s, e, s2, w)
  PROVE  /\ VaultOf(e, s2).rows[w] = VaultOf(d, s).rows[w] /\ VaultOf(e, s2).fts[w] = VaultOf(d, s).fts[w]
         /\ VaultOf(e, s2).sheets[w] = VaultOf(d, s).sheets[w]
<1>1. CASE HasRow(d, w)
  <2>1. PICK r \in Records(d) : d.records[r].normalized_url = w
    BY <1>1, RowOfUrl DEF HasRow
  <2>2. r \in Records(e) /\ e.records[r].normalized_url = w
    BY <2>1 DEF SameAt
  <2>3. /\ VaultOf(d, s).rows[w] = RowIn(d, r) /\ VaultOf(d, s).fts[w] = TextsIn(d, r)
        /\ VaultOf(d, s).sheets[w] = s[r]
    BY <2>1, CardRow, CardTexts, CardSheets
  <2>4. /\ VaultOf(e, s2).rows[w] = RowIn(e, r) /\ VaultOf(e, s2).fts[w] = TextsIn(e, r)
        /\ VaultOf(e, s2).sheets[w] = s2[r]
    BY <2>2, CardRow, CardTexts, CardSheets
  <2>5. QED
    BY <2>1, <2>3, <2>4 DEF SameAt
<1>2. CASE ~HasRow(d, w)
  <2>1. ~HasRow(e, w)
    <3>1. SUFFICES ASSUME HasRow(e, w) PROVE FALSE
      OBVIOUS
    <3>2. PICK r \in Records(e) : e.records[r].normalized_url = w
      BY <3>1, RowOfUrl DEF HasRow
    <3>3. r \in Records(d) /\ d.records[r].normalized_url = w
      BY <3>2 DEF SameAt
    <3>4. QED
      BY <1>2, <3>3, CardInTables
  <2>2. VaultOf(d, s).rows[w] = None /\ VaultOf(d, s).fts[w] = {} /\ VaultOf(d, s).sheets[w] = NoSheets
    BY <1>2, NoCardInTables
  <2>3. VaultOf(e, s2).rows[w] = None /\ VaultOf(e, s2).fts[w] = {} /\ VaultOf(e, s2).sheets[w] = NoSheets
    BY <2>1, NoCardInTables
  <2>4. QED
    BY <2>2, <2>3
<1>3. QED
  BY <1>1, <1>2

LEMMA RowIsRow ==
  ASSUME NEW d, DbOk(d), Counted(d), Known(d), NEW r \in Records(d)
  PROVE  RowIn(d, r) \in R!Rows /\ RowIn(d, r) # None
<1>1. d.records[r] \in Rows /\ d.records[r].greetings_count \in 0 .. 1 /\ d.records[r].sync_status \in R!Statuses
  BY StoredRows DEF DbOk, Counted, Known
<1>2. TagsOf(d, r) \in SUBSET Slugs
  BY DEF TagsOf
<1>3. RowIn(d, r) \in R!Rows
  BY <1>1, <1>2, RowColumns DEF RowIn, R!Rows, R!Times
<1>4. QED
  BY <1>3, NoneIsNoData

LEMMA StoredIs ==
  ASSUME NEW d, DbOk(d), Counted(d), Known(d), NEW s
  PROVE  R!Stored(VaultOf(d, s)) = FindURLs(d, Urls)
<1>1. ASSUME NEW u \in Urls, HasRow(d, u) PROVE VaultOf(d, s).rows[u] # None
  <2>1. PICK r \in Records(d) : d.records[r].normalized_url = u
    BY <1>1, RowOfUrl DEF HasRow
  <2>2. VaultOf(d, s).rows[u] = RowIn(d, r)
    BY <2>1, CardRow
  <2>3. RowIn(d, r) # None
    BY RowIsRow
  <2>4. QED
    BY <2>2, <2>3
<1>2. FindURLs(d, Urls) \subseteq Urls
  BY RowOfUrl
<1>3. \A u \in Urls : VaultOf(d, s).rows[u] # None <=> u \in FindURLs(d, Urls)
  BY <1>1, NoCardInTables DEF HasRow
<1>4. QED
  BY <1>2, <1>3 DEF R!Stored

LEMMA RecordIs ==
  ASSUME NEW d, DbOk(d), NEW s, NEW r \in Records(d), NEW u, u = d.records[r].normalized_url
  PROVE  R!Record(VaultOf(d, s), u) = MetadataOf(Entity(d, r))
<1> DEFINE v == VaultOf(d, s)
           row == d.records[r]
<1>1. v.rows[u] = RowIn(d, r) /\ v.creators = d.creators /\ v.tags = d.tags
  <2>1. VaultOf(d, s).rows[u] = RowIn(d, r)
    BY CardRow
  <2>2. VaultOf(d, s).creators = d.creators /\ VaultOf(d, s).tags = d.tags
    BY VaultFields
  <2>3. QED
    BY <2>1, <2>2
<1>2. ASSUME NEW x, x = row
      PROVE  MetadataOf(Entity(d, r)) =
           [creator |-> x.creator_id, nick |-> d.creators[x.creator_id], title |-> x.title,
            update |-> x.update_time, book |-> x.book_update_time, greetings |-> x.greetings_count,
            names |-> NamesOf(d, r)]
  BY <1>2, MetadataIs
<1> HIDE DEF v
<1>3. R!Record(v, u) =
        [creator |-> row.creator_id, nick |-> d.creators[row.creator_id], title |-> row.title,
         update |-> row.update_time, book |-> row.book_update_time, greetings |-> row.greetings_count,
         names |-> NamesOf(d, r)]
  BY <1>1 DEF R!Record, RowIn, NamesOf
<1>4. QED
  BY <1>2, <1>3 DEF v

LEMMA ReadIs ==
  ASSUME NEW d, DbOk(d), NEW entities, ReadOnce(d, entities), NEW e \in OfRecords(d, entities)
  PROVE  /\ e.columns.normalized_url = d.records[e.id].normalized_url
         /\ e.columns.normalized_url \in UrlsOf(OfRecords(d, entities))
         /\ ReadIn(OfRecords(d, entities))[e.columns.normalized_url] = MetadataOf(e)
         /\ \A x \in OfRecords(d, entities) : x.columns.normalized_url = e.columns.normalized_url => x = e
<1> DEFINE read == OfRecords(d, entities)
<1>1. \A x \in read : x.columns.normalized_url = d.records[x.id].normalized_url /\ x.id \in Records(d)
  BY DEF OfRecords, ReadOnce
<1>2. \A x \in read : x.columns.normalized_url = e.columns.normalized_url => x.id = e.id
  BY <1>1, UrlHasOneRow
<1>3. \A x \in read : x.columns.normalized_url = e.columns.normalized_url => x = e
  BY <1>2 DEF OfRecords, ReadOnce
<1>4. e.columns.normalized_url \in UrlsOf(read)
  BY DEF UrlsOf
<1> HIDE DEF read
<1>5. e \in read
  BY DEF read
<1>6. (CHOOSE x \in read : x.columns.normalized_url = e.columns.normalized_url) = e
  BY <1>3, <1>5
<1>7. ReadIn(read)[e.columns.normalized_url] = MetadataOf(e)
  BY <1>4, <1>6 DEF ReadIn
<1>8. QED
  BY <1>1, <1>3, <1>4, <1>5, <1>7 DEF read


\* What the card of a row was before the row is saved, if it was there.
LEMMA CardBefore ==
  ASSUME NEW d, DbOk(d), Counted(d), Known(d), NEW s, Held(d, s), NEW u \in Urls, NEW m, NEW r \in Rids,
         NEW row \in Rows, RowFor(d, u, m, r, row), NEW v, v = VaultOf(d, s)
  PROVE  /\ v.fts[u] = TextsIn(d, r) /\ v.sheets[u] = s[r]
         /\ (v.rows[u] # None /\ v.rows[u].mark) = row.favorite
<1>1. row.favorite \in BOOLEAN
  BY RowColumns
<1>2. CASE r \in Records(d)
  <2>1. u = d.records[r].normalized_url /\ (row.favorite <=> d.records[r].favorite)
    BY <1>2 DEF RowFor
  <2>2. v.fts[u] = TextsIn(d, r) /\ v.sheets[u] = s[r]
    BY <1>2, <2>1, CardTexts, CardSheets
  <2>3. v.rows[u] = RowIn(d, r)
    BY <1>2, <2>1, CardRow
  <2>4. v.rows[u] # None
    BY <1>2, <2>3, RowIsRow
  <2>5. v.rows[u].mark = d.records[r].favorite
    BY <2>3 DEF RowIn
  <2>6. (v.rows[u] # None /\ v.rows[u].mark) <=> row.favorite
    BY <2>1, <2>4, <2>5
  <2>7. QED
    BY <1>1, <2>2, <2>6
<1>3. CASE r \notin Records(d)
  <2>1. ~HasRow(d, u) /\ row.favorite = FALSE
    BY <1>3 DEF RowFor, HasRow
  <2>2. v.rows[u] = None /\ v.fts[u] = {} /\ v.sheets[u] = NoSheets
    BY <2>1, NoCardInTables
  <2>3. TextsIn(d, r) = {}
    BY <1>3 DEF TextsIn, DbOk, Refs
  <2>4. s[r] = NoSheets
    BY <1>3 DEF Held
  <2>5. QED
    BY <2>1, <2>2, <2>3, <2>4
<1>4. QED
  BY <1>2, <1>3

\* The card u of the tables d and the sheets s is saved in row r, which leaves e and s2.
CardSavedIn(d, s, u, m, sheet, r, row, e, s2) ==
  /\ DbOk(d) /\ Counted(d) /\ Known(d) /\ SheetsTyped(s) /\ Held(d, s)
  /\ u \in Urls /\ m \in R!Metadata /\ sheet \in R!Sheets /\ r \in Rids /\ row \in Rows
  /\ RowFor(d, u, m, r, row)
  /\ e = Saved(d, m, r, row, sheet.text) /\ DbOk(e)
  /\ s2 = [s EXCEPT ![r][m.update] = [sheet EXCEPT !.tags = TagNamesOf(Entity(e, r))]]

\* ... and after it is saved.
NewRow(m, mark) ==
  [creator |-> m.creator, tags |-> DOMAIN m.names, title |-> m.title, update |-> m.update,
   book |-> m.book, greetings |-> m.greetings, mark |-> mark, status |-> "SUCCESS"]
NewSheet(sheet, m, tags) == [sheet EXCEPT !.tags = R!TagNames([x \in DOMAIN m.names |-> tags[x]])]
WithVersion(versions, t, sheet) == [versions EXCEPT ![t] = sheet]

LEMMA CardAfter ==
  ASSUME NEW d, NEW s, NEW u, NEW m, NEW sheet, NEW r, NEW row, NEW e, NEW s2,
         CardSavedIn(d, s, u, m, sheet, r, row, e, s2)
  PROVE  /\ VaultOf(e, s2).rows[u] = NewRow(m, row.favorite)
         /\ VaultOf(e, s2).fts[u] = TextsIn(d, r) \cup {sheet.text}
         /\ VaultOf(e, s2).sheets[u] = WithVersion(s[r], m.update, NewSheet(sheet, m, e.tags))
<1> DEFINE v == VaultOf(e, s2)
<1>0. /\ DbOk(d) /\ Counted(d) /\ Known(d) /\ SheetsTyped(s) /\ Held(d, s)
      /\ u \in Urls /\ m \in R!Metadata /\ sheet \in R!Sheets /\ r \in Rids /\ row \in Rows
      /\ RowFor(d, u, m, r, row) /\ e = Saved(d, m, r, row, sheet.text) /\ DbOk(e)
      /\ s2 = [s EXCEPT ![r][m.update] = [sheet EXCEPT !.tags = TagNamesOf(Entity(e, r))]]
  BY DEF CardSavedIn
<1> USE <1>0
<1>1. r \in Records(e) /\ e.records[r] = row
  <2>1. Records(e) = Records(d) \cup {r}
    BY SavedMore
  <2>2. e.records[r] = row
    BY SavedOne
  <2>3. QED
    BY <2>1, <2>2
<1>2. u = e.records[r].normalized_url
  BY <1>1 DEF RowFor
<1>3. TagsOf(e, r) = DOMAIN m.names
  BY SavedTags
<1>4. v.rows[u] = [creator |-> m.creator, tags |-> DOMAIN m.names, title |-> m.title, update |-> m.update,
                   book |-> m.book, greetings |-> m.greetings, mark |-> row.favorite, status |-> "SUCCESS"]
  <2>1. v.rows[u] = RowIn(e, r)
    BY <1>1, <1>2, CardRow
  <2>2. QED
    BY <1>1, <1>3, <2>1 DEF RowIn, RowFor
<1>5. v.fts[u] = TextsIn(d, r) \cup {sheet.text}
  <2>1. v.fts[u] = TextsIn(e, r)
    BY <1>1, <1>2, CardTexts
  <2>2. TextsIn(e, r) = TextsIn(d, r) \cup {sheet.text}
    BY SavedTexts
  <2>3. QED
    BY <2>1, <2>2
<1>6. TagNamesOf(Entity(e, r)) = R!TagNames([x \in DOMAIN m.names |-> e.tags[x]])
  <2>1. NamesOf(e, r) = [x \in DOMAIN m.names |-> e.tags[x]]
    BY <1>3 DEF NamesOf
  <2>2. TagNamesOf(Entity(e, r)) = R!TagNames(NamesOf(e, r))
    BY <1>1, TagNamesAre
  <2>3. QED
    BY <2>1, <2>2
<1>7. v.sheets[u] = [s[r] EXCEPT ![m.update] = [sheet EXCEPT !.tags = TagNamesOf(Entity(e, r))]]
  <2>1. v.sheets[u] = s2[r]
    <3>1. ASSUME NEW x, x = s2 PROVE VaultOf(e, x).sheets[u] = x[r]
      BY <1>1, <1>2, CardSheets
    <3>2. QED
      BY <3>1
  <2> DEFINE t == m.update
             put == [sheet EXCEPT !.tags = TagNamesOf(Entity(e, r))]
  <2>2. t \in 1 .. MaxTime
    BY MetadataTypes
  <2>3. s2 = [s EXCEPT ![r][t] = put]
    OBVIOUS
  <2> HIDE DEF t, put
  <2>4. s2[r] = [s[r] EXCEPT ![t] = put]
    BY <2>2, <2>3 DEF SheetsTyped
  <2>5. QED
    BY <2>1, <2>4 DEF t, put
<1>8. QED
  BY <1>4, <1>5, <1>6, <1>7 DEF NewRow, NewSheet, WithVersion

\* The other cards.
LEMMA CardsBeside ==
  ASSUME NEW d, NEW s, NEW u, NEW m, NEW sheet, NEW r, NEW row, NEW e, NEW s2,
         CardSavedIn(d, s, u, m, sheet, r, row, e, s2), NEW w \in Urls, w # u
  PROVE  /\ VaultOf(e, s2).rows[w] = VaultOf(d, s).rows[w] /\ VaultOf(e, s2).fts[w] = VaultOf(d, s).fts[w]
         /\ VaultOf(e, s2).sheets[w] = VaultOf(d, s).sheets[w]
<1>0. /\ DbOk(d) /\ Counted(d) /\ Known(d) /\ SheetsTyped(s) /\ Held(d, s)
      /\ u \in Urls /\ m \in R!Metadata /\ sheet \in R!Sheets /\ r \in Rids /\ row \in Rows
      /\ RowFor(d, u, m, r, row) /\ e = Saved(d, m, r, row, sheet.text) /\ DbOk(e)
      /\ s2 = [s EXCEPT ![r][m.update] = [sheet EXCEPT !.tags = TagNamesOf(Entity(e, r))]]
  BY DEF CardSavedIn
<1> USE <1>0
<1>1. /\ Records(e) = Records(d) \cup {r} /\ e.records[r] = row
      /\ \A x \in Records(d) : x # r => e.records[x] = d.records[x]
  <2>1. Records(e) = Records(d) \cup {r}
    BY SavedMore
  <2>2. e.records[r] = row
    BY SavedOne
  <2>3. \A x \in Records(d) : x # r => e.records[x] = d.records[x]
    BY SavedOthers
  <2>4. QED
    BY <2>1, <2>2, <2>3
<1>2. row.normalized_url = u /\ (r \in Records(d) => d.records[r].normalized_url = u)
  BY DEF RowFor
<1>3. \A x : x \in Records(d) /\ d.records[x].normalized_url = w
               <=> x \in Records(e) /\ e.records[x].normalized_url = w
  BY <1>1, <1>2
<1>4. ASSUME NEW x \in Records(d), d.records[x].normalized_url = w
      PROVE  RowIn(e, x) = RowIn(d, x) /\ TextsIn(e, x) = TextsIn(d, x) /\ s2[x] = s[x]
  <2>1. x # r /\ x \in Rids
    BY <1>2, <1>4 DEF Records
  <2>2. TextsIn(e, x) = TextsIn(d, x)
    BY <2>1, SavedNames
  <2>3. TagsOf(e, x) = TagsOf(d, x) /\ e.records[x] = d.records[x]
    BY <1>1, <2>1, SavedTags
  <2>4. s2[x] = s[x]
    BY <2>1 DEF SheetsTyped
  <2>5. QED
    BY <2>2, <2>3, <2>4 DEF RowIn
<1>5. SameAt(d, s, e, s2, w)
  BY <1>3, <1>4 DEF SameAt
<1>6. ASSUME NEW x, x = s2
      PROVE  /\ VaultOf(e, x).rows[w] = VaultOf(d, s).rows[w] /\ VaultOf(e, x).fts[w] = VaultOf(d, s).fts[w]
             /\ VaultOf(e, x).sheets[w] = VaultOf(d, s).sheets[w]
  BY <1>5, <1>6, CardSame
<1>7. QED
  BY <1>6

LEMMA OneEntry ==
  ASSUME NEW D, NEW f, f = [w \in D |-> f[w]], NEW g, g = [w \in D |-> g[w]], NEW u \in D, NEW new, g[u] = new,
         \A w \in D : w # u => g[w] = f[w]
  PROVE  g = [f EXCEPT ![u] = new]
<1>1. [f EXCEPT ![u] = new] = [w \in D |-> IF w = u THEN new ELSE f[w]]
  OBVIOUS
<1>2. g = [w \in D |-> IF w = u THEN new ELSE f[w]]
  OBVIOUS
<1>3. QED
  BY <1>1, <1>2

\* A save of rows and statements is a save of the card.
LEMMA SaveMaps ==
  ASSUME NEW d, NEW s, NEW u, NEW m, NEW sheet, NEW r, NEW row, NEW e, NEW s2,
         CardSavedIn(d, s, u, m, sheet, r, row, e, s2), NEW v, v = VaultOf(d, s), NEW v2, v2 = VaultOf(e, s2)
  PROVE  v2 = R!SaveCard(v, u, m, sheet)
<1> DEFINE tags == R!UpsertTags(v.tags, m.names)
           names == R!TagNames([x \in DOMAIN m.names |-> tags[x]])
           rows == [v.rows EXCEPT ![u] = R!RowAfter(v, u, m, @ # None /\ @.mark, "SUCCESS")]
           fts == [v.fts EXCEPT ![u] = @ \cup {sheet.text}]
           cards == [v.sheets EXCEPT ![u][m.update] = [sheet EXCEPT !.tags = names]]
<1>0. u \in Urls /\ e = Saved(d, m, r, row, sheet.text)
  BY DEF CardSavedIn
<1>1. v.tags = d.tags /\ v.creators = d.creators /\ v2.tags = e.tags /\ v2.creators = e.creators
  BY DEF VaultOf
<1>2. e.tags = tags /\ e.creators = [d.creators EXCEPT ![m.creator] = m.nick]
  BY <1>0, <1>1 DEF Saved, Named, R!UpsertTags
<1>3. /\ v.rows = [w \in Urls |-> v.rows[w]] /\ v.fts = [w \in Urls |-> v.fts[w]]
      /\ v.sheets = [w \in Urls |-> v.sheets[w]]
  BY VaultFields
<1>4. /\ v2.rows = [w \in Urls |-> v2.rows[w]] /\ v2.fts = [w \in Urls |-> v2.fts[w]]
      /\ v2.sheets = [w \in Urls |-> v2.sheets[w]]
  BY VaultFields
<1>5. ASSUME NEW w \in Urls, w # u
      PROVE  v2.rows[w] = v.rows[w] /\ v2.fts[w] = v.fts[w] /\ v2.sheets[w] = v.sheets[w]
  <2>1. v2.rows[w] = v.rows[w]
    BY <1>5, CardsBeside
  <2>2. v2.fts[w] = v.fts[w]
    BY <1>5, CardsBeside
  <2>3. v2.sheets[w] = v.sheets[w]
    BY <1>5, CardsBeside
  <2>4. QED
    BY <2>1, <2>2, <2>3
<1>6. /\ v.fts[u] = TextsIn(d, r) /\ v.sheets[u] = s[r]
      /\ (v.rows[u] # None /\ v.rows[u].mark) = row.favorite
  BY CardBefore DEF CardSavedIn
<1>7. /\ v2.rows[u] = NewRow(m, row.favorite)
      /\ v2.fts[u] = TextsIn(d, r) \cup {sheet.text}
      /\ v2.sheets[u] = WithVersion(s[r], m.update, NewSheet(sheet, m, e.tags))
  <2>1. v2.rows[u] = NewRow(m, row.favorite)
    BY CardAfter
  <2>2. v2.fts[u] = TextsIn(d, r) \cup {sheet.text}
    BY CardAfter
  <2>3. v2.sheets[u] = WithVersion(s[r], m.update, NewSheet(sheet, m, e.tags))
    BY CardAfter
  <2>4. QED
    BY <2>1, <2>2, <2>3
<1>8. v2.rows = rows
  <2> DEFINE new == R!RowAfter(v, u, m, v.rows[u] # None /\ v.rows[u].mark, "SUCCESS")
  <2>1. v2.rows[u] = new
    BY <1>6, <1>7 DEF R!RowAfter, NewRow
  <2>2. rows = [v.rows EXCEPT ![u] = new]
    OBVIOUS
  <2> HIDE DEF new, rows
  <2>3. v2.rows = [v.rows EXCEPT ![u] = new]
    BY <1>0, <1>3, <1>4, <1>5, <2>1, OneEntry
  <2>4. QED
    BY <2>2, <2>3
<1>9. v2.fts = fts
  <2> DEFINE new == v.fts[u] \cup {sheet.text}
  <2>1. v2.fts[u] = new
    BY <1>6, <1>7
  <2>2. fts = [v.fts EXCEPT ![u] = new]
    OBVIOUS
  <2> HIDE DEF new, fts
  <2>3. v2.fts = [v.fts EXCEPT ![u] = new]
    BY <1>0, <1>3, <1>4, <1>5, <2>1, OneEntry
  <2>4. QED
    BY <2>2, <2>3
<1>10. v2.sheets = cards
  <2> DEFINE put == [sheet EXCEPT !.tags = names]
             t == m.update
  <2>1. v2.sheets[u] = [v.sheets[u] EXCEPT ![t] = put]
    BY <1>2, <1>6, <1>7 DEF NewSheet, WithVersion
  <2> DEFINE new == [v.sheets[u] EXCEPT ![t] = put]
  <2>2. cards = [v.sheets EXCEPT ![u][t] = put]
    OBVIOUS
  <2> HIDE DEF put, t, cards, names
  <2>3. cards = [v.sheets EXCEPT ![u] = new]
    BY <1>0, <1>3, <2>2
  <2>4. v2.sheets[u] = new
    BY <2>1
  <2> HIDE DEF new
  <2>5. v2.sheets = [v.sheets EXCEPT ![u] = new]
    BY <1>0, <1>3, <1>4, <1>5, <2>4, OneEntry
  <2>6. QED
    BY <2>3, <2>5
<1>11. v2 = [rows |-> v2.rows, creators |-> v2.creators, tags |-> v2.tags, fts |-> v2.fts, sheets |-> v2.sheets]
  BY DEF VaultOf
<1>12. R!SaveCard(v, u, m, sheet) =
         [rows |-> rows, creators |-> [v.creators EXCEPT ![m.creator] = m.nick], tags |-> tags, fts |-> fts,
          sheets |-> cards]
  BY DEF R!SaveCard
<1>13. QED
  <2>1. v2.creators = [v.creators EXCEPT ![m.creator] = m.nick] /\ v2.tags = tags
    BY <1>1, <1>2
  <2> HIDE DEF rows, fts, cards, tags
  <2>2. QED
    BY <1>8, <1>9, <1>10, <1>11, <1>12, <2>1


-----------------------------------------------------------------------------
(* Every step is one of RecordStore, or changes nothing there.             *)

LEMMA Stutters ==
  ASSUME UNCHANGED <<db, sheets, checking, snapshot, repair>>
  PROVE  UNCHANGED R!vars
<1>1. VaultOf(db', sheets') = VaultOf(db, sheets)
  OBVIOUS
<1>2. AbstractVault' = AbstractVault
  BY <1>1, VaultMapped
<1>3. rSnapshot' = rSnapshot /\ rRepair' = rRepair
  BY OthersMapped
<1>4. QED
  BY <1>2, <1>3 DEF R!vars, rSnapshot, rRepair

LEMMA SavedRefines ==
  ASSUME AllHeld, NEW u \in Urls, NEW m \in R!Metadata, NEW sheet \in R!Sheets, NEW r, NEW row,
         SavedFor(u, m, sheet, r, row), snapshot' = snapshot
  PROVE  AbstractVault' = R!SaveCard(AbstractVault, u, m, sheet) /\ rSnapshot' = rSnapshot
<1>1. /\ r \in Rids /\ row \in Rows /\ RowFor(db, u, m, r, row)
      /\ db' = Saved(db, m, r, row, sheet.text) /\ DbOk(db')
      /\ sheets' = [sheets EXCEPT ![r][m.update] = [sheet EXCEPT !.tags = TagNamesOf(Entity(db', r))]]
  BY DEF SavedFor
<1>2. /\ DbOk(db) /\ Counted(db) /\ Known(db) /\ SheetsTyped(sheets) /\ Held(db, sheets)
      /\ ReadOnce(db, snapshot)
  BY DEF AllHeld, InOrder
<1>3. CardSavedIn(db, sheets, u, m, sheet, r, row, db', sheets')
  BY <1>1, <1>2 DEF CardSavedIn
<1>4. AbstractVault' = R!SaveCard(AbstractVault, u, m, sheet)
  BY <1>3, SaveMaps, VaultMapped
<1>5. Records(db') = Records(db) \cup {r}
  BY <1>1, <1>2, SavedMore
<1>6. OfRecords(db', snapshot) = OfRecords(db, snapshot)
  <2>1. r \in Records(db) \/ r = db.seq + 1
    BY <1>1 DEF RowFor
  <2>2. \A e \in snapshot : e.id \in Int /\ e.id <= db.seq
    BY <1>2 DEF ReadOnce, Rids
  <2>3. db.seq \in Int
    BY <1>2 DEF DbOk, DbTypes
  <2>4. \A e \in snapshot : e.id \in Records(db') <=> e.id \in Records(db)
    BY <1>5, <2>1, <2>2, <2>3
  <2>5. QED
    BY <2>4 DEF OfRecords
<1>7. QED
  BY <1>4, <1>6, OthersMapped

LEMMA SaveRefines == ASSUME AllHeld, NEW u \in Urls, Save(u) PROVE R!Save(u) \/ UNCHANGED R!vars
<1>1. PICK f \in Fetched[u], time \in ImportTimes, failing \in Failing(u) :
        SaveCard(f.key, f.metadata, f.sheet, time, failing)
  BY DEF Save
<1>2. f.key \in Keys /\ f.key.normalized_url = u /\ f.metadata \in R!Metadata /\ f.sheet \in R!Sheets
  BY FetchedIsWhatMayBeSaved DEF Keys
<1>3. time \in 0 .. MaxTime
  BY ImportTimesAreTimes
<1>4. \/ db' = db /\ sheets' = sheets
      \/ \E r, row : SavedFor(u, f.metadata, f.sheet, r, row)
  BY <1>1, <1>2, <1>3, SaveEffect DEF AllHeld
<1>5. UNCHANGED <<checking, snapshot, repair>>
  BY DEF Save
<1>6. CASE db' = db /\ sheets' = sheets
  BY <1>5, <1>6, Stutters
<1>7. CASE \E r, row : SavedFor(u, f.metadata, f.sheet, r, row)
  <2>1. AbstractVault' = R!SaveCard(AbstractVault, u, f.metadata, f.sheet) /\ rSnapshot' = rSnapshot
    BY <1>2, <1>5, <1>7, SavedRefines
  <2>2. rRepair' = rRepair
    BY <1>5, OthersMapped
  <2>3. QED
    BY <1>5, <2>1, <2>2 DEF R!Save, rSnapshot, rRepair
<1>8. QED
  BY <1>4, <1>6, <1>7

LEMMA RepairRefines == ASSUME AllHeld, Repair PROVE R!Repair
<1>1. PICK failing \in Failing(repair.key.normalized_url) :
        SaveCard(repair.key, repair.metadata, repair.sheet, repair.metadata.update, failing)
  BY DEF Repair
<1>2. repair.key \in Keys /\ repair.metadata \in R!Metadata /\ repair.sheet \in R!Sheets
  BY DEF Repair, AllHeld, InOrder, Decided
<1>3. repair.metadata.update \in 0 .. MaxTime
  <2>1. repair.metadata.update \in 1 .. MaxTime
    BY <1>2, MetadataTypes
  <2>2. QED
    BY <2>1, BoundsAreNats
<1> DEFINE u == repair.key.normalized_url
<1>4. u \in Urls
  BY <1>2 DEF Keys
<1>5. \/ db' = db /\ sheets' = sheets
      \/ \E r, row : SavedFor(u, repair.metadata, repair.sheet, r, row)
  BY <1>1, <1>2, <1>3, SaveEffect DEF AllHeld
<1>6. repair # None /\ repair' = None /\ UNCHANGED <<checking, snapshot>>
  BY DEF Repair
<1>7. /\ rRepair = [url |-> u, record |-> repair.metadata, sheet |-> repair.sheet] /\ rRepair # None
      /\ rRepair' = None
  BY <1>2, <1>4, <1>6, NoneIsNoData, OthersMapped DEF RepairIn
<1>8. \/ AbstractVault' = R!SaveCard(AbstractVault, rRepair.url, rRepair.record, rRepair.sheet)
      \/ UNCHANGED AbstractVault
  <2>1. CASE db' = db /\ sheets' = sheets
    BY <2>1, VaultMapped
  <2>2. CASE \E r, row : SavedFor(u, repair.metadata, repair.sheet, r, row)
    <3>1. AbstractVault' = R!SaveCard(AbstractVault, u, repair.metadata, repair.sheet)
      BY <1>2, <1>4, <1>6, <2>2, SavedRefines
    <3>2. QED
      BY <1>7, <3>1
  <2>3. QED
    BY <1>5, <2>1, <2>2
<1>9. rSnapshot' = rSnapshot
  <2>1. CASE db' = db /\ sheets' = sheets
    BY <1>6, <2>1, OthersMapped
  <2>2. CASE \E r, row : SavedFor(u, repair.metadata, repair.sheet, r, row)
    BY <1>2, <1>4, <1>6, <2>2, SavedRefines
  <2>3. QED
    BY <1>5, <2>1, <2>2
<1> HIDE DEF u
<1>10. QED
  BY <1>6, <1>7, <1>8, <1>9 DEF R!Repair, rSnapshot, rRepair


\* What is read without one entity.
LEMMA ReadWithout ==
  ASSUME NEW d, DbOk(d), NEW entities, ReadOnce(d, entities), NEW e \in OfRecords(d, entities),
         NEW u, u = e.columns.normalized_url, NEW read, read = OfRecords(d, entities)
  PROVE  ReadIn(read \ {e}) = [w \in UrlsOf(read) \ {u} |-> ReadIn(read)[w]]
<1>1. \A x \in read : x.columns.normalized_url = u => x = e
  BY ReadIs
<1>2. UrlsOf(read \ {e}) = UrlsOf(read) \ {u}
  BY <1>1 DEF UrlsOf
<1>3. ASSUME NEW w \in UrlsOf(read) \ {u}
      PROVE  (CHOOSE x \in read \ {e} : x.columns.normalized_url = w) = (CHOOSE x \in read : x.columns.normalized_url = w)
  <2>1. PICK x \in read : x.columns.normalized_url = w
    BY DEF UrlsOf
  <2>2. \A y \in read : y.columns.normalized_url = w => y = x
    BY <2>1, ReadIs
  <2>3. x \in read \ {e} /\ x # e
    BY <2>1
  <2>4. (CHOOSE y \in read : y.columns.normalized_url = w) = x
    BY <2>1, <2>2
  <2>5. (CHOOSE y \in read \ {e} : y.columns.normalized_url = w) = x
    BY <2>1, <2>2, <2>3
  <2>6. QED
    BY <2>4, <2>5
<1>4. ASSUME NEW w \in UrlsOf(read) \ {u} PROVE ReadIn(read \ {e})[w] = ReadIn(read)[w]
  <2>1. ReadIn(read)[w] = MetadataOf(CHOOSE x \in read : x.columns.normalized_url = w)
    BY DEF ReadIn
  <2>2. ReadIn(read \ {e})[w] = MetadataOf(CHOOSE x \in read \ {e} : x.columns.normalized_url = w)
    BY <1>2 DEF ReadIn
  <2>3. QED
    BY <1>3, <2>1, <2>2
<1>5. ReadIn(read \ {e}) = [w \in UrlsOf(read \ {e}) |-> ReadIn(read \ {e})[w]]
  BY DEF ReadIn
<1>6. QED
  BY <1>2, <1>4, <1>5

LEMMA DeleteRefines ==
  ASSUME AllHeld, NEW r \in Rids, Delete(r), AllHeld'
  PROVE  \E w \in Urls : R!Delete(w)
<1> DEFINE v == AbstractVault
           v2 == AbstractVault'
<1>1. /\ DbOk(db) /\ Counted(db) /\ Known(db) /\ SheetsTyped(sheets) /\ ReadOnce(db, snapshot) /\ DbOk(db')
  BY DEF AllHeld, InOrder
<1>2. r \in Records(db) /\ UNCHANGED <<checking, snapshot, repair>>
  BY DEF Delete
<1>3. db' = DeleteRecords(db, {r})
  <2>1. IDIn(db, {r}) \cap Records(db) = {r}
    BY <1>2 DEF IDIn
  <2>2. QED
    BY <2>1 DEF Delete, DeleteWhere
<1>4. Records(db') = Records(db) \ {r} /\ \A x \in Records(db') : db'.records[x] = db.records[x]
  BY <1>1, <1>3, RecordsDeleted
<1>url. PICK u \in Urls : u = db.records[r].normalized_url
  BY <1>1, <1>2, CardInTables
<1>5. \A x \in Records(db) : db.records[x].normalized_url = u => x = r
  BY <1>1, <1>2, <1>url, UrlHasOneRow
<1>6. ASSUME NEW w \in Urls, w # u
      PROVE  v2.rows[w] = v.rows[w] /\ v2.fts[w] = v.fts[w] /\ v2.sheets[w] = v.sheets[w]
  <2>1. \A x : x \in Records(db) /\ db.records[x].normalized_url = w
                 <=> x \in Records(db') /\ db'.records[x].normalized_url = w
    BY <1>4, <1>6, <1>url
  <2>2. ASSUME NEW x \in Records(db), db.records[x].normalized_url = w
        PROVE  RowIn(db', x) = RowIn(db, x) /\ TextsIn(db', x) = TextsIn(db, x) /\ sheets'[x] = sheets[x]
    <3>1. x # r /\ x \notin {r} /\ x \in Rids /\ x \in Records(db')
      BY <1>4, <1>6, <1>url, <2>2 DEF Records
    <3>2. TextsIn(db', x) = TextsIn(db, x) /\ TagsOf(db', x) = TagsOf(db, x)
      <4>1. TextsIn(db', x) = TextsIn(db, x)
        BY <1>1, <1>3, <3>1, DeletedNames
      <4>2. NamesOf(db', x) = NamesOf(db, x)
        BY <1>1, <1>3, <3>1, DeletedNames
      <4>3. DOMAIN NamesOf(db', x) = TagsOf(db', x) /\ DOMAIN NamesOf(db, x) = TagsOf(db, x)
        BY DEF NamesOf
      <4>4. QED
        BY <4>1, <4>2, <4>3
    <3>3. sheets'[x] = sheets[x]
      BY <1>1, <3>1 DEF Delete, SheetsTyped
    <3>4. QED
      BY <1>4, <3>1, <3>2, <3>3 DEF RowIn
  <2>3. SameAt(db, sheets, db', sheets', w)
    BY <2>1, <2>2 DEF SameAt
  <2>4. QED
    BY <1>1, <2>3, CardSame, VaultMapped
<1>7. v2.rows[u] = None /\ v2.fts[u] = {} /\ v2.sheets[u] = NoSheets
  <2>1. ~HasRow(db', u)
    <3>1. SUFFICES ASSUME HasRow(db', u) PROVE FALSE
      OBVIOUS
    <3>2. PICK x \in Records(db') : db'.records[x].normalized_url = u
      BY <1>1, <3>1, RowOfUrl DEF HasRow
    <3>3. QED
      BY <1>4, <1>5, <3>2
  <2>2. QED
    BY <1>5, <2>1, NoCardInTables, VaultMapped
<1>8. v2 = R!DeleteCard(v, u)
  <2>1. v2.creators = v.creators /\ v2.tags = v.tags
    <3>1. db'.creators = db.creators /\ db'.tags = db.tags
      BY <1>1, <1>3 DEF DeleteRecords, DbOk, DbTypes
    <3>2. QED
      BY <3>1 DEF AbstractVault
  <2>2. /\ v.rows = [w \in Urls |-> v.rows[w]] /\ v.fts = [w \in Urls |-> v.fts[w]]
        /\ v.sheets = [w \in Urls |-> v.sheets[w]]
        /\ v2.rows = [w \in Urls |-> v2.rows[w]] /\ v2.fts = [w \in Urls |-> v2.fts[w]]
        /\ v2.sheets = [w \in Urls |-> v2.sheets[w]]
    BY DEF AbstractVault
  <2>3. /\ v2 = [rows |-> v2.rows, creators |-> v2.creators, tags |-> v2.tags, fts |-> v2.fts, sheets |-> v2.sheets]
        /\ v = [rows |-> v.rows, creators |-> v.creators, tags |-> v.tags, fts |-> v.fts, sheets |-> v.sheets]
    BY DEF AbstractVault
  <2> HIDE DEF v, v2
  <2>4. /\ v2.rows = [v.rows EXCEPT ![u] = None] /\ v2.fts = [v.fts EXCEPT ![u] = {}]
        /\ v2.sheets = [v.sheets EXCEPT ![u] = NoSheets]
    <3>1. v2.rows = [v.rows EXCEPT ![u] = None]
      BY <1>5, <1>6, <1>7, <2>2, OneEntry
    <3>2. v2.fts = [v.fts EXCEPT ![u] = {}]
      BY <1>5, <1>6, <1>7, <2>2, OneEntry
    <3>3. v2.sheets = [v.sheets EXCEPT ![u] = NoSheets]
      BY <1>5, <1>6, <1>7, <2>2, OneEntry
    <3>4. QED
      BY <3>1, <3>2, <3>3
  <2>5. R!DeleteCard(v, u) =
          [rows |-> [v.rows EXCEPT ![u] = None], creators |-> v.creators, tags |-> v.tags,
           fts |-> [v.fts EXCEPT ![u] = {}], sheets |-> [v.sheets EXCEPT ![u] = NoSheets]]
    <3> DEFINE none == [t \in R!Times |-> None]
    <3>1. R!DeleteCard(v, u) = [v EXCEPT !.rows[u] = None, !.fts[u] = {}, !.sheets[u] = none]
      BY DEF R!DeleteCard
    <3>2. none = NoSheets
      BY DEF NoSheets, R!Times
    <3> HIDE DEF none
    <3>3. QED
      BY <2>3, <3>1, <3>2
  <2>6. QED
    BY <2>1, <2>3, <2>4, <2>5
<1>9. rSnapshot' = [w \in DOMAIN rSnapshot \ {u} |-> rSnapshot[w]]
  <2> DEFINE read == OfRecords(db, snapshot)
  <2>1. rSnapshot = ReadIn(read) /\ rSnapshot' = ReadIn(OfRecords(db', snapshot))
    BY <1>2, OthersMapped
  <2>2. DOMAIN ReadIn(read) = UrlsOf(read) /\ ReadIn(read) = [w \in UrlsOf(read) |-> ReadIn(read)[w]]
    BY DEF ReadIn
  <2>3. OfRecords(db', snapshot) = {e \in read : e.id # r}
    BY <1>4 DEF OfRecords
  <2>4. CASE \E e \in read : e.id = r
    <3>1. PICK e \in read : e.id = r
      BY <2>4
    <3>2. e.columns.normalized_url = u /\ \A x \in read : x.id = r => x = e
      BY <1>1, <1>url, <3>1 DEF ReadOnce, OfRecords
    <3>3. OfRecords(db', snapshot) = read \ {e}
      BY <2>3, <3>1, <3>2
    <3>4. ReadIn(read \ {e}) = [w \in UrlsOf(read) \ {u} |-> ReadIn(read)[w]]
      BY <1>1, <3>1, <3>2, ReadWithout
    <3>5. QED
      BY <2>1, <2>2, <3>3, <3>4
  <2>5. CASE ~\E e \in read : e.id = r
    <3>1. OfRecords(db', snapshot) = read
      BY <2>3, <2>5
    <3>2. u \notin UrlsOf(read)
      <4>1. \A e \in read : e.id \in Records(db) /\ e.columns.normalized_url = db.records[e.id].normalized_url
        BY <1>1 DEF ReadOnce, OfRecords
      <4>2. QED
        BY <1>5, <2>5, <4>1 DEF UrlsOf
    <3> HIDE DEF read
    <3>3. UrlsOf(read) \ {u} = UrlsOf(read)
      BY <3>2
    <3>4. QED
      BY <2>1, <2>2, <3>1, <3>3
  <2>6. QED
    BY <2>4, <2>5
<1>10. u \in R!Stored(v)
  <2>1. R!Stored(VaultOf(db, sheets)) = FindURLs(db, Urls)
    BY <1>1, StoredIs
  <2>2. HasRow(db, u)
    BY <1>1, <1>2, <1>url, CardInTables
  <2>3. QED
    BY <2>1, <2>2, VaultMapped DEF HasRow
<1>11. rRepair' = rRepair
  BY <1>2, OthersMapped
<1>12. R!Delete(u)
  BY <1>2, <1>8, <1>9, <1>10, <1>11 DEF R!Delete, rSnapshot, rRepair
<1>13. QED
  BY <1>12


WithMarks(row, mark, status) ==
  [creator |-> row.creator, tags |-> row.tags, title |-> row.title, update |-> row.update, book |-> row.book,
   greetings |-> row.greetings, mark |-> mark, status |-> status]

LEMMA MarksOfRow ==
  ASSUME NEW row, row = WithMarks(row, row.mark, row.status), NEW x
  PROVE  /\ [row EXCEPT !.mark = x] = WithMarks(row, x, row.status)
         /\ [row EXCEPT !.status = x] = WithMarks(row, row.mark, x)
BY DEF WithMarks

LEMMA MarksIn ==
  ASSUME NEW d, NEW r
  PROVE  RowIn(d, r) = WithMarks(RowIn(d, r), d.records[r].favorite, d.records[r].sync_status)
BY DEF RowIn, WithMarks

LEMMA MarkIn ==
  ASSUME NEW d, NEW r, NEW x
  PROVE  [RowIn(d, r) EXCEPT !.mark = x] = WithMarks(RowIn(d, r), x, d.records[r].sync_status)
<1> DEFINE row == RowIn(d, r)
<1>1. row = WithMarks(row, row.mark, row.status)
  BY DEF RowIn, WithMarks
<1>2. row.status = d.records[r].sync_status
  BY DEF RowIn
<1> HIDE DEF row
<1>3. [row EXCEPT !.mark = x] = WithMarks(row, x, row.status)
  BY <1>1, MarksOfRow
<1>4. QED
  BY <1>2, <1>3 DEF row

\* What a change of marks is for the cards.
LEMMA MarksMap ==
  ASSUME NEW d, DbOk(d), NEW e, Changed(d, e), NEW s
  PROVE  /\ VaultOf(e, s) = [VaultOf(d, s) EXCEPT !.rows = VaultOf(e, s).rows]
         /\ \A w \in Urls : ~HasRow(d, w) => ~HasRow(e, w)
         /\ \A r \in Records(d) : VaultOf(e, s).rows[d.records[r].normalized_url] =
              WithMarks(RowIn(d, r), e.records[r].favorite, e.records[r].sync_status)
<1>1. DbOk(e) /\ Records(e) = Records(d)
  BY RowsChanged
<1>2. /\ e.creators = d.creators /\ e.tags = d.tags /\ e.record_tags = d.record_tags /\ e.fts = d.fts
      /\ \A r \in Records(d) : Kin(e.records[r], d.records[r])
  <2> DEFINE records == e.records
  <2>1. e = [d EXCEPT !.records = records]
    BY DEF Changed
  <2>2. \A r \in Records(d) : Kin(e.records[r], d.records[r])
    BY DEF Changed
  <2> HIDE DEF records
  <2>3. e.creators = d.creators /\ e.tags = d.tags /\ e.record_tags = d.record_tags /\ e.fts = d.fts
    BY <2>1 DEF DbOk, DbTypes
  <2>4. QED
    BY <2>2, <2>3
<1>3. \A r \in Records(d) : e.records[r].normalized_url = d.records[r].normalized_url
  BY <1>2 DEF Kin
<1>4. ASSUME NEW w \in Urls PROVE (HasRow(e, w) <=> HasRow(d, w)) /\ (HasRow(d, w) => Rid(e, w) = Rid(d, w))
  <2>1. HasRow(d, w) => HasRow(e, w) /\ Rid(e, w) = Rid(d, w)
    <3>1. SUFFICES ASSUME HasRow(d, w) PROVE HasRow(e, w) /\ Rid(e, w) = Rid(d, w)
      OBVIOUS
    <3>2. Rid(d, w) \in Records(d) /\ d.records[Rid(d, w)].normalized_url = w
      BY <3>1, RowOfUrl DEF HasRow
    <3>3. Rid(d, w) \in Records(e) /\ e.records[Rid(d, w)].normalized_url = w
      BY <1>1, <1>3, <3>2
    <3>4. QED
      BY <1>1, <3>3, CardInTables
  <2>2. HasRow(e, w) => HasRow(d, w)
    <3>1. SUFFICES ASSUME HasRow(e, w) PROVE HasRow(d, w)
      OBVIOUS
    <3>2. Rid(e, w) \in Records(e) /\ e.records[Rid(e, w)].normalized_url = w
      BY <1>1, <3>1, RowOfUrl DEF HasRow
    <3>3. Rid(e, w) \in Records(d) /\ d.records[Rid(e, w)].normalized_url = w
      BY <1>1, <1>3, <3>2
    <3>4. QED
      BY <3>3, CardInTables
  <2>3. QED
    BY <2>1, <2>2
<1>5. \A r : TextsIn(e, r) = TextsIn(d, r) /\ TagsOf(e, r) = TagsOf(d, r)
  BY <1>2 DEF TextsIn, TagsOf
<1>6. /\ VaultOf(e, s).fts = VaultOf(d, s).fts /\ VaultOf(e, s).sheets = VaultOf(d, s).sheets
      /\ VaultOf(e, s).creators = VaultOf(d, s).creators /\ VaultOf(e, s).tags = VaultOf(d, s).tags
  BY <1>2, <1>4, <1>5 DEF VaultOf
<1>7. VaultOf(e, s) = [VaultOf(d, s) EXCEPT !.rows = VaultOf(e, s).rows]
  <2> DEFINE rows == VaultOf(e, s).rows
  <2>1. VaultOf(e, s) = [rows |-> rows, creators |-> VaultOf(e, s).creators, tags |-> VaultOf(e, s).tags,
                         fts |-> VaultOf(e, s).fts, sheets |-> VaultOf(e, s).sheets]
    BY DEF VaultOf
  <2>2. VaultOf(d, s) = [rows |-> VaultOf(d, s).rows, creators |-> VaultOf(d, s).creators, tags |-> VaultOf(d, s).tags,
                         fts |-> VaultOf(d, s).fts, sheets |-> VaultOf(d, s).sheets]
    BY DEF VaultOf
  <2> HIDE DEF rows
  <2>3. QED
    BY <1>6, <2>1, <2>2 DEF rows
<1>8. ASSUME NEW r \in Records(d)
      PROVE  VaultOf(e, s).rows[d.records[r].normalized_url] =
              WithMarks(RowIn(d, r), e.records[r].favorite, e.records[r].sync_status)
  <2>1. r \in Records(e) /\ d.records[r].normalized_url = e.records[r].normalized_url
    BY <1>1, <1>3
  <2>2. VaultOf(e, s).rows[d.records[r].normalized_url] = RowIn(e, r)
    BY <1>1, <2>1, CardRow
  <2>3. Kin(e.records[r], d.records[r]) /\ TagsOf(e, r) = TagsOf(d, r)
    BY <1>2, <1>5
  <2>4. QED
    BY <2>2, <2>3 DEF RowIn, Kin, WithMarks
<1>9. QED
  BY <1>4, <1>7, <1>8

LEMMA MarksRest ==
  ASSUME NEW d, DbOk(d), NEW e, Changed(d, e), NEW s
  PROVE  VaultOf(e, s) = [VaultOf(d, s) EXCEPT !.rows = VaultOf(e, s).rows]
BY MarksMap

LEMMA MarksRow ==
  ASSUME NEW d, DbOk(d), NEW e, Changed(d, e), NEW s, NEW r \in Records(d), NEW u, u = d.records[r].normalized_url
  PROVE  VaultOf(e, s).rows[u] = WithMarks(RowIn(d, r), e.records[r].favorite, e.records[r].sync_status)
BY MarksMap

\* Marks leave what a check has read.
LEMMA ReadStays ==
  ASSUME NEW d, DbOk(d), NEW e, Changed(d, e), NEW entities
  PROVE  OfRecords(e, entities) = OfRecords(d, entities)
BY RowsChanged DEF OfRecords

\* Favorites of the rows rids.
LEMMA MarkRefines ==
  ASSUME AllHeld, Changed(db, db'), UNCHANGED <<sheets, checking, snapshot, repair>>,
         NEW rids, NEW mark \in BOOLEAN,
         \A r \in Records(db) : /\ r \in rids => (db'.records[r].favorite <=> mark)
                                /\ r \notin rids => (db'.records[r].favorite <=> db.records[r].favorite)
                                /\ db'.records[r].sync_status = db.records[r].sync_status
  PROVE  \E us \in SUBSET R!Stored(AbstractVault) : R!Mark(us, mark)
<1> DEFINE v == AbstractVault
           v2 == AbstractVault'
<1>1. DbOk(db) /\ Counted(db) /\ Known(db) /\ DbOk(db') /\ Records(db') = Records(db)
  BY RowsChanged DEF AllHeld, InOrder
<1>2. R!Stored(v) = FindURLs(db, Urls)
  BY <1>1, StoredIs, VaultMapped
<1>3. PICK us \in SUBSET Urls : us = {db.records[r].normalized_url : r \in Records(db) \cap rids}
  BY <1>1, CardInTables
<1>4. us \in SUBSET R!Stored(v)
  BY <1>1, <1>2, <1>3, CardInTables DEF HasRow
<1>5. \A r \in Records(db) : db.records[r].normalized_url \in us <=> r \in rids
  BY <1>1, <1>3, UrlHasOneRow
<1>6. \A r \in Records(db) : /\ db'.records[r].favorite = IF r \in rids THEN mark ELSE db.records[r].favorite
                             /\ db'.records[r].sync_status = db.records[r].sync_status
  <2>1. \A r \in Records(db) : db'.records[r] \in Rows /\ db.records[r] \in Rows
    BY <1>1, StoredRows DEF DbOk
  <2>2. \A r \in Records(db) : db'.records[r].favorite \in BOOLEAN /\ db.records[r].favorite \in BOOLEAN
    BY <2>1, RowColumns
  <2>3. QED
    BY <2>2
<1>7. v2 = [v EXCEPT !.rows = v2.rows]
  BY <1>1, MarksRest, VaultMapped
<1>8. ASSUME NEW u \in Urls PROVE v2.rows[u] = IF u \in us THEN [v.rows[u] EXCEPT !.mark = mark] ELSE v.rows[u]
  <2>1. CASE HasRow(db, u)
    <3>1. PICK r \in Records(db) : db.records[r].normalized_url = u
      BY <1>1, <2>1, RowOfUrl DEF HasRow
    <3>2. v.rows[u] = RowIn(db, r)
      BY <1>1, <3>1, CardRow, VaultMapped
    <3>3. v2.rows[u] = WithMarks(RowIn(db, r), db'.records[r].favorite, db'.records[r].sync_status)
      BY <1>1, <3>1, MarksRow, VaultMapped
    <3>4. v2.rows[u] = WithMarks(RowIn(db, r), IF r \in rids THEN mark ELSE db.records[r].favorite,
                                 db.records[r].sync_status)
      BY <1>6, <3>3
    <3>5. /\ RowIn(db, r) = WithMarks(RowIn(db, r), db.records[r].favorite, db.records[r].sync_status)
          /\ [RowIn(db, r) EXCEPT !.mark = mark] = WithMarks(RowIn(db, r), mark, db.records[r].sync_status)
      <4>1. ASSUME NEW x
            PROVE  [RowIn(db, r) EXCEPT !.mark = x] = WithMarks(RowIn(db, r), x, db.records[r].sync_status)
        BY MarkIn
      <4>2. RowIn(db, r) = WithMarks(RowIn(db, r), db.records[r].favorite, db.records[r].sync_status)
        BY MarksIn
      <4>3. [RowIn(db, r) EXCEPT !.mark = mark] = WithMarks(RowIn(db, r), mark, db.records[r].sync_status)
        BY <4>1, Zenon
      <4>4. QED
        BY <4>2, <4>3
    <3>6. u \in us <=> r \in rids
      BY <1>5, <3>1
    <3>7. QED
      BY <3>2, <3>4, <3>5, <3>6
  <2>2. CASE ~HasRow(db, u)
    <3>1. ~HasRow(db', u)
      BY <1>1, <2>2, MarksMap
    <3>2. v.rows[u] = None /\ v2.rows[u] = None
      BY <2>2, <3>1, NoCardInTables, VaultMapped
    <3>3. u \notin us
      BY <1>2, <1>4, <2>2 DEF HasRow
    <3>4. QED
      BY <3>2, <3>3
  <2>3. QED
    BY <2>1, <2>2
<1>9. v2 = [v EXCEPT !.rows = [u \in Urls |-> IF u \in us THEN [v.rows[u] EXCEPT !.mark = mark] ELSE v.rows[u]]]
  <2> DEFINE rows == [u \in Urls |-> IF u \in us THEN [v.rows[u] EXCEPT !.mark = mark] ELSE v.rows[u]]
  <2>1. v2.rows = rows
    <3>1. v2.rows = [u \in Urls |-> v2.rows[u]]
      BY DEF AbstractVault
    <3>2. QED
      BY <1>8, <3>1
  <2> HIDE DEF rows
  <2>2. QED
    BY <1>7, <2>1 DEF rows
<1>10. rSnapshot' = rSnapshot /\ rRepair' = rRepair
  BY <1>1, ReadStays, OthersMapped
<1>11. R!Mark(us, mark)
  <2> DEFINE rows == [u \in Urls |-> IF u \in us THEN [v.rows[u] EXCEPT !.mark = mark] ELSE v.rows[u]]
  <2>1. [v EXCEPT !.rows = [u \in Urls |-> IF u \in us THEN [@[u] EXCEPT !.mark = mark] ELSE @[u]]]
          = [v EXCEPT !.rows = rows]
    OBVIOUS
  <2>2. QED
    BY <1>9, <1>10, <2>1 DEF R!Mark, rSnapshot, rRepair
<1>12. QED
  BY <1>4, <1>11


\* A row that keeps its marks.
LEMMA MarksKeep ==
  ASSUME AllHeld, Changed(db, db'), UNCHANGED sheets, NEW w \in Urls,
         \A r \in Records(db) : db.records[r].normalized_url = w =>
           /\ db'.records[r].favorite <=> db.records[r].favorite
           /\ db'.records[r].sync_status = db.records[r].sync_status
  PROVE  AbstractVault'.rows[w] = AbstractVault.rows[w]
<1>1. DbOk(db) /\ DbOk(db') /\ Records(db') = Records(db)
  BY RowsChanged DEF AllHeld, InOrder
<1>2. CASE HasRow(db, w)
  <2>1. PICK r \in Records(db) : db.records[r].normalized_url = w
    BY <1>1, <1>2, RowOfUrl DEF HasRow
  <2>2. db'.records[r] \in Rows /\ db.records[r] \in Rows
    BY <1>1, StoredRows DEF DbOk
  <2>3. db'.records[r].favorite \in BOOLEAN /\ db.records[r].favorite \in BOOLEAN
    BY <2>2, RowColumns
  <2>4. db'.records[r].favorite = db.records[r].favorite
    BY <2>1, <2>3
  <2>5. AbstractVault.rows[w] = RowIn(db, r)
    BY <1>1, <2>1, CardRow, VaultMapped
  <2>6. AbstractVault'.rows[w] = WithMarks(RowIn(db, r), db'.records[r].favorite, db'.records[r].sync_status)
    BY <1>1, <2>1, MarksRow, VaultMapped
  <2>7. AbstractVault'.rows[w] = WithMarks(RowIn(db, r), db.records[r].favorite, db.records[r].sync_status)
    BY <2>1, <2>4, <2>6
  <2>8. QED
    BY <2>5, <2>7, MarksIn
<1>3. CASE ~HasRow(db, w)
  <2>1. ~HasRow(db', w)
    BY <1>1, <1>3, MarksMap
  <2>2. AbstractVault.rows[w] = None /\ AbstractVault'.rows[w] = None
    BY <1>3, <2>1, NoCardInTables, VaultMapped
  <2>3. QED
    BY <2>2
<1>4. QED
  BY <1>2, <1>3

LEMMA ExportRefines == ASSUME AllHeld, NEW r \in Rids, UpdateExportData(r) PROVE UNCHANGED R!vars
<1>1. /\ r \in Records(db) /\ Changed(db, db') /\ SameMarks(db, db', r)
      /\ db'.records[r].favorite <=> db.records[r].favorite
      /\ db'.records[r].sync_status = db.records[r].sync_status
  BY ExportEffect DEF AllHeld
<1>2. UNCHANGED <<sheets, checking, snapshot, repair>>
  BY DEF UpdateExportData, Update
<1>3. \A x \in Records(db) : /\ db'.records[x].favorite <=> db.records[x].favorite
                             /\ db'.records[x].sync_status = db.records[x].sync_status
  BY <1>1 DEF SameMarks
<1>4. \A w \in Urls : AbstractVault'.rows[w] = AbstractVault.rows[w]
  BY <1>1, <1>2, <1>3, MarksKeep
<1>5. DbOk(db)
  BY DEF AllHeld, InOrder
<1>6. AbstractVault' = [AbstractVault EXCEPT !.rows = AbstractVault'.rows]
  BY <1>1, <1>2, <1>5, MarksRest, VaultMapped
<1>7. AbstractVault'.rows = AbstractVault.rows
  <2>1. /\ AbstractVault.rows = [w \in Urls |-> AbstractVault.rows[w]]
        /\ AbstractVault'.rows = [w \in Urls |-> AbstractVault'.rows[w]]
    BY DEF AbstractVault
  <2>2. QED
    BY <1>4, <2>1
<1>8. AbstractVault' = AbstractVault
  <2>1. AbstractVault = [AbstractVault EXCEPT !.rows = AbstractVault.rows]
    BY DEF AbstractVault
  <2>2. QED
    BY <1>6, <1>7, <2>1
<1>9. rSnapshot' = rSnapshot /\ rRepair' = rRepair
  BY <1>1, <1>2, <1>5, ReadStays, OthersMapped
<1>10. QED
  BY <1>2, <1>8, <1>9 DEF R!vars, rSnapshot, rRepair

LEMMA SyncRefines ==
  ASSUME AllHeld, NEW r \in Rids, NEW status \in R!Statuses, UpdateSyncData(r, status)
  PROVE  (\E w \in Urls : R!UpdateSyncData(w)) \/ UNCHANGED R!vars
<1> DEFINE v == AbstractVault
           v2 == AbstractVault'
<1>1. UNCHANGED <<sheets, checking, snapshot, repair>>
  BY DEF UpdateSyncData, Update
<1>2. CASE r \notin Records(db) /\ db' = db
  BY <1>1, <1>2, Stutters
<1>3. CASE /\ r \in Records(db) /\ Changed(db, db') /\ SameMarks(db, db', r)
           /\ db'.records[r].favorite <=> db.records[r].favorite
           /\ db'.records[r].sync_status = status
  <2>1. DbOk(db) /\ Counted(db) /\ Known(db) /\ DbOk(db')
    BY <1>3, RowsChanged DEF AllHeld, InOrder
  <2>2. PICK u \in Urls : u = db.records[r].normalized_url
    BY <1>3, <2>1, CardInTables
  <2>3. u \in R!Stored(v)
    <3>1. R!Stored(v) = FindURLs(db, Urls)
      BY <2>1, StoredIs, VaultMapped
    <3>2. HasRow(db, u)
      BY <1>3, <2>1, <2>2, CardInTables
    <3>3. QED
      BY <3>1, <3>2 DEF HasRow
  <2>4. ASSUME NEW w \in Urls, w # u PROVE v2.rows[w] = v.rows[w]
    <3>1. \A x \in Records(db) : db.records[x].normalized_url = w =>
            /\ db'.records[x].favorite <=> db.records[x].favorite
            /\ db'.records[x].sync_status = db.records[x].sync_status
      BY <1>3, <2>2, <2>4 DEF SameMarks
    <3>2. QED
      BY <1>1, <1>3, <3>1, MarksKeep
  <2>5. v2.rows[u] = [v.rows[u] EXCEPT !.status = status]
    <3>1. db'.records[r] \in Rows /\ db.records[r] \in Rows
      BY <1>3, <2>1, StoredRows, RowsChanged DEF DbOk
    <3>2. db'.records[r].favorite \in BOOLEAN /\ db.records[r].favorite \in BOOLEAN
      BY <3>1, RowColumns
    <3>3. db'.records[r].favorite = db.records[r].favorite
      BY <1>3, <3>2
    <3>4. v.rows[u] = RowIn(db, r)
      BY <1>3, <2>1, <2>2, CardRow, VaultMapped
    <3>5. v2.rows[u] = WithMarks(RowIn(db, r), db'.records[r].favorite, db'.records[r].sync_status)
      BY <1>1, <1>3, <2>1, <2>2, MarksRow, VaultMapped
    <3>6. v2.rows[u] = WithMarks(RowIn(db, r), db.records[r].favorite, status)
      BY <1>3, <3>3, <3>5
    <3>7. [RowIn(db, r) EXCEPT !.status = status] = WithMarks(RowIn(db, r), db.records[r].favorite, status)
      <4> DEFINE row == RowIn(db, r)
      <4>1. row = WithMarks(row, row.mark, row.status)
        BY DEF RowIn, WithMarks
      <4>2. row.mark = db.records[r].favorite
        BY DEF RowIn
      <4> HIDE DEF row
      <4>3. [row EXCEPT !.status = status] = WithMarks(row, row.mark, status)
        BY <4>1, MarksOfRow
      <4>4. QED
        BY <4>2, <4>3 DEF row
    <3>8. QED
      BY <3>4, <3>6, <3>7
  <2>6. v2 = [v EXCEPT !.rows = v2.rows]
    BY <1>1, <1>3, <2>1, MarksRest, VaultMapped
  <2>7. v2.rows = [v.rows EXCEPT ![u] = [v.rows[u] EXCEPT !.status = status]]
    <3> DEFINE new == [v.rows[u] EXCEPT !.status = status]
    <3>1. v.rows = [w \in Urls |-> v.rows[w]] /\ v2.rows = [w \in Urls |-> v2.rows[w]]
      BY DEF AbstractVault
    <3> HIDE DEF new, v, v2
    <3>2. v2.rows = [v.rows EXCEPT ![u] = new]
      BY <2>4, <2>5, <3>1, OneEntry DEF new
    <3>3. QED
      BY <3>2 DEF new
  <2>8. v2 = [v EXCEPT !.rows[u].status = status]
    <3> DEFINE rows == [v.rows EXCEPT ![u] = [v.rows[u] EXCEPT !.status = status]]
    <3> HIDE DEF v, v2
    <3>1. [v EXCEPT !.rows[u].status = status] = [v EXCEPT !.rows = rows]
      OBVIOUS
    <3>2. QED
      BY <2>6, <2>7, <3>1
  <2>9. rSnapshot' = rSnapshot /\ rRepair' = rRepair
    BY <1>1, <1>3, <2>1, ReadStays, OthersMapped
  <2>10. R!UpdateSyncData(u)
    BY <1>1, <2>3, <2>8, <2>9 DEF R!UpdateSyncData, rSnapshot, rRepair
  <2>11. QED
    BY <2>10
<1>4. QED
  BY <1>2, <1>3, SyncEffect DEF AllHeld

LEMMA FavoriteRefines ==
  ASSUME AllHeld
  PROVE  /\ \A r \in Rids : ToggleFavorite(r) =>
              (\E us \in SUBSET R!Stored(AbstractVault), mark \in BOOLEAN : R!Mark(us, mark)) \/ UNCHANGED R!vars
         /\ \A rids \in SUBSET Rids, favorite \in BOOLEAN : UpdateFavoriteData(rids, favorite) =>
              \E us \in SUBSET R!Stored(AbstractVault), mark \in BOOLEAN : R!Mark(us, mark)
<1>1. ASSUME NEW r \in Rids, ToggleFavorite(r)
      PROVE  (\E us \in SUBSET R!Stored(AbstractVault), mark \in BOOLEAN : R!Mark(us, mark)) \/ UNCHANGED R!vars
  <2>1. UNCHANGED <<sheets, checking, snapshot, repair>>
    BY <1>1 DEF ToggleFavorite, Update
  <2>2. CASE r \notin Records(db) /\ db' = db
    BY <2>1, <2>2, Stutters
  <2>3. CASE /\ r \in Records(db) /\ Changed(db, db') /\ SameMarks(db, db', r)
             /\ db'.records[r].favorite <=> ~db.records[r].favorite
             /\ db'.records[r].sync_status = db.records[r].sync_status
    <3>1. PICK mark \in BOOLEAN : mark <=> ~db.records[r].favorite
      OBVIOUS
    <3>2. \A x \in Records(db) : /\ x \in {r} => (db'.records[x].favorite <=> mark)
                                 /\ x \notin {r} => (db'.records[x].favorite <=> db.records[x].favorite)
                                 /\ db'.records[x].sync_status = db.records[x].sync_status
      BY <2>3, <3>1 DEF SameMarks
    <3>3. \E us \in SUBSET R!Stored(AbstractVault) : R!Mark(us, mark)
      BY <2>1, <2>3, <3>2, MarkRefines
    <3>4. QED
      BY <3>3
  <2>4. QED
    BY <1>1, <2>2, <2>3, ToggleEffect DEF AllHeld
<1>2. ASSUME NEW rids \in SUBSET Rids, NEW favorite \in BOOLEAN, UpdateFavoriteData(rids, favorite)
      PROVE  \E us \in SUBSET R!Stored(AbstractVault), mark \in BOOLEAN : R!Mark(us, mark)
  <2>1. UNCHANGED <<sheets, checking, snapshot, repair>>
    BY <1>2 DEF UpdateFavoriteData, Update
  <2>2. Changed(db, db')
    BY <1>2, FavoritesEffect DEF AllHeld
  <2>3. \A r \in Records(db) : /\ r \in rids => (db'.records[r].favorite <=> favorite)
                               /\ r \notin rids => (db'.records[r].favorite <=> db.records[r].favorite)
                               /\ db'.records[r].sync_status = db.records[r].sync_status
    BY <1>2, FavoritesEffect DEF AllHeld
  <2>4. \E us \in SUBSET R!Stored(AbstractVault) : R!Mark(us, favorite)
    BY <2>1, <2>2, <2>3, MarkRefines
  <2>5. QED
    BY <2>4
<1>3. QED
  BY <1>1, <1>2


LEMMA CheckStartRefines == ASSUME AllHeld, CheckStart PROVE R!CheckStart
<1>1. ~checking /\ checking' = TRUE /\ UNCHANGED <<db, sheets, repair>>
  BY DEF CheckStart
<1>2. DbOk(db) /\ Counted(db) /\ Known(db)
  BY DEF AllHeld, InOrder
<1>3. snapshot' = {Entity(db, r) : r \in Records(db)}
  <2>1. Records(db) \cap Rids = Records(db)
    BY DEF Records
  <2>2. QED
    BY <2>1, FoundIs DEF CheckStart
<1>4. \A r \in Records(db) : (Entity(db, r)).id = r /\ (Entity(db, r)).columns = db.records[r]
  BY <1>2, EntityIs
<1> DEFINE read == snapshot'
<1>5. OfRecords(db, read) = read /\ ReadOnce(db, read)
  <2>1. ReadOnce(db, read)
    <3>1. \A r \in Records(db) : r \in Rids /\ r <= db.seq
      BY <1>2 DEF DbOk, Refs, Records
    <3>2. QED
      BY <1>3, <1>4, <3>1 DEF ReadOnce
  <2>2. OfRecords(db, read) = read
    BY <1>3, <1>4 DEF OfRecords
  <2>3. QED
    BY <2>1, <2>2
<1>6. AbstractVault' = AbstractVault /\ rRepair' = rRepair /\ rSnapshot' = ReadIn(read)
  BY <1>1, <1>5, VaultMapped, OthersMapped
<1>7. R!Stored(AbstractVault) = FindURLs(db, Urls)
  BY <1>2, StoredIs, VaultMapped
<1>8. UrlsOf(read) = FindURLs(db, Urls)
  <2>1. ASSUME NEW e \in read PROVE e.columns.normalized_url \in FindURLs(db, Urls)
    BY <1>2, <1>3, <1>4, UrlOfRow
  <2>2. ASSUME NEW u \in FindURLs(db, Urls) PROVE \E e \in read : e.columns.normalized_url = u
    BY <1>2, <1>3, <1>4, RowOfUrl
  <2>3. QED
    BY <2>1, <2>2 DEF UrlsOf
<1>9. ASSUME NEW u \in FindURLs(db, Urls) PROVE ReadIn(read)[u] = R!Record(AbstractVault, u)
  <2>1. PICK r \in Records(db) : db.records[r].normalized_url = u
    BY <1>2, RowOfUrl
  <2>2. Entity(db, r) \in read /\ (Entity(db, r)).columns.normalized_url = u
    BY <1>3, <1>4, <2>1
  <2>3. ReadIn(read)[u] = MetadataOf(Entity(db, r))
    <3>1. ASSUME NEW e, e = Entity(db, r) PROVE ReadIn(OfRecords(db, read))[e.columns.normalized_url] = MetadataOf(e)
      BY <1>2, <1>5, <2>2, <3>1, ReadIs
    <3>2. QED
      BY <1>5, <2>2, <3>1
  <2>4. R!Record(AbstractVault, u) = MetadataOf(Entity(db, r))
    BY <1>2, <2>1, RecordIs, VaultMapped
  <2>5. QED
    BY <2>3, <2>4
<1>10. rSnapshot' = [u \in R!Stored(AbstractVault) |-> R!Record(AbstractVault, u)]
  <2>1. ReadIn(read) = [u \in UrlsOf(read) |-> ReadIn(read)[u]]
    BY DEF ReadIn
  <2>2. QED
    BY <1>6, <1>7, <1>8, <1>9, <2>1
<1>11. QED
  BY <1>1, <1>6, <1>10 DEF R!CheckStart, rSnapshot, rRepair

LEMMA CheckOneRefines ==
  ASSUME AllHeld, NEW e \in snapshot, CheckOne(e)
  PROVE  (\E u \in Urls : R!CheckOne(u)) \/ UNCHANGED R!vars
<1> DEFINE m == MetadataOf(e)
           sheet == sheets[e.id][e.columns.update_time]
           fix == R!FixIntegrity(m, sheet)
           decided == [key |-> KeyOf(e), metadata |-> fix.record, sheet |-> fix.sheet]
           read == OfRecords(db, snapshot)
<1>1. /\ repair = None
      /\ repair' = IF sheet = None \/ fix.integrity # "FIXED" THEN None ELSE decided
      /\ snapshot' = snapshot \ {e} /\ UNCHANGED <<db, sheets, checking>>
  BY DEF CheckOne
<1>2. /\ DbOk(db) /\ ReadOnce(db, snapshot) /\ SheetsTyped(sheets) /\ Held(db, sheets)
      /\ e.id \in Rids /\ e.columns \in Rows /\ m \in R!Metadata
  BY DEF AllHeld, InOrder, Read
<1>3. e.columns.update_time \in 1 .. MaxTime /\ m.update = e.columns.update_time
  BY <1>2, RowColumns DEF MetadataOf
<1>4. rRepair = None /\ AbstractVault' = AbstractVault
  BY <1>1, VaultMapped, OthersMapped DEF RepairIn
<1>5. rSnapshot = ReadIn(read) /\ rSnapshot' = ReadIn(OfRecords(db, snapshot \ {e}))
  BY <1>1, OthersMapped
<1>6. OfRecords(db, snapshot \ {e}) = read \ {e}
  BY DEF OfRecords
<1>7. CASE e.id \notin Records(db)
  <2>1. sheets[e.id] = NoSheets
    BY <1>2, <1>7 DEF Held
  <2>2. sheet = None
    BY <1>3, <2>1 DEF NoSheets
  <2>3. repair' = None
    BY <1>1, <2>2
  <2>4. read \ {e} = read
    BY <1>7 DEF OfRecords
  <2>5. rSnapshot' = rSnapshot /\ rRepair' = rRepair
    BY <1>4, <1>5, <1>6, <2>3, <2>4, OthersMapped DEF RepairIn
  <2>6. UNCHANGED R!vars
    BY <1>1, <1>4, <2>5 DEF R!vars, rSnapshot, rRepair
  <2>7. QED
    BY <2>6
<1>8. CASE e.id \in Records(db)
  <2>1. e \in read
    BY <1>8 DEF OfRecords
  <2>2. e.columns.normalized_url = db.records[e.id].normalized_url
    BY <1>2, <1>8 DEF ReadOnce
  <2>3. PICK u \in Urls : u = e.columns.normalized_url
    BY <1>2, RowColumns
  <2>4. u \in UrlsOf(read) /\ ReadIn(read)[u] = m
    BY <1>2, <2>1, <2>3, ReadIs
  <2>5. DOMAIN ReadIn(read) = UrlsOf(read)
    BY DEF ReadIn
  <2>6. ReadIn(read \ {e}) = [w \in UrlsOf(read) \ {u} |-> ReadIn(read)[w]]
    BY <1>2, <2>1, <2>3, ReadWithout
  <2>7. AbstractVault.sheets[u] = sheets[e.id]
    BY <1>2, <1>8, <2>2, <2>3, CardSheets, VaultMapped
  <2>8. AbstractVault.sheets[u][m.update] = sheet
    BY <1>3, <2>7
  <2>9. sheet \in R!Sheets \cup {None}
    BY <1>2, <1>3 DEF SheetsTyped
  <2>10. sheet # None => decided # None /\ KeyOf(e).normalized_url = u
    <3>1. sheet # None => fix.record \in R!Metadata /\ fix.sheet \in R!Sheets
      <4> HIDE DEF m, sheet
      <4>1. QED
        BY <1>2, <2>9, FixTypes
    <3>2. KeyOf(e) \in Keys
      BY <1>2, KeyTypes
    <3>3. KeyOf(e).normalized_url = u
      BY <2>3 DEF KeyOf
    <3> HIDE DEF fix, sheet
    <3>4. QED
      BY <3>1, <3>2, <3>3, NoneIsNoData DEF Keys
  <2> DEFINE r == rSnapshot[u]
             after == R!FixIntegrity(r, AbstractVault.sheets[u][r.update])
  <2>11. r = m /\ after = fix
    BY <1>5, <2>4, <2>8
  <2>12. R!Integrity(AbstractVault, u, r) = IF sheet = None THEN "BROKEN" ELSE fix.integrity
    BY <2>8, <2>11 DEF R!Integrity
  <2>13. rRepair' = IF R!Integrity(AbstractVault, u, r) # "FIXED" THEN None
                    ELSE [url |-> u, record |-> after.record, sheet |-> after.sheet]
    <3> DEFINE verdict == R!Integrity(AbstractVault, u, r)
    <3>1. rRepair' = RepairIn(repair')
      BY OthersMapped
    <3>2. verdict = IF sheet = None THEN "BROKEN" ELSE fix.integrity
      BY <2>12
    <3>3. after = fix
      BY <2>11
    <3> HIDE DEF verdict, sheet, fix, after
    <3>4. verdict # "FIXED" => rRepair' = None
      <4>1. verdict # "FIXED" => repair' = None
        BY <1>1, <3>2
      <4>2. QED
        BY <3>1, <4>1 DEF RepairIn
    <3>5. verdict = "FIXED" => rRepair' = [url |-> u, record |-> fix.record, sheet |-> fix.sheet]
      <4>1. verdict = "FIXED" => sheet # None /\ repair' = decided
        BY <1>1, <3>2
      <4>2. sheet # None => decided # None /\ KeyOf(e).normalized_url = u
        BY <2>10
      <4>3. sheet # None => RepairIn(decided) = [url |-> u, record |-> fix.record, sheet |-> fix.sheet]
        BY <4>2 DEF RepairIn
      <4> HIDE DEF decided
      <4>4. QED
        BY <3>1, <4>1, <4>3
    <3>6. rRepair' = IF verdict # "FIXED" THEN None ELSE [url |-> u, record |-> after.record, sheet |-> after.sheet]
      BY <3>3, <3>4, <3>5
    <3>7. QED
      BY <3>6 DEF verdict, after
  <2>14. rSnapshot' = [w \in DOMAIN rSnapshot \ {u} |-> rSnapshot[w]] /\ u \in DOMAIN rSnapshot
    BY <1>5, <1>6, <2>4, <2>5, <2>6
  <2>15. R!CheckOne(u)
    <3> HIDE DEF r
    <3>1. QED
      BY <1>1, <1>4, <2>13, <2>14 DEF R!CheckOne, rSnapshot, rRepair, r
  <2>16. QED
    BY <2>15
<1>9. QED
  BY <1>7, <1>8


LEMMA CheckEndRefines == ASSUME AllHeld, CheckEnd PROVE R!CheckEnd
<1> DEFINE v == AbstractVault
           v2 == AbstractVault'
<1>1. /\ checking /\ snapshot = {} /\ repair = None /\ checking' = FALSE
      /\ db' = DeleteCreators(db, CreatorRows(db) \ HasRecords(db)) /\ UNCHANGED <<sheets, snapshot, repair>>
  BY DEF CheckEnd
<1>2. DbOk(db) /\ Counted(db) /\ Known(db)
  BY DEF AllHeld, InOrder
<1>3. /\ db'.records = db.records /\ db'.tags = db.tags /\ db'.record_tags = db.record_tags
      /\ db'.fts = db.fts /\ db'.seq = db.seq
      /\ db'.creators = [c \in Creators |-> IF c \in HasRecords(db) THEN db.creators[c] ELSE None]
  BY <1>1, <1>2, CleanedIs
<1>4. /\ Records(db') = Records(db) /\ \A r : RowIn(db', r) = RowIn(db, r) /\ TextsIn(db', r) = TextsIn(db, r)
      /\ \A u : (HasRow(db', u) <=> HasRow(db, u)) /\ Rid(db', u) = Rid(db, u)
  <2>1. Records(db') = Records(db)
    BY <1>3 DEF Records
  <2>2. \A r : RowIn(db', r) = RowIn(db, r) /\ TextsIn(db', r) = TextsIn(db, r)
    BY <1>3 DEF RowIn, TagsOf, TextsIn
  <2>3. \A u : (HasRow(db', u) <=> HasRow(db, u)) /\ Rid(db', u) = Rid(db, u)
    BY <1>3, <2>1 DEF HasRow, Rid, FindURLs, NormalizedURLIn
  <2>4. QED
    BY <2>1, <2>2, <2>3
<1>5. /\ v2.rows = v.rows /\ v2.fts = v.fts /\ v2.sheets = v.sheets /\ v2.tags = v.tags
      /\ v2.creators = db'.creators /\ v.creators = db.creators
  <2>1. ASSUME NEW u \in Urls
        PROVE  /\ (IF HasRow(db', u) THEN RowIn(db', Rid(db', u)) ELSE None) = (IF HasRow(db, u) THEN RowIn(db, Rid(db, u)) ELSE None)
               /\ (IF HasRow(db', u) THEN TextsIn(db', Rid(db', u)) ELSE {}) = (IF HasRow(db, u) THEN TextsIn(db, Rid(db, u)) ELSE {})
               /\ (IF HasRow(db', u) THEN sheets'[Rid(db', u)] ELSE NoSheets) = (IF HasRow(db, u) THEN sheets[Rid(db, u)] ELSE NoSheets)
    BY <1>1, <1>4
  <2>2. /\ VaultOf(db', sheets').rows = VaultOf(db, sheets).rows /\ VaultOf(db', sheets').fts = VaultOf(db, sheets).fts
        /\ VaultOf(db', sheets').sheets = VaultOf(db, sheets).sheets
    BY <2>1 DEF VaultOf
  <2>3. VaultOf(db', sheets').tags = VaultOf(db, sheets).tags
    BY <1>3 DEF VaultOf
  <2>4. VaultOf(db', sheets').creators = db'.creators /\ VaultOf(db, sheets).creators = db.creators
    BY DEF VaultOf
  <2>5. QED
    BY <2>2, <2>3, <2>4, VaultMapped
<1>6. ASSUME NEW c \in Creators PROVE c \in HasRecords(db) <=> \E u \in R!Stored(v) : v.rows[u].creator = c
  <2>1. R!Stored(v) = FindURLs(db, Urls)
    BY <1>2, StoredIs, VaultMapped
  <2>2. ASSUME NEW r \in Records(db), NEW u, u = db.records[r].normalized_url
        PROVE  u \in R!Stored(v) /\ v.rows[u].creator = db.records[r].creator_id
    <3>1. HasRow(db, u)
      BY <1>2, <2>2, CardInTables
    <3>2. v.rows[u] = RowIn(db, r)
      BY <1>2, <2>2, CardRow, VaultMapped
    <3>3. QED
      BY <2>1, <3>1, <3>2 DEF HasRow, RowIn
  <2>3. c \in HasRecords(db) <=> \E r \in Records(db) : db.records[r].creator_id = c
    BY <1>2 DEF HasRecords, CreatorRows, DbOk, Refs
  <2>4. \A u \in R!Stored(v) : \E r \in Records(db) : db.records[r].normalized_url = u
    BY <1>2, <2>1, RowOfUrl
  <2>5. QED
    BY <2>2, <2>3, <2>4
<1>7. v2 = R!CleanupCreators(v)
  <2> DEFINE creators == [c \in Creators |-> IF \E u \in R!Stored(v) : v.rows[u].creator = c THEN v.creators[c] ELSE None]
  <2>1. v2.creators = creators
    BY <1>3, <1>5, <1>6
  <2>2. R!CleanupCreators(v) = [v EXCEPT !.creators = creators]
    BY DEF R!CleanupCreators
  <2>3. /\ v2 = [rows |-> v2.rows, creators |-> v2.creators, tags |-> v2.tags, fts |-> v2.fts, sheets |-> v2.sheets]
        /\ v = [rows |-> v.rows, creators |-> v.creators, tags |-> v.tags, fts |-> v.fts, sheets |-> v.sheets]
    BY DEF AbstractVault
  <2> HIDE DEF creators, v, v2
  <2>4. QED
    BY <1>5, <2>1, <2>2, <2>3
<1>8. rSnapshot' = rSnapshot /\ DOMAIN rSnapshot = {} /\ rRepair = None /\ rRepair' = rRepair
  <2>1. OfRecords(db', snapshot') = {} /\ OfRecords(db, snapshot) = {}
    BY <1>1 DEF OfRecords
  <2>2. rSnapshot' = rSnapshot /\ rSnapshot = ReadIn({})
    BY <2>1, OthersMapped
  <2>3. DOMAIN ReadIn({}) = {}
    BY DEF ReadIn, UrlsOf
  <2>4. rRepair = None /\ rRepair' = rRepair
    BY <1>1, OthersMapped DEF RepairIn
  <2>5. QED
    BY <2>2, <2>3, <2>4
<1>9. QED
  BY <1>1, <1>7, <1>8 DEF R!CheckEnd, rSnapshot, rRepair

LEMMA StartsMapped == Init => R!Init
<1> SUFFICES ASSUME Init PROVE R!Init
  OBVIOUS
<1>1. Records(db) = {} /\ StoredUrls = {}
  BY DEF Init, EmptyDb, Records, StoredUrls, FindURLs, NormalizedURLIn
<1>2. AbstractVault = R!EmptyVault
  <2>1. db.creators = [c \in Creators |-> None] /\ db.tags = [s \in Slugs |-> None] /\ db.fts = {}
    BY DEF Init, EmptyDb
  <2>2. \A u \in Urls : {row.text : row \in {x \in db.fts : u \in StoredUrls /\ x.id = RidOf(u)}} = {}
    BY <2>1
  <2>3. QED
    BY <1>1, <2>1, <2>2 DEF AbstractVault, R!EmptyVault, R!Times
<1>3. rSnapshot = <<>>
  <2>1. Checkable = {}
    BY DEF Init, Checkable
  <2>2. rSnapshot = [u \in {} |-> MetadataOf(CHOOSE e \in {} : e.columns.normalized_url = u)]
    BY <2>1 DEF rSnapshot
  <2>3. QED
    BY <2>2
<1>4. rRepair = None /\ checking = FALSE
  BY DEF Init, rRepair
<1>5. QED
  BY <1>2, <1>3, <1>4 DEF R!Init, rSnapshot, rRepair

LEMMA StepMapped == ASSUME AllHeld, AllHeld', [Next]_vars PROVE [R!Next]_(R!vars)
<1>1. CASE UNCHANGED vars
  BY <1>1, Stutters DEF vars
<1>2. ASSUME NEW u \in Urls, Save(u) PROVE R!Next \/ UNCHANGED R!vars
  BY <1>2, SaveRefines DEF R!Next
<1>3. ASSUME NEW r \in Rids, Delete(r) PROVE R!Next
  BY <1>3, DeleteRefines DEF R!Next
<1>4. ASSUME NEW r \in Rids, ToggleFavorite(r) PROVE R!Next \/ UNCHANGED R!vars
  BY <1>4, FavoriteRefines DEF R!Next
<1>5. ASSUME NEW r \in Rids, UpdateExportData(r) PROVE UNCHANGED R!vars
  BY <1>5, ExportRefines
<1>6. ASSUME NEW rids \in SUBSET Rids, NEW favorite \in BOOLEAN, UpdateFavoriteData(rids, favorite) PROVE R!Next
  BY <1>6, FavoriteRefines DEF R!Next
<1>7. ASSUME NEW r \in Rids, NEW status \in R!Statuses, UpdateSyncData(r, status) PROVE R!Next \/ UNCHANGED R!vars
  BY <1>7, SyncRefines DEF R!Next
<1>8. CASE CheckStart
  BY <1>8, CheckStartRefines DEF R!Next
<1>9. ASSUME NEW e \in snapshot, CheckOne(e) PROVE R!Next \/ UNCHANGED R!vars
  BY <1>9, CheckOneRefines DEF R!Next
<1>10. CASE Repair
  BY <1>10, RepairRefines DEF R!Next
<1>11. CASE CheckEnd
  BY <1>11, CheckEndRefines DEF R!Next
<1>12. Next => R!Next \/ UNCHANGED R!vars
  BY <1>2, <1>3, <1>4, <1>5, <1>6, <1>7, <1>8, <1>9, <1>10, <1>11 DEF Next
<1>13. QED
  BY <1>1, <1>12

\* Statements on tables, ids that the database gives out, upserts, cascades, the
\* trigger, rollbacks and the unique indexes amount to RecordStore's steps on whole
\* cards: every call is one of them or changes nothing there.
THEOREM TablesImplementRecordStore == Spec => ImplementsRecordStore
<1>1. AllHeld /\ AllHeld' /\ [Next]_vars => [R!Next]_(R!vars)
  BY StepMapped
<1>2. QED
  BY <1>1, StartsMapped, CardsHeld, PTL DEF Spec, ImplementsRecordStore, R!Spec

-----------------------------------------------------------------------------
(* Importing an exported vault                                             *)

\* A set of numbers that has a number whenever it has all smaller ones has all.
LEMMA NoLeastMissing ==
  ASSUME NEW S, \A n \in Nat : (\A k \in Nat : k < n => k \in S) => n \in S
  PROVE  Nat \subseteq S
<1> DEFINE Less == OpToRel(<, Nat)
           T == Nat \ S
<1>1. IsWellFoundedOn(Less, Nat)
  BY NatLessThanWellFounded
<1>2. \A x, y \in Nat : <<y, x>> \in Less <=> y < x
  BY DEF OpToRel
<1> HIDE DEF Less
<1>3. SUFFICES ASSUME T # {} PROVE FALSE
  OBVIOUS
<1>4. PICK x \in T : \A y \in T : ~(<<y, x>> \in Less)
  BY <1>1, <1>3, WFMin
<1>5. \A k \in Nat : k < x => k \in S
  BY <1>2, <1>4
<1>6. QED
  BY <1>4, <1>5

\* The card of a record in its version.
CardOf(r) == sheets[r][db.records[r].update_time]

\* The folder of an export has every record of its index, and the file of a record
\* that an import finds there has the record's card.
LEMMA FolderHolds ==
  ASSUME DbOk(db), NEW template \in Templates, NEW folder, folder = ExportVault(template)
  PROVE  /\ Items(folder) \subseteq Records(db)
         /\ template.png => Items(folder) = Records(db)
         /\ \A r \in Items(folder) : /\ folder.index[r] = Entity(db, r)
                                     /\ folder.cards[CardFiles(DOMAIN folder.cards)[r]] = CardOf(r)
<1> DEFINE index == [r \in Records(db) |-> FindRecord(db, r)]
           File(r) == VaultFile(template, index[r])
           files == {File(r) : r \in Records(db)}
           cards == [f \in files |-> sheets[f.rid][index[f.rid].columns.update_time]]
           named == CardFiles(files)
<1>1. folder.index = index /\ folder.cards = cards /\ DOMAIN cards = files
  BY DEF ExportVault
<1>2. \A r \in Records(db) : index[r] = Entity(db, r)
  BY FoundIs
<1>3. \A r \in Records(db) : Entity(db, r).id = r /\ Entity(db, r).columns = db.records[r]
  <2> TAKE r \in Records(db)
  <2>1. ASSUME NEW x, x = Entity(db, r) PROVE x.id = r /\ x.columns = db.records[r]
    BY <2>1, EntityIs
  <2>2. QED
    BY <2>1
<1>4. DOMAIN index = Records(db)
  OBVIOUS
<1> HIDE DEF index
<1>5. \A r \in Records(db) : File(r).rid = r /\ (File(r).path.png <=> template.png)
  <2> TAKE r \in Records(db)
  <2>1. File(r).rid = index[r].id
    BY DEF VaultFile
  <2>2. File(r).path = ExportPath(template, index[r])
    BY DEF VaultFile
  <2>3. ExportPath(template, index[r]).png = template.png
    BY DEF ExportPath
  <2>4. QED
    BY <1>2, <1>3, <2>1, <2>2, <2>3
<1>6. \A f \in files : f.rid \in Records(db) /\ f = File(f.rid) /\ (f.path.png <=> template.png)
  BY <1>5
<1>7. \A r \in Records(db) : File(r) \in files
  OBVIOUS
<1> HIDE DEF File
<1> HIDE DEF files
<1>8. ~template.png => DOMAIN named = {}
  BY <1>6 DEF CardFiles
<1>9. ASSUME template.png PROVE DOMAIN named = Records(db) /\ \A r \in Records(db) : named[r] = File(r)
  <2>1. {f \in files : f.path.png} = files
    BY <1>6, <1>9
  <2>2. named = [r \in {f.rid : f \in files} |-> CHOOSE f \in files : f.rid = r]
    BY <2>1 DEF CardFiles
  <2>3. {f.rid : f \in files} = Records(db)
    <3>1. ASSUME NEW r \in Records(db) PROVE \E f \in files : r = f.rid
      BY <1>5, <1>7
    <3>2. QED
      BY <1>6, <3>1
  <2>4. ASSUME NEW r \in Records(db) PROVE (CHOOSE f \in files : f.rid = r) = File(r)
    BY <1>5, <1>6, <1>7
  <2>5. QED
    BY <2>2, <2>3, <2>4
<1> HIDE DEF named
<1>10. Items(folder) = Records(db) \cap DOMAIN named
  BY <1>1, <1>4 DEF Items, named
<1>11. ASSUME NEW r \in Items(folder)
       PROVE  folder.index[r] = Entity(db, r) /\ folder.cards[named[r]] = CardOf(r)
  <2>1. r \in Records(db) /\ template.png /\ named[r] = File(r)
    BY <1>8, <1>9, <1>10
  <2>2. folder.cards[File(r)] = sheets[File(r).rid][index[File(r).rid].columns.update_time]
    BY <1>1, <1>7, <2>1
  <2>3. QED
    BY <1>1, <1>2, <1>3, <1>5, <2>1, <2>2 DEF CardOf
<1>12. CardFiles(DOMAIN folder.cards) = named
  BY <1>1 DEF named
<1>13. QED
  BY <1>8, <1>9, <1>10, <1>11, <1>12

\* What a restore of record r, as it was exported, leaves of tables that do not have
\* the card, and nothing that its row would be in conflict with.
LEMMA RestoreLeaves ==
  ASSUME DbOk(db), Counted(db), NEW r \in Records(db), NEW row, row = db.records[r],
         NEW d, DbOk(d), d.seq < MaxRid, row.normalized_url \notin FindURLs(d, Urls),
         NEW id, id = d.seq + 1, ~IsTaken(d, id, row), NEW sheet \in R!Sheets,
         NEW m, m = MetadataOf(Entity(db, r)), NEW tx, tx = RestoreRecord(BeginTx(d), Entity(db, r), sheet)
  PROVE  tx.err = "none" /\ tx.id = id /\ tx.db = Saved(d, m, id, row, sheet.text) /\ DbOk(tx.db) /\ id \in Rids
<1>1. row \in Rows /\ m \in R!Metadata
  BY MetadataTyped, StoredRows DEF DbOk
<1>2. row.creator_id = m.creator
  <2>1. ASSUME NEW x, x = Entity(db, r) PROVE x.columns = row
    BY <2>1, EntityIs
  <2>2. QED
    BY <2>1 DEF MetadataOf
<1>3. RestoredRow(Entity(db, r)) = BuildRecord(row)
  <2>1. ASSUME NEW x, x = Entity(db, r) PROVE x.columns = row
    BY <2>1, EntityIs
  <2>2. QED
    BY <2>1 DEF RestoredRow
<1> DEFINE columns == UpdateNewValues(BuildRecord(row))
<1>4. columns \in SUBSET Columns /\ SavedColumns \subseteq columns
  BY <1>1, ColumnsSaved
<1>5. tx = Statements(BeginTx(d), m, BuildRecord(row), OnConflictColumns({"normalized_url"}, columns), sheet.text, "none")
  BY <1>3 DEF RestoreRecord
<1> HIDE DEF columns
<1>6. Target(d, row.normalized_url) = id /\ Resolved(d, row, columns) = row
  BY DEF Target, Resolved
<1>7. sheet.text \in Texts
  BY DEF R!Sheets
<1>8. tx.err = "none"
  BY <1>1, <1>2, <1>4, <1>5, <1>6, <1>7, StatementsLeave
<1>9. tx.id = id /\ tx.db = Saved(d, m, id, row, sheet.text) /\ DbOk(tx.db) /\ id \in Rids
  BY <1>1, <1>2, <1>4, <1>5, <1>6, <1>7, <1>8, StatementsLeave
<1>10. QED
  BY <1>8, <1>9

\* Record k of the vault v is a copy of record r of the one that is loaded.
CopyOf(v, k, r) ==
  /\ v.db.records[k] = db.records[r]
  /\ TagsOf(v.db, k) = TagsOf(db, r)
  /\ TextsIn(v.db, k) = {CardOf(r).text}
  /\ v.sheets[k] = CardOf(r)

\* The first n records of the order given were restored into the vault v, and nothing else.
Restored(v, order, n) ==
  /\ v = [db |-> v.db, sheets |-> v.sheets, err |-> "none"]
  /\ v.sheets = [x \in Rids |-> v.sheets[x]]
  /\ DbOk(v.db) /\ Records(v.db) = 1 .. n /\ v.db.seq = n
  /\ \A k \in 1 .. n : CopyOf(v, k, order[k])
  /\ \A s \in Slugs : v.db.tags[s] \in {None, db.tags[s]}
  /\ \A c \in Creators : v.db.creators[c] \in {None, db.creators[c]}

\* Tables of copies do not have another card, nor one of its ids.
LEMMA NextIsNew ==
  ASSUME DbOk(db), NEW n \in Nat, NEW order, \A i, j \in 1 .. n + 1 : i # j => order[i] # order[j],
         \A i \in 1 .. n + 1 : order[i] \in Records(db),
         NEW v, Restored(v, order, n), NEW row, row = db.records[order[n + 1]]
  PROVE  row.normalized_url \notin FindURLs(v.db, Urls) /\ ~IsTaken(v.db, n + 1, row)
<1>1. ASSUME NEW k \in Records(v.db)
      PROVE  /\ k \in 1 .. n /\ order[k] # order[n + 1] /\ order[k] \in Records(db) /\ order[n + 1] \in Records(db)
             /\ v.db.records[k] = db.records[order[k]]
  <2>1. k \in 1 .. n /\ k \in 1 .. n + 1 /\ n + 1 \in 1 .. n + 1 /\ k # n + 1
    BY <1>1 DEF Restored
  <2>2. QED
    BY <2>1 DEF Restored, CopyOf
<1>2. row.normalized_url \notin FindURLs(v.db, Urls)
  <2>1. ASSUME row.normalized_url \in FindURLs(v.db, Urls) PROVE FALSE
    <3>1. PICK k \in Records(v.db) : v.db.records[k].normalized_url = row.normalized_url
      BY <2>1, RowOfUrl DEF Restored
    <3>2. QED
      BY <1>1, <3>1, UrlHasOneRow
  <2>2. QED
    BY <2>1
<1>3. ~IsTaken(v.db, n + 1, row)
  <2>1. ASSUME NEW index \in UniqueIndexes, NEW k \in Records(v.db), \A c \in index : v.db.records[k][c] = row[c]
        PROVE  FALSE
    <3>1. Same(db.records[order[k]], db.records[order[n + 1]], index)
      BY <1>1, <2>1 DEF Same
    <3>2. QED
      BY <1>1, <3>1 DEF DbOk, Unique
  <2>2. QED
    BY <2>1 DEF IsTaken
<1>4. QED
  BY <1>2, <1>3

\* The card of a record is a sheet, with the names that the record was exported with.
LEMMA CardIsHeld ==
  ASSUME DbOk(db), SheetsTyped(sheets), Held(db, sheets), NEW r \in Records(db)
  PROVE  /\ CardOf(r) \in R!Sheets
         /\ [CardOf(r) EXCEPT !.tags = TagNamesOf(Entity(db, r))] = CardOf(r)
<1>1. r \in Rids /\ db.records[r].update_time \in 1 .. MaxTime
  BY StoredRows, RowColumns DEF DbOk
<1>2. CardOf(r) # None /\ CardOf(r).tags = R!TagNames(NamesOf(db, r))
  BY DEF Held, HeldIn, CardOf
<1>3. CardOf(r) \in R!Sheets
  BY <1>1, <1>2 DEF SheetsTyped, CardOf
<1>4. CardOf(r).tags = TagNamesOf(Entity(db, r))
  BY <1>2, TagNamesAre
<1>5. [CardOf(r) EXCEPT !.tags = CardOf(r).tags] = CardOf(r)
  BY <1>3 DEF R!Sheets
<1>6. QED
  BY <1>3, <1>4, <1>5

\* The names and the creator that are put with a record are those of the vault exported.
LEMMA NamesRestored ==
  ASSUME DbOk(db), NEW r \in Records(db), NEW m, m = MetadataOf(Entity(db, r)), NEW d, DbOk(d),
         \A s \in Slugs : d.tags[s] \in {None, db.tags[s]},
         \A c \in Creators : d.creators[c] \in {None, db.creators[c]},
         NEW id, NEW row, NEW text, NEW e, e = Saved(d, m, id, row, text)
  PROVE  /\ DOMAIN m.names = TagsOf(db, r)
         /\ \A s \in Slugs : e.tags[s] \in {None, db.tags[s]}
         /\ \A c \in Creators : e.creators[c] \in {None, db.creators[c]}
<1>1. m.names = NamesOf(db, r) /\ m.creator = db.records[r].creator_id /\ m.nick = db.creators[m.creator]
  BY MetadataIs
<1>2. DOMAIN m.names = TagsOf(db, r)
  BY <1>1 DEF NamesOf
<1>3. e.tags = Named(d.tags, m.names) /\ e.creators = [d.creators EXCEPT ![m.creator] = m.nick]
  BY DEF Saved
<1>4. \A s \in Slugs : e.tags[s] \in {None, db.tags[s]}
  BY <1>1, <1>2, <1>3 DEF Named, NamesOf
<1>5. \A c \in Creators : e.creators[c] \in {None, db.creators[c]}
  BY <1>1, <1>3 DEF DbOk, DbTypes
<1>6. QED
  BY <1>2, <1>4, <1>5

LEMMA RestoreStep ==
  ASSUME DbOk(db), Counted(db), SheetsTyped(sheets), Held(db, sheets), NEW n \in Nat, n < MaxRid,
         NEW order, \A i, j \in 1 .. n + 1 : i # j => order[i] # order[j],
         \A i \in 1 .. n + 1 : order[i] \in Records(db), NEW r, r = order[n + 1],
         NEW v, Restored(v, order, n), NEW w, w = RestoreCard(v, Entity(db, r), CardOf(r))
  PROVE  Restored(w, order, n + 1)
<1> DEFINE d == v.db
           row == db.records[r]
           m == MetadataOf(Entity(db, r))
           sheet == CardOf(r)
           id == n + 1
           tx == RestoreRecord(BeginTx(d), Entity(db, r), sheet)
           e == Saved(d, m, id, row, sheet.text)
<1>1. r \in Records(db) /\ id \in Nat /\ id \in 1 .. n + 1
  OBVIOUS
<1>2. row \in Rows /\ m \in R!Metadata /\ sheet \in R!Sheets
  BY <1>1, MetadataTyped, StoredRows, CardIsHeld DEF DbOk
<1>3. DbOk(d) /\ Records(d) = 1 .. n /\ d.seq = n
  BY DEF Restored
<1>4. row.normalized_url \notin FindURLs(d, Urls) /\ ~IsTaken(d, id, row)
  <2>1. ASSUME NEW x, x = row PROVE x.normalized_url \notin FindURLs(d, Urls) /\ ~IsTaken(d, id, x)
    BY <2>1, NextIsNew
  <2>2. QED
    BY <2>1
<1>5. tx.err = "none" /\ tx.id = id /\ tx.db = e /\ DbOk(e) /\ id \in Rids
  <2>1. tx.err = "none" /\ tx.id = id
    BY <1>1, <1>2, <1>3, <1>4, RestoreLeaves
  <2>2. tx.db = e /\ DbOk(tx.db) /\ id \in Rids
    BY <1>1, <1>2, <1>3, <1>4, RestoreLeaves
  <2>3. QED
    BY <2>1, <2>2
<1> DEFINE put == [sheet EXCEPT !.tags = TagNamesOf(Entity(db, r))]
           kept == [v.sheets EXCEPT ![id] = put]
<1>6. w = [v EXCEPT !.db = e, !.sheets = kept]
  BY <1>5 DEF RestoreCard, Commit
<1>7. put = sheet
  BY <1>1, CardIsHeld
<1>8. /\ kept = [x \in Rids |-> kept[x]] /\ kept[id] = sheet
      /\ \A k \in 1 .. n : kept[k] = v.sheets[k]
  <2>1. v.sheets = [x \in Rids |-> v.sheets[x]]
    BY DEF Restored
  <2> HIDE DEF put
  <2>2. \A k \in 1 .. n : k # id /\ k \in Rids
    BY <1>1, BoundsAreNats DEF Rids
  <2>3. QED
    BY <1>5, <1>7, <2>1, <2>2
<1> HIDE DEF tx, put, kept
<1>9. w = [db |-> e, sheets |-> kept, err |-> "none"]
  <2>1. v = [db |-> d, sheets |-> v.sheets, err |-> "none"]
    BY DEF Restored
  <2> HIDE DEF d, e
  <2>2. w = [f \in DOMAIN v |-> IF f = "db" THEN e ELSE IF f = "sheets" THEN kept ELSE v[f]]
    BY <1>6, <2>1
  <2>3. DOMAIN v = {"db", "sheets", "err"} /\ v["err"] = "none"
    BY <2>1
  <2>4. QED
    BY <2>2, <2>3
<1>10. /\ Records(e) = 1 .. n + 1 /\ e.seq = n + 1 /\ e.records[id] = row
       /\ \A k \in 1 .. n : e.records[k] = d.records[k]
  <2>1. Records(e) = Records(d) \cup {id}
    BY <1>2, <1>3, <1>5, SavedMore
  <2>2. e.records[id] = row
    BY <1>2, <1>3, <1>5, SavedOne
  <2>3. \A k \in Records(d) : k # id => e.records[k] = d.records[k]
    BY <1>2, <1>3, <1>5, SavedOthers
  <2>4. e.seq = IF id > d.seq THEN id ELSE d.seq
    BY DEF Saved
  <2>5. (1 .. n) \cup {n + 1} = 1 .. n + 1 /\ \A k \in 1 .. n : k # n + 1
    OBVIOUS
  <2>6. e.seq = n + 1
    BY <1>3, <2>4
  <2> HIDE DEF e
  <2>7. QED
    BY <1>3, <2>1, <2>2, <2>3, <2>5, <2>6
<1>11. /\ DOMAIN m.names = TagsOf(db, r)
       /\ \A s \in Slugs : e.tags[s] \in {None, db.tags[s]}
       /\ \A c \in Creators : e.creators[c] \in {None, db.creators[c]}
  BY <1>1, <1>3, NamesRestored DEF Restored
<1>12. TagsOf(e, id) = TagsOf(db, r)
  BY <1>2, <1>3, <1>5, <1>11, SavedTags
<1>13. TextsIn(e, id) = {sheet.text}
  <2>1. \A x \in d.fts : x.id # id
    BY <1>3 DEF DbOk, Refs
  <2>2. TextsIn(d, id) = {}
    BY <2>1 DEF TextsIn
  <2>3. QED
    BY <1>3, <1>5, <2>2, SavedTexts
<1>14. ASSUME NEW k \in 1 .. n PROVE TagsOf(e, k) = TagsOf(d, k) /\ TextsIn(e, k) = TextsIn(d, k)
  <2>1. k \in Records(d) /\ k # id
    BY <1>3
  <2>2. k \in Rids
    BY <2>1 DEF Records
  <2>3. TagsOf(e, k) = TagsOf(d, k)
    BY <1>2, <1>3, <1>5, <2>1, <2>2, SavedTags
  <2>4. TextsIn(e, k) = TextsIn(d, k)
    BY <1>2, <1>3, <1>5, <2>1, SavedNames
  <2>5. QED
    BY <2>3, <2>4
<1> HIDE DEF e
<1>15. CopyOf(w, id, order[id])
  BY <1>8, <1>9, <1>10, <1>12, <1>13 DEF CopyOf
<1>16. ASSUME NEW k \in 1 .. n PROVE CopyOf(w, k, order[k])
  <2>1. CopyOf(v, k, order[k])
    BY DEF Restored
  <2>2. QED
    BY <1>8, <1>9, <1>10, <1>14, <2>1 DEF CopyOf
<1>17. \A k \in 1 .. n + 1 : CopyOf(w, k, order[k])
  BY <1>15, <1>16
<1>18. QED
  BY <1>5, <1>8, <1>9, <1>10, <1>11, <1>17 DEF Restored

\* The vaults that ImportVault computes on the way exist, one per card.
LEMMA ImportIsDefined ==
  ASSUME NEW v, NEW n \in Nat, NEW folder, NEW order
  PROVE  \E after : after =
           [i \in 0 .. n |-> IF i = 0 THEN v ELSE ImportVaultCard(after[i - 1], folder, order[i])]
<1> DEFINE Step(w, i) == ImportVaultCard(w, folder, order[i])
           IsImport(after, k) == after = [i \in 0 .. k |-> IF i = 0 THEN v ELSE Step(after[i - 1], i)]
           S == {k \in Nat : \E after : IsImport(after, k)}
<1> HIDE DEF Step
<1>1. ASSUME NEW k \in Nat, \A j \in Nat : j < k => j \in S
      PROVE  k \in S
  <2>1. CASE k = 0
    <3> DEFINE f == [i \in 0 .. 0 |-> v]
    <3>1. IsImport(f, 0)
      OBVIOUS
    <3>2. QED
      BY <2>1, <3>1
  <2>2. CASE k # 0
    <3>1. k - 1 \in Nat /\ k - 1 < k
      BY <2>2
    <3>2. PICK g : IsImport(g, k - 1)
      BY <1>1, <3>1
    <3> DEFINE f == [i \in 0 .. k |-> IF i = 0 THEN v ELSE Step(g[i - 1], i)]
    <3>3. \A i \in 0 .. k - 1 : f[i] = g[i]
      BY <3>1, <3>2
    <3>4. \A i \in 0 .. k : i # 0 => i - 1 \in 0 .. k - 1
      BY <3>1
    <3>5. IsImport(f, k)
      BY <3>3, <3>4
    <3>6. QED
      BY <3>5
  <2>3. QED
    BY <2>1, <2>2
<1>2. n \in S
  <2> HIDE DEF S
  <2>1. QED
    BY <1>1, NoLeastMissing
<1>3. QED
  BY <1>2 DEF Step

NewVault == [db |-> EmptyDb, sheets |-> [r \in Rids |-> None], err |-> "none"]

LEMMA NothingRestored ==
  ASSUME NEW order
  PROVE  Restored(NewVault, order, 0)
<1>1. NewVault = [db |-> NewVault.db, sheets |-> NewVault.sheets, err |-> "none"]
  BY DEF NewVault
<1>2. NewVault.db = EmptyDb /\ NewVault.sheets = [r \in Rids |-> None]
  BY DEF NewVault
<1>3. Records(EmptyDb) = {} /\ EmptyDb.seq = 0 /\ 1 .. 0 = {}
  BY DEF Records, EmptyDb
<1>4. /\ \A s \in Slugs : EmptyDb.tags[s] = None
      /\ \A c \in Creators : EmptyDb.creators[c] = None
  BY DEF EmptyDb
<1>5. DbOk(EmptyDb)
  BY EmptyIsOk
<1>6. QED
  BY <1>1, <1>2, <1>3, <1>4, <1>5 DEF Restored

\* An import fails at none of its cards, and restores them all.
LEMMA ImportRestored ==
  ASSUME DbOk(db), Counted(db), SheetsTyped(sheets), Held(db, sheets), NEW n \in Nat, n <= MaxRid,
         NEW order \in [1 .. n -> Records(db)], Len(order) = n, \A i, j \in 1 .. n : i # j => order[i] # order[j],
         NEW folder, \A i \in 1 .. n : /\ folder.index[order[i]] = Entity(db, order[i])
                                       /\ folder.cards[CardFiles(DOMAIN folder.cards)[order[i]]] = CardOf(order[i])
  PROVE  Restored(ImportVault(folder, order), order, n)
<1> DEFINE Step(w, i) == ImportVaultCard(w, folder, order[i])
           IsImport(after) == after = [i \in 0 .. n |-> IF i = 0 THEN NewVault ELSE Step(after[i - 1], i)]
           g == CHOOSE after : IsImport(after)
<1>1. IsImport(g)
  BY ImportIsDefined
<1>2. ImportVault(folder, order) = g[n]
  BY DEF ImportVault, NewVault
<1>3. ASSUME NEW i \in 1 .. n, NEW w PROVE Step(w, i) = RestoreCard(w, Entity(db, order[i]), CardOf(order[i]))
  BY DEF ImportVaultCard
<1> HIDE DEF g, Step
<1> DEFINE S == {i \in Nat : i <= n => Restored(g[i], order, i)}
<1>4. ASSUME NEW k \in Nat, \A j \in Nat : j < k => j \in S
      PROVE  k \in S
  <2>1. CASE k > n
    BY <2>1
  <2>2. CASE k = 0
    <3>1. g[0] = NewVault
      BY <1>1
    <3>2. QED
      BY <2>2, <3>1, NothingRestored
  <2>3. CASE k \in 1 .. n
    <3> DEFINE j == k - 1
    <3>1. j \in Nat /\ j < k /\ j <= n /\ k = j + 1 /\ j < MaxRid
      BY <2>3, BoundsAreNats
    <3>2. Restored(g[j], order, j)
      BY <1>4, <3>1
    <3>3. g[k] = RestoreCard(g[j], Entity(db, order[k]), CardOf(order[k]))
      BY <1>1, <1>3, <2>3
    <3>4. /\ \A x, y \in 1 .. j + 1 : x # y => order[x] # order[y]
          /\ \A x \in 1 .. j + 1 : order[x] \in Records(db)
      BY <2>3
    <3> HIDE DEF j
    <3>5. Restored(g[k], order, j + 1)
      BY <3>1, <3>2, <3>3, <3>4, RestoreStep
    <3>6. QED
      BY <3>1, <3>5
  <2>4. QED
    BY <2>1, <2>2, <2>3
<1>5. n \in S
  <2> HIDE DEF S
  <2>1. QED
    BY <1>4, NoLeastMissing
<1>6. QED
  BY <1>2, <1>5

IsTags(tags, d, S) == tags = [i \in 1 .. Cardinality(S) |-> AssignTag(d, SlugAt(S, i))]

LEMMA TagsAreLoaded ==
  ASSUME NEW d, DbOk(d), NEW r \in Records(d)
  PROVE  IsTags(LoadTags(d, r), d, TagsOf(d, r))
BY TagsLoaded DEF IsTags

\* What is found of a copy is what is found of its original, but for the id.
LEMMA CopyIsFound ==
  ASSUME DbOk(db), NEW n, NEW order, NEW v, Restored(v, order, n), NEW k \in 1 .. n,
         NEW r, r = order[k], r \in Records(db)
  PROVE  FindRecord(v.db, k) = [FindRecord(db, r) EXCEPT !.id = k]
<1> DEFINE d == v.db
           row == db.records[r]
           T == TagsOf(db, r)
<1>1. DbOk(d) /\ k \in Records(d) /\ d.records[k] = row /\ TagsOf(d, k) = T
  BY DEF Restored, CopyOf
<1>2. \A s \in T : d.tags[s] = db.tags[s]
  <2>1. \A s \in T : s \in Slugs /\ <<k, s>> \in d.record_tags
    BY <1>1 DEF TagsOf
  <2>2. \A s \in T : d.tags[s] # None
    BY <1>1, <2>1 DEF DbOk, Refs
  <2>3. QED
    BY <2>1, <2>2 DEF Restored
<1>3. d.creators[row.creator_id] = db.creators[row.creator_id]
  <2>1. row.creator_id \in Creators
    BY StoredRows, RowColumns DEF DbOk
  <2>2. d.creators[row.creator_id] # None
    BY <1>1 DEF DbOk, Refs
  <2>3. QED
    BY <2>1, <2>2 DEF Restored
<1>4. LoadTags(d, k) = LoadTags(db, r)
  <2>1. IsTags(LoadTags(db, r), db, T)
    BY TagsAreLoaded
  <2>2. IsTags(LoadTags(d, k), d, T)
    BY <1>1, TagsAreLoaded
  <2>3. T \in SUBSET Slugs
    BY DEF TagsOf
  <2> HIDE DEF T
  <2>4. \A i \in 1 .. Cardinality(T) : SlugAt(T, i) \in T
    BY <2>3, EveryPlace
  <2>5. \A i \in 1 .. Cardinality(T) : AssignTag(d, SlugAt(T, i)) = AssignTag(db, SlugAt(T, i))
    BY <1>2, <2>4 DEF AssignTag
  <2>6. QED
    BY <2>1, <2>2, <2>5 DEF IsTags
<1>5. FindRecord(d, k) = Entity(d, k) /\ FindRecord(db, r) = Entity(db, r)
  BY <1>1, FoundIs
<1>6. Entity(d, k) = [id |-> k, columns |-> row, tags |-> LoadTags(db, r),
                      creator |-> [id |-> row.creator_id, nickname |-> db.creators[row.creator_id]]]
  BY <1>1, <1>3, <1>4, EntityIs
<1>7. Entity(db, r) = [id |-> r, columns |-> row, tags |-> LoadTags(db, r),
                       creator |-> [id |-> row.creator_id, nickname |-> db.creators[row.creator_id]]]
  BY EntityIs
<1> HIDE DEF d, row
<1>8. QED
  BY <1>5, <1>6, <1>7 DEF d

\* What ImportRestores says of one card, and of one folder.
Restores(copy, order, i) ==
  LET rec == FindRecord(db, order[i])
      sheet == sheets[order[i]][rec.columns.update_time]
  IN  /\ FindRecord(copy.db, i) = [rec EXCEPT !.id = i]
      /\ copy.sheets[i] = sheet
      /\ {row.text : row \in {x \in copy.db.fts : x.id = i}} = {sheet.text}

RestoresAll(template, folder) ==
  /\ template.png => Items(folder) = Records(db)
  /\ \A order \in SetToSeqs(Items(folder)) :
       /\ ImportVault(folder, order).err = "none"
       /\ \A i \in DOMAIN order : Restores(ImportVault(folder, order), order, i)

LEMMA ImportRestoresIs ==
  ASSUME \A template \in Templates : RestoresAll(template, ExportVault(template))
  PROVE  ImportRestores
BY DEF ImportRestores, RestoresAll, Restores

\* An exported vault, imported in any order of its files, is the vault exported but
\* for the ids of its records, with any template and any number of cards
\* (export_vault.go, fslibrary.go:196-307, store.go:386-447).
THEOREM ImportDoesRestore == Spec => []ImportRestores
<1>1. AllHeld => ImportRestores
  <2> SUFFICES ASSUME AllHeld, NEW template \in Templates, NEW folder, folder = ExportVault(template)
               PROVE  RestoresAll(template, folder)
    BY ImportRestoresIs
  <2>1. DbOk(db) /\ Counted(db) /\ SheetsTyped(sheets) /\ Held(db, sheets)
    BY DEF AllHeld, InOrder
  <2>2. /\ Items(folder) \subseteq Records(db)
        /\ template.png => Items(folder) = Records(db)
        /\ \A r \in Items(folder) : /\ folder.index[r] = Entity(db, r)
                                    /\ folder.cards[CardFiles(DOMAIN folder.cards)[r]] = CardOf(r)
    <3>1. Items(folder) \subseteq Records(db)
      BY <2>1, FolderHolds
    <3>2. template.png => Items(folder) = Records(db)
      BY <2>1, FolderHolds
    <3>3. QED
      BY <2>1, <3>1, <3>2, FolderHolds
  <2> DEFINE n == Cardinality(Items(folder))
  <2>3. n \in Nat /\ n <= MaxRid
    <3>1. Items(folder) \in SUBSET (1 .. MaxRid)
      BY <2>2 DEF Records, Rids
    <3>2. IsFiniteSet(1 .. MaxRid) /\ Cardinality(1 .. MaxRid) = MaxRid
      BY BoundsAreNats, FS_Interval
    <3>3. QED
      BY <3>1, <3>2, FS_Subset, FS_CardinalityType
  <2>4. ASSUME NEW order \in SetToSeqs(Items(folder)), NEW copy, copy = ImportVault(folder, order)
        PROVE  copy.err = "none" /\ \A i \in DOMAIN order : Restores(copy, order, i)
    <3>1. order \in [1 .. n -> Items(folder)] /\ \A i, j \in 1 .. n : i # j => order[i] # order[j]
      BY DEF SetToSeqs
    <3> HIDE DEF n
    <3>2. order \in Seq(Items(folder)) /\ Len(order) = n
      BY <2>3, <3>1
    <3>3. order \in [1 .. n -> Records(db)]
      BY <2>2, <3>1
    <3>4. Restored(copy, order, n)
      BY <2>1, <2>2, <2>3, <2>4, <3>1, <3>2, <3>3, ImportRestored
    <3>5. copy.err = "none"
      BY <3>4 DEF Restored
    <3>6. ASSUME NEW i \in 1 .. n PROVE Restores(copy, order, i)
      <4> DEFINE rec == FindRecord(db, order[i])
                 sheet == sheets[order[i]][rec.columns.update_time]
      <4>1. order[i] \in Records(db)
        BY <3>3
      <4>2. FindRecord(copy.db, i) = [rec EXCEPT !.id = i]
        BY <2>1, <3>4, <4>1, CopyIsFound
      <4>3. rec = Entity(db, order[i])
        BY <4>1, FoundIs
      <4>4. rec.columns = db.records[order[i]]
        BY <2>1, <4>1, <4>3, EntityIs
      <4>5. sheet = CardOf(order[i])
        BY <4>4 DEF CardOf
      <4>6. CopyOf(copy, i, order[i])
        BY <3>4 DEF Restored
      <4>7. QED
        BY <4>2, <4>5, <4>6 DEF CopyOf, TextsIn, Restores
    <3>7. DOMAIN order = 1 .. n
      BY <3>1
    <3>8. QED
      BY <3>5, <3>6, <3>7
  <2>5. QED
    BY <2>2, <2>4 DEF RestoresAll
<1>2. QED
  BY <1>1, CardsHeld, PTL
=============================================================================
