------------------------------ MODULE RecordOps ------------------------------
(***************************************************************************)
(* What the record store (erecord, SQLite) and the cards beside it do with *)
(* one call, as functions of a vault's content:                            *)
(*   rows[u]      the record of the card with URL u, as in table records,  *)
(*                with the slugs of record_tags;                           *)
(*   creators[c]  the nickname in table creators, tags[s] the name of a    *)
(*                tag, fts[u] the texts of the rows that table fts has for *)
(*                the record;                                              *)
(*   sheets[u][t] the sheet in the card of version t.                      *)
(* Each call is one exclusive transaction and happens as a whole or not at *)
(* all (CardCatalog is about the rest).  The descriptive fields that a     *)
(* record and its sheet share are one title; complete says that the sheet  *)
(* is complete and its notes begin with the record's tagline.  A record is *)
(* named by its URL.                                                       *)
(***************************************************************************)
EXTENDS Integers, FiniteSets, SequencesExt

CONSTANTS Urls, Creators, Nicknames, Titles, Names, Texts,
          Slugs,      \* ids of tags, by which SQL sorts them
          MaxTime,    \* bound: the latest update time on the website
          PerSecond,  \* units of time in a second
          None

ASSUME SlugsAreInts == Slugs \subseteq Int /\ IsFiniteSet(Slugs)
ASSUME TimesAreNats == MaxTime \in Nat /\ PerSecond \in Nat \ {0}
ASSUME NoneIsNoValue == None \notin Nicknames \cup Names

Times == 1 .. MaxTime
Statuses == {"SUCCESS", "FAILED"}

\* A sheet keeps its times in seconds.
Seconds(t) == t \div PerSecond

\* What the fetcher reads of a card; names[s] is its name for the tag s.
Metadata == [creator : Creators, nick : Nicknames, title : Titles, update : Times,
             book : 0 .. MaxTime, greetings : 0 .. 1,
             names : UNION {[S -> Names] : S \in SUBSET Slugs}]

Sheets == [creator : Nicknames, title : Titles, modified : 0 .. MaxTime, tags : Seq(Names),
           greetings : 0 .. 1, book : BOOLEAN, complete : BOOLEAN, text : Texts]

\* mark: the favorite flag and the export data.
Rows == [creator : Creators, tags : SUBSET Slugs, title : Titles, update : Times,
         book : 0 .. MaxTime, greetings : 0 .. 1, mark : BOOLEAN, status : Statuses]

ASSUME NoneIsNoRow == None \notin Rows /\ None \notin Sheets

EmptyVault == [rows     |-> [u \in Urls |-> None],
               creators |-> [c \in Creators |-> None],
               tags     |-> [s \in Slugs |-> None],
               fts      |-> [u \in Urls |-> {}],
               sheets   |-> [u \in Urls |-> [t \in Times |-> None]]]

Stored(v) == {u \in Urls : v.rows[u] # None}

----------------------------------------------------------------------------
(* Reading and writing                                                     *)

\* FindRecord: the row with its creator's nickname and its tags' names; without
\* mark and status it is also the metadata that ToMetadata makes of a record.
Record(v, u) ==
  LET row == v.rows[u]
  IN  [creator |-> row.creator, nick |-> v.creators[row.creator], title |-> row.title,
       update |-> row.update, book |-> row.book, greetings |-> row.greetings,
       names |-> [s \in row.tags |-> v.tags[s]]]

\* The names of a record's tags, in the order of their slugs: before the i-th
\* there are i - 1 smaller ones.
Before(slugs, s) == Cardinality({t \in slugs : t < s})

TagNames(names) ==
  [i \in 1 .. Cardinality(DOMAIN names) |->
     names[CHOOSE s \in DOMAIN names : Before(DOMAIN names, s) = i - 1]]

\* [mutant] a tag takes the name given last, as a creator does.
UpsertTagsNewNames(tags, names) ==
  [s \in Slugs |-> IF s \in DOMAIN names THEN names[s] ELSE tags[s]]

\* A tag keeps the name given first.
UpsertTags(tags, names) ==
  [s \in Slugs |-> IF s \in DOMAIN names /\ tags[s] = None THEN names[s] ELSE tags[s]]

\* [mutant] a save of a known record does not write the number of greetings.
RowKeepsGreetings(v, u, m, mark, status) ==
  [creator |-> m.creator, tags |-> DOMAIN m.names, title |-> m.title, update |-> m.update,
   book |-> m.book, greetings |-> IF v.rows[u] = None THEN m.greetings ELSE v.rows[u].greetings,
   mark |-> mark, status |-> status]

\* What an insert or a conflict on the URL leaves in table records.
RowAfter(v, u, m, mark, status) ==
  [creator |-> m.creator, tags |-> DOMAIN m.names, title |-> m.title, update |-> m.update,
   book |-> m.book, greetings |-> m.greetings, mark |-> mark, status |-> status]

\* SaveCard: the statements of SaveRecord and the Put of the card.  The record keeps
\* its mark, the card gets the names in the store, and the fts row is inserted, for
\* its id is no key that could conflict.
SaveCard(v, u, m, sheet) ==
  LET tags == UpsertTags(v.tags, m.names)
      names == TagNames([s \in DOMAIN m.names |-> tags[s]])
  IN  [rows     |-> [v.rows EXCEPT ![u] = RowAfter(v, u, m, @ # None /\ @.mark, "SUCCESS")],
       creators |-> [v.creators EXCEPT ![m.creator] = m.nick],
       tags     |-> tags,
       fts      |-> [v.fts EXCEPT ![u] = @ \cup {sheet.text}],
       sheets   |-> [v.sheets EXCEPT ![u][m.update] = [sheet EXCEPT !.tags = names]]]

\* [mutant] without the trigger on table records.
DeleteWithoutTrigger(v, u) ==
  [v EXCEPT !.rows[u] = None, !.sheets[u] = [t \in Times |-> None]]

\* Delete: record_tags cascades, the trigger clears fts, creators and tags stay.
DeleteCard(v, u) ==
  [v EXCEPT !.rows[u] = None, !.fts[u] = {}, !.sheets[u] = [t \in Times |-> None]]

CleanupCreators(v) ==
  [v EXCEPT !.creators = [c \in Creators |->
     IF \E u \in Stored(v) : v.rows[u].creator = c THEN @[c] ELSE None]]

----------------------------------------------------------------------------
(* Repairing                                                               *)

LatestUpdateTime(r) == IF r.book > r.update THEN r.book ELSE r.update

SyncSheetFields(r, sheet) ==
  [sheet EXCEPT !.title = r.title, !.creator = r.nick, !.tags = TagNames(r.names),
                !.modified = Seconds(LatestUpdateTime(r))]

SyncRecordFields(r, sheet) ==
  [r EXCEPT !.greetings = sheet.greetings,
            !.book = IF ~sheet.book THEN 0 ELSE IF @ = 0 THEN LatestUpdateTime(r) ELSE @]

\* FixIntegrity.  The record's fields are synced only if the sheet's needed no
\* change: the two calls are the operands of one ||.
FixIntegrity(r, sheet) ==
  LET newSheet == SyncSheetFields(r, sheet)
      newRecord == IF newSheet = sheet THEN SyncRecordFields(r, sheet) ELSE r
  IN  [record |-> newRecord, sheet |-> newSheet,
       integrity |-> IF ~sheet.complete THEN "BROKEN"
                     ELSE IF newSheet # sheet \/ newRecord # r THEN "FIXED" ELSE "OK"]

\* FixRecordIntegrity with a record r that was read before: what it returns ...
Integrity(v, u, r) ==
  IF v.sheets[u][r.update] = None THEN "BROKEN"
  ELSE FixIntegrity(r, v.sheets[u][r.update]).integrity

\* ... and what it leaves behind.
FixRecordIntegrity(v, u, r) ==
  IF Integrity(v, u, r) # "FIXED" THEN v
  ELSE LET fix == FixIntegrity(r, v.sheets[u][r.update])
       IN  SaveCard(v, u, fix.record, fix.sheet)
=============================================================================
