------------------------------ MODULE EntTables ------------------------------
(***************************************************************************)
(* The tables of a vault's record database and what a statement does to    *)
(* them.  A database is                                                    *)
(*   records[rid]   the row with that id, or None;                         *)
(*   creators[c]    the nickname in the creator's row, or None;            *)
(*   tags[s]        the name in the tag's row, or None;                    *)
(*   record_tags    the pairs of a record's and a tag's id;                *)
(*   fts            the rows [id, text] of the full-text table;            *)
(*   seq            the largest id that was ever given out.                *)
(* The descriptive columns (direct_url, title, name, tagline, create_time, *)
(* is_fork) are one title, both import columns one import, both sync and   *)
(* both export columns one each; username, platform_id and source of a     *)
(* creator follow from its id.                                             *)
(* A statement gives [db, id, err]; one that fails leaves db as it is.     *)
(***************************************************************************)
EXTENDS Integers, FiniteSets, SequencesExt

CONSTANTS Urls, Creators, Nicknames, Titles, Names, Texts, Slugs, None,
          Sources, Ids,     \* ids that websites give to cards and characters
          MaxTime,          \* bound: the latest time
          MaxRid            \* bound: ids of records

ASSUME SlugsAreInts == Slugs \subseteq Int /\ IsFiniteSet(Slugs)
ASSUME BoundsAreNats == MaxTime \in Nat /\ MaxRid \in Nat
ASSUME NoneIsNoValue == None \notin Nicknames \cup Names

Rids == 1 .. MaxRid

Columns == {"import", "source", "normalized_url", "platform_id", "character_id", "title",
            "creator_id", "update_time", "book_update_time", "greetings_count",
            "sync_status", "exported", "favorite"}

SyncStatuses == {"UNCHANGED", "SUCCESS", "FAILED", "MISSING"}

Rows == [import : 0 .. MaxTime, source : Sources, normalized_url : Urls, platform_id : Ids,
         character_id : Ids, title : Titles, creator_id : Creators, update_time : 1 .. MaxTime,
         book_update_time : 0 .. MaxTime, greetings_count : -1 .. 1,
         sync_status : SyncStatuses, exported : {-1} \cup 1 .. MaxTime, favorite : BOOLEAN]

ASSUME NoneIsNoRow == None \notin Rows

EmptyDb == [records |-> [r \in Rids |-> None], creators |-> [c \in Creators |-> None],
            tags |-> [s \in Slugs |-> None], record_tags |-> {}, fts |-> {}, seq |-> 0]

Records(db) == {r \in Rids : db.records[r] # None}
CreatorRows(db) == {c \in Creators : db.creators[c] # None}
TagRows(db) == {s \in Slugs : db.tags[s] # None}

Ok(db, id) == [db |-> db, id |-> id, err |-> "none"]
Fail(db, err) == [db |-> db, id |-> 0, err |-> err]

----------------------------------------------------------------------------
(* Constraints *)

\* [mutant] the ids that a website gives to characters are not kept apart.
UniqueIndexesOfCards == {{"source", "platform_id"}, {"normalized_url"}}

UniqueIndexes == {{"source", "character_id"}, {"source", "platform_id"}, {"normalized_url"}}

\* Another row than r has the values of one of the unique indexes.
IsTaken(db, r, row) ==
  \E index \in UniqueIndexes, other \in Records(db) \ {r} :
    \A c \in index : db.records[other][c] = row[c]

PutRecord(db, r, row) ==
  IF IsTaken(db, r, row) \/ row.creator_id \notin CreatorRows(db) THEN Fail(db, "constraint")
  ELSE Ok([db EXCEPT !.records[r] = row, !.seq = IF r > @ THEN r ELSE @], r)

----------------------------------------------------------------------------
(* Statements *)

\* DO UPDATE SET column = excluded.column, of the columns named.
SetExcluded(row, excluded, columns) == [c \in Columns |-> IF c \in columns THEN excluded[c] ELSE row[c]]

\* INSERT INTO records ... ON CONFLICT (conflict.columns) DO UPDATE SET
\* conflict.update RETURNING id.  Only the conflict that is named is resolved.
\* The new id is larger than all before it, those of deleted rows too.
InsertRecord(db, row, conflict) ==
  LET same == {r \in Records(db) : \A c \in conflict.columns : db.records[r][c] = row[c]}
  IN  IF same = {} THEN PutRecord(db, db.seq + 1, row)
      ELSE LET r == CHOOSE r \in same : TRUE
           IN  PutRecord(db, r, SetExcluded(db.records[r], row, conflict.update))

\* UPDATE records SET ... WHERE id = r, and then the edges in record_tags: those
\* to clear first.
UpdateRecord(db, r, values, clear, add) ==
  LET row == [c \in Columns |-> IF c \in DOMAIN values THEN values[c] ELSE db.records[r][c]]
      put == PutRecord(db, r, row)
  IN  IF r \notin Records(db) THEN Fail(db, "not found")
      ELSE IF put.err # "none" THEN put
      ELSE IF ~(add \subseteq TagRows(db)) THEN Fail(db, "constraint")
      ELSE Ok([put.db EXCEPT !.record_tags = (@ \ ({r} \X clear)) \cup ({r} \X add)], r)

\* DELETE FROM records: record_tags cascades, the trigger fts_tr clears fts.
DeleteRecords(db, rids) ==
  [db EXCEPT !.records = [r \in Rids |-> IF r \in rids THEN None ELSE @[r]],
             !.record_tags = {e \in @ : e[1] \notin rids},
             !.fts = {row \in @ : row.id \notin rids}]
=============================================================================
