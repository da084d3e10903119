----------------------------- MODULE BlobEngines -----------------------------
(***************************************************************************)
(* The two blob stores as they are written, which implement BlobStore:     *)
(* pblob on the ordered keys of Pebble, one indexed batch per call, and    *)
(* sqlblob on two SQLite tables, one SQL transaction per call.             *)
(***************************************************************************)
EXTENDS BlobOps, SequencesExt

CONSTANTS Rids, Offered,   \* as in BlobStore
          SignBit          \* 2^63, which is the sign of an int64

ASSUME RidsAreNats == Rids \subseteq Nat
ASSUME OfferedIsWhatMayBePut == \A r \in Rids : Offered[r] \subseteq Versions \X Contents
ASSUME VersionsFit == SignBit \in Nat \ {0} /\ \A v \in Versions : v < SignBit

VARIABLES
  engine,    \* which implementation this store is (fixed)
  db,        \* pblob: what Pebble has, sqlblob: the tables
  extra,     \* history, as in BlobStore
  last       \* history, as in BlobStore

vars == <<engine, db, extra, last>>

Ok(d) == [db |-> d, err |-> FALSE]
Fail == [db |-> db, err |-> TRUE]

\* f, in which k has the value c from now on (@@ and :> of TLC are not expanded by the provers).
With(f, k, c) == [x \in DOMAIN f \cup {k} |-> IF x = k THEN c ELSE f[x]]

\* S in order (SetToSortSeq goes through all sequences).
Sorted(S, Before(_, _)) ==
  [i \in 1 .. Cardinality(S) |-> CHOOSE x \in S : Cardinality({y \in S : Before(y, x)}) = i - 1]

----------------------------------------------------------------------------
(* Keys: an item's id, a type and a version, each in as many bytes as all  *)
(* of its kind, so that bytes are compared as these numbers are.           *)

pngType == 0
thumbnailType == 127
minType == 0
maxType == 255

\* The sign bit is flipped, for negative times to come first.
Version(v) == (v + SignBit) % (2 * SignBit)
GetVersion(key) == (key[3] + SignBit) % (2 * SignBit)

CardKey(r, v) == <<r, pngType, Version(v)>>
ThumbnailKey(r) == <<r, thumbnailType>>

\* The order of bytes, in which a prefix comes first.
Less(a, b) ==
  \/ a[1] < b[1]
  \/ a[1] = b[1] /\ a[2] < b[2]
  \/ a[1] = b[1] /\ a[2] = b[2] /\ Len(b) = 3 /\ (Len(a) = 3 => a[3] < b[3])

----------------------------------------------------------------------------
(* Pebble, or a batch of it: kv is what is read, under what lies below a   *)
(* card's entry.  No thumbnail is deleted by SingleDelete.                 *)

NoBound == <<>>

Iter(d, lower, upper) ==
  Sorted({k \in DOMAIN d.kv : (lower # NoBound => ~Less(k, lower)) /\ (upper # NoBound => Less(k, upper))}, Less)

Get(d, k) == IF k \in DOMAIN d.kv THEN d.kv[k] ELSE None

Set(d, k, c) ==
  [kv    |-> With(d.kv, k, c),
   under |-> IF k \in DOMAIN d.kv /\ k[2] = pngType THEN With(d.under, k, d.kv[k]) ELSE d.under]

SingleDelete(d, k) == [kv |-> Restrict(d.kv, DOMAIN d.kv \ {k}), under |-> d.under]

InRange(k, start, end) == ~Less(k, start) /\ Less(k, end)

\* One DeleteRange per pair of keys; in which order does not matter.
DeleteRanges(d, ranges) ==
  LET Outside(f) == Restrict(f, {k \in DOMAIN f : \A range \in ranges : ~InRange(k, range[1], range[2])})
  IN  [kv |-> Outside(d.kv), under |-> Outside(d.under)]

DeleteRange(d, start, end) == DeleteRanges(d, {<<start, end>>})

----------------------------------------------------------------------------
(* pblob *)

PebbleEmpty == [kv |-> <<>>, under |-> <<>>]

\* The id of each key whose id is not that of the key before.
PebbleRIDs(d) ==
  LET keys == Iter(d, NoBound, NoBound)
      new == Sorted({i \in DOMAIN keys : i = 1 \/ keys[i - 1][1] # keys[i][1]}, <)
  IN  [j \in DOMAIN new |-> keys[new[j]][1]]

\* None if the context is cancelled.
PebbleVersions(d, r, cancelled) ==
  LET keys == Iter(d, <<r, pngType>>, <<r, pngType + 1>>)
  IN  IF cancelled THEN <<>> ELSE [i \in DOMAIN keys |-> GetVersion(keys[i])]

KeyExists(d, k) ==
  LET keys == Iter(d, k, NoBound)
  IN  keys # <<>> /\ keys[1] = k

PebbleGet(d, r, v) == Get(d, CardKey(r, v))

PebbleThumbnail(d, r) == Get(d, ThumbnailKey(r))

\* [mutant] the index without the + 1 that makes room for the new version.
PebbleDeleteOneLess(d, r, cancelled) ==
  LET versions == PebbleVersions(d, r, cancelled)
  IN  IF Len(versions) < MaxVersions THEN d
      ELSE DeleteRange(d, CardKey(r, 0), CardKey(r, versions[Len(versions) - MaxVersions + 1]))

\* The slice's index is Len - MaxVersions + 1, counted from 0.
PebbleDeleteOldVersions(d, r, cancelled) ==
  LET versions == PebbleVersions(d, r, cancelled)
  IN  IF Len(versions) < MaxVersions THEN d
      ELSE DeleteRange(d, CardKey(r, 0), CardKey(r, versions[Len(versions) - MaxVersions + 2]))

PebblePut(r, v, c, cancelled) ==
  LET room == IF KeyExists(db, CardKey(r, v)) THEN db ELSE PebbleDeleteOldVersions(db, r, cancelled)
  IN  Ok(Set(Set(room, ThumbnailKey(r), c), CardKey(r, v), c))

\* [mutant] the range ends before the thumbnail.
PebbleDeletePng(d, rs) == DeleteRanges(d, {<<<<r, minType>>, <<r, thumbnailType>>>> : r \in rs})

PebbleDelete(d, rs) == DeleteRanges(d, {<<<<r, minType>>, <<r, maxType>>>> : r \in rs})

----------------------------------------------------------------------------
(* sqlblob: cards[<<rid, version>>] and thumbs[rid] are the rows' contents *)

SqlEmpty == [cards |-> <<>>, thumbs |-> <<>>]

SqlVersionSet(d, r) == {k[2] : k \in {x \in DOMAIN d.cards : x[1] = r}}

SqlRIDs(d) == Sorted({k[1] : k \in DOMAIN d.cards}, <)

SqlVersions(d, r) == Sorted(SqlVersionSet(d, r), <)

SqlGet(d, r, v) == IF <<r, v>> \in DOMAIN d.cards THEN d.cards[<<r, v>>] ELSE None

SqlThumbnail(d, r) == IF r \in DOMAIN d.thumbs THEN d.thumbs[r] ELSE None

SqlVersionExists(d, r, v) == \E k \in DOMAIN d.cards : k[1] = r /\ k[2] = v

SqlDeleteWhere(d, r, versions) ==
  [cards |-> Restrict(d.cards, {k \in DOMAIN d.cards : ~(k[1] = r /\ k[2] \in versions)}),
   thumbs |-> d.thumbs]

\* [mutant] the oldest are kept.
SqlDeleteNewVersions(d, r) ==
  LET versions == SqlVersions(d, r)
  IN  IF Len(versions) <= MaxVersions THEN d
      ELSE SqlDeleteWhere(d, r, {v \in Versions : v > versions[MaxVersions]})

SqlDeleteOldVersions(d, r) ==
  LET versions == SqlVersions(d, r)
      deleteUpTo == versions[Len(versions) - MaxVersions + 1]
  IN  IF Len(versions) <= MaxVersions THEN d
      ELSE SqlDeleteWhere(d, r, {v \in Versions : v < deleteUpTo})

\* [mutant] a thumbnail that is there is kept.
SqlPutKeepThumb(r, v, c, cancelled) ==
  LET put == [cards  |-> With(db.cards, <<r, v>>, c),
              thumbs |-> IF r \in DOMAIN db.thumbs THEN db.thumbs ELSE With(db.thumbs, r, c)]
  IN  IF cancelled THEN Fail ELSE Ok(SqlDeleteOldVersions(put, r))

SqlPut(r, v, c, cancelled) ==
  LET put == [cards |-> With(db.cards, <<r, v>>, c), thumbs |-> With(db.thumbs, r, c)]
  IN  IF cancelled THEN Fail ELSE Ok(SqlDeleteOldVersions(put, r))

SqlDelete(d, rs) ==
  [cards  |-> Restrict(d.cards, {k \in DOMAIN d.cards : k[1] \notin rs}),
   thumbs |-> Restrict(d.thumbs, DOMAIN d.thumbs \ rs)]

----------------------------------------------------------------------------
(* The store *)

RIDs == IF engine = "pblob" THEN PebbleRIDs(db) ELSE SqlRIDs(db)

VersionsIn(r) == IF engine = "pblob" THEN PebbleVersions(db, r, FALSE) ELSE SqlVersions(db, r)

VersionExists(r, v) ==
  IF engine = "pblob" THEN KeyExists(db, CardKey(r, v)) ELSE SqlVersionExists(db, r, v)

GetCard(r, v) == IF engine = "pblob" THEN PebbleGet(db, r, v) ELSE SqlGet(db, r, v)

Thumbnail(r) == IF engine = "pblob" THEN PebbleThumbnail(db, r) ELSE SqlThumbnail(db, r)

\* The batch or transaction is committed, or dropped.
WithTx(r) == db' = IF r.err THEN db ELSE r.db

Init ==
  /\ engine \in Engines
  /\ db = IF engine = "pblob" THEN PebbleEmpty ELSE SqlEmpty
  /\ extra = [r \in Rids |-> {}]
  /\ last = [r \in Rids |-> <<>>]

\* The context may be cancelled while it runs.
Put(r, v, c) ==
  /\ UNCHANGED engine
  /\ \E cancelled \in BOOLEAN :
       LET put == IF engine = "pblob" THEN PebblePut(r, v, c, cancelled) ELSE SqlPut(r, v, c, cancelled)
       IN  /\ WithTx(put)
           /\ last' = IF put.err THEN last ELSE [last EXCEPT ![r] = <<v, c>>]
           /\ extra' = IF put.err THEN extra
                       ELSE [extra EXCEPT ![r] = IF ~cancelled THEN @ \cap ToSet(VersionsIn(r))'
                                                 ELSE IF GetCard(r, v) # None THEN @ ELSE @ \cup {v}]

\* The thumbnail or the image cannot be made: after pblob pruned, between sqlblob's statements.
PutFails(r) == WithTx(Fail) /\ UNCHANGED <<engine, extra, last>>

DeleteVersion(r, v) ==
  /\ WithTx(Ok(IF engine = "pblob" THEN SingleDelete(db, CardKey(r, v)) ELSE SqlDeleteWhere(db, r, {v})))
  /\ extra' = [extra EXCEPT ![r] = @ \ {v}]
  /\ last' = [last EXCEPT ![r] = IF @ # <<>> /\ @[1] = v THEN <<>> ELSE @]
  /\ UNCHANGED engine

DeleteVersions(r, lower, upper) ==
  LET range == {v \in Versions : lower <= v /\ v < upper}
  IN  /\ WithTx(Ok(IF engine = "pblob" THEN DeleteRange(db, CardKey(r, lower), CardKey(r, upper))
                   ELSE SqlDeleteWhere(db, r, range)))
      /\ extra' = [extra EXCEPT ![r] = @ \ range]
      /\ last' = [last EXCEPT ![r] = IF @ # <<>> /\ @[1] \in range THEN <<>> ELSE @]
      /\ UNCHANGED engine

\* Several items, as the catalog deletes them in one transaction (catalog.go:260).
Delete(rs) ==
  /\ WithTx(Ok(IF engine = "pblob" THEN PebbleDelete(db, rs) ELSE SqlDelete(db, rs)))
  /\ extra' = [r \in Rids |-> IF r \in rs THEN {} ELSE extra[r]]
  /\ last' = [r \in Rids |-> IF r \in rs THEN <<>> ELSE last[r]]
  /\ UNCHANGED engine

\* As in BlobStore, of Pebble's entries.
Compact(k) ==
  /\ engine = "pblob"
  /\ k \in DOMAIN db.under
  /\ db' = [kv    |-> IF k \in DOMAIN db.kv THEN db.kv ELSE With(db.kv, k, db.under[k]),
            under |-> Restrict(db.under, DOMAIN db.under \ {k})]
  /\ extra' = IF k \in DOMAIN db.kv THEN extra ELSE [extra EXCEPT ![k[1]] = @ \cup {GetVersion(k)}]
  /\ UNCHANGED <<engine, last>>

Next ==
  \/ \E r \in Rids :
       \/ \E p \in Offered[r] : Put(r, p[1], p[2])
       \/ PutFails(r)
       \/ \E v \in Versions : DeleteVersion(r, v) \/ Compact(CardKey(r, v))
       \/ \E lower, upper \in Versions : lower < upper /\ DeleteVersions(r, lower, upper)
  \/ \E rs \in SUBSET Rids : Delete(rs)

Spec == Init /\ [][Next]_vars

----------------------------------------------------------------------------
(* Properties *)

UnderCard(r, v) ==
  IF engine = "pblob" /\ CardKey(r, v) \in DOMAIN db.under THEN db.under[CardKey(r, v)] ELSE None

B == INSTANCE BlobStore WITH
       cards  <- [r \in Rids |-> [v \in Versions |-> GetCard(r, v)]],
       thumbs <- [r \in Rids |-> Thumbnail(r)],
       under  <- [r \in Rids |-> [v \in Versions |-> UnderCard(r, v)]]

\* Ranges of ordered keys and rows of tables amount to operations on whole cards:
\* none touches another item's keys, misses the thumbnail or prunes at the wrong
\* end, and a call that fails leaves nothing (pblob/store.go:190-327, key.go).
ImplementsBlobStore == B!Spec

\* Pruning holds every card to MaxVersions versions, whatever the order of the
\* versions put (pblob/store.go:314-327, sqlblob/store.go:363-374), except for
\* versions that came back in a compaction or went in with a cancelled context.
Retention == \A r \in Rids : Cardinality(ToSet(VersionsIn(r)) \ extra[r]) <= MaxVersions

\* A Put of a version newer than all others, with a context that is not
\* cancelled, keeps the newest MaxVersions: the two engines, one pruning before
\* the insert and one after, agree.
NewestSurvive == [][\A r \in Rids :
  LET old == ToSet(VersionsIn(r))
      put == last'[r]
  IN  (put \notin {<<>>, last[r]} /\ (\A w \in old : w < put[1]) /\ put[1] \notin extra'[r])
        => ToSet(VersionsIn(r))' = Newest(old \cup {put[1]}, MaxVersions)]_vars

\* The card of the last Put exists and can be read back, with the thumbnail made
\* from it, and RIDs lists its item once (pblob also if the thumbnail alone is
\* left), unless sqlblob had MaxVersions newer ones and pruned it at once.
LastPutReadable == \A r \in Rids : last[r] # <<>> =>
  /\ Thumbnail(r) = last[r][2]
  /\ VersionExists(r, last[r][1]) = (GetCard(r, last[r][1]) # None)
  /\ Cardinality({i \in DOMAIN RIDs : RIDs[i] = r}) = IF engine = "sqlblob" /\ VersionsIn(r) = <<>> THEN 0 ELSE 1
  /\ \/ GetCard(r, last[r][1]) = last[r][2]
     \/ engine = "sqlblob" /\ GetCard(r, last[r][1]) = None
============================================================================
