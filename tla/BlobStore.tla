------------------------------ MODULE BlobStore ------------------------------
(***************************************************************************)
(* What a blob store promises: Put, DeleteVersion, DeleteVersions and      *)
(* Delete on whole cards, each in one step, in either engine; a call that  *)
(* fails changes nothing.  BlobEngines shows how the engines do it.        *)
(* Writers of one card do not overlap because the catalog calls the store  *)
(* under the lock of the record store (module CardCatalog).                *)
(*                                                                         *)
(* pblob deletes one version with Pebble's SingleDelete, which cancels one *)
(* Set only.  If the key was set twice, a compaction may cancel the newer  *)
(* Set against the delete and leave the older one: "under" holds what lies *)
(* under the current entry of a key, and Compact is the compaction.        *)
(***************************************************************************)
EXTENDS BlobOps

CONSTANTS Rids,
          Offered    \* Offered[r]: the versions and contents <<v, c>> put for item r

VARIABLES engine,    \* which implementation this store is (fixed)
          cards,     \* cards[r]: the card of item r
          thumbs,    \* thumbs[r]: the content the thumbnail of r was made from
          under,     \* under[r][v]: an older Set of the key that Pebble still has
          extra,     \* extra[r]: history, versions that no pruning made room for
          last       \* last[r]: history, the last Put of r since it was deleted

vars == <<engine, cards, thumbs, under, extra, last>>

NoPut == <<>>

Init ==
  /\ engine \in Engines
  /\ cards = [r \in Rids |-> NoCard]
  /\ thumbs = [r \in Rids |-> None]
  /\ under = [r \in Rids |-> NoCard]
  /\ extra = [r \in Rids |-> {}]
  /\ last = [r \in Rids |-> NoPut]

\* The versions below the ones that pblob's Put of v keeps are range-deleted.
Pruned(card, v) ==
  LET S == VersionsOf(card)
  IN  IF v \in S \/ Cardinality(S) < MaxVersions THEN {}
      ELSE {w \in Versions : \A x \in Newest(S, MaxVersions - 1) : w < x}

\* What Pebble has under the entries after a Put of v that pruned some versions.
UnderAfterPut(card, low, v, pruned) ==
  [w \in Versions |-> IF engine = "sqlblob" \/ w \in pruned THEN None
                      ELSE IF w = v /\ card[w] # None THEN card[w]
                      ELSE low[w]]

Put(r, v, c) ==
  /\ cards' = [cards EXCEPT ![r] = AfterPut(engine, @, v, c)]
  /\ under' = [under EXCEPT ![r] = UnderAfterPut(cards[r], @, v, Pruned(cards[r], v))]
  /\ thumbs' = [thumbs EXCEPT ![r] = c]
  /\ last' = [last EXCEPT ![r] = <<v, c>>]
  /\ extra' = [extra EXCEPT ![r] = @ \cap VersionsOf(cards'[r])]
  /\ UNCHANGED engine

\* pblob: the context is cancelled while the versions are listed, which gives
\* none (pblob/store.go:174), so none is pruned; Pebble commits all the same.
PutCancelled(r, v, c) ==
  /\ engine = "pblob"
  /\ cards' = [cards EXCEPT ![r][v] = c]
  /\ under' = [under EXCEPT ![r] = UnderAfterPut(cards[r], @, v, {})]
  /\ thumbs' = [thumbs EXCEPT ![r] = c]
  /\ last' = [last EXCEPT ![r] = <<v, c>>]
  /\ extra' = [extra EXCEPT ![r] = IF v \in VersionsOf(cards[r]) THEN @ ELSE @ \cup {v}]
  /\ UNCHANGED engine

DeleteVersion(r, v) ==
  /\ cards' = [cards EXCEPT ![r][v] = None]
  /\ extra' = [extra EXCEPT ![r] = @ \ {v}]
  /\ last' = [last EXCEPT ![r] = IF @ # NoPut /\ @[1] = v THEN NoPut ELSE @]
  /\ UNCHANGED <<engine, thumbs, under>>

\* The versions in [lower, upper) go, with what lies under them.
DeleteVersions(r, lower, upper) ==
  LET cut(card) == [v \in Versions |-> IF lower <= v /\ v < upper THEN None ELSE card[v]]
  IN  /\ cards' = [cards EXCEPT ![r] = cut(@)]
      /\ under' = [under EXCEPT ![r] = cut(@)]
      /\ extra' = [extra EXCEPT ![r] = {v \in @ : ~(lower <= v /\ v < upper)}]
      /\ last' = [last EXCEPT ![r] = IF @ # NoPut /\ lower <= @[1] /\ @[1] < upper THEN NoPut ELSE @]
      /\ UNCHANGED <<engine, thumbs>>

\* All versions and the thumbnails of several items go, in one transaction.
Delete(rs) ==
  /\ cards' = [r \in Rids |-> IF r \in rs THEN NoCard ELSE cards[r]]
  /\ under' = [r \in Rids |-> IF r \in rs THEN NoCard ELSE under[r]]
  /\ thumbs' = [r \in Rids |-> IF r \in rs THEN None ELSE thumbs[r]]
  /\ extra' = [r \in Rids |-> IF r \in rs THEN {} ELSE extra[r]]
  /\ last' = [r \in Rids |-> IF r \in rs THEN NoPut ELSE last[r]]
  /\ UNCHANGED engine

\* Pebble cancels the newest Set of a key with the delete above it, or drops
\* the older Set that the newest hides.
Compact(r, v) ==
  /\ under[r][v] # None
  /\ under' = [under EXCEPT ![r][v] = None]
  /\ IF cards[r][v] = None
     THEN /\ cards' = [cards EXCEPT ![r][v] = under[r][v]]
          /\ extra' = [extra EXCEPT ![r] = @ \cup {v}]
     ELSE UNCHANGED <<cards, extra>>
  /\ UNCHANGED <<engine, thumbs, last>>

Next ==
  \/ \E r \in Rids :
       \/ \E p \in Offered[r] : Put(r, p[1], p[2]) \/ PutCancelled(r, p[1], p[2])
       \/ \E v \in Versions : DeleteVersion(r, v) \/ Compact(r, v)
       \/ \E lower, upper \in Versions : lower < upper /\ DeleteVersions(r, lower, upper)
  \/ \E rs \in SUBSET Rids : Delete(rs)

Spec == Init /\ [][Next]_vars
============================================================================
