-------------------------- MODULE CardCatalogProofs --------------------------
(***************************************************************************)
(* Proofs about CardCatalog, for any callers, cards, versions and bounds.  *)
(*                                                                         *)
(* An item is settled when its record and its card agree, or the history   *)
(* says why not.  All items are, but for the one of the call that is       *)
(* between its two commits; what that call has put (PutDone) or deleted    *)
(* settles it whether the record transaction is committed or not.  A check *)
(* is exact because what it has read of the records can only become stale  *)
(* by a call that is in check.since or in late (Checking).                 *)
(***************************************************************************)
EXTENDS CardCatalog, BlobEnginesProofs

\* The card has MaxVersions versions; all of them newer than v.
Full(card) == Cardinality(VersionsOf(card)) >= MaxVersions
TooOld(card, v) == Cardinality(VersionsOf(card)) = MaxVersions /\ \A w \in VersionsOf(card) : w > v

\* What RecordHasCard says of a record.
HasCard(e, rec, card, thumb, l) ==
  \/ card[rec.version] = rec.url /\ thumb = rec.url
  \/ l = "delete"
  \/ l = "put" /\ Full(card)
  \/ e = "sqlblob" /\ TooOld(card, rec.version)

InBlobs(e, card, thumb) == card # NoCard \/ (e = "pblob" /\ thumb # None)

Settled(e, rec, card, thumb, l) ==
  /\ rec # None => HasCard(e, rec, card, thumb, l)
  /\ l = "none" => (rec # None <=> InBlobs(e, card, thumb))

\* What a Put for rec leaves, if the item's record is old.
PutDone(e, old, card, thumb, l, rec) ==
  /\ VersionsOf(card) # {} /\ thumb = rec.url
  /\ card[rec.version] = rec.url \/ (e = "sqlblob" /\ TooOld(card, rec.version))
  /\ old # None => card[old.version] = old.url \/ l = "delete" \/ Full(card)

-----------------------------------------------------------------------------
(* The invariant                                                           *)

Control ==
  /\ lock \in Writers \cup {Nobody}
  /\ pc \in [Writers -> {"idle", "blob", "commit", "cancelled"}]
  /\ job \in [Writers -> SaveJobs \cup DeleteJobs \cup {NoJob}]
  /\ \A w \in Writers : (pc[w] = "idle" <=> job[w] = NoJob) /\ (lock = w <=> pc[w] # "idle")

Stores ==
  /\ blobEngine \in Engines
  /\ records \in [Ids -> Records \cup {None}]
  /\ seq \in 0 .. MaxSeq
  /\ cards \in [Ids -> Cards]
  /\ thumbs \in [Ids -> Contents \cup {None}]

Histories ==
  /\ late \in [Ids -> {"none", "put", "delete"}]
  /\ failures \in 0 .. MaxFailures
  /\ check \in Reads \cup [step : {"done"}, ok : BOOLEAN] \cup {NotChecking}

Bounded == \A r \in Ids : IsFiniteSet(VersionsOf(cards[r])) /\ (records[r] # None => r <= seq)

\* A call is between its two commits.
Committing == lock # Nobody /\ pc[lock] \in {"commit", "cancelled"}

AllSettled == \A r \in Ids :
  \/ Committing /\ job[lock].rid = r
  \/ Settled(blobEngine, records[r], cards[r], thumbs[r], late[r])

\* What is known while w is in a save, and in a delete.
Saves(w) ==
  LET r == job[w].rid
      rec == job[w].rec
  IN  /\ seq < MaxSeq /\ r <= seq + 1
      /\ records[r] # None => records[r].url = rec.url
      /\ pc[w] # "blob" => PutDone(blobEngine, records[r], cards[r], thumbs[r], late[r], rec)

Deletes(w) ==
  /\ pc[w] # "cancelled"
  /\ pc[w] # "blob" => cards[job[w].rid] = NoCard /\ thumbs[job[w].rid] = None

Work == lock # Nobody =>
  /\ job[lock].kind = "save" => Saves(lock)
  /\ job[lock].kind = "delete" => Deletes(lock)

Checking == check.step = "read" =>
  /\ Committing => check.since # {} /\ (job[lock].kind = "delete" => "delete" \in check.since)
  /\ \A r \in check.rids : "delete" \notin check.since /\ late[r] # "delete" =>
       InBlobs(blobEngine, cards[r], thumbs[r])
  /\ check.since = {} /\ (\A r \in Ids : late[r] = "none") => check.rids = BlobRids

CatalogInv == Control /\ Stores /\ Histories /\ Bounded /\ AllSettled /\ Work /\ Checking

-----------------------------------------------------------------------------
(* Putting, saving and deleting one item                                   *)

LEMMA VersionsMakeCard ==
  ASSUME NEW card, VersionsOf(card) # {}
  PROVE  card # NoCard
BY DEF VersionsOf, NoCard

\* A card with MaxVersions versions has some.
LEMMA FullHasVersions ==
  ASSUME NEW card, IsFiniteSet(VersionsOf(card)), Full(card)
  PROVE  VersionsOf(card) # {}
<1>1. CASE VersionsOf(card) = {}
  <2>1. Cardinality(VersionsOf(card)) = 0
    BY <1>1, FS_EmptySet
  <2>2. QED
    BY <2>1, AtLeastTwo DEF Full
<1>2. QED
  BY <1>1

LEMMA OldMakesFull ==
  ASSUME NEW card, NEW v, TooOld(card, v)
  PROVE  Full(card)
BY AtLeastTwo DEF TooOld, Full

\* What a record says of its card before a Put that fits it, it says after it.
LEMMA PutMakes ==
  ASSUME NEW e \in Engines, NEW old \in Records \cup {None}, NEW card \in Cards,
         IsFiniteSet(VersionsOf(card)), NEW thumb, NEW l, Settled(e, old, card, thumb, l),
         NEW rec \in Records, old # None => old.url = rec.url,
         NEW after, after = AfterPut(e, card, rec.version, rec.url)
  PROVE  /\ after \in Cards /\ IsFiniteSet(VersionsOf(after))
         /\ PutDone(e, old, after, rec.url, l, rec)
<1> DEFINE v == rec.version
           c == rec.url
<1>1. v \in Versions /\ c \in Contents
  BY DEF Records, Urls
<1>2. AfterPut(e, card, v, c) = after
  OBVIOUS
<1> HIDE DEF v, c
<1>3. /\ after \in Cards
      /\ IsFiniteSet(VersionsOf(after)) /\ VersionsOf(after) # {}
      /\ after[v] = c \/ (e = "sqlblob" /\ TooOld(after, v))
      /\ \A u \in Versions : u # v /\ card[u] # None => after[u] = card[u] \/ Full(after)
      /\ Full(card) => Full(after)
  BY <1>1, <1>2, AfterPutKeeps DEF Full, TooOld
<1>4. ASSUME old # None
      PROVE  after[old.version] = old.url \/ l = "delete" \/ Full(after)
  <2>1. old.version \in Versions /\ old.url \in Contents /\ old.url # None
    BY <1>4, NoneIsNoContent DEF Records, Urls
  <2>2. HasCard(e, old, card, thumb, l)
    BY <1>4 DEF Settled
  <2>3. CASE card[old.version] = old.url
    <3>1. CASE old.version = v
      <4>1. old.url = c
        BY <1>4 DEF c
      <4>2. QED
        BY <1>3, <3>1, <4>1, OldMakesFull
    <3>2. CASE old.version # v
      BY <1>3, <2>1, <2>3, <3>2
    <3>3. QED
      BY <3>1, <3>2
  <2>4. CASE Full(card)
    BY <1>3, <2>4
  <2>5. QED
    BY <2>2, <2>3, <2>4, OldMakesFull DEF HasCard
<1>5. QED
  BY <1>3, <1>4 DEF PutDone, v, c

\* The same of a Put that prunes nothing.
Entered(card, rec) == [card EXCEPT ![rec.version] = rec.url]

LEMMA PutCancelledMakes ==
  ASSUME NEW e \in Engines, NEW old \in Records \cup {None}, NEW card \in Cards,
         IsFiniteSet(VersionsOf(card)), NEW thumb, NEW l, Settled(e, old, card, thumb, l),
         NEW rec \in Records, old # None => old.url = rec.url,
         NEW after, after = Entered(card, rec)
  PROVE  /\ after \in Cards /\ IsFiniteSet(VersionsOf(after))
         /\ PutDone(e, old, after, rec.url, l, rec)
<1>1. rec.version \in Versions /\ rec.url \in Contents /\ rec.url # None
  BY NoneIsNoContent DEF Records, Urls
<1>2. /\ after \in Cards /\ after[rec.version] = rec.url
      /\ \A u \in Versions : u # rec.version => after[u] = card[u]
  BY <1>1 DEF Cards, Entered
<1>3. VersionsOf(after) = VersionsOf(card) \cup {rec.version}
  BY <1>1, <1>2 DEF VersionsOf
<1>4. IsFiniteSet(VersionsOf(after)) /\ (Full(card) => Full(after))
  <2>1. VersionsOf(card) \in SUBSET VersionsOf(after)
    BY <1>3
  <2>2. IsFiniteSet(VersionsOf(after))
    <3>1. IsFiniteSet(VersionsOf(card) \cup {rec.version})
      BY FS_AddElement
    <3>2. QED
      BY <1>3, <3>1
  <2>3. /\ Cardinality(VersionsOf(card)) <= Cardinality(VersionsOf(after))
        /\ Cardinality(VersionsOf(card)) \in Nat /\ Cardinality(VersionsOf(after)) \in Nat
    BY <2>1, <2>2, FS_Subset, FS_CardinalityType
  <2>4. QED
    BY <2>2, <2>3, AtLeastTwo DEF Full
<1>5. ASSUME old # None
      PROVE  after[old.version] = old.url \/ l = "delete" \/ Full(after)
  <2>1. old.version \in Versions
    BY <1>5 DEF Records
  <2>2. HasCard(e, old, card, thumb, l)
    BY <1>5 DEF Settled
  <2>3. CASE card[old.version] = old.url
    BY <1>2, <1>5, <2>1, <2>3
  <2>4. QED
    BY <1>4, <2>2, <2>3, OldMakesFull DEF HasCard
<1>6. QED
  BY <1>2, <1>3, <1>4, <1>5 DEF PutDone

\* The record transaction is committed after the Put, or it is not.
LEMMA PutSettles ==
  ASSUME NEW e \in Engines, NEW old \in Records \cup {None}, NEW card,
         NEW thumb, NEW l \in {"none", "put", "delete"}, NEW rec \in Records,
         PutDone(e, old, card, thumb, l, rec)
  PROVE  /\ InBlobs(e, card, thumb)
         /\ Settled(e, rec, card, thumb, "none")
         /\ (old # None => old.url = rec.url)
              => Settled(e, old, card, thumb, LateAfter(l, "save"))
<1>1. InBlobs(e, card, thumb)
  BY VersionsMakeCard DEF PutDone, InBlobs
<1>2. Settled(e, rec, card, thumb, "none")
  <2>1. HasCard(e, rec, card, thumb, "none")
    BY DEF PutDone, HasCard
  <2>2. rec # None
    BY NoneIsNoRecord
  <2>3. QED
    BY <1>1, <2>1, <2>2 DEF Settled
<1>3. ASSUME old # None => old.url = rec.url
      PROVE  Settled(e, old, card, thumb, LateAfter(l, "save"))
  <2>1. LateAfter(l, "save") # "none" /\ (l = "delete" => LateAfter(l, "save") = "delete")
        /\ LateAfter(l, "save") \in {"put", "delete"}
    BY DEF LateAfter
  <2>2. old # None => HasCard(e, old, card, thumb, LateAfter(l, "save"))
    BY <1>3, <2>1 DEF PutDone, HasCard
  <2>3. QED
    BY <2>1, <2>2 DEF Settled
<1>4. QED
  BY <1>1, <1>2, <1>3

LEMMA DeleteSettles ==
  ASSUME NEW e, NEW old, NEW l
  PROVE  /\ Settled(e, None, NoCard, None, "none")
         /\ Settled(e, old, NoCard, None, LateAfter(l, "delete"))
<1>1. LateAfter(l, "delete") = "delete"
  BY DEF LateAfter
<1>2. QED
  BY <1>1 DEF Settled, HasCard, InBlobs

\* The card of a record is listed by the blob store, whatever has been pruned.
LEMMA SettledIsListed ==
  ASSUME NEW e, NEW rec \in Records, NEW card \in Cards, IsFiniteSet(VersionsOf(card)),
         NEW thumb, NEW l, Settled(e, rec, card, thumb, l), l # "delete"
  PROVE  InBlobs(e, card, thumb)
<1>1. rec # None /\ rec.url # None /\ rec.version \in Versions
  BY NoneIsNoRecord, NoneIsNoContent DEF Records, Urls
<1>2. HasCard(e, rec, card, thumb, l)
  BY <1>1 DEF Settled
<1>3. CASE card[rec.version] = rec.url
  BY <1>1, <1>3 DEF InBlobs, NoCard
<1>4. CASE Full(card)
  BY <1>4, FullHasVersions, VersionsMakeCard DEF InBlobs
<1>5. QED
  BY <1>2, <1>3, <1>4, OldMakesFull DEF HasCard

-----------------------------------------------------------------------------
(* The initial states, and who is at work                                  *)

LEMMA TypeOKParts ==
  /\ TypeOK <=> Control /\ Stores /\ Histories
  /\ TypeOK' <=> (Control /\ Stores /\ Histories)'
<1>1. TypeOK <=> Control /\ Stores /\ Histories
  BY DEF TypeOK, Control, Stores, Histories
<1>2. QED
  BY <1>1, PTL

LEMMA InitIInv ==
  ASSUME CatalogInit
  PROVE  CatalogInv
<1>1. NoCard \in Cards /\ VersionsOf(NoCard) = {}
  BY DEF NoCard, Cards, VersionsOf
<1>2. Control
  BY NobodyIsNoWriter DEF CatalogInit, Control
<1>3. Stores /\ Histories
  BY <1>1, BoundsAreNats DEF CatalogInit, Stores, Histories
<1>4. Bounded
  <2>1. IsFiniteSet({})
    BY FS_EmptySet
  <2>2. QED
    BY <1>1, <2>1 DEF CatalogInit, Bounded
<1>5. AllSettled /\ Work
  BY DEF CatalogInit, AllSettled, Work, Settled, InBlobs
<1>6. Checking
  BY DEF CatalogInit, Checking, NotChecking
<1>7. QED
  BY <1>2, <1>3, <1>4, <1>5, <1>6 DEF CatalogInv

\* Only the holder of the mutex is in a call.
LEMMA Holder ==
  ASSUME Control, NEW w \in Writers, pc[w] # "idle"
  PROVE  /\ lock = w /\ lock # Nobody
         /\ \A h \in Writers : h # w => pc[h] = "idle" /\ job[h] = NoJob
         /\ job[w].rid \in Ids /\ job[w].kind \in {"save", "delete"}
         /\ job[w].kind = "save" => job[w].rec \in Records
<1>1. lock = w /\ lock # Nobody /\ \A h \in Writers : h # w => pc[h] = "idle" /\ job[h] = NoJob
  BY NobodyIsNoWriter DEF Control
<1>2. job[w] \in SaveJobs \cup DeleteJobs
  BY DEF Control
<1>3. QED
  BY <1>1, <1>2 DEF SaveJobs, DeleteJobs

\* A step of the holder that keeps the mutex.
LEMMA GoesOn ==
  ASSUME Control, NEW w \in Writers, pc[w] # "idle",
         NEW p \in {"blob", "commit", "cancelled"}, pc' = [pc EXCEPT ![w] = p],
         UNCHANGED <<lock, job>>
  PROVE  /\ Control'
         /\ lock' = w /\ pc'[w] = p
<1>1. lock = w
  BY Holder
<1>2. pc' \in [Writers -> {"idle", "blob", "commit", "cancelled"}] /\ pc'[w] = p
      /\ \A h \in Writers : h # w => pc'[h] = pc[h]
  BY DEF Control
<1>3. QED
  BY <1>1, <1>2 DEF Control

LEMMA Returns ==
  ASSUME Control, NEW w \in Writers, pc[w] # "idle", Return(w)
  PROVE  Control' /\ lock' = Nobody
<1>1. \A h \in Writers : pc'[h] = "idle" /\ job'[h] = NoJob
  BY Holder DEF Return, Control
<1>2. QED
  BY <1>1, NobodyIsNoWriter DEF Return, Control

-----------------------------------------------------------------------------
(* The steps keep the invariant                                            *)

\* The mutex is free after the step, no store has changed, and all is settled.
LEMMA NowFree ==
  ASSUME CatalogInv, Control', lock' = Nobody, AllSettled',
         UNCHANGED <<blobEngine, recordStore, blobStore, late, failures, check>>
  PROVE  CatalogInv'
<1>1. Stores' /\ Histories' /\ Bounded'
  BY DEF CatalogInv, Stores, Histories, Bounded, recordStore, blobStore
<1>2. Work'
  BY DEF Work
<1>3. Checking'
  BY DEF CatalogInv, Checking, Committing, BlobRids, recordStore, blobStore
<1>4. QED
  BY <1>1, <1>2, <1>3 DEF CatalogInv

LEMMA Starts ==
  ASSUME CatalogInv, NEW w \in Writers, NEW j \in SaveJobs \cup DeleteJobs, Start(w, j),
         j.kind = "save" => /\ seq < MaxSeq /\ j.rid <= seq + 1
                            /\ records[j.rid] # None => records[j.rid].url = j.rec.url
  PROVE  CatalogInv'
<1>1. /\ lock = Nobody /\ lock' = w /\ pc' = [pc EXCEPT ![w] = "blob"]
      /\ job' = [job EXCEPT ![w] = j] /\ w # Nobody
      /\ UNCHANGED <<blobEngine, records, seq, cards, thumbs, late, failures, check>>
  BY NobodyIsNoWriter DEF Start, recordStore, blobStore
<1>2. j # NoJob
  BY DEF SaveJobs, DeleteJobs, NoJob
<1>3. Control'
  <2>1. /\ job' \in [Writers -> SaveJobs \cup DeleteJobs \cup {NoJob}]
        /\ pc' \in [Writers -> {"idle", "blob", "commit", "cancelled"}]
    BY <1>1 DEF CatalogInv, Control
  <2>2. ASSUME NEW h \in Writers
        PROVE  (pc'[h] = "idle" <=> job'[h] = NoJob) /\ (lock' = h <=> pc'[h] # "idle")
    <3>1. (pc[h] = "idle" <=> job[h] = NoJob) /\ pc[h] = "idle"
      BY <1>1, NobodyIsNoWriter DEF CatalogInv, Control
    <3>2. pc'[h] = (IF h = w THEN "blob" ELSE pc[h]) /\ job'[h] = (IF h = w THEN j ELSE job[h])
      BY <1>1 DEF CatalogInv, Control
    <3>3. QED
      BY <1>1, <1>2, <3>1, <3>2
  <2>3. QED
    BY <1>1, <2>1, <2>2 DEF Control
<1>4. pc'[w] = "blob" /\ job'[w] = j
  BY <1>1 DEF CatalogInv, Control
<1>5. ~Committing /\ ~Committing'
  BY <1>1, <1>4 DEF Committing
<1>6. Stores' /\ Histories' /\ Bounded'
  BY <1>1 DEF CatalogInv, Stores, Histories, Bounded
<1>7. AllSettled'
  BY <1>1, <1>5 DEF CatalogInv, AllSettled
<1>8. Work'
  BY <1>1, <1>4 DEF Work, Saves, Deletes
<1>9. Checking'
  BY <1>1, <1>5 DEF CatalogInv, Checking, BlobRids
<1>10. QED
  BY <1>3, <1>6, <1>7, <1>8, <1>9 DEF CatalogInv

LEMMA StartSaveStep ==
  ASSUME CatalogInv, NEW w \in Writers, NEW url \in Urls, NEW v \in Versions, StartSave(w, url, v)
  PROVE  CatalogInv'
<1> DEFINE rec == [url |-> url, version |-> v]
           r == RidOf(url)
           j == [kind |-> "save", rid |-> r, rec |-> rec]
<1>1. seq < MaxSeq /\ Start(w, j)
  BY DEF StartSave
<1>2. r \in Ids /\ r <= seq + 1 /\ (records[r] # None => records[r].url = url)
  <2>1. seq \in Nat /\ MaxSeq \in Nat /\ \A q \in Ids : records[q] # None => q <= seq
    BY BoundsAreNats DEF CatalogInv, Stores, Bounded
  <2>2. CASE \E q \in Ids : records[q] # None /\ records[q].url = url
    <3>1. r \in Ids /\ records[r] # None /\ records[r].url = url
      BY <2>2 DEF RidOf
    <3>2. QED
      BY <2>1, <3>1 DEF Ids
  <2>3. CASE ~\E q \in Ids : records[q] # None /\ records[q].url = url
    <3>1. r = seq + 1
      BY <2>3 DEF RidOf
    <3>2. r \in Ids /\ ~(r <= seq)
      BY <1>1, <2>1, <3>1 DEF Ids
    <3>3. QED
      BY <2>1, <3>1, <3>2
  <2>4. QED
    BY <2>2, <2>3
<1> HIDE DEF r
<1>3. rec \in Records /\ rec.url = url
  BY DEF Records
<1> HIDE DEF rec
<1>4. j \in SaveJobs /\ j.kind = "save" /\ j.rid = r /\ j.rec = rec
  BY <1>2, <1>3 DEF SaveJobs
<1> HIDE DEF j
<1>5. QED
  BY <1>1, <1>2, <1>3, <1>4, Starts

LEMMA StartDeleteStep ==
  ASSUME CatalogInv, NEW w \in Writers, NEW r \in Ids, StartDelete(w, r)
  PROVE  CatalogInv'
<1> DEFINE j == [kind |-> "delete", rid |-> r]
<1>1. Start(w, j)
  BY DEF StartDelete
<1>2. j \in DeleteJobs /\ j.kind = "delete"
  BY DEF DeleteJobs
<1> HIDE DEF j
<1>3. QED
  BY <1>1, <1>2, Starts

LEMMA RollbackStep ==
  ASSUME CatalogInv, NEW w \in Writers, Rollback(w)
  PROVE  CatalogInv'
<1>1. /\ pc[w] = "blob" /\ Return(w)
      /\ UNCHANGED <<blobEngine, recordStore, blobStore, late, failures, check>>
  BY DEF Rollback
<1>2. Control /\ Control' /\ lock = w /\ lock' = Nobody
  BY <1>1, Holder, Returns DEF CatalogInv
<1>3. ~Committing
  BY <1>1, <1>2 DEF Committing
<1>4. AllSettled'
  BY <1>1, <1>3 DEF CatalogInv, AllSettled, recordStore, blobStore
<1>5. QED
  BY <1>1, <1>2, <1>4, NowFree

\* What the check has read stays, and it is told what was called.
LEMMA CheckIsTold ==
  ASSUME Histories, NEW k \in {"put", "delete"}, Unseen(k)
  PROVE  /\ check' \in Reads \cup [step : {"done"}, ok : BOOLEAN] \cup {NotChecking}
         /\ check'.step = check.step
         /\ check.step = "read" => check'.rids = check.rids /\ check'.since = check.since \cup {k}
                                    /\ check.rids \subseteq Ids
<1>1. CASE check.step = "read"
  <2>1. check \in Reads
    BY <1>1 DEF Histories, NotChecking
  <2>2. check' = [check EXCEPT !.since = @ \cup {k}]
    BY <1>1 DEF Unseen
  <2>3. check' \in Reads /\ check'.rids = check.rids /\ check'.since = check.since \cup {k}
        /\ check'.step = check.step /\ check.rids \subseteq Ids
    BY <2>1, <2>2 DEF Reads
  <2>4. QED
    BY <2>3
<1>2. CASE check.step # "read"
  BY <1>2 DEF Unseen, Histories
<1>3. QED
  BY <1>1, <1>2

\* The blob store commits the put of w's card.
PutsCard(w, after, p) ==
  LET r == job[w].rid
      rec == job[w].rec
  IN  /\ pc[w] = "blob" /\ job[w].kind = "save"
      /\ after \in Cards /\ IsFiniteSet(VersionsOf(after))
      /\ PutDone(blobEngine, records[r], after, rec.url, late[r], rec)
      /\ cards' = [cards EXCEPT ![r] = after] /\ thumbs' = [thumbs EXCEPT ![r] = rec.url]
      /\ pc' = [pc EXCEPT ![w] = p] /\ Unseen("put")
      /\ UNCHANGED <<blobEngine, records, seq, lock, job, late, failures>>

LEMMA Puts ==
  ASSUME CatalogInv, NEW w \in Writers, NEW after, NEW p \in {"commit", "cancelled"}, PutsCard(w, after, p)
  PROVE  CatalogInv'
<1> DEFINE r == job[w].rid
           rec == job[w].rec
<1>a. /\ pc[w] = "blob" /\ job[w].kind = "save"
      /\ after \in Cards /\ IsFiniteSet(VersionsOf(after))
      /\ PutDone(blobEngine, records[r], after, rec.url, late[r], rec)
      /\ cards' = [cards EXCEPT ![r] = after] /\ thumbs' = [thumbs EXCEPT ![r] = rec.url]
      /\ pc' = [pc EXCEPT ![w] = p] /\ Unseen("put")
      /\ UNCHANGED <<blobEngine, records, seq, lock, job, late, failures>>
  BY DEF PutsCard
<1>b. r = job[w].rid /\ rec = job[w].rec
  OBVIOUS
<1> HIDE DEF r, rec
<1>1. /\ lock = w /\ lock # Nobody /\ r \in Ids /\ rec \in Records
  BY <1>a, <1>b, Holder DEF CatalogInv
<1>2. rec.url \in Contents /\ records[r] \in Records \cup {None} /\ late[r] \in {"none", "put", "delete"}
  BY <1>1 DEF CatalogInv, Stores, Histories, Records, Urls
<1>3. Control' /\ lock' = w /\ pc'[w] = p
  BY <1>a, GoesOn DEF CatalogInv
<1>4. /\ UNCHANGED <<blobEngine, records, seq, lock, job, late, failures>>
      /\ cards'[r] = after /\ thumbs'[r] = rec.url
      /\ \A q \in Ids : q # r => cards'[q] = cards[q] /\ thumbs'[q] = thumbs[q]
      /\ cards' \in [Ids -> Cards] /\ thumbs' \in [Ids -> Contents \cup {None}]
  BY <1>a, <1>1, <1>2 DEF CatalogInv, Stores
<1>5. Stores'
  BY <1>4 DEF CatalogInv, Stores
<1>6. Bounded'
  BY <1>a, <1>4 DEF CatalogInv, Bounded
<1>7. Histories'
  BY <1>a, <1>4, CheckIsTold DEF CatalogInv, Histories
<1>8. AllSettled'
  <2>1. ASSUME NEW q \in Ids, ~(Committing' /\ job'[lock'].rid = q)
        PROVE  Settled(blobEngine', records'[q], cards'[q], thumbs'[q], late'[q])
    <3>1. q # r
      BY <1>b, <1>1, <1>3, <1>4, <2>1 DEF Committing
    <3>2. Settled(blobEngine, records[q], cards[q], thumbs[q], late[q])
      BY <1>a, <1>b, <1>1, <3>1 DEF CatalogInv, AllSettled
    <3>3. QED
      BY <1>4, <3>1, <3>2
  <2>2. QED
    BY <2>1 DEF AllSettled
<1>9. Work'
  <2>1. Saves(w)
    BY <1>a, <1>1 DEF CatalogInv, Work
  <2>2. Saves(w)'
    BY <1>a, <1>b, <1>4, <2>1 DEF Saves
  <2>3. QED
    BY <1>a, <1>3, <1>4, <2>2 DEF Work
<1>10. Checking'
  <2>1. VersionsOf(after) # {}
    BY <1>a DEF PutDone
  <2>2. ASSUME check'.step = "read", NEW q \in check'.rids, "delete" \notin check'.since, late'[q] # "delete"
        PROVE  InBlobs(blobEngine', cards'[q], thumbs'[q])
    <3>1. check.step = "read" /\ q \in check.rids /\ q \in Ids /\ "delete" \notin check.since
      BY <1>a, <2>2, CheckIsTold DEF CatalogInv
    <3>2. CASE q = r
      BY <1>4, <2>1, <3>2, VersionsMakeCard DEF InBlobs
    <3>3. CASE q # r
      <4>1. InBlobs(blobEngine, cards[q], thumbs[q])
        BY <1>4, <2>2, <3>1 DEF CatalogInv, Checking
      <4>2. QED
        BY <1>4, <3>1, <3>3, <4>1
    <3>4. QED
      BY <3>2, <3>3
  <2>3. check'.step = "read" => "put" \in check'.since
    BY <1>a, CheckIsTold DEF CatalogInv
  <2>4. job'[lock'].kind # "delete"
    BY <1>a, <1>3, <1>4
  <2>5. QED
    BY <2>2, <2>3, <2>4 DEF Checking
<1>11. QED
  BY <1>3, <1>5, <1>6, <1>7, <1>8, <1>9, <1>10 DEF CatalogInv

\* What the Put of w starts from.
LEMMA BeforePut ==
  ASSUME CatalogInv, NEW w \in Writers, pc[w] = "blob", job[w].kind = "save",
         NEW r, r = job[w].rid, NEW rec, rec = job[w].rec
  PROVE  /\ r \in Ids /\ rec \in Records /\ blobEngine \in Engines
         /\ records[r] \in Records \cup {None}
         /\ cards[r] \in Cards /\ IsFiniteSet(VersionsOf(cards[r]))
         /\ Settled(blobEngine, records[r], cards[r], thumbs[r], late[r])
         /\ records[r] # None => records[r].url = rec.url
<1>1. r \in Ids /\ rec \in Records /\ lock = w /\ lock # Nobody
  BY Holder DEF CatalogInv
<1>2. blobEngine \in Engines /\ records[r] \in Records \cup {None} /\ cards[r] \in Cards
  BY <1>1 DEF CatalogInv, Stores
<1>3. Settled(blobEngine, records[r], cards[r], thumbs[r], late[r])
  BY <1>1 DEF CatalogInv, AllSettled, Committing
<1>4. Saves(w)
  BY <1>1 DEF CatalogInv, Work
<1>5. QED
  BY <1>1, <1>2, <1>3, <1>4 DEF Saves, CatalogInv, Bounded

LEMMA PutBlobStep ==
  ASSUME CatalogInv, NEW w \in Writers, PutBlob(w)
  PROVE  CatalogInv'
<1> DEFINE r == job[w].rid
           rec == job[w].rec
           after == AfterPut(blobEngine, cards[r], rec.version, rec.url)
<1>1. /\ pc[w] = "blob" /\ job[w].kind = "save"
      /\ cards' = [cards EXCEPT ![r] = AfterPut(blobEngine, @, rec.version, rec.url)]
      /\ thumbs' = [thumbs EXCEPT ![r] = rec.url]
      /\ pc' = [pc EXCEPT ![w] = "commit"] /\ Unseen("put")
      /\ UNCHANGED <<blobEngine, recordStore, lock, job, late, failures>>
  BY DEF PutBlob
<1>2. cards' = [cards EXCEPT ![r] = after]
  BY <1>1
<1>3. r = job[w].rid /\ rec = job[w].rec /\ after = AfterPut(blobEngine, cards[r], rec.version, rec.url)
  OBVIOUS
<1> HIDE DEF r, rec, after
<1>4. /\ r \in Ids /\ rec \in Records /\ blobEngine \in Engines
      /\ records[r] \in Records \cup {None}
      /\ cards[r] \in Cards /\ IsFiniteSet(VersionsOf(cards[r]))
      /\ Settled(blobEngine, records[r], cards[r], thumbs[r], late[r])
      /\ records[r] # None => records[r].url = rec.url
  BY <1>1, <1>3, BeforePut
<1>5. /\ after \in Cards /\ IsFiniteSet(VersionsOf(after))
      /\ PutDone(blobEngine, records[r], after, rec.url, late[r], rec)
  BY <1>3, <1>4, PutMakes
<1>6. PutsCard(w, after, "commit")
  BY <1>1, <1>2, <1>3, <1>5 DEF PutsCard, recordStore
<1>7. QED
  BY <1>6, Puts

LEMMA PutCancelledStep ==
  ASSUME CatalogInv, NEW w \in Writers, PutCancelled(w)
  PROVE  CatalogInv'
<1> DEFINE r == job[w].rid
           rec == job[w].rec
           after == Entered(cards[r], rec)
<1>1. /\ pc[w] = "blob" /\ job[w].kind = "save"
      /\ cards' = [cards EXCEPT ![r][rec.version] = rec.url]
      /\ thumbs' = [thumbs EXCEPT ![r] = rec.url]
      /\ pc' = [pc EXCEPT ![w] = "cancelled"] /\ Unseen("put")
      /\ UNCHANGED <<blobEngine, recordStore, lock, job, late, failures>>
  BY DEF PutCancelled
<1>2. cards' = [cards EXCEPT ![r] = after]
  BY <1>1 DEF Entered
<1>3. r = job[w].rid /\ rec = job[w].rec /\ after = Entered(cards[r], rec)
  OBVIOUS
<1> HIDE DEF r, rec, after
<1>4. /\ r \in Ids /\ rec \in Records /\ blobEngine \in Engines
      /\ records[r] \in Records \cup {None}
      /\ cards[r] \in Cards /\ IsFiniteSet(VersionsOf(cards[r]))
      /\ Settled(blobEngine, records[r], cards[r], thumbs[r], late[r])
      /\ records[r] # None => records[r].url = rec.url
  BY <1>1, <1>3, BeforePut
<1>5. /\ after \in Cards /\ IsFiniteSet(VersionsOf(after))
      /\ PutDone(blobEngine, records[r], after, rec.url, late[r], rec)
  BY <1>3, <1>4, PutCancelledMakes
<1>6. PutsCard(w, after, "cancelled")
  BY <1>1, <1>2, <1>3, <1>5 DEF PutsCard, recordStore
<1>7. QED
  BY <1>6, Puts

LEMMA DeleteBlobStep ==
  ASSUME CatalogInv, NEW w \in Writers, DeleteBlob(w)
  PROVE  CatalogInv'
<1> DEFINE r == job[w].rid
<1>1. /\ pc[w] = "blob" /\ job[w].kind = "delete"
      /\ cards' = [cards EXCEPT ![r] = NoCard] /\ thumbs' = [thumbs EXCEPT ![r] = None]
      /\ pc' = [pc EXCEPT ![w] = "commit"] /\ Unseen("delete")
      /\ UNCHANGED <<blobEngine, records, seq, lock, job, late, failures>>
  BY DEF DeleteBlob, recordStore
<1>2. r = job[w].rid
  OBVIOUS
<1> HIDE DEF r
<1>3. lock = w /\ lock # Nobody /\ r \in Ids
  BY <1>1, <1>2, Holder DEF CatalogInv
<1>4. Control' /\ lock' = w /\ pc'[w] = "commit"
  BY <1>1, GoesOn DEF CatalogInv
<1>5. NoCard \in Cards /\ VersionsOf(NoCard) = {}
  BY DEF NoCard, Cards, VersionsOf
<1>6. /\ cards'[r] = NoCard /\ thumbs'[r] = None
      /\ \A q \in Ids : q # r => cards'[q] = cards[q] /\ thumbs'[q] = thumbs[q]
      /\ cards' \in [Ids -> Cards] /\ thumbs' \in [Ids -> Contents \cup {None}]
  BY <1>1, <1>3, <1>5 DEF CatalogInv, Stores
<1>7. Stores'
  BY <1>1, <1>6 DEF CatalogInv, Stores
<1>8. Bounded'
  <2>1. IsFiniteSet(VersionsOf(NoCard))
    BY <1>5, FS_EmptySet
  <2>2. QED
    BY <1>1, <1>6, <2>1 DEF CatalogInv, Bounded
<1>9. Histories'
  BY <1>1, CheckIsTold DEF CatalogInv, Histories
<1>10. AllSettled'
  <2>1. ASSUME NEW q \in Ids, ~(Committing' /\ job'[lock'].rid = q)
        PROVE  Settled(blobEngine', records'[q], cards'[q], thumbs'[q], late'[q])
    <3>1. q # r
      BY <1>1, <1>2, <1>3, <1>4, <2>1 DEF Committing
    <3>2. Settled(blobEngine, records[q], cards[q], thumbs[q], late[q])
      BY <1>2, <1>3, <3>1 DEF CatalogInv, AllSettled
    <3>3. QED
      BY <1>1, <1>6, <3>1, <3>2
  <2>2. QED
    BY <2>1 DEF AllSettled
<1>11. Work'
  BY <1>1, <1>2, <1>4, <1>6 DEF Work, Deletes
<1>12. Checking'
  BY <1>1, CheckIsTold DEF CatalogInv, Checking
<1>13. QED
  BY <1>4, <1>7, <1>8, <1>9, <1>10, <1>11, <1>12 DEF CatalogInv

\* w's call returns, or is cut off, with its item settled and all others as they were.
SettlesItem(w) ==
  LET r == job[w].rid
  IN  /\ pc[w] \in {"commit", "cancelled"}
      /\ Settled(blobEngine, records'[r], cards[r], thumbs[r], late'[r])
      /\ \A q \in Ids : q # r => records'[q] = records[q] /\ late'[q] = late[q]
      /\ \A q \in Ids : records'[q] # None => q <= seq'
      /\ UNCHANGED <<blobEngine, cards, thumbs>>
      /\ check' = check \/ check' = NotChecking
      /\ \/ late'[r] = "none" /\ (InBlobs(blobEngine, cards[r], thumbs[r]) \/ job[w].kind = "delete")
         \/ late'[r] # "none" /\ (late'[r] # "delete" => late[r] # "delete")

LEMMA Ends ==
  ASSUME CatalogInv, NEW w \in Writers, SettlesItem(w), Control', lock' = Nobody, Stores', Histories'
  PROVE  CatalogInv'
<1> DEFINE r == job[w].rid
<1>a. /\ pc[w] \in {"commit", "cancelled"}
      /\ Settled(blobEngine, records'[r], cards[r], thumbs[r], late'[r])
      /\ \A q \in Ids : q # r => records'[q] = records[q] /\ late'[q] = late[q]
      /\ \A q \in Ids : records'[q] # None => q <= seq'
      /\ UNCHANGED <<blobEngine, cards, thumbs>>
      /\ check' = check \/ check' = NotChecking
      /\ \/ late'[r] = "none" /\ (InBlobs(blobEngine, cards[r], thumbs[r]) \/ job[w].kind = "delete")
         \/ late'[r] # "none" /\ (late'[r] # "delete" => late[r] # "delete")
  BY DEF SettlesItem
<1>b. r = job[w].rid
  OBVIOUS
<1> HIDE DEF r
<1>1. lock = w /\ lock # Nobody /\ r \in Ids
  BY <1>a, <1>b, Holder DEF CatalogInv
<1>2. ~Committing' /\ Committing
  BY <1>a, <1>1 DEF Committing
<1>3. Bounded'
  BY <1>a DEF CatalogInv, Bounded
<1>4. AllSettled'
  <2>1. ASSUME NEW q \in Ids
        PROVE  Settled(blobEngine', records'[q], cards'[q], thumbs'[q], late'[q])
    <3>1. CASE q = r
      BY <1>a, <3>1
    <3>2. CASE q # r
      <4>1. Settled(blobEngine, records[q], cards[q], thumbs[q], late[q])
        BY <1>b, <1>1, <3>2 DEF CatalogInv, AllSettled
      <4>2. QED
        BY <1>a, <3>2, <4>1
    <3>3. QED
      BY <3>1, <3>2
  <2>2. QED
    BY <2>1 DEF AllSettled
<1>5. Work'
  BY DEF Work
<1>6. Checking'
  <2>1. SUFFICES ASSUME check.step = "read", check' = check PROVE Checking'
    BY <1>a DEF Checking, NotChecking
  <2>2. check.since # {} /\ (job[w].kind = "delete" => "delete" \in check.since)
    BY <1>1, <1>2, <2>1 DEF CatalogInv, Checking
  <2>3. ASSUME NEW q \in check.rids, "delete" \notin check.since, late'[q] # "delete"
        PROVE  InBlobs(blobEngine, cards[q], thumbs[q])
    <3>1. q \in Ids
      BY <2>1 DEF CatalogInv, Histories, Reads, NotChecking
    <3>2. CASE q = r /\ late'[r] = "none"
      BY <1>a, <1>b, <2>1, <2>2, <2>3, <3>2
    <3>3. CASE ~(q = r /\ late'[r] = "none")
      <4>1. late[q] # "delete"
        BY <1>a, <1>b, <2>1, <2>3, <3>1, <3>3
      <4>2. QED
        BY <2>1, <2>3, <4>1 DEF CatalogInv, Checking
    <3>4. QED
      BY <3>2, <3>3
  <2>4. check.since # {}
    BY <2>2
  <2>5. QED
    BY <1>a, <1>2, <2>1, <2>3, <2>4 DEF Checking
<1>7. QED
  BY <1>3, <1>4, <1>5, <1>6 DEF CatalogInv

\* What is known when w's call ends after the blob store's commit.
LEMMA BeforeEnd ==
  ASSUME CatalogInv, NEW w \in Writers, pc[w] \in {"commit", "cancelled"},
         NEW r, r = job[w].rid
  PROVE  /\ r \in Ids /\ blobEngine \in Engines /\ late[r] \in {"none", "put", "delete"}
         /\ records[r] \in Records \cup {None}
         /\ job[w].kind \in {"save", "delete"}
         /\ job[w].kind = "delete" => cards[r] = NoCard /\ thumbs[r] = None
         /\ job[w].kind = "save" =>
              /\ job[w].rec \in Records /\ seq < MaxSeq /\ r <= seq + 1
              /\ records[r] # None => records[r].url = job[w].rec.url
              /\ PutDone(blobEngine, records[r], cards[r], thumbs[r], late[r], job[w].rec)
<1>1. /\ lock = w /\ lock # Nobody /\ r \in Ids /\ job[w].kind \in {"save", "delete"}
      /\ job[w].kind = "save" => job[w].rec \in Records
  BY Holder DEF CatalogInv
<1>2. blobEngine \in Engines /\ late[r] \in {"none", "put", "delete"} /\ records[r] \in Records \cup {None}
  BY <1>1 DEF CatalogInv, Stores, Histories
<1>3. (job[w].kind = "save" => Saves(w)) /\ (job[w].kind = "delete" => Deletes(w))
  BY <1>1 DEF CatalogInv, Work
<1>4. QED
  BY <1>1, <1>2, <1>3 DEF Saves, Deletes

LEMMA CommitSaveStep ==
  ASSUME CatalogInv, NEW w \in Writers, CommitSave(w)
  PROVE  CatalogInv'
<1> DEFINE r == job[w].rid
           rec == job[w].rec
<1>1. /\ pc[w] = "commit" /\ job[w].kind = "save" /\ Return(w)
      /\ records' = [records EXCEPT ![r] = rec] /\ seq' = seq + 1
      /\ late' = [late EXCEPT ![r] = "none"]
      /\ UNCHANGED <<blobEngine, cards, thumbs, failures, check>>
  BY DEF CommitSave, blobStore
<1>2. r = job[w].rid /\ rec = job[w].rec
  OBVIOUS
<1> HIDE DEF r, rec
<1>3. /\ r \in Ids /\ blobEngine \in Engines /\ late[r] \in {"none", "put", "delete"}
      /\ records[r] \in Records \cup {None} /\ rec \in Records /\ seq < MaxSeq /\ r <= seq + 1
      /\ PutDone(blobEngine, records[r], cards[r], thumbs[r], late[r], rec)
  BY <1>1, <1>2, BeforeEnd
<1>4. /\ records' \in [Ids -> Records \cup {None}] /\ records'[r] = rec
      /\ late' \in [Ids -> {"none", "put", "delete"}] /\ late'[r] = "none"
      /\ \A q \in Ids : q # r => records'[q] = records[q] /\ late'[q] = late[q]
  BY <1>1, <1>3 DEF CatalogInv, Stores, Histories
<1>5. seq \in Nat /\ seq' \in 0 .. MaxSeq /\ r \in Nat
  BY <1>1, <1>3, BoundsAreNats DEF CatalogInv, Stores, Ids
<1>6. Stores' /\ Histories'
  BY <1>1, <1>4, <1>5 DEF CatalogInv, Stores, Histories
<1>7. \A q \in Ids : records'[q] # None => q <= seq'
  <2> TAKE q \in Ids
  <2>1. q \in Nat /\ (records[q] # None => q <= seq)
    BY DEF CatalogInv, Bounded, Ids
  <2>2. QED
    BY <1>1, <1>3, <1>4, <1>5, <2>1
<1>8. InBlobs(blobEngine, cards[r], thumbs[r]) /\ Settled(blobEngine, rec, cards[r], thumbs[r], "none")
  BY <1>3, PutSettles
<1>9. SettlesItem(w)
  BY <1>1, <1>2, <1>4, <1>7, <1>8 DEF SettlesItem
<1>10. Control' /\ lock' = Nobody
  BY <1>1, Returns DEF CatalogInv
<1>11. QED
  BY <1>6, <1>9, <1>10, Ends

LEMMA CommitDeleteStep ==
  ASSUME CatalogInv, NEW w \in Writers, CommitDelete(w)
  PROVE  CatalogInv'
<1> DEFINE r == job[w].rid
<1>1. /\ pc[w] = "commit" /\ job[w].kind = "delete" /\ Return(w)
      /\ records' = [records EXCEPT ![r] = None]
      /\ late' = [late EXCEPT ![r] = "none"]
      /\ UNCHANGED <<blobEngine, seq, cards, thumbs, failures, check>>
  BY DEF CommitDelete, blobStore
<1>2. r = job[w].rid
  OBVIOUS
<1> HIDE DEF r
<1>3. r \in Ids /\ cards[r] = NoCard /\ thumbs[r] = None
  BY <1>1, <1>2, BeforeEnd
<1>4. /\ records' \in [Ids -> Records \cup {None}] /\ records'[r] = None
      /\ late' \in [Ids -> {"none", "put", "delete"}] /\ late'[r] = "none"
      /\ \A q \in Ids : q # r => records'[q] = records[q] /\ late'[q] = late[q]
  BY <1>1, <1>3 DEF CatalogInv, Stores, Histories
<1>5. Stores' /\ Histories'
  BY <1>1, <1>4 DEF CatalogInv, Stores, Histories
<1>6. \A q \in Ids : records'[q] # None => q <= seq'
  BY <1>1, <1>4 DEF CatalogInv, Bounded
<1>7. Settled(blobEngine, None, cards[r], thumbs[r], "none")
  BY <1>3, DeleteSettles
<1>8. SettlesItem(w)
  BY <1>1, <1>2, <1>4, <1>6, <1>7 DEF SettlesItem
<1>9. Control' /\ lock' = Nobody
  BY <1>1, Returns DEF CatalogInv
<1>10. QED
  BY <1>5, <1>8, <1>9, Ends

\* The call of w, which has committed to the blob store, ends without more.
LEMMA LeftBehind ==
  ASSUME CatalogInv, NEW w \in Writers, pc[w] \in {"commit", "cancelled"}, Control', lock' = Nobody,
         failures < MaxFailures, failures' = failures + 1,
         late' = [late EXCEPT ![job[w].rid] = LateAfter(@, job[w].kind)],
         check' = check \/ check' = NotChecking, UNCHANGED <<blobEngine, recordStore, blobStore>>
  PROVE  CatalogInv'
<1> DEFINE r == job[w].rid
           k == job[w].kind
<1>1. r = job[w].rid /\ k = job[w].kind
  OBVIOUS
<1>2. late' = [late EXCEPT ![r] = LateAfter(late[r], k)]
  OBVIOUS
<1> HIDE DEF r, k
<1>3. UNCHANGED <<blobEngine, records, seq, cards, thumbs>>
  BY DEF recordStore, blobStore
<1>4. /\ r \in Ids /\ blobEngine \in Engines /\ late[r] \in {"none", "put", "delete"}
      /\ records[r] \in Records \cup {None} /\ k \in {"save", "delete"}
      /\ k = "delete" => cards[r] = NoCard /\ thumbs[r] = None
      /\ k = "save" => /\ job[w].rec \in Records
                       /\ records[r] # None => records[r].url = job[w].rec.url
                       /\ PutDone(blobEngine, records[r], cards[r], thumbs[r], late[r], job[w].rec)
  BY <1>1, BeforeEnd
<1>5. /\ LateAfter(late[r], k) \in {"put", "delete"}
      /\ late[r] = "delete" => LateAfter(late[r], k) = "delete"
  BY DEF LateAfter
<1>6. /\ late' \in [Ids -> {"none", "put", "delete"}] /\ late'[r] = LateAfter(late[r], k)
      /\ \A q \in Ids : q # r => late'[q] = late[q]
  BY <1>2, <1>4, <1>5 DEF CatalogInv, Histories
<1>7. Settled(blobEngine, records[r], cards[r], thumbs[r], late'[r])
  <2>1. CASE k = "save"
    <3>1. PICK rec \in Records : /\ records[r] # None => records[r].url = rec.url
                                 /\ PutDone(blobEngine, records[r], cards[r], thumbs[r], late[r], rec)
      BY <1>4, <2>1
    <3>2. Settled(blobEngine, records[r], cards[r], thumbs[r], LateAfter(late[r], "save"))
      BY <1>4, <3>1, PutSettles
    <3>3. QED
      BY <1>6, <2>1, <3>2
  <2>2. CASE k = "delete"
    BY <1>4, <1>6, <2>2, DeleteSettles
  <2>3. QED
    BY <1>4, <2>1, <2>2
<1>8. Stores'
  BY <1>3 DEF CatalogInv, Stores
<1>9. Histories'
  <2>1. failures' \in 0 .. MaxFailures
    BY BoundsAreNats DEF CatalogInv, Histories
  <2>2. QED
    BY <1>6, <2>1 DEF CatalogInv, Histories
<1>10. SettlesItem(w)
  BY <1>1, <1>3, <1>5, <1>6, <1>7 DEF SettlesItem, CatalogInv, Bounded
<1>11. QED
  BY <1>8, <1>9, <1>10, Ends

LEMMA CommitFailsStep ==
  ASSUME CatalogInv, NEW w \in Writers, CommitFails(w)
  PROVE  CatalogInv'
<1>1. /\ pc[w] \in {"commit", "cancelled"} /\ Return(w)
      /\ failures < MaxFailures /\ failures' = failures + 1
      /\ late' = [late EXCEPT ![job[w].rid] = LateAfter(@, job[w].kind)]
      /\ UNCHANGED <<blobEngine, recordStore, blobStore, check>>
  BY DEF CommitFails
<1>2. Control' /\ lock' = Nobody
  BY <1>1, Returns DEF CatalogInv
<1>3. QED
  BY <1>1, <1>2, LeftBehind

LEMMA CrashStep ==
  ASSUME CatalogInv, Crash
  PROVE  CatalogInv'
<1>1. /\ lock # Nobody /\ lock' = Nobody
      /\ pc' = [w \in Writers |-> "idle"] /\ job' = [w \in Writers |-> NoJob]
      /\ check' = NotChecking /\ UNCHANGED <<blobEngine, recordStore, blobStore>>
  BY DEF Crash
<1>2. lock \in Writers /\ pc[lock] # "idle" /\ pc[lock] \in {"idle", "blob", "commit", "cancelled"}
  BY <1>1 DEF CatalogInv, Control
<1>3. Control'
  BY <1>1, NobodyIsNoWriter DEF Control
<1>4. CASE pc[lock] # "blob"
  <2>1. /\ failures < MaxFailures /\ failures' = failures + 1
        /\ late' = [late EXCEPT ![job[lock].rid] = LateAfter(@, job[lock].kind)]
    BY <1>4 DEF Crash
  <2>2. pc[lock] \in {"commit", "cancelled"}
    BY <1>2, <1>4
  <2>3. QED
    BY <1>1, <1>2, <1>3, <2>1, <2>2, LeftBehind
<1>5. CASE pc[lock] = "blob"
  <2>1. UNCHANGED <<blobEngine, records, seq, cards, thumbs, late, failures>>
    BY <1>1, <1>5 DEF Crash, recordStore, blobStore
  <2>2. Stores' /\ Histories' /\ Bounded'
    BY <1>1, <2>1 DEF CatalogInv, Stores, Histories, Bounded
  <2>3. ~Committing
    BY <1>5 DEF Committing
  <2>4. AllSettled'
    BY <2>1, <2>3 DEF CatalogInv, AllSettled
  <2>5. Work' /\ Checking'
    BY <1>1 DEF Work, Checking, NotChecking
  <2>6. QED
    BY <1>3, <2>2, <2>4, <2>5 DEF CatalogInv
<1>6. QED
  BY <1>4, <1>5

\* What the blob store lists are the items whose cards are in it.
LEMMA BlobRidsAre ==
  /\ BlobRids \in SUBSET Ids
  /\ \A r \in Ids : r \in BlobRids <=> InBlobs(blobEngine, cards[r], thumbs[r])
BY DEF BlobRids, InBlobs

LEMMA ReadRecordRidsStep ==
  ASSUME CatalogInv, ReadRecordRids
  PROVE  CatalogInv'
<1>1. /\ lock = Nobody /\ check' = [step |-> "read", rids |-> RecordRids, since |-> {}]
      /\ UNCHANGED <<blobEngine, records, seq, cards, thumbs, lock, pc, job, late, failures>>
  BY DEF ReadRecordRids, recordStore, blobStore
<1>2. Control' /\ Stores' /\ Bounded' /\ Work'
  BY <1>1 DEF CatalogInv, Control, Stores, Bounded, Work
<1>3. RecordRids \in SUBSET Ids
  BY DEF RecordRids
<1>4. check' \in Reads
  BY <1>1, <1>3 DEF Reads
<1>5. Histories'
  BY <1>1, <1>4 DEF CatalogInv, Histories
<1>6. ~Committing /\ ~Committing'
  BY <1>1 DEF Committing
<1>7. AllSettled'
  BY <1>1, <1>6 DEF CatalogInv, AllSettled
<1>8. \A r \in Ids : Settled(blobEngine, records[r], cards[r], thumbs[r], late[r])
  BY <1>6 DEF CatalogInv, AllSettled
<1>9. ASSUME NEW r \in RecordRids, late[r] # "delete"
      PROVE  InBlobs(blobEngine, cards[r], thumbs[r])
  <2>1. r \in Ids /\ records[r] # None
    BY DEF RecordRids
  <2>2. records[r] \in Records /\ cards[r] \in Cards /\ IsFiniteSet(VersionsOf(cards[r]))
    BY <2>1 DEF CatalogInv, Stores, Bounded
  <2>3. QED
    BY <1>8, <1>9, <2>1, <2>2, SettledIsListed
<1>10. ASSUME \A r \in Ids : late[r] = "none"
       PROVE  RecordRids = BlobRids
  <2>1. \A r \in Ids : r \in RecordRids <=> r \in BlobRids
    BY <1>8, <1>10, BlobRidsAre DEF Settled, RecordRids
  <2>2. QED
    BY <1>3, <2>1, BlobRidsAre
<1>11. BlobRids' = BlobRids
  BY <1>1 DEF BlobRids
<1>12. Checking'
  BY <1>1, <1>6, <1>9, <1>10, <1>11 DEF Checking
<1>13. QED
  BY <1>2, <1>5, <1>7, <1>12 DEF CatalogInv

LEMMA ReadBlobRidsStep ==
  ASSUME CatalogInv, ReadBlobRids
  PROVE  CatalogInv'
<1>1. /\ check' = [step |-> "done", ok |-> BasicIntegrity]
      /\ UNCHANGED <<blobEngine, records, seq, cards, thumbs, lock, pc, job, late, failures>>
  BY DEF ReadBlobRids, recordStore, blobStore
<1>2. Control' /\ Stores' /\ Bounded' /\ Work'
  BY <1>1 DEF CatalogInv, Control, Stores, Bounded, Work, Committing, Saves, Deletes
<1>3. Histories'
  BY <1>1 DEF CatalogInv, Histories, BasicIntegrity
<1>4. AllSettled'
  BY <1>1 DEF CatalogInv, AllSettled, Committing
<1>5. Checking'
  BY <1>1 DEF Checking
<1>6. QED
  BY <1>2, <1>3, <1>4, <1>5 DEF CatalogInv

LEMMA StutterStep ==
  ASSUME CatalogInv, UNCHANGED catalogVars
  PROVE  CatalogInv'
<1>1. UNCHANGED <<blobEngine, records, seq, cards, thumbs, lock, pc, job, late, failures, check>>
  BY DEF catalogVars
<1>2. Control' /\ Stores' /\ Histories' /\ Bounded'
  BY <1>1 DEF CatalogInv, Control, Stores, Histories, Bounded
<1>3. AllSettled' /\ Work' /\ Checking'
  BY <1>1 DEF CatalogInv, AllSettled, Work, Saves, Deletes, Checking, Committing, BlobRids
<1>4. QED
  BY <1>2, <1>3 DEF CatalogInv

LEMMA StepIInv ==
  ASSUME CatalogInv, [CatalogNext]_catalogVars
  PROVE  CatalogInv'
<1>1. ASSUME NEW w \in Writers, NEW url \in Urls, NEW v \in Versions, StartSave(w, url, v)
      PROVE  CatalogInv'
  BY <1>1, StartSaveStep
<1>2. ASSUME NEW w \in Writers, NEW r \in Ids, StartDelete(w, r)
      PROVE  CatalogInv'
  BY <1>2, StartDeleteStep
<1>3. ASSUME NEW w \in Writers,
             Rollback(w) \/ PutBlob(w) \/ PutCancelled(w) \/ DeleteBlob(w)
               \/ CommitSave(w) \/ CommitDelete(w) \/ CommitFails(w)
      PROVE  CatalogInv'
  BY <1>3, RollbackStep, PutBlobStep, PutCancelledStep, DeleteBlobStep,
     CommitSaveStep, CommitDeleteStep, CommitFailsStep
<1>4. CASE Crash \/ ReadRecordRids \/ ReadBlobRids
  BY <1>4, CrashStep, ReadRecordRidsStep, ReadBlobRidsStep
<1>5. CASE UNCHANGED catalogVars
  BY <1>5, StutterStep
<1>6. QED
  BY <1>1, <1>2, <1>3, <1>4, <1>5 DEF CatalogNext

-----------------------------------------------------------------------------
(* Theorems                                                                *)

\* The invariant, which says what each call has done and what the check knows.
THEOREM Invariance == CatalogSpec => []CatalogInv
<1>1. CatalogInit => CatalogInv
  BY InitIInv
<1>2. CatalogInv /\ [CatalogNext]_catalogVars => CatalogInv'
  BY StepIInv
<1>3. QED
  BY <1>1, <1>2, PTL DEF CatalogSpec

\* Every variable keeps its type, and the mutex is held by the one call under way
\* (Catalog's calls run in the record store's transactions).
THEOREM TypeCorrect == CatalogSpec => []TypeOK
<1>1. CatalogInv => TypeOK
  BY TypeOKParts DEF CatalogInv
<1>2. QED
  BY <1>1, Invariance, PTL

\* Whenever no call is under way every record has its card and thumbnail, but for
\* the two ways to lose them that RecordHasCard names (catalog.go SaveCard, Delete).
THEOREM RecordsHaveCards == CatalogSpec => []RecordHasCard
<1>1. ASSUME CatalogInv, lock = Nobody, NEW r \in RecordRids
      PROVE  HasCard(blobEngine, records[r], cards[r], thumbs[r], late[r])
  <2>1. r \in Ids /\ records[r] # None
    BY DEF RecordRids
  <2>2. Settled(blobEngine, records[r], cards[r], thumbs[r], late[r])
    BY <1>1, <2>1 DEF CatalogInv, AllSettled, Committing
  <2>3. QED
    BY <2>1, <2>2 DEF Settled
<1>2. CatalogInv => RecordHasCard
  BY <1>1 DEF RecordHasCard, HasCard, Full, TooOld
<1>3. QED
  BY <1>2, Invariance, PTL

\* An item is in both stores or in neither, unless a call on it ended between the
\* two commits: a rollback and a crash before the blob's commit leave nothing.
THEOREM StoresAgreeUnlessLate == CatalogSpec => []AgreeUnlessLate
<1>1. ASSUME CatalogInv, lock = Nobody, NEW r \in Ids, late[r] = "none"
      PROVE  r \in RecordRids <=> r \in BlobRids
  <2>1. Settled(blobEngine, records[r], cards[r], thumbs[r], late[r])
    BY <1>1 DEF CatalogInv, AllSettled, Committing
  <2>2. QED
    BY <1>1, <2>1, BlobRidsAre DEF Settled, RecordRids
<1>2. CatalogInv => AgreeUnlessLate
  BY <1>1 DEF AgreeUnlessLate
<1>3. QED
  BY <1>2, Invariance, PTL

\* Comparing how many ids the two stores have, at two times and with saves going
\* on meanwhile, is as good as comparing the ids (catalog.go BasicIntegrity).
THEOREM CountingIsExact == CatalogSpec => IntegrityIsExact
<1> DEFINE Exact == (check.step = "read" /\ check'.step = "done") =>
             /\ (check'.ok /\ "delete" \notin check.since \cup {late[r] : r \in Ids}) => check.rids = BlobRids
             /\ ~check'.ok => check.since # {} \/ \E r \in Ids : late[r] # "none"
<1>1. ASSUME CatalogInv, ReadBlobRids
      PROVE  Exact
  <2>1. /\ check.step = "read" /\ check'.ok = BasicIntegrity
    BY <1>1 DEF ReadBlobRids
  <2>2. check.rids \in SUBSET Ids /\ IsFiniteSet(Ids)
    <3>1. check \in Reads
      BY <1>1, <2>1 DEF CatalogInv, Histories, NotChecking
    <3>2. QED
      BY <3>1, BoundsAreNats, FS_Interval DEF Reads, Ids
  <2>3. IsFiniteSet(BlobRids)
    BY <2>2, BlobRidsAre, FS_Subset
  <2>4. ASSUME check'.ok, "delete" \notin check.since \cup {late[r] : r \in Ids}
        PROVE  check.rids = BlobRids
    <3>1. check.rids \in SUBSET BlobRids
      BY <1>1, <2>1, <2>2, <2>4, BlobRidsAre DEF CatalogInv, Checking
    <3>2. Cardinality(check.rids) = Cardinality(BlobRids)
      BY <2>1, <2>4 DEF BasicIntegrity
    <3>3. QED
      BY <2>3, <3>1, <3>2, FS_Subset
  <2>5. ASSUME check.since = {}, \A r \in Ids : late[r] = "none"
        PROVE  check'.ok
    BY <1>1, <2>1, <2>5 DEF CatalogInv, Checking, BasicIntegrity
  <2>6. QED
    BY <2>4, <2>5
<1>2. ASSUME CatalogInv, [CatalogNext]_catalogVars, check.step = "read", check'.step = "done"
      PROVE  ReadBlobRids
  <2>1. ASSUME NEW k, Unseen(k) PROVE FALSE
    <3>1. check \in Reads
      BY <1>2 DEF CatalogInv, Histories, NotChecking
    <3>2. check' = [check EXCEPT !.since = @ \cup {k}]
      BY <1>2, <2>1 DEF Unseen
    <3>3. check'.step = check.step
      BY <3>1, <3>2 DEF Reads
    <3>4. QED
      BY <1>2, <3>3
  <2>2. check' # check
    BY <1>2
  <2>3. ASSUME NEW w \in Writers,
               (\E url \in Urls, v \in Versions : StartSave(w, url, v)) \/ (\E r \in Ids : StartDelete(w, r))
        PROVE  FALSE
    BY <2>2, <2>3 DEF StartSave, StartDelete, Start
  <2>4. ASSUME NEW w \in Writers, Rollback(w) \/ CommitSave(w) \/ CommitDelete(w) \/ CommitFails(w)
        PROVE  FALSE
    BY <2>2, <2>4 DEF Rollback, CommitSave, CommitDelete, CommitFails
  <2>5. ASSUME NEW w \in Writers, PutBlob(w) \/ PutCancelled(w) \/ DeleteBlob(w)
        PROVE  FALSE
    BY <2>1, <2>5 DEF PutBlob, PutCancelled, DeleteBlob
  <2>6. ~Crash
    BY <1>2 DEF Crash, NotChecking
  <2>7. ~ReadRecordRids
    BY <1>2 DEF ReadRecordRids
  <2>8. ~UNCHANGED catalogVars
    BY <2>2 DEF catalogVars
  <2>9. QED
    BY <1>2, <2>3, <2>4, <2>5, <2>6, <2>7, <2>8 DEF CatalogNext
<1>3. CatalogInv /\ [CatalogNext]_catalogVars => Exact
  BY <1>1, <1>2
<1> HIDE DEF Exact
<1>4. CatalogSpec => [][Exact]_catalogVars
  BY <1>3, Invariance, PTL DEF CatalogSpec
<1>5. QED
  BY <1>4, PTL DEF IntegrityIsExact, Exact
=============================================================================
