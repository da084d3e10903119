-------------------------- MODULE BlobEnginesProofs --------------------------
(***************************************************************************)
(* The two engines implement BlobStore, and what that gives: no card keeps *)
(* more versions than it may, the newest survive, and the last Put can be  *)
(* read.  First what BlobOps says of a Put, then the lists that the engines *)
(* sort, the order of the keys, what each operation does to a card, and the *)
(* steps.                                                                  *)
(***************************************************************************)
EXTENDS BlobEngines, FiniteSetTheorems, WellFoundedInduction, TLAPS

-----------------------------------------------------------------------------
(* What a Put leaves of a card, for any versions, contents and MaxVersions;  *)
(* CardCatalogProofs rests on it too.  The lemmas before AfterPutHas are     *)
(* about the newest n members of a finite set of numbers.                    *)

Above(S, v) == {w \in S : w > v}

LEMMA MinExists ==
  ASSUME NEW S, S \subseteq Nat, S # {}
  PROVE  \E x \in S : \A y \in S : x <= y
<1> DEFINE R == OpToRel(<, Nat)
<1>1. IsWellFoundedOn(R, Nat)
  BY NatLessThanWellFounded
<1>2. \A x, y \in Nat : <<y, x>> \in R <=> y < x
  BY DEF OpToRel
<1> HIDE DEF R
<1>3. PICK x \in S : \A y \in S : ~(<<y, x>> \in R)
  BY <1>1, WFMin
<1>4. \A y \in S : x <= y
  <2> TAKE y \in S
  <2>1. ~(y < x)
    BY <1>2, <1>3
  <2>2. QED
    BY <2>1
<1>5. QED
  BY <1>4

\* Above is a finite part of its set, and smaller above a larger number.
LEMMA AboveIsFinite ==
  ASSUME NEW S, S \subseteq Nat, IsFiniteSet(S), NEW v
  PROVE  /\ Above(S, v) \subseteq S
         /\ IsFiniteSet(Above(S, v))
         /\ Cardinality(Above(S, v)) \in Nat
         /\ Cardinality(Above(S, v)) <= Cardinality(S)
<1>1. Above(S, v) \in SUBSET S
  BY DEF Above
<1>2. QED
  BY <1>1, FS_Subset, FS_CardinalityType

LEMMA AboveShrinks ==
  ASSUME NEW S, S \subseteq Nat, IsFiniteSet(S), NEW v \in S, NEW w \in Above(S, v)
  PROVE  Cardinality(Above(S, w)) < Cardinality(Above(S, v))
<1>1. w \in S /\ w > v
  BY DEF Above
<1>2. v \in Nat /\ w \in Nat
  BY <1>1
<1>3. \A u \in Above(S, w) : u \in Above(S, v) /\ u # w
  <2> TAKE u \in Above(S, w)
  <2>1. u \in S /\ u \in Nat /\ u > w
    BY DEF Above
  <2>2. u > v /\ u # w
    BY <1>1, <1>2, <2>1
  <2>3. QED
    BY <2>1, <2>2 DEF Above
<1>4. Above(S, w) \in SUBSET (Above(S, v) \ {w})
  BY <1>3
<1>5. /\ IsFiniteSet(Above(S, v) \ {w})
      /\ Cardinality(Above(S, v) \ {w}) = Cardinality(Above(S, v)) - 1
  BY AboveIsFinite, FS_RemoveElement
<1>6. Cardinality(Above(S, w)) <= Cardinality(Above(S, v)) - 1
  BY <1>4, <1>5, FS_Subset
<1>7. Cardinality(Above(S, w)) \in Nat /\ Cardinality(Above(S, v)) \in Nat
  BY AboveIsFinite
<1>8. QED
  BY <1>6, <1>7

LEMMA MaxExists ==
  ASSUME NEW S, S \subseteq Nat, IsFiniteSet(S), S # {}
  PROVE  \E x \in S : \A y \in S : y <= x
<1> DEFINE C == {Cardinality(Above(S, v)) : v \in S}
<1>1. C \subseteq Nat /\ C # {}
  BY AboveIsFinite
<1>2. PICK x \in S : \A y \in S : Cardinality(Above(S, x)) <= Cardinality(Above(S, y))
  <2>1. PICK m \in C : \A k \in C : m <= k
    <3> HIDE DEF C
    <3>1. QED
      BY <1>1, MinExists
  <2>2. QED
    BY <2>1
<1>3. \A y \in S : y <= x
  <2> TAKE y \in S
  <2>1. CASE y > x
    <3>1. y \in Above(S, x)
      BY <2>1 DEF Above
    <3>2. Cardinality(Above(S, y)) < Cardinality(Above(S, x))
      BY <3>1, AboveShrinks
    <3>3. Cardinality(Above(S, y)) \in Nat /\ Cardinality(Above(S, x)) \in Nat
      BY AboveIsFinite
    <3>4. Cardinality(Above(S, x)) <= Cardinality(Above(S, y))
      BY <1>2
    <3>5. QED
      BY <3>2, <3>3, <3>4
  <2>2. QED
    BY <2>1
<1>4. QED
  BY <1>3
\* The newest n of S are at most n.
LEMMA NewestAtMost ==
  ASSUME NEW S, S \subseteq Nat, IsFiniteSet(S), NEW n \in Nat
  PROVE  /\ Newest(S, n) \subseteq S
         /\ IsFiniteSet(Newest(S, n))
         /\ Cardinality(Newest(S, n)) \in Nat
         /\ Cardinality(Newest(S, n)) <= n
<1> DEFINE N == Newest(S, n)
<1>1. \A v \in S : v \in N <=> Cardinality(Above(S, v)) < n
  BY DEF Newest, Above
<1>2. N \in SUBSET S
  BY DEF Newest
<1> HIDE DEF N
<1>3. IsFiniteSet(N) /\ Cardinality(N) \in Nat
  BY <1>2, FS_Subset, FS_CardinalityType
<1>4. Cardinality(N) <= n
  <2>1. CASE N = {}
    <3>1. Cardinality(N) = 0
      BY <2>1, FS_EmptySet
    <3>2. QED
      BY <3>1
  <2>2. CASE N # {}
    <3>1. PICK v \in N : \A w \in N : v <= w
      BY <1>2, <2>2, MinExists
    <3>2. N \ {v} \in SUBSET Above(S, v)
      <4>1. ASSUME NEW w \in N \ {v} PROVE w \in S /\ w > v
        <5>1. w \in Nat /\ v \in Nat /\ v <= w /\ w # v
          BY <1>2, <3>1
        <5>2. QED
          BY <1>2, <5>1
      <4>2. QED
        BY <4>1 DEF Above
    <3>3. IsFiniteSet(Above(S, v)) /\ Cardinality(Above(S, v)) \in Nat
      BY AboveIsFinite
    <3>4. Cardinality(N \ {v}) <= Cardinality(Above(S, v))
      BY <3>2, <3>3, FS_Subset
    <3>5. Cardinality(N \ {v}) = Cardinality(N) - 1
      BY <1>3, FS_RemoveElement
    <3>6. Cardinality(Above(S, v)) < n
      BY <1>1, <1>2
    <3>7. QED
      BY <1>3, <3>3, <3>4, <3>5, <3>6
  <2>3. QED
    BY <2>1, <2>2
<1>5. QED
  BY <1>2, <1>3, <1>4 DEF N

\* If S has n members, so have the newest n.
LEMMA NewestAtLeast ==
  ASSUME NEW S, S \subseteq Nat, IsFiniteSet(S), NEW n \in Nat, n <= Cardinality(S)
  PROVE  n <= Cardinality(Newest(S, n))
<1> DEFINE N == Newest(S, n)
<1>1. \A v \in S : v \in N <=> Cardinality(Above(S, v)) < n
  BY DEF Newest, Above
<1>2. N \subseteq S /\ IsFiniteSet(N) /\ Cardinality(N) \in Nat
  BY NewestAtMost
<1> HIDE DEF N
<1>3. CASE S \ N = {}
  <2>1. N = S
    BY <1>2, <1>3
  <2>2. QED
    BY <2>1 DEF N
<1>4. CASE S \ N # {}
  <2>1. S \ N \subseteq Nat /\ IsFiniteSet(S \ N)
    BY FS_Subset
  <2>2. PICK v \in S \ N : \A w \in S \ N : w <= v
    BY <1>4, <2>1, MaxExists
  <2>3. Above(S, v) \in SUBSET N
    <3>1. ASSUME NEW w \in S, w > v PROVE w \in N
      <4>1. w \in Nat /\ v \in Nat
        OBVIOUS
      <4>2. ~(w <= v)
        BY <3>1, <4>1
      <4>3. QED
        BY <2>2, <4>2
    <3>2. QED
      BY <3>1 DEF Above
  <2>4. Cardinality(Above(S, v)) <= Cardinality(N)
    BY <1>2, <2>3, FS_Subset
  <2>5. Cardinality(Above(S, v)) \in Nat
    BY AboveIsFinite
  <2>6. ~(Cardinality(Above(S, v)) < n)
    BY <1>1
  <2>7. n <= Cardinality(N)
    BY <1>2, <2>4, <2>5, <2>6
  <2>8. QED
    BY <2>7 DEF N
<1>5. QED
  BY <1>3, <1>4

\* If S has no more than n, they are all of S.
LEMMA NewestOfFew ==
  ASSUME NEW S, S \subseteq Nat, IsFiniteSet(S), NEW n \in Nat, Cardinality(S) <= n
  PROVE  Newest(S, n) = S
<1>1. ASSUME NEW v \in S PROVE Cardinality(Above(S, v)) < n
  <2>1. Above(S, v) \in SUBSET (S \ {v})
    <3>1. ASSUME NEW w \in S, w > v PROVE w # v
      <4>1. w \in Nat /\ v \in Nat
        OBVIOUS
      <4>2. QED
        BY <3>1, <4>1
    <3>2. QED
      BY <3>1 DEF Above
  <2>2. IsFiniteSet(S \ {v}) /\ Cardinality(S \ {v}) = Cardinality(S) - 1
    BY FS_RemoveElement
  <2>3. Cardinality(Above(S, v)) <= Cardinality(S) - 1
    BY <2>1, <2>2, FS_Subset
  <2>4. Cardinality(Above(S, v)) \in Nat /\ Cardinality(S) \in Nat
    BY AboveIsFinite, FS_CardinalityType
  <2>5. QED
    BY <2>3, <2>4
<1>2. QED
  BY <1>1 DEF Newest, Above

\* What is not among the newest is older than all that are.
LEMMA NewestAreNewer ==
  ASSUME NEW S, S \subseteq Nat, IsFiniteSet(S), NEW n \in Nat,
         NEW v \in S, v \notin Newest(S, n), NEW w \in Newest(S, n)
  PROVE  w > v
<1>1. w \in S /\ Cardinality(Above(S, w)) < n
  BY DEF Newest, Above
<1>2. ~(Cardinality(Above(S, v)) < n)
  BY DEF Newest, Above
<1>3. v \in Nat /\ w \in Nat /\ v # w
  BY <1>1, <1>2
<1>4. CASE v > w
  <2>1. v \in Above(S, w)
    BY <1>4 DEF Above
  <2>2. Cardinality(Above(S, v)) < Cardinality(Above(S, w))
    BY <1>1, <2>1, AboveShrinks
  <2>3. Cardinality(Above(S, v)) \in Nat /\ Cardinality(Above(S, w)) \in Nat
    BY AboveIsFinite
  <2>4. QED
    BY <1>1, <1>2, <2>2, <2>3
<1>5. QED
  BY <1>3, <1>4
-----------------------------------------------------------------------------

\* The versions of a card after a Put are those that PutKeeps says.
LEMMA AfterPutHas ==
  ASSUME NEW e \in Engines, NEW card \in Cards, NEW v \in Versions, NEW c \in Contents,
         PutKeeps(e, VersionsOf(card), v) \subseteq VersionsOf(card) \cup {v}
  PROVE  /\ AfterPut(e, card, v, c) \in Cards
         /\ VersionsOf(AfterPut(e, card, v, c)) = PutKeeps(e, VersionsOf(card), v)
         /\ \A w \in PutKeeps(e, VersionsOf(card), v) :
              AfterPut(e, card, v, c)[w] = IF w = v THEN c ELSE card[w]
<1> DEFINE after == AfterPut(e, card, v, c)
           kept == PutKeeps(e, VersionsOf(card), v)
<1>1. \A w \in VersionsOf(card) : w \in Versions /\ card[w] # None
  BY DEF VersionsOf
<1>2. after = [w \in Versions |-> IF w \notin kept THEN None ELSE IF w = v THEN c ELSE card[w]]
  BY DEF AfterPut
<1> HIDE DEF after, kept
<1>3. \A w \in kept : w = v \/ w \in VersionsOf(card)
  BY DEF kept
<1>4. after \in Cards
  BY <1>2 DEF Cards
<1>5. \A w \in Versions : after[w] # None <=> w \in kept
  BY <1>1, <1>2, <1>3, NoneIsNoContent
<1>6. VersionsOf(after) = kept
  BY <1>1, <1>3, <1>5 DEF VersionsOf
<1>7. \A w \in kept : after[w] = IF w = v THEN c ELSE card[w]
  BY <1>1, <1>2, <1>3
<1>8. QED
  BY <1>4, <1>6, <1>7 DEF after, kept

\* Which of the versions S are still in T after a Put of v: all while there is
\* room, else as many as there may be; and v, unless sqlblob has as many newer ones.
Room(e, S, v, T) ==
  /\ T \subseteq S \cup {v} /\ IsFiniteSet(T) /\ T # {}
  /\ v \in T \/ (e = "sqlblob" /\ Cardinality(T) = MaxVersions /\ \A w \in T : w > v)
  /\ Cardinality(T) >= MaxVersions \/ S \subseteq T
  /\ Cardinality(S) >= MaxVersions => Cardinality(T) >= MaxVersions
  /\ Cardinality(S) <= MaxVersions => Cardinality(T) <= MaxVersions

LEMMA PutKeepsNewest ==
  ASSUME NEW e \in Engines, NEW S \in SUBSET Nat, IsFiniteSet(S), NEW v \in Nat
  PROVE  Room(e, S, v, PutKeeps(e, S, v))
<1> SUFFICES ASSUME NEW T, T = PutKeeps(e, S, v) PROVE Room(e, S, v, T)
  OBVIOUS
<1> USE DEF Room
<1>1. MaxVersions \in Nat /\ MaxVersions - 1 \in Nat /\ MaxVersions >= 2
  BY AtLeastTwo
<1>2. Cardinality(S) \in Nat
  BY FS_CardinalityType
<1>3. CASE e = "sqlblob"
  <2> DEFINE U == S \cup {v}
  <2>1. U \subseteq Nat /\ IsFiniteSet(U) /\ Cardinality(U) \in Nat /\ Cardinality(S) <= Cardinality(U)
    <3>1. IsFiniteSet(U) /\ S \in SUBSET U
      BY FS_AddElement
    <3>2. QED
      BY <3>1, FS_CardinalityType, FS_Subset
  <2>2. v \in U /\ S \subseteq U
    OBVIOUS
  <2>3. T = Newest(U, MaxVersions)
    BY <1>3 DEF PutKeeps
  <2> HIDE DEF U
  <2>4. T \subseteq U /\ IsFiniteSet(T) /\ Cardinality(T) \in Nat /\ Cardinality(T) <= MaxVersions
    BY <1>1, <2>1, <2>3, NewestAtMost
  <2>5. CASE Cardinality(U) <= MaxVersions
    <3>1. T = U
      BY <1>1, <2>1, <2>3, <2>5, NewestOfFew
    <3>2. QED
      BY <1>1, <1>2, <2>1, <2>2, <2>4, <3>1 DEF U
  <2>6. CASE ~(Cardinality(U) <= MaxVersions)
    <3>1. MaxVersions <= Cardinality(T)
      <4>1. MaxVersions <= Cardinality(U)
        BY <1>1, <2>1, <2>6
      <4>2. QED
        BY <1>1, <2>1, <2>3, <4>1, NewestAtLeast
    <3>2. Cardinality(T) = MaxVersions
      BY <1>1, <2>4, <3>1
    <3>3. T # {}
      BY <1>1, <3>2, FS_EmptySet
    <3>4. v \in T \/ \A w \in T : w > v
      BY <1>1, <2>1, <2>2, <2>3, NewestAreNewer
    <3>5. QED
      BY <1>1, <1>3, <2>4, <3>1, <3>2, <3>3, <3>4 DEF U
  <2>7. QED
    BY <2>5, <2>6
<1>4. CASE e # "sqlblob" /\ v \in S
  <2>1. T = S
    BY <1>4 DEF PutKeeps
  <2>2. QED
    BY <1>1, <1>2, <1>4, <2>1
<1>5. CASE e # "sqlblob" /\ v \notin S
  <2> DEFINE N == Newest(S, MaxVersions - 1)
  <2>1. N \subseteq S /\ IsFiniteSet(N) /\ Cardinality(N) \in Nat /\ Cardinality(N) <= MaxVersions - 1
    BY <1>1, NewestAtMost
  <2>2. T = N \cup {v}
    BY <1>5 DEF PutKeeps
  <2>3. Cardinality(S) <= MaxVersions - 1 => N = S
    BY <1>1, NewestOfFew
  <2>4. MaxVersions - 1 <= Cardinality(S) => MaxVersions - 1 <= Cardinality(N)
    BY <1>1, NewestAtLeast
  <2> HIDE DEF N
  <2>5. IsFiniteSet(T) /\ Cardinality(T) = Cardinality(N) + 1
    BY <1>5, <2>1, <2>2, FS_AddElement
  <2>6. CASE Cardinality(S) <= MaxVersions - 1
    BY <1>1, <1>2, <2>1, <2>2, <2>3, <2>5, <2>6
  <2>7. CASE ~(Cardinality(S) <= MaxVersions - 1)
    <3>1. Cardinality(T) = MaxVersions
      BY <1>1, <1>2, <2>1, <2>4, <2>5, <2>7
    <3>2. QED
      BY <1>1, <2>1, <2>2, <2>5, <3>1
  <2>8. QED
    BY <2>6, <2>7
<1>6. QED
  BY <1>3, <1>4, <1>5

\* A card after a Put: the new content is there, unless it was too old for
\* sqlblob, and what was there before too, unless the card is full.
LEMMA AfterPutKeeps ==
  ASSUME NEW e \in Engines, NEW card \in Cards, IsFiniteSet(VersionsOf(card)),
         NEW v \in Versions, NEW c \in Contents,
         NEW after, after = AfterPut(e, card, v, c)
  PROVE  /\ after \in Cards
         /\ IsFiniteSet(VersionsOf(after)) /\ VersionsOf(after) # {}
         /\ \/ after[v] = c
            \/ /\ e = "sqlblob" /\ Cardinality(VersionsOf(after)) = MaxVersions
               /\ \A w \in VersionsOf(after) : w > v
         /\ \A u \in Versions : u # v /\ card[u] # None =>
              after[u] = card[u] \/ Cardinality(VersionsOf(after)) >= MaxVersions
         /\ Cardinality(VersionsOf(card)) >= MaxVersions => Cardinality(VersionsOf(after)) >= MaxVersions
         /\ Cardinality(VersionsOf(card)) <= MaxVersions => Cardinality(VersionsOf(after)) <= MaxVersions
<1> DEFINE S == VersionsOf(card)
           T == PutKeeps(e, S, v)
<1>1. S \subseteq Nat /\ v \in Nat /\ \A u \in Versions : card[u] # None => u \in S
  BY VersionsAreNats DEF VersionsOf
<1>2. IsFiniteSet(S)
  OBVIOUS
<1>3. T = PutKeeps(e, S, v)
  OBVIOUS
<1> HIDE DEF S, T
<1>4. Room(e, S, v, T)
  BY <1>1, <1>2, <1>3, PutKeepsNewest
<1>5. /\ after \in Cards
      /\ VersionsOf(after) = T
      /\ \A w \in T : after[w] = IF w = v THEN c ELSE card[w]
  BY <1>3, <1>4, AfterPutHas DEF S, Room
<1>6. \A u \in Versions : u # v /\ card[u] # None =>
        after[u] = card[u] \/ Cardinality(T) >= MaxVersions
  BY <1>1, <1>4, <1>5 DEF Room
<1>7. after[v] = c \/ (e = "sqlblob" /\ Cardinality(T) = MaxVersions /\ \A w \in T : w > v)
  BY <1>4, <1>5 DEF Room
<1>8. QED
  BY <1>4, <1>5, <1>6, <1>7 DEF S, Room

-----------------------------------------------------------------------------
(* Sorted lists.  An order is given as the set R of its pairs. *)

Preceding(R, S, x) == {y \in S : <<y, x>> \in R}

Orders(R, S) ==
  /\ \A x \in S : <<x, x>> \notin R
  /\ \A x, y, z \in S : <<x, y>> \in R /\ <<y, z>> \in R => <<x, z>> \in R
  /\ \A x, y \in S : x = y \/ <<x, y>> \in R \/ <<y, x>> \in R

\* s is S in the order R.
Lists(s, S, R) ==
  /\ Len(s) \in Nat /\ DOMAIN s = 1 .. Len(s)
  /\ \A i \in DOMAIN s : s[i] \in S
  /\ \A x \in S : \E i \in DOMAIN s : s[i] = x
  /\ \A i, j \in DOMAIN s : <<s[i], s[j]>> \in R <=> i < j

LEMMA PrecedingIsFinite ==
  ASSUME NEW S, IsFiniteSet(S), NEW R, Orders(R, S), NEW x \in S
  PROVE  /\ IsFiniteSet(Preceding(R, S, x))
         /\ Cardinality(Preceding(R, S, x)) \in 0 .. (Cardinality(S) - 1)
<1>1. Preceding(R, S, x) \in SUBSET (S \ {x})
  BY DEF Preceding, Orders
<1>2. IsFiniteSet(S \ {x}) /\ Cardinality(S \ {x}) = Cardinality(S) - 1 /\ Cardinality(S) \in Nat
  BY FS_RemoveElement, FS_CardinalityType
<1>3. IsFiniteSet(Preceding(R, S, x)) /\ Cardinality(Preceding(R, S, x)) <= Cardinality(S) - 1
  BY <1>1, <1>2, FS_Subset
<1>4. Cardinality(Preceding(R, S, x)) \in Nat
  BY <1>3, FS_CardinalityType
<1>5. QED
  BY <1>2, <1>3, <1>4

LEMMA PrecedingGrows ==
  ASSUME NEW S, IsFiniteSet(S), NEW R, Orders(R, S), NEW x \in S, NEW y \in S, <<x, y>> \in R
  PROVE  Cardinality(Preceding(R, S, x)) < Cardinality(Preceding(R, S, y))
<1>1. Preceding(R, S, x) \in SUBSET Preceding(R, S, y)
  BY DEF Preceding, Orders
<1>2. x \in Preceding(R, S, y) /\ x \notin Preceding(R, S, x)
  BY DEF Preceding, Orders
<1>3. IsFiniteSet(Preceding(R, S, y))
  BY PrecedingIsFinite
<1>4. /\ Cardinality(Preceding(R, S, x)) <= Cardinality(Preceding(R, S, y))
      /\ Cardinality(Preceding(R, S, x)) # Cardinality(Preceding(R, S, y))
  BY <1>1, <1>2, <1>3, FS_Subset
<1>5. Cardinality(Preceding(R, S, x)) \in Int /\ Cardinality(Preceding(R, S, y)) \in Int
  BY PrecedingIsFinite
<1>6. QED
  BY <1>4, <1>5

LEMMA RanksDiffer ==
  ASSUME NEW S, IsFiniteSet(S), NEW R, Orders(R, S), NEW x \in S, NEW y \in S,
         Cardinality(Preceding(R, S, x)) = Cardinality(Preceding(R, S, y))
  PROVE  x = y
<1>1. Cardinality(Preceding(R, S, x)) \in Int
  BY PrecedingIsFinite
<1>2. CASE <<x, y>> \in R
  <2>1. Cardinality(Preceding(R, S, x)) < Cardinality(Preceding(R, S, y))
    BY <1>2, PrecedingGrows
  <2>2. QED
    BY <1>1, <2>1
<1>3. CASE <<y, x>> \in R
  <2>1. Cardinality(Preceding(R, S, y)) < Cardinality(Preceding(R, S, x))
    BY <1>3, PrecedingGrows
  <2>2. QED
    BY <1>1, <2>1
<1>4. QED
  BY <1>2, <1>3 DEF Orders

\* Every place of the list is somebody's.
LEMMA EveryRank ==
  ASSUME NEW S, IsFiniteSet(S), NEW R, Orders(R, S), NEW i \in 1 .. Cardinality(S)
  PROVE  \E x \in S : Cardinality(Preceding(R, S, x)) = i - 1
<1> DEFINE n == Cardinality(S)
           place == [x \in S |-> Cardinality(Preceding(R, S, x)) + 1]
<1>1. n \in Nat
  BY FS_CardinalityType
<1>2. \A x \in S : Cardinality(Preceding(R, S, x)) \in 0 .. (n - 1)
  BY PrecedingIsFinite
<1>3. place \in [S -> 1 .. n]
  BY <1>1, <1>2
<1>4. \A x, y \in S : Cardinality(Preceding(R, S, x)) = Cardinality(Preceding(R, S, y)) => x = y
  BY RanksDiffer
<1>5. \A x, y \in S : place[x] = place[y] => x = y
  BY <1>2, <1>4
<1>6. IsFiniteSet(1 .. n) /\ Cardinality(1 .. n) = n
  BY <1>1, FS_Interval
<1>7. place \in Surjection(S, 1 .. n)
  <2> HIDE DEF place
  <2>1. place \in Injection(S, 1 .. n)
    BY <1>3, <1>5 DEF Injection, IsInjective
  <2>2. QED
    BY <1>6, <2>1, FS_Injection
<1>8. PICK x \in S : place[x] = i
  BY <1>7 DEF Surjection
<1>9. Cardinality(Preceding(R, S, x)) + 1 = i /\ Cardinality(Preceding(R, S, x)) \in Int
  BY <1>2, <1>8
<1>10. QED
  BY <1>9

\* Who is chosen by rank, place by place, makes the list.
LEMMA RanksList ==
  ASSUME NEW S, IsFiniteSet(S), NEW R, Orders(R, S),
         NEW s \in [1 .. Cardinality(S) -> S],
         \A i \in 1 .. Cardinality(S) : Cardinality(Preceding(R, S, s[i])) = i - 1
  PROVE  Lists(s, S, R) /\ Len(s) = Cardinality(S)
<1> DEFINE n == Cardinality(S)
<1>1. n \in Nat /\ DOMAIN s = 1 .. n
  BY FS_CardinalityType
<1>2. Len(s) = n
  BY <1>1
<1>3. \A x \in S : Cardinality(Preceding(R, S, x)) \in 0 .. (n - 1)
  BY PrecedingIsFinite
<1>4. \A x, y \in S : <<x, y>> \in R => Cardinality(Preceding(R, S, x)) < Cardinality(Preceding(R, S, y))
  BY PrecedingGrows
<1>5. \A x, y \in S : Cardinality(Preceding(R, S, x)) = Cardinality(Preceding(R, S, y)) => x = y
  BY RanksDiffer
<1>6. ASSUME NEW x \in S PROVE \E i \in 1 .. n : s[i] = x
  <2> DEFINE i == Cardinality(Preceding(R, S, x)) + 1
  <2>1. i \in 1 .. n /\ i - 1 = Cardinality(Preceding(R, S, x))
    BY <1>1, <1>3
  <2>2. s[i] = x
    BY <1>5, <2>1
  <2>3. QED
    BY <2>1, <2>2
<1>7. ASSUME NEW i \in 1 .. n, NEW j \in 1 .. n PROVE <<s[i], s[j]>> \in R <=> i < j
  <2>1. s[i] \in S /\ s[j] \in S
    OBVIOUS
  <2>2. /\ Cardinality(Preceding(R, S, s[i])) = i - 1
        /\ Cardinality(Preceding(R, S, s[j])) = j - 1
    OBVIOUS
  <2>3. <<s[i], s[j]>> \in R => i - 1 < j - 1
    BY <1>4, <2>1, <2>2
  <2>4. <<s[j], s[i]>> \in R => j - 1 < i - 1
    BY <1>4, <2>1, <2>2
  <2>5. s[i] = s[j] \/ <<s[i], s[j]>> \in R \/ <<s[j], s[i]>> \in R
    BY <2>1 DEF Orders
  <2>6. s[i] = s[j] => i - 1 = j - 1
    BY <2>2
  <2>7. QED
    BY <1>1, <2>3, <2>4, <2>5, <2>6
<1>8. QED
  BY <1>1, <1>2, <1>6, <1>7 DEF Lists

\* Lists of numbers.
LessThan(S) == {p \in S \X S : p[1] < p[2]}

LEMMA NumbersAreOrdered ==
  ASSUME NEW S, S \subseteq Int
  PROVE  Orders(LessThan(S), S)
BY DEF Orders, LessThan

LEMMA SortedNumbers ==
  ASSUME NEW S, S \subseteq Int, IsFiniteSet(S)
  PROVE  Lists(Sorted(S, <), S, LessThan(S)) /\ Len(Sorted(S, <)) = Cardinality(S)
<1> DEFINE s == Sorted(S, <)
           R == LessThan(S)
<1>1. Orders(R, S)
  BY NumbersAreOrdered
<1>2. ASSUME NEW x \in S PROVE Preceding(R, S, x) = {y \in S : y < x}
  BY DEF Preceding, LessThan
<1>3. ASSUME NEW i \in 1 .. Cardinality(S)
      PROVE  s[i] \in S /\ Cardinality(Preceding(R, S, s[i])) = i - 1
  <2>1. \E x \in S : Cardinality({y \in S : y < x}) = i - 1
    <3>1. \E x \in S : Cardinality(Preceding(R, S, x)) = i - 1
      BY <1>1, EveryRank
    <3>2. QED
      BY <1>2, <3>1
  <2>2. s[i] = CHOOSE x \in S : Cardinality({y \in S : y < x}) = i - 1
    BY DEF Sorted
  <2>3. s[i] \in S /\ Cardinality({y \in S : y < s[i]}) = i - 1
    BY <2>1, <2>2
  <2>4. QED
    BY <1>2, <2>3
<1>4. s \in [1 .. Cardinality(S) -> S]
  <2>1. s = [i \in 1 .. Cardinality(S) |-> CHOOSE x \in S : Cardinality({y \in S : y < x}) = i - 1]
    BY DEF Sorted
  <2> HIDE DEF s
  <2>2. QED
    BY <1>3, <2>1
<1> HIDE DEF s, R
<1>5. Lists(s, S, R) /\ Len(s) = Cardinality(S)
  BY <1>1, <1>3, <1>4, RanksList
<1>6. QED
  BY <1>5 DEF s, R

LEMMA Ascending ==
  ASSUME NEW S, S \subseteq Int, NEW s, Lists(s, S, LessThan(S)), NEW i \in DOMAIN s, NEW j \in DOMAIN s
  PROVE  /\ s[i] < s[j] <=> i < j
         /\ s[i] = s[j] <=> i = j
<1>1. s[i] \in S /\ s[j] \in S /\ i \in Int /\ j \in Int
  BY DEF Lists
<1>2. s[i] < s[j] <=> i < j
  BY <1>1 DEF Lists, LessThan
<1>3. s[j] < s[i] <=> j < i
  BY <1>1 DEF Lists, LessThan
<1>4. s[i] \in Int /\ s[j] \in Int
  BY <1>1
<1>5. QED
  BY <1>1, <1>2, <1>3, <1>4

\* The numbers above the one at place i are those after it.
LEMMA AbovePlace ==
  ASSUME NEW S, S \subseteq Nat, NEW s, Lists(s, S, LessThan(S)), NEW i \in DOMAIN s
  PROVE  Cardinality(Above(S, s[i])) = Len(s) - i
<1> DEFINE after == (i + 1) .. Len(s)
           f == [j \in after |-> s[j]]
<1>1. Len(s) \in Nat /\ DOMAIN s = 1 .. Len(s) /\ i \in Nat /\ i <= Len(s) /\ 1 <= i
  BY DEF Lists
<1>2. S \subseteq Int
  OBVIOUS
<1>3. \A j \in after : j \in DOMAIN s /\ i < j
  BY <1>1
<1>4. \A j, k \in DOMAIN s : (s[j] < s[k] <=> j < k) /\ (s[j] = s[k] <=> j = k)
  BY <1>2, Ascending
<1>5. f \in [after -> Above(S, s[i])]
  <2>1. ASSUME NEW j \in after PROVE s[j] \in Above(S, s[i])
    <3>1. s[j] \in S /\ s[i] \in S /\ s[i] < s[j]
      BY <1>3, <1>4 DEF Lists
    <3>2. QED
      BY <1>2, <3>1 DEF Above
  <2>2. QED
    BY <2>1
<1>6. \A j, k \in after : f[j] = f[k] => j = k
  BY <1>3, <1>4
<1>7. \A w \in Above(S, s[i]) : \E j \in after : f[j] = w
  <2> TAKE w \in Above(S, s[i])
  <2>1. w \in S /\ w > s[i] /\ s[i] \in S
    BY DEF Above, Lists
  <2>2. PICK j \in DOMAIN s : s[j] = w
    BY <2>1 DEF Lists
  <2>3. s[i] < s[j]
    BY <1>2, <2>1, <2>2
  <2>4. i < j
    BY <1>4, <2>3
  <2>5. j \in after
    BY <1>1, <2>4
  <2>6. QED
    BY <2>2, <2>5
<1>8. IsFiniteSet(after) /\ Cardinality(after) = Len(s) - i
  <2>1. i + 1 \in Int /\ Len(s) \in Int
    BY <1>1
  <2>2. IsFiniteSet(after) /\ Cardinality(after) = IF i + 1 > Len(s) THEN 0 ELSE Len(s) - (i + 1) + 1
    BY <2>1, FS_Interval
  <2>3. QED
    BY <1>1, <2>2
<1> HIDE DEF f, after
<1>9. f \in Bijection(after, Above(S, s[i]))
  BY <1>5, <1>6, <1>7 DEF Bijection, Injection, Surjection, IsInjective
<1>10. ExistsBijection(after, Above(S, s[i]))
  BY <1>9 DEF ExistsBijection
<1>11. QED
  BY <1>8, <1>10, FS_Bijection

\* The newest m, from the list of all: pblob and sqlblob find them so.
LEMMA FromPlace ==
  ASSUME NEW S, S \subseteq Nat, NEW s, Lists(s, S, LessThan(S)), NEW m \in 1 .. Len(s)
  PROVE  /\ Len(s) - m + 1 \in DOMAIN s
         /\ Newest(S, m) \subseteq S
         /\ \A w \in S : w \in Newest(S, m) <=> ~(w < s[Len(s) - m + 1])
<1> DEFINE k == Len(s) - m + 1
<1>1. Len(s) \in Nat /\ DOMAIN s = 1 .. Len(s) /\ m \in Nat /\ m <= Len(s) /\ 1 <= m
  BY DEF Lists
<1>2. k \in DOMAIN s /\ S \subseteq Int
  BY <1>1
<1>3. ASSUME NEW w \in S PROVE Cardinality(Above(S, w)) < m <=> ~(w < s[k])
  <2>1. PICK j \in DOMAIN s : s[j] = w
    BY DEF Lists
  <2>2. Cardinality(Above(S, w)) = Len(s) - j
    BY <2>1, AbovePlace
  <2>3. s[j] < s[k] <=> j < k
    BY <1>2, Ascending
  <2>4. QED
    BY <1>1, <2>1, <2>2, <2>3
<1>4. QED
  BY <1>2, <1>3 DEF Newest, Above

-----------------------------------------------------------------------------
(* The keys and their order. *)

CardKeys == {CardKey(r, v) : r \in Rids, v \in Versions}
Keys == CardKeys \cup {ThumbnailKey(r) : r \in Rids}
KeyOrder(K) == {p \in K \X K : Less(p[1], p[2])}

\* No sign bit is lost: the version is read back from the key.
LEMMA VersionIsRead ==
  ASSUME NEW r, NEW v \in Nat, v < SignBit
  PROVE  /\ CardKey(r, v) = <<r, 0, v + SignBit>>
         /\ GetVersion(CardKey(r, v)) = v
<1>1. SignBit \in Nat \ {0}
  BY VersionsFit
<1> DEFINE n == 2 * SignBit
<1>2. v + SignBit \in Nat /\ n \in Nat \ {0} /\ v + SignBit < n /\ v + SignBit + SignBit = v + n /\ v < n
  BY <1>1
<1>3. (v + SignBit) % n = v + SignBit
  <2> HIDE DEF n
  <2>1. QED
    BY <1>2
<1>4. (v + n) % n = v
  <2> HIDE DEF n
  <2>1. QED
    BY <1>2
<1>5. CardKey(r, v) = <<r, 0, v + SignBit>>
  BY <1>3 DEF CardKey, pngType, Version
<1>6. GetVersion(<<r, 0, v + SignBit>>) = (v + SignBit + SignBit) % n
  BY DEF GetVersion
<1>7. QED
  BY <1>2, <1>4, <1>5, <1>6

LEMMA CardKeyParts ==
  ASSUME NEW r \in Rids, NEW v \in Versions
  PROVE  /\ CardKey(r, v) = <<r, 0, v + SignBit>>
         /\ GetVersion(CardKey(r, v)) = v
         /\ v \in Nat /\ v < SignBit /\ SignBit \in Nat /\ r \in Nat
<1>1. v \in Nat /\ v < SignBit
  BY VersionsAreNats, VersionsFit
<1>2. QED
  BY <1>1, VersionIsRead, VersionsFit, RidsAreNats

LEMMA KeyParts ==
  ASSUME NEW k \in Keys
  PROVE  /\ k[1] \in Rids /\ k[1] \in Nat
         /\ \/ /\ k = CardKey(k[1], GetVersion(k)) /\ GetVersion(k) \in Versions
               /\ k[2] = 0 /\ Len(k) = 3 /\ k[3] \in Nat /\ k = <<k[1], 0, k[3]>>
            \/ k = ThumbnailKey(k[1]) /\ k[2] = 127 /\ Len(k) = 2 /\ k = <<k[1], 127>>
<1>1. CASE k \in CardKeys
  <2>1. PICK r \in Rids, v \in Versions : k = CardKey(r, v)
    BY <1>1 DEF CardKeys
  <2>2. k = <<r, 0, v + SignBit>> /\ GetVersion(k) = v /\ v + SignBit \in Nat /\ r \in Nat
    BY <2>1, CardKeyParts
  <2>3. k[1] = r /\ k[2] = 0 /\ Len(k) = 3 /\ k[3] = v + SignBit
    BY <2>2
  <2>4. QED
    BY <2>1, <2>2, <2>3
<1>2. CASE k \notin CardKeys
  <2>1. PICK r \in Rids : k = ThumbnailKey(r)
    BY <1>2 DEF Keys
  <2>2. k = <<r, 127>> /\ r \in Nat
    BY <2>1, RidsAreNats DEF ThumbnailKey, thumbnailType
  <2>3. k[1] = r /\ k[2] = 127 /\ Len(k) = 2
    BY <2>2
  <2>4. QED
    BY <2>1, <2>2, <2>3
<1>3. QED
  BY <1>1, <1>2

LEMMA KeysDiffer ==
  ASSUME NEW r \in Rids, NEW v \in Versions, NEW q \in Rids, NEW w \in Versions
  PROVE  /\ CardKey(r, v) = CardKey(q, w) <=> r = q /\ v = w
         /\ ThumbnailKey(r) = ThumbnailKey(q) <=> r = q
         /\ CardKey(r, v) # ThumbnailKey(q)
         /\ CardKey(r, v) \in CardKeys /\ CardKey(r, v) \in Keys /\ ThumbnailKey(r) \in Keys
         /\ CardKey(r, v)[1] = r /\ CardKey(r, v)[2] = 0
         /\ ThumbnailKey(r)[1] = r /\ ThumbnailKey(r)[2] = 127
<1>1. CardKey(r, v) = <<r, 0, v + SignBit>> /\ CardKey(q, w) = <<q, 0, w + SignBit>>
  BY CardKeyParts
<1>2. ThumbnailKey(r) = <<r, 127>> /\ ThumbnailKey(q) = <<q, 127>>
  BY DEF ThumbnailKey, thumbnailType
<1>3. v + SignBit = w + SignBit <=> v = w
  BY CardKeyParts
<1>4. CardKey(r, v)[1] = r /\ CardKey(r, v)[2] = 0 /\ CardKey(r, v)[3] = v + SignBit
  BY <1>1
<1>5. CardKey(q, w)[1] = q /\ CardKey(q, w)[2] = 0 /\ CardKey(q, w)[3] = w + SignBit
  BY <1>1
<1>6. ThumbnailKey(r)[1] = r /\ ThumbnailKey(r)[2] = 127 /\ ThumbnailKey(q)[1] = q /\ ThumbnailKey(q)[2] = 127
  BY <1>2
<1>7. CardKey(r, v) \in CardKeys /\ CardKey(r, v) \in Keys /\ ThumbnailKey(r) \in Keys
  BY DEF Keys, CardKeys
<1>8. QED
  BY <1>3, <1>4, <1>5, <1>6, <1>7

LEMMA LessOnKeys ==
  ASSUME NEW a \in Keys, NEW b \in Keys
  PROVE  /\ Less(a, b) <=> \/ a[1] < b[1]
                           \/ a[1] = b[1] /\ a[2] < b[2]
                           \/ a[1] = b[1] /\ a[2] = 0 /\ b[2] = 0 /\ a[3] < b[3]
         /\ a = b <=> a[1] = b[1] /\ a[2] = b[2] /\ (a[2] = 0 => a[3] = b[3])
<1>1. /\ a[2] = 0 \/ a[2] = 127
      /\ b[2] = 0 \/ b[2] = 127
      /\ Len(a) = (IF a[2] = 0 THEN 3 ELSE 2) /\ Len(b) = (IF b[2] = 0 THEN 3 ELSE 2)
  BY KeyParts
<1>2. a = b <=> a[1] = b[1] /\ a[2] = b[2] /\ (a[2] = 0 => a[3] = b[3])
  <2>1. (a[2] = 0 => a = <<a[1], 0, a[3]>>) /\ (a[2] = 127 => a = <<a[1], 127>>)
    BY KeyParts
  <2>2. (b[2] = 0 => b = <<b[1], 0, b[3]>>) /\ (b[2] = 127 => b = <<b[1], 127>>)
    BY KeyParts
  <2>3. QED
    BY <1>1, <2>1, <2>2
<1>3. QED
  BY <1>1, <1>2 DEF Less

LEMMA KeysAreOrdered ==
  ASSUME NEW K, K \subseteq Keys
  PROVE  Orders(KeyOrder(K), K)
<1>1. \A k \in K : k \in Keys /\ k[1] \in Nat /\ ((k[2] = 0 /\ k[3] \in Nat) \/ k[2] = 127)
  BY KeyParts
<1>2. \A a, b \in K : <<a, b>> \in KeyOrder(K) <=>
        \/ a[1] < b[1]
        \/ a[1] = b[1] /\ a[2] < b[2]
        \/ a[1] = b[1] /\ a[2] = 0 /\ b[2] = 0 /\ a[3] < b[3]
  <2>1. \A a, b \in K : <<a, b>> \in KeyOrder(K) <=> Less(a, b)
    BY DEF KeyOrder
  <2>2. QED
    BY <1>1, <2>1, LessOnKeys
<1>3. \A a, b \in K : a[1] = b[1] /\ a[2] = b[2] /\ (a[2] = 0 => a[3] = b[3]) => a = b
  BY <1>1, LessOnKeys
<1>4. \A a \in K : <<a, a>> \notin KeyOrder(K)
  BY <1>1, <1>2
<1>5. ASSUME NEW a \in K, NEW b \in K, NEW c \in K, <<a, b>> \in KeyOrder(K), <<b, c>> \in KeyOrder(K)
      PROVE  <<a, c>> \in KeyOrder(K)
  <2>1. \/ a[1] < b[1]
        \/ a[1] = b[1] /\ a[2] < b[2]
        \/ a[1] = b[1] /\ a[2] = 0 /\ b[2] = 0 /\ a[3] < b[3]
    BY <1>2, <1>5
  <2>2. \/ b[1] < c[1]
        \/ b[1] = c[1] /\ b[2] < c[2]
        \/ b[1] = c[1] /\ b[2] = 0 /\ c[2] = 0 /\ b[3] < c[3]
    BY <1>2, <1>5
  <2>3. /\ a[1] \in Nat /\ ((a[2] = 0 /\ a[3] \in Nat) \/ a[2] = 127)
        /\ b[1] \in Nat /\ ((b[2] = 0 /\ b[3] \in Nat) \/ b[2] = 127)
        /\ c[1] \in Nat /\ ((c[2] = 0 /\ c[3] \in Nat) \/ c[2] = 127)
    BY <1>1
  <2>4. \/ a[1] < c[1]
        \/ a[1] = c[1] /\ a[2] < c[2]
        \/ a[1] = c[1] /\ a[2] = 0 /\ c[2] = 0 /\ a[3] < c[3]
    BY <2>1, <2>2, <2>3
  <2>5. QED
    BY <1>2, <2>4
<1>6. ASSUME NEW a \in K, NEW b \in K PROVE a = b \/ <<a, b>> \in KeyOrder(K) \/ <<b, a>> \in KeyOrder(K)
  <2>1. /\ a[1] \in Nat /\ ((a[2] = 0 /\ a[3] \in Nat) \/ a[2] = 127)
        /\ b[1] \in Nat /\ ((b[2] = 0 /\ b[3] \in Nat) \/ b[2] = 127)
    BY <1>1
  <2>2. QED
    BY <1>2, <1>3, <2>1
<1>7. QED
  BY <1>4, <1>5, <1>6 DEF Orders

LEMMA SortedKeys ==
  ASSUME NEW K, K \subseteq Keys, IsFiniteSet(K)
  PROVE  Lists(Sorted(K, Less), K, KeyOrder(K))
<1> DEFINE s == Sorted(K, Less)
           R == KeyOrder(K)
<1>1. Orders(R, K)
  BY KeysAreOrdered
<1>2. ASSUME NEW x \in K PROVE Preceding(R, K, x) = {y \in K : Less(y, x)}
  BY DEF Preceding, KeyOrder
<1>3. ASSUME NEW i \in 1 .. Cardinality(K)
      PROVE  s[i] \in K /\ Cardinality(Preceding(R, K, s[i])) = i - 1
  <2>1. \E x \in K : Cardinality({y \in K : Less(y, x)}) = i - 1
    <3>1. \E x \in K : Cardinality(Preceding(R, K, x)) = i - 1
      BY <1>1, EveryRank
    <3>2. QED
      BY <1>2, <3>1
  <2>2. s[i] = CHOOSE x \in K : Cardinality({y \in K : Less(y, x)}) = i - 1
    BY DEF Sorted
  <2>3. s[i] \in K /\ Cardinality({y \in K : Less(y, s[i])}) = i - 1
    BY <2>1, <2>2
  <2>4. QED
    BY <1>2, <2>3
<1>4. s \in [1 .. Cardinality(K) -> K]
  <2>1. s = [i \in 1 .. Cardinality(K) |-> CHOOSE x \in K : Cardinality({y \in K : Less(y, x)}) = i - 1]
    BY DEF Sorted
  <2> HIDE DEF s
  <2>2. QED
    BY <1>3, <2>1
<1> HIDE DEF s, R
<1>5. Lists(s, K, R)
  BY <1>1, <1>3, <1>4, RanksList
<1>6. QED
  BY <1>5 DEF s, R

-----------------------------------------------------------------------------
(* What the engines' reads give. *)

PebbleOk(d) ==
  /\ DOMAIN d.kv \subseteq Keys /\ IsFiniteSet(DOMAIN d.kv)
  /\ \A k \in DOMAIN d.kv : d.kv[k] \in Contents
  /\ DOMAIN d.under \subseteq CardKeys
  /\ \A k \in DOMAIN d.under : d.under[k] \in Contents

SqlOk(d) ==
  /\ DOMAIN d.cards \subseteq Rids \X Versions /\ IsFiniteSet(DOMAIN d.cards)
  /\ \A k \in DOMAIN d.cards : d.cards[k] \in Contents
  /\ DOMAIN d.thumbs \subseteq Rids
  /\ \A r \in DOMAIN d.thumbs : d.thumbs[r] \in Contents

\* The card of item r, and what Pebble has under it.
PebbleCard(d, r) == [v \in Versions |-> PebbleGet(d, r, v)]
PebbleUnder(d, r) ==
  [v \in Versions |-> IF CardKey(r, v) \in DOMAIN d.under THEN d.under[CardKey(r, v)] ELSE None]
SqlCard(d, r) == [v \in Versions |-> SqlGet(d, r, v)]

LEMMA PebbleCardHas ==
  ASSUME NEW d, PebbleOk(d), NEW r \in Rids
  PROVE  /\ PebbleCard(d, r) \in Cards
         /\ VersionsOf(PebbleCard(d, r)) = {v \in Versions : CardKey(r, v) \in DOMAIN d.kv}
         /\ IsFiniteSet(VersionsOf(PebbleCard(d, r)))
<1> DEFINE card == PebbleCard(d, r)
           S == {v \in Versions : CardKey(r, v) \in DOMAIN d.kv}
<1>1. ASSUME NEW v \in Versions
      PROVE  /\ card[v] \in Contents \cup {None}
             /\ card[v] # None <=> CardKey(r, v) \in DOMAIN d.kv
  BY NoneIsNoContent DEF PebbleCard, PebbleGet, Get, PebbleOk
<1>2. card = [v \in Versions |-> card[v]]
  BY DEF PebbleCard
<1> HIDE DEF card
<1>3. card \in Cards
  BY <1>1, <1>2 DEF Cards
<1>4. VersionsOf(card) = S
  BY <1>1 DEF VersionsOf
<1>5. IsFiniteSet(S)
  <2> DEFINE f == [v \in S |-> CardKey(r, v)]
  <2>1. f \in Injection(S, DOMAIN d.kv)
    <3>1. \A v, w \in S : CardKey(r, v) = CardKey(r, w) => v = w
      BY KeysDiffer
    <3>2. f \in [S -> DOMAIN d.kv]
      OBVIOUS
    <3>3. \A v, w \in S : f[v] = f[w] => v = w
      BY <3>1
    <3> HIDE DEF f
    <3>4. QED
      BY <3>2, <3>3 DEF Injection, IsInjective
  <2>2. IsFiniteSet(DOMAIN d.kv)
    BY DEF PebbleOk
  <2> HIDE DEF f, S
  <2>3. QED
    BY <2>1, <2>2, FS_Injection
<1>6. QED
  BY <1>3, <1>4, <1>5 DEF card

LEMMA SqlCardHas ==
  ASSUME NEW d, SqlOk(d), NEW r \in Rids
  PROVE  /\ SqlCard(d, r) \in Cards
         /\ VersionsOf(SqlCard(d, r)) = SqlVersionSet(d, r)
         /\ IsFiniteSet(SqlVersionSet(d, r))
         /\ \A v \in Versions : v \in SqlVersionSet(d, r) <=> <<r, v>> \in DOMAIN d.cards
<1> DEFINE card == SqlCard(d, r)
           S == SqlVersionSet(d, r)
<1>1. ASSUME NEW v \in Versions
      PROVE  /\ card[v] \in Contents \cup {None}
             /\ card[v] # None <=> <<r, v>> \in DOMAIN d.cards
  BY NoneIsNoContent DEF SqlCard, SqlGet, SqlOk
<1>2. card = [v \in Versions |-> card[v]]
  BY DEF SqlCard
<1>3. \A v : v \in S <=> v \in Versions /\ <<r, v>> \in DOMAIN d.cards
  BY DEF SqlVersionSet, SqlOk
<1> HIDE DEF card
<1>4. card \in Cards
  BY <1>1, <1>2 DEF Cards
<1>5. VersionsOf(card) = S
  <2> HIDE DEF S
  <2>1. QED
    BY <1>1, <1>3 DEF VersionsOf
<1>6. IsFiniteSet(S)
  <2>1. S = {k[2] : k \in {x \in DOMAIN d.cards : x[1] = r}}
    BY DEF SqlVersionSet
  <2>2. IsFiniteSet({x \in DOMAIN d.cards : x[1] = r})
    <3>1. {x \in DOMAIN d.cards : x[1] = r} \in SUBSET DOMAIN d.cards
      OBVIOUS
    <3>2. QED
      BY <3>1, FS_Subset DEF SqlOk
  <2> DEFINE T == {x \in DOMAIN d.cards : x[1] = r}
             f == [k \in T |-> k[2]]
  <2>3. f \in Surjection(T, S)
    BY <2>1 DEF Surjection
  <2> HIDE DEF f, S
  <2>4. QED
    BY <2>2, <2>3, FS_Surjection
<1>7. QED
  BY <1>3, <1>4, <1>5, <1>6 DEF card

\* Versions of pblob: the range of the iterator holds exactly the keys of the card,
\* and their order is that of the versions.
LEMMA PebbleVersionsList ==
  ASSUME NEW d, PebbleOk(d), NEW r \in Rids, NEW S, S = VersionsOf(PebbleCard(d, r))
  PROVE  Lists(PebbleVersions(d, r, FALSE), S, LessThan(S))
<1> DEFINE lower == <<r, pngType>>
           upper == <<r, pngType + 1>>
           K == {k \in DOMAIN d.kv : ~Less(k, lower) /\ Less(k, upper)}
           keys == Sorted(K, Less)
           s == PebbleVersions(d, r, FALSE)
<1>1. lower # NoBound /\ upper # NoBound /\ lower = <<r, 0>> /\ upper = <<r, 1>> /\ r \in Nat
  BY RidsAreNats DEF NoBound, pngType
<1>2. s = [i \in DOMAIN keys |-> GetVersion(keys[i])]
  BY <1>1 DEF PebbleVersions, Iter
<1>3. S = {v \in Versions : CardKey(r, v) \in DOMAIN d.kv} /\ S \subseteq Versions
  BY PebbleCardHas
<1>4. ASSUME NEW k \in DOMAIN d.kv PROVE k \in K <=> k[1] = r /\ k[2] = 0
  <2>1. k \in Keys
    BY DEF PebbleOk
  <2>2. /\ k[1] \in Nat
        /\ (k[2] = 0 /\ Len(k) = 3) \/ (k[2] = 127 /\ Len(k) = 2)
    BY <2>1, KeyParts
  <2>3. ~Less(k, lower) <=> ~(k[1] < r \/ (k[1] = r /\ k[2] < 0))
    BY <1>1, <2>2 DEF Less
  <2>4. Less(k, upper) <=> k[1] < r \/ (k[1] = r /\ k[2] < 1)
    BY <1>1, <2>2 DEF Less
  <2>5. QED
    BY <1>1, <2>2, <2>3, <2>4
<1>5. K \subseteq DOMAIN d.kv /\ K \subseteq Keys /\ IsFiniteSet(K)
  <2>1. K \in SUBSET DOMAIN d.kv
    OBVIOUS
  <2>2. QED
    BY <2>1, FS_Subset DEF PebbleOk
<1> HIDE DEF K
<1>6. Lists(keys, K, KeyOrder(K))
  BY <1>5, SortedKeys
<1>7. ASSUME NEW k \in K
      PROVE  GetVersion(k) \in S /\ k = CardKey(r, GetVersion(k)) /\ k[3] = GetVersion(k) + SignBit
  <2>1. k \in Keys /\ k \in DOMAIN d.kv /\ k[1] = r /\ k[2] = 0
    BY <1>4, <1>5
  <2>2. k = CardKey(k[1], GetVersion(k)) /\ GetVersion(k) \in Versions
    BY <2>1, KeyParts
  <2>3. CardKey(r, GetVersion(k)) = <<r, 0, GetVersion(k) + SignBit>>
    BY <2>2, CardKeyParts
  <2>4. k[3] = GetVersion(k) + SignBit
    BY <2>1, <2>2, <2>3
  <2>5. QED
    BY <1>3, <2>1, <2>2, <2>4
<1>8. ASSUME NEW a \in K, NEW b \in K
      PROVE  <<a, b>> \in KeyOrder(K) <=> <<GetVersion(a), GetVersion(b)>> \in LessThan(S)
  <2>1. a \in Keys /\ b \in Keys /\ a[1] = r /\ b[1] = r /\ a[2] = 0 /\ b[2] = 0
    BY <1>4, <1>5
  <2>2. Less(a, b) <=> a[3] < b[3]
    BY <1>1, <2>1, LessOnKeys
  <2>3. GetVersion(a) \in Nat /\ GetVersion(b) \in Nat /\ SignBit \in Nat
    BY <1>3, <1>7, VersionsAreNats, VersionsFit
  <2>4. Less(a, b) <=> GetVersion(a) < GetVersion(b)
    BY <1>7, <2>2, <2>3
  <2>5. QED
    BY <1>7, <2>4 DEF KeyOrder, LessThan
<1>9. ASSUME NEW v \in S PROVE \E k \in K : GetVersion(k) = v
  <2>1. CardKey(r, v) \in DOMAIN d.kv /\ CardKey(r, v)[1] = r /\ CardKey(r, v)[2] = 0
    BY <1>3, KeysDiffer
  <2>2. GetVersion(CardKey(r, v)) = v
    BY <1>3, CardKeyParts
  <2>3. QED
    BY <1>4, <2>1, <2>2
<1>10. Len(keys) \in Nat /\ DOMAIN keys = 1 .. Len(keys)
  BY <1>6 DEF Lists
<1> HIDE DEF s, keys
<1>11. DOMAIN s = 1 .. Len(keys) /\ Len(s) = Len(keys)
  BY <1>2, <1>10
<1>12. \A i \in DOMAIN s : keys[i] \in K /\ s[i] = GetVersion(keys[i])
  BY <1>2, <1>6 DEF Lists
<1>13. \A v \in S : \E i \in DOMAIN s : s[i] = v
  <2> TAKE v \in S
  <2>1. PICK k \in K : GetVersion(k) = v
    BY <1>9
  <2>2. PICK i \in DOMAIN keys : keys[i] = k
    BY <1>6 DEF Lists
  <2>3. QED
    BY <1>2, <2>1, <2>2
<1>14. \A i, j \in DOMAIN s : <<s[i], s[j]>> \in LessThan(S) <=> i < j
  <2> TAKE i, j \in DOMAIN s
  <2>1. <<keys[i], keys[j]>> \in KeyOrder(K) <=> i < j
    BY <1>6, <1>10, <1>11 DEF Lists
  <2>2. QED
    BY <1>8, <1>12, <2>1
<1>15. QED
  BY <1>7, <1>10, <1>11, <1>12, <1>13, <1>14 DEF Lists, s

\* A card's key exists if the iterator from it on starts with it.
LEMMA KeyExistsIfThere ==
  ASSUME NEW d, PebbleOk(d), NEW k \in CardKeys
  PROVE  KeyExists(d, k) <=> k \in DOMAIN d.kv
<1> DEFINE K == {x \in DOMAIN d.kv : ~Less(x, k)}
           keys == Sorted(K, Less)
<1>1. k # NoBound /\ k \in Keys /\ k[1] \in Nat /\ k[3] \in Nat /\ k[2] = 0
  <2>1. PICK r \in Rids, v \in Versions : k = CardKey(r, v)
    BY DEF CardKeys
  <2>2. k = <<r, 0, v + SignBit>> /\ v + SignBit \in Nat /\ r \in Nat
    BY <2>1, CardKeyParts
  <2>3. QED
    BY <2>2 DEF NoBound, Keys
<1>2. Iter(d, k, NoBound) = keys
  BY <1>1 DEF Iter
<1>3. K \subseteq Keys /\ IsFiniteSet(K) /\ K \subseteq DOMAIN d.kv
  <2>1. K \in SUBSET DOMAIN d.kv
    OBVIOUS
  <2>2. QED
    BY <2>1, FS_Subset DEF PebbleOk
<1>4. k \in K <=> k \in DOMAIN d.kv
  BY <1>1, LessOnKeys
<1>5. \A x \in K : ~Less(x, k)
  OBVIOUS
<1> HIDE DEF K
<1>6. Lists(keys, K, KeyOrder(K))
  BY <1>3, SortedKeys
<1> HIDE DEF keys
<1>7. keys # <<>> => 1 \in DOMAIN keys
  <2>1. CASE Len(keys) = 0
    <3>1. DOMAIN keys = {}
      BY <1>6, <2>1 DEF Lists
    <3>2. keys \in Seq(K)
      BY <1>6, <2>1, <3>1 DEF Lists
    <3>3. QED
      BY <2>1, <3>2
  <2>2. CASE Len(keys) # 0
    BY <1>6, <2>2 DEF Lists
  <2>3. QED
    BY <2>1, <2>2
<1>8. ASSUME k \in K PROVE keys # <<>> /\ keys[1] = k
  <2>1. PICK i \in DOMAIN keys : keys[i] = k
    BY <1>6, <1>8 DEF Lists
  <2>2. 1 \in DOMAIN keys /\ i \in Nat /\ 1 <= i
    BY <1>6, <2>1 DEF Lists
  <2>3. keys # <<>>
    BY <2>2
  <2>4. CASE 1 < i
    <3>1. <<keys[1], k>> \in KeyOrder(K)
      BY <1>6, <2>1, <2>2, <2>4 DEF Lists
    <3>2. Less(keys[1], k) /\ keys[1] \in K
      BY <3>1 DEF KeyOrder
    <3>3. QED
      BY <1>5, <3>2
  <2>5. QED
    BY <2>1, <2>2, <2>3, <2>4
<1>9. keys # <<>> => keys[1] \in K
  BY <1>6, <1>7 DEF Lists
<1>10. QED
  BY <1>2, <1>4, <1>8, <1>9 DEF KeyExists

Places(s, x) == {i \in DOMAIN s : s[i] = x}

LEMMA OnePlace ==
  ASSUME NEW s, NEW x, NEW i \in DOMAIN s, s[i] = x, \A j \in DOMAIN s : s[j] = x => j = i
  PROVE  Cardinality(Places(s, x)) = 1
<1>1. Places(s, x) = {i}
  BY DEF Places
<1>2. QED
  BY <1>1, FS_Singleton

LEMMA NoPlace ==
  ASSUME NEW s, NEW x, \A i \in DOMAIN s : s[i] # x
  PROVE  Cardinality(Places(s, x)) = 0
<1>1. Places(s, x) = {}
  BY DEF Places
<1>2. QED
  BY <1>1, FS_EmptySet

\* RIDs of pblob: each id that some key has, once; the keys of an item are together.
LEMMA PebbleListsOnce ==
  ASSUME NEW d, PebbleOk(d), NEW r \in Rids, NEW key \in DOMAIN d.kv, key[1] = r
  PROVE  Cardinality(Places(PebbleRIDs(d), r)) = 1
<1> DEFINE K == DOMAIN d.kv
           keys == Sorted(K, Less)
           starts == {i \in DOMAIN keys : i = 1 \/ keys[i - 1][1] # keys[i][1]}
           new == Sorted(starts, <)
           rids == PebbleRIDs(d)
<1>1. Iter(d, NoBound, NoBound) = keys
  <2>1. {k \in DOMAIN d.kv : (NoBound # NoBound => ~Less(k, NoBound)) /\ (NoBound # NoBound => Less(k, NoBound))} = K
    OBVIOUS
  <2>2. QED
    BY <2>1 DEF Iter
<1>2. rids = [j \in DOMAIN new |-> keys[new[j]][1]]
  BY <1>1 DEF PebbleRIDs
<1>3. K \subseteq Keys /\ IsFiniteSet(K)
  BY DEF PebbleOk
<1> HIDE DEF K
<1>4. Lists(keys, K, KeyOrder(K))
  BY <1>3, SortedKeys
<1>5. Len(keys) \in Nat /\ DOMAIN keys = 1 .. Len(keys)
  BY <1>4 DEF Lists
<1> HIDE DEF keys
<1>6. \A i \in DOMAIN keys : keys[i] \in K /\ keys[i][1] \in Nat
  BY <1>3, <1>4, KeyParts DEF Lists
<1>7. ASSUME NEW i \in DOMAIN keys, NEW j \in DOMAIN keys, i <= j PROVE keys[i][1] <= keys[j][1]
  <2>1. i = j \/ i < j
    BY <1>5, <1>7
  <2>2. ASSUME i < j PROVE keys[i][1] <= keys[j][1]
    <3>1. Less(keys[i], keys[j])
      BY <1>4, <2>2 DEF Lists, KeyOrder
    <3>2. keys[i] \in Keys /\ keys[j] \in Keys
      BY <1>3, <1>6
    <3>3. keys[i][1] < keys[j][1] \/ keys[i][1] = keys[j][1]
      BY <3>1, <3>2, LessOnKeys
    <3>4. QED
      BY <1>6, <3>3
  <2>3. QED
    BY <1>6, <2>1, <2>2
<1> DEFINE mine == {i \in DOMAIN keys : keys[i][1] = r}
<1>8. PICK first \in mine : \A i \in mine : first <= i
  <2>1. key \in K
    BY DEF K
  <2>2. mine # {}
    BY <1>4, <2>1 DEF Lists
  <2>3. mine \subseteq Nat
    BY <1>5
  <2> HIDE DEF mine
  <2>4. QED
    BY <2>2, <2>3, MinExists
<1>9. starts \subseteq Nat /\ starts \subseteq Int /\ IsFiniteSet(starts)
  <2>1. starts \in SUBSET (1 .. Len(keys)) /\ starts \subseteq Nat
    BY <1>5
  <2>2. IsFiniteSet(1 .. Len(keys))
    BY <1>5, FS_Interval
  <2>3. QED
    BY <2>1, <2>2, FS_Subset
<1>10. first \in starts
  <2>1. CASE first # 1
    <3>1. first - 1 \in DOMAIN keys /\ ~(first <= first - 1)
      BY <1>5, <2>1
    <3>2. first - 1 \notin mine
      BY <1>8, <3>1
    <3>3. QED
      BY <3>1, <3>2
  <2>2. QED
    BY <2>1
<1>11. ASSUME NEW i \in starts, keys[i][1] = r PROVE i = first
  <2>1. i \in mine /\ first \in DOMAIN keys /\ i \in DOMAIN keys /\ first <= i /\ keys[first][1] = r
    BY <1>8, <1>11
  <2>2. CASE first < i
    <3>1. i - 1 \in DOMAIN keys /\ first <= i - 1 /\ i - 1 <= i /\ i # 1
      BY <1>5, <2>1, <2>2
    <3>2. keys[first][1] <= keys[i - 1][1] /\ keys[i - 1][1] <= keys[i][1]
      BY <1>7, <2>1, <3>1
    <3>3. keys[i - 1][1] = r
      BY <1>6, <1>11, <2>1, <3>1, <3>2
    <3>4. QED
      BY <1>11, <3>1, <3>3
  <2>3. QED
    BY <1>5, <2>1, <2>2
<1> HIDE DEF starts
<1>12. Lists(new, starts, LessThan(starts))
  BY <1>9, SortedNumbers
<1> HIDE DEF new
<1>13. PICK j \in DOMAIN new : new[j] = first
  BY <1>10, <1>12 DEF Lists
<1>14. ASSUME NEW k \in DOMAIN new, keys[new[k]][1] = r PROVE k = j
  <2>1. new[k] = first
    BY <1>11, <1>12, <1>14 DEF Lists
  <2>2. new[k] = new[j]
    BY <1>13, <2>1
  <2>3. QED
    BY <1>9, <1>12, <2>2, Ascending
<1> HIDE DEF rids
<1>15. j \in DOMAIN rids /\ rids[j] = r /\ \A k \in DOMAIN rids : rids[k] = r => k = j
  BY <1>2, <1>8, <1>13, <1>14
<1>16. Cardinality(Places(rids, r)) = 1
  BY <1>15, OnePlace
<1>17. QED
  BY <1>16 DEF rids

LEMMA SqlListsOnce ==
  ASSUME NEW d, SqlOk(d), NEW r \in Rids
  PROVE  Cardinality(Places(SqlRIDs(d), r)) = IF SqlVersions(d, r) = <<>> THEN 0 ELSE 1
<1> DEFINE ids == {k[1] : k \in DOMAIN d.cards}
           s == Sorted(ids, <)
           S == SqlVersionSet(d, r)
<1>1. SqlRIDs(d) = s
  BY DEF SqlRIDs
<1>2. ids \subseteq Int /\ IsFiniteSet(ids)
  <2>1. ids \subseteq Int
    <3>1. \A k \in DOMAIN d.cards : k[1] \in Rids
      BY DEF SqlOk
    <3>2. ids \subseteq Rids
      BY <3>1
    <3> HIDE DEF ids
    <3>3. QED
      BY <3>2, RidsAreNats
  <2> DEFINE f == [k \in DOMAIN d.cards |-> k[1]]
  <2>2. f \in Surjection(DOMAIN d.cards, ids)
    BY DEF Surjection
  <2>3. IsFiniteSet(DOMAIN d.cards)
    BY DEF SqlOk
  <2> HIDE DEF f, ids
  <2>4. IsFiniteSet(ids)
    BY <2>2, <2>3, FS_Surjection
  <2>5. QED
    BY <2>1, <2>4
<1>3. r \in ids <=> S # {}
  BY DEF SqlVersionSet, SqlOk
<1>4. S \subseteq Int /\ IsFiniteSet(S)
  <2>1. S \subseteq Int
    <3>1. \A k \in DOMAIN d.cards : k[2] \in Versions
      BY DEF SqlOk
    <3>2. S \subseteq Versions
      BY <3>1 DEF SqlVersionSet
    <3> HIDE DEF S
    <3>3. QED
      BY <3>2, VersionsAreNats
  <2>2. QED
    BY <2>1, SqlCardHas
<1>5. Len(SqlVersions(d, r)) = Cardinality(S) /\ Lists(SqlVersions(d, r), S, LessThan(S))
  BY <1>4, SortedNumbers DEF SqlVersions
<1>6. SqlVersions(d, r) = <<>> <=> S = {}
  <2> DEFINE v == SqlVersions(d, r)
  <2>1. v = Sorted(S, <)
    BY DEF SqlVersions
  <2>2. ASSUME S = {} PROVE v = <<>>
    <3>1. 1 .. Cardinality(S) = {}
      BY <2>2, FS_EmptySet
    <3>2. QED
      BY <2>1, <3>1 DEF Sorted
  <2>3. ASSUME v = <<>> PROVE S = {}
    BY <1>5, <2>3 DEF Lists
  <2>4. QED
    BY <2>2, <2>3
<1> HIDE DEF ids, S
<1>7. Lists(s, ids, LessThan(ids))
  BY <1>2, SortedNumbers
<1> HIDE DEF s
<1>8. CASE r \in ids
  <2>1. PICK i \in DOMAIN s : s[i] = r
    BY <1>7, <1>8 DEF Lists
  <2>2. \A j \in DOMAIN s : s[j] = r => j = i
    BY <1>2, <1>7, <2>1, Ascending
  <2>3. Cardinality(Places(s, r)) = 1
    BY <2>1, <2>2, OnePlace
  <2>4. QED
    BY <1>1, <1>3, <1>6, <1>8, <2>3
<1>9. CASE r \notin ids
  <2>1. \A i \in DOMAIN s : s[i] # r
    BY <1>7, <1>9 DEF Lists
  <2>2. Cardinality(Places(s, r)) = 0
    BY <2>1, NoPlace
  <2>3. QED
    BY <1>1, <1>3, <1>6, <1>9, <2>2
<1>10. QED
  BY <1>8, <1>9

-----------------------------------------------------------------------------
(* What each operation on Pebble and on the tables changes. *)

Under(d, k) == IF k \in DOMAIN d.under THEN d.under[k] ELSE None

LEMMA GetIsContent ==
  ASSUME NEW d, PebbleOk(d), NEW k
  PROVE  /\ Get(d, k) \in Contents \cup {None}
         /\ Get(d, k) # None <=> k \in DOMAIN d.kv
         /\ Under(d, k) \in Contents \cup {None}
         /\ Under(d, k) # None <=> k \in DOMAIN d.under
BY NoneIsNoContent DEF Get, Under, PebbleOk

LEMMA SetSets ==
  ASSUME NEW d, PebbleOk(d), NEW k \in Keys, NEW c \in Contents, NEW e, e = Set(d, k, c)
  PROVE  /\ PebbleOk(e)
         /\ \A x : Get(e, x) = IF x = k THEN c ELSE Get(d, x)
         /\ \A x : Under(e, x) = IF x = k /\ k[2] = 0 /\ Get(d, k) # None THEN Get(d, k) ELSE Under(d, x)
<1>1. e.kv = With(d.kv, k, c)
  BY DEF Set
<1>2. /\ DOMAIN e.kv = DOMAIN d.kv \cup {k}
      /\ e.kv[k] = c
      /\ \A x \in DOMAIN d.kv : x # k => e.kv[x] = d.kv[x]
  BY <1>1 DEF With
<1>3. e.under = IF k \in DOMAIN d.kv /\ k[2] = 0 THEN With(d.under, k, d.kv[k]) ELSE d.under
  BY DEF Set, pngType
<1>4. CASE k \in DOMAIN d.kv /\ k[2] = 0
  <2>1. /\ DOMAIN e.under = DOMAIN d.under \cup {k}
        /\ e.under[k] = d.kv[k]
        /\ \A x \in DOMAIN d.under : x # k => e.under[x] = d.under[x]
    BY <1>3, <1>4 DEF With
  <2>2. k \in CardKeys /\ d.kv[k] \in Contents
    <3>1. k = CardKey(k[1], GetVersion(k)) /\ GetVersion(k) \in Versions /\ k[1] \in Rids
      BY <1>4, KeyParts
    <3>2. QED
      BY <1>4, <3>1 DEF CardKeys, PebbleOk
  <2>3. IsFiniteSet(DOMAIN e.kv)
    BY <1>2, FS_AddElement DEF PebbleOk
  <2>4. PebbleOk(e)
    BY <1>2, <2>1, <2>2, <2>3 DEF PebbleOk
  <2>5. Get(d, k) # None
    BY <1>4, GetIsContent
  <2>6. QED
    BY <1>2, <1>4, <2>1, <2>4, <2>5 DEF Get, Under
<1>5. CASE ~(k \in DOMAIN d.kv /\ k[2] = 0)
  <2>1. e.under = d.under
    BY <1>3, <1>5
  <2>2. IsFiniteSet(DOMAIN e.kv)
    BY <1>2, FS_AddElement DEF PebbleOk
  <2>3. PebbleOk(e)
    BY <1>2, <2>1, <2>2 DEF PebbleOk
  <2>4. ~(k[2] = 0 /\ Get(d, k) # None)
    BY <1>5, GetIsContent
  <2>5. QED
    BY <1>2, <2>1, <2>3, <2>4 DEF Get, Under
<1>6. QED
  BY <1>4, <1>5

LEMMA SingleDeleteDeletes ==
  ASSUME NEW d, PebbleOk(d), NEW k, NEW e, e = SingleDelete(d, k)
  PROVE  /\ PebbleOk(e)
         /\ \A x : Get(e, x) = IF x = k THEN None ELSE Get(d, x)
         /\ \A x : Under(e, x) = Under(d, x)
<1>1. /\ DOMAIN e.kv = DOMAIN d.kv \ {k}
      /\ \A x \in DOMAIN e.kv : e.kv[x] = d.kv[x]
      /\ e.under = d.under
  BY DEF SingleDelete, Restrict
<1>2. IsFiniteSet(DOMAIN e.kv)
  BY <1>1, FS_RemoveElement, FS_Subset DEF PebbleOk
<1>3. QED
  BY <1>1, <1>2 DEF PebbleOk, Get, Under

Gone(ranges, k) == \E range \in ranges : InRange(k, range[1], range[2])

LEMMA DeleteRangesDelete ==
  ASSUME NEW d, PebbleOk(d), NEW ranges, NEW e, e = DeleteRanges(d, ranges)
  PROVE  /\ PebbleOk(e)
         /\ \A x : Get(e, x) = IF Gone(ranges, x) THEN None ELSE Get(d, x)
         /\ \A x : Under(e, x) = IF Gone(ranges, x) THEN None ELSE Under(d, x)
<1>1. /\ e.kv = Restrict(d.kv, {k \in DOMAIN d.kv : ~Gone(ranges, k)})
      /\ e.under = Restrict(d.under, {k \in DOMAIN d.under : ~Gone(ranges, k)})
  BY DEF DeleteRanges, Gone
<1>2. /\ DOMAIN e.kv = {k \in DOMAIN d.kv : ~Gone(ranges, k)}
      /\ \A x \in DOMAIN e.kv : e.kv[x] = d.kv[x]
      /\ DOMAIN e.under = {k \in DOMAIN d.under : ~Gone(ranges, k)}
      /\ \A x \in DOMAIN e.under : e.under[x] = d.under[x]
  BY <1>1 DEF Restrict
<1>3. IsFiniteSet(DOMAIN e.kv)
  <2>1. DOMAIN e.kv \in SUBSET DOMAIN d.kv
    BY <1>2
  <2>2. QED
    BY <2>1, FS_Subset DEF PebbleOk
<1>4. QED
  BY <1>2, <1>3 DEF PebbleOk, Get, Under

\* Which keys a range of versions of one card, and a range of all its types, has.
LEMMA CardRange ==
  ASSUME NEW r \in Rids, NEW low \in Nat, low < SignBit, NEW high \in Versions,
         NEW q \in Rids, NEW v \in Versions
  PROVE  /\ InRange(CardKey(q, v), CardKey(r, low), CardKey(r, high)) <=> q = r /\ low <= v /\ v < high
         /\ ~InRange(ThumbnailKey(q), CardKey(r, low), CardKey(r, high))
<1>1. /\ CardKey(q, v) = <<q, 0, v + SignBit>>
      /\ CardKey(r, high) = <<r, 0, high + SignBit>>
      /\ CardKey(r, low) = <<r, 0, low + SignBit>>
      /\ ThumbnailKey(q) = <<q, 127>>
  BY CardKeyParts, VersionIsRead DEF ThumbnailKey, thumbnailType
<1>2. q \in Nat /\ r \in Nat /\ v \in Nat /\ high \in Nat /\ SignBit \in Nat
  BY CardKeyParts
<1>3. Less(CardKey(q, v), CardKey(r, low)) <=> q < r \/ (q = r /\ v < low)
  BY <1>1, <1>2 DEF Less
<1>4. Less(CardKey(q, v), CardKey(r, high)) <=> q < r \/ (q = r /\ v < high)
  BY <1>1, <1>2 DEF Less
<1>5. Less(ThumbnailKey(q), CardKey(r, low)) <=> q < r
  BY <1>1, <1>2 DEF Less
<1>6. Less(ThumbnailKey(q), CardKey(r, high)) <=> q < r
  BY <1>1, <1>2 DEF Less
<1>7. QED
  BY <1>2, <1>3, <1>4, <1>5, <1>6 DEF InRange

LEMMA ItemRange ==
  ASSUME NEW rs \in SUBSET Rids, NEW k \in Keys
  PROVE  Gone({<<<<r, minType>>, <<r, maxType>>>> : r \in rs}, k) <=> k[1] \in rs
<1>1. k[1] \in Nat /\ ((k[2] = 0 /\ Len(k) = 3) \/ (k[2] = 127 /\ Len(k) = 2))
  BY KeyParts
<1>2. ASSUME NEW r \in rs PROVE InRange(k, <<r, minType>>, <<r, maxType>>) <=> k[1] = r
  <2>1. r \in Nat
    BY RidsAreNats
  <2>2. ~Less(k, <<r, 0>>) <=> ~(k[1] < r)
    BY <1>1, <2>1 DEF Less
  <2>3. Less(k, <<r, 255>>) <=> k[1] < r \/ k[1] = r
    BY <1>1, <2>1 DEF Less
  <2>4. QED
    BY <1>1, <2>1, <2>2, <2>3 DEF InRange, minType, maxType
<1> DEFINE ranges == {<<<<r, minType>>, <<r, maxType>>>> : r \in rs}
<1>3. ASSUME k[1] \in rs PROVE Gone(ranges, k)
  <2> DEFINE range == <<<<k[1], minType>>, <<k[1], maxType>>>>
  <2>1. range \in ranges /\ range[1] = <<k[1], minType>> /\ range[2] = <<k[1], maxType>>
    BY <1>3
  <2>2. InRange(k, range[1], range[2])
    BY <1>2, <1>3, <2>1
  <2>3. QED
    BY <2>1, <2>2 DEF Gone
<1>4. ASSUME Gone(ranges, k) PROVE k[1] \in rs
  <2>1. PICK range \in ranges : InRange(k, range[1], range[2])
    BY <1>4 DEF Gone
  <2>2. PICK r \in rs : range = <<<<r, minType>>, <<r, maxType>>>>
    BY <2>1
  <2>3. range[1] = <<r, minType>> /\ range[2] = <<r, maxType>>
    BY <2>2
  <2>4. InRange(k, <<r, minType>>, <<r, maxType>>)
    BY <2>1, <2>3
  <2>5. QED
    BY <1>2, <2>4
<1>5. QED
  BY <1>3, <1>4

LEMMA DeleteWhereDeletes ==
  ASSUME NEW d, SqlOk(d), NEW r \in Rids, NEW vs, NEW e, e = SqlDeleteWhere(d, r, vs)
  PROVE  /\ SqlOk(e)
         /\ \A q \in Rids, v \in Versions : SqlGet(e, q, v) = IF q = r /\ v \in vs THEN None ELSE SqlGet(d, q, v)
         /\ e.thumbs = d.thumbs
<1>1. /\ DOMAIN e.cards = {k \in DOMAIN d.cards : ~(k[1] = r /\ k[2] \in vs)}
      /\ \A k \in DOMAIN e.cards : e.cards[k] = d.cards[k]
      /\ e.thumbs = d.thumbs
  BY DEF SqlDeleteWhere, Restrict
<1>2. IsFiniteSet(DOMAIN e.cards)
  <2>1. DOMAIN e.cards \in SUBSET DOMAIN d.cards
    BY <1>1
  <2>2. QED
    BY <2>1, FS_Subset DEF SqlOk
<1>3. SqlOk(e)
  BY <1>1, <1>2 DEF SqlOk
<1>4. ASSUME NEW q \in Rids, NEW v \in Versions
      PROVE  SqlGet(e, q, v) = IF q = r /\ v \in vs THEN None ELSE SqlGet(d, q, v)
  <2>1. <<q, v>> \in DOMAIN e.cards <=> <<q, v>> \in DOMAIN d.cards /\ ~(q = r /\ v \in vs)
    BY <1>1
  <2>2. QED
    BY <1>1, <2>1 DEF SqlGet
<1>5. QED
  BY <1>1, <1>3, <1>4

LEMMA InsertInserts ==
  ASSUME NEW d, SqlOk(d), NEW r \in Rids, NEW v \in Versions, NEW c \in Contents,
         NEW e, e = [cards |-> With(d.cards, <<r, v>>, c), thumbs |-> With(d.thumbs, r, c)]
  PROVE  /\ SqlOk(e)
         /\ \A q \in Rids, w \in Versions : SqlGet(e, q, w) = IF q = r /\ w = v THEN c ELSE SqlGet(d, q, w)
         /\ \A q \in Rids : SqlThumbnail(e, q) = IF q = r THEN c ELSE SqlThumbnail(d, q)
<1>1. /\ DOMAIN e.cards = DOMAIN d.cards \cup {<<r, v>>}
      /\ e.cards[<<r, v>>] = c
      /\ \A k \in DOMAIN d.cards : k # <<r, v>> => e.cards[k] = d.cards[k]
      /\ DOMAIN e.thumbs = DOMAIN d.thumbs \cup {r}
      /\ e.thumbs[r] = c
      /\ \A q \in DOMAIN d.thumbs : q # r => e.thumbs[q] = d.thumbs[q]
  BY DEF With
<1>2. IsFiniteSet(DOMAIN e.cards)
  <2>1. IsFiniteSet(DOMAIN d.cards)
    BY DEF SqlOk
  <2>2. IsFiniteSet(DOMAIN d.cards \cup {<<r, v>>})
    BY <2>1, FS_AddElement
  <2>3. QED
    BY <1>1, <2>2
<1>3. SqlOk(e)
  BY <1>1, <1>2 DEF SqlOk
<1>4. ASSUME NEW q \in Rids, NEW w \in Versions
      PROVE  SqlGet(e, q, w) = IF q = r /\ w = v THEN c ELSE SqlGet(d, q, w)
  <2>1. <<q, w>> = <<r, v>> <=> q = r /\ w = v
    OBVIOUS
  <2>2. QED
    BY <1>1, <2>1 DEF SqlGet
<1>5. QED
  BY <1>1, <1>3, <1>4 DEF SqlThumbnail

LEMMA SqlDeleteDeletes ==
  ASSUME NEW d, SqlOk(d), NEW rs \in SUBSET Rids, NEW e, e = SqlDelete(d, rs)
  PROVE  /\ SqlOk(e)
         /\ \A q \in Rids, v \in Versions : SqlGet(e, q, v) = IF q \in rs THEN None ELSE SqlGet(d, q, v)
         /\ \A q \in Rids : SqlThumbnail(e, q) = IF q \in rs THEN None ELSE SqlThumbnail(d, q)
<1>1. /\ DOMAIN e.cards = {k \in DOMAIN d.cards : k[1] \notin rs}
      /\ \A k \in DOMAIN e.cards : e.cards[k] = d.cards[k]
      /\ DOMAIN e.thumbs = DOMAIN d.thumbs \ rs
      /\ \A q \in DOMAIN e.thumbs : e.thumbs[q] = d.thumbs[q]
  BY DEF SqlDelete, Restrict
<1>2. IsFiniteSet(DOMAIN e.cards)
  <2>1. DOMAIN e.cards \in SUBSET DOMAIN d.cards
    BY <1>1
  <2>2. QED
    BY <2>1, FS_Subset DEF SqlOk
<1>3. SqlOk(e)
  BY <1>1, <1>2 DEF SqlOk
<1>4. ASSUME NEW q \in Rids, NEW v \in Versions
      PROVE  SqlGet(e, q, v) = IF q \in rs THEN None ELSE SqlGet(d, q, v)
  <2>1. <<q, v>> \in DOMAIN e.cards <=> <<q, v>> \in DOMAIN d.cards /\ q \notin rs
    BY <1>1
  <2>2. QED
    BY <1>1, <2>1 DEF SqlGet
<1>5. QED
  BY <1>1, <1>3, <1>4 DEF SqlThumbnail

-----------------------------------------------------------------------------
(* The same for whole cards, in either engine. *)

CardIn(e, d, r) == IF e = "pblob" THEN PebbleCard(d, r) ELSE SqlCard(d, r)
ThumbIn(e, d, r) == IF e = "pblob" THEN PebbleThumbnail(d, r) ELSE SqlThumbnail(d, r)
UnderIn(e, d, r) == IF e = "pblob" THEN PebbleUnder(d, r) ELSE NoCard
DbOk(e, d) == IF e = "pblob" THEN PebbleOk(d) ELSE SqlOk(d)

LEMMA CardInHas ==
  ASSUME NEW e, NEW d, DbOk(e, d), NEW r \in Rids
  PROVE  /\ CardIn(e, d, r) \in Cards /\ UnderIn(e, d, r) \in Cards
         /\ ThumbIn(e, d, r) \in Contents \cup {None}
         /\ VersionsOf(CardIn(e, d, r)) \subseteq Versions
         /\ IsFiniteSet(VersionsOf(CardIn(e, d, r)))
<1>1. VersionsOf(CardIn(e, d, r)) \subseteq Versions
  BY DEF VersionsOf
<1>2. CASE e = "pblob"
  <2>1. PebbleOk(d)
    BY <1>2 DEF DbOk
  <2>2. PebbleUnder(d, r) = [v \in Versions |-> Under(d, CardKey(r, v))]
    BY DEF PebbleUnder, Under
  <2>3. PebbleUnder(d, r) \in Cards
    BY <2>1, <2>2, GetIsContent DEF Cards
  <2>4. PebbleThumbnail(d, r) \in Contents \cup {None}
    BY <2>1, GetIsContent DEF PebbleThumbnail
  <2>5. QED
    BY <1>1, <1>2, <2>1, <2>3, <2>4, PebbleCardHas DEF CardIn, UnderIn, ThumbIn
<1>3. CASE e # "pblob"
  <2>1. SqlOk(d)
    BY <1>3 DEF DbOk
  <2>2. NoCard \in Cards
    BY DEF NoCard, Cards
  <2>3. SqlThumbnail(d, r) \in Contents \cup {None}
    BY <2>1 DEF SqlThumbnail, SqlOk
  <2>4. QED
    BY <1>1, <1>3, <2>1, <2>2, <2>3, SqlCardHas DEF CardIn, UnderIn, ThumbIn
<1>4. QED
  BY <1>2, <1>3

\* A card, a thumbnail and what lies under a card, entry by entry.
LEMMA PebbleEntries ==
  ASSUME NEW d, NEW r
  PROVE  /\ CardIn("pblob", d, r) = [v \in Versions |-> Get(d, CardKey(r, v))]
         /\ UnderIn("pblob", d, r) = [v \in Versions |-> Under(d, CardKey(r, v))]
         /\ ThumbIn("pblob", d, r) = Get(d, ThumbnailKey(r))
BY DEF CardIn, UnderIn, ThumbIn, PebbleCard, PebbleGet, PebbleUnder, Under, PebbleThumbnail

LEMMA SqlEntries ==
  ASSUME NEW d, NEW r
  PROVE  /\ CardIn("sqlblob", d, r) = [v \in Versions |-> SqlGet(d, r, v)]
         /\ UnderIn("sqlblob", d, r) = NoCard
         /\ ThumbIn("sqlblob", d, r) = SqlThumbnail(d, r)
BY DEF CardIn, UnderIn, ThumbIn, SqlCard

\* Deleting one version takes it from the card of r and nothing from the others, in either engine.
LEMMA VersionDeleted ==
  ASSUME NEW e \in Engines, NEW d, DbOk(e, d), NEW r \in Rids, NEW v \in Versions,
         NEW d2, d2 = IF e = "pblob" THEN SingleDelete(d, CardKey(r, v)) ELSE SqlDeleteWhere(d, r, {v})
  PROVE  /\ DbOk(e, d2)
         /\ \A q \in Rids :
              /\ CardIn(e, d2, q) = IF q = r THEN [CardIn(e, d, q) EXCEPT ![v] = None] ELSE CardIn(e, d, q)
              /\ UnderIn(e, d2, q) = UnderIn(e, d, q)
              /\ ThumbIn(e, d2, q) = ThumbIn(e, d, q)
<1>1. CASE e = "pblob"
  <2>1. PebbleOk(d) /\ d2 = SingleDelete(d, CardKey(r, v))
    BY <1>1 DEF DbOk
  <2>2. /\ PebbleOk(d2)
        /\ \A x : Get(d2, x) = IF x = CardKey(r, v) THEN None ELSE Get(d, x)
        /\ \A x : Under(d2, x) = Under(d, x)
    BY <2>1, SingleDeleteDeletes
  <2>3. ASSUME NEW q \in Rids
        PROVE  /\ \A w \in Versions : Get(d2, CardKey(q, w)) = IF q = r /\ w = v THEN None ELSE Get(d, CardKey(q, w))
               /\ Get(d2, ThumbnailKey(q)) = Get(d, ThumbnailKey(q))
    BY <2>2, KeysDiffer
  <2>4. QED
    BY <1>1, <2>2, <2>3, PebbleEntries DEF DbOk
<1>2. CASE e = "sqlblob"
  <2>1. SqlOk(d) /\ d2 = SqlDeleteWhere(d, r, {v})
    BY <1>2 DEF DbOk
  <2>2. /\ SqlOk(d2)
        /\ \A q \in Rids, w \in Versions : SqlGet(d2, q, w) = IF q = r /\ w \in {v} THEN None ELSE SqlGet(d, q, w)
        /\ d2.thumbs = d.thumbs
    BY <2>1, DeleteWhereDeletes
  <2>3. ASSUME NEW q \in Rids
        PROVE  /\ \A w \in Versions : SqlGet(d2, q, w) = IF q = r /\ w = v THEN None ELSE SqlGet(d, q, w)
               /\ SqlThumbnail(d2, q) = SqlThumbnail(d, q)
    BY <2>2 DEF SqlThumbnail
  <2>4. QED
    BY <1>2, <2>2, <2>3, SqlEntries DEF DbOk
<1>3. QED
  BY <1>1, <1>2 DEF Engines

Cut(card, low, high) == [v \in Versions |-> IF low <= v /\ v < high THEN None ELSE card[v]]

Between(low, high) == {v \in Versions : low <= v /\ v < high}

LEMMA VersionsDeleted ==
  ASSUME NEW e \in Engines, NEW d, DbOk(e, d), NEW r \in Rids, NEW low \in Versions, NEW high \in Versions,
         NEW d2, d2 = IF e = "pblob" THEN DeleteRange(d, CardKey(r, low), CardKey(r, high))
                      ELSE SqlDeleteWhere(d, r, Between(low, high))
  PROVE  /\ DbOk(e, d2)
         /\ \A q \in Rids :
              /\ CardIn(e, d2, q) = IF q = r THEN Cut(CardIn(e, d, q), low, high) ELSE CardIn(e, d, q)
              /\ UnderIn(e, d2, q) = IF q = r THEN Cut(UnderIn(e, d, q), low, high) ELSE UnderIn(e, d, q)
              /\ ThumbIn(e, d2, q) = ThumbIn(e, d, q)
<1>1. CASE e = "pblob"
  <2> DEFINE ranges == {<<CardKey(r, low), CardKey(r, high)>>}
  <2>1. PebbleOk(d) /\ d2 = DeleteRanges(d, ranges)
    BY <1>1 DEF DbOk, DeleteRange
  <2>2. \A x : Gone(ranges, x) <=> InRange(x, CardKey(r, low), CardKey(r, high))
    BY DEF Gone
  <2> HIDE DEF ranges
  <2>3. /\ PebbleOk(d2)
        /\ \A x : Get(d2, x) = IF Gone(ranges, x) THEN None ELSE Get(d, x)
        /\ \A x : Under(d2, x) = IF Gone(ranges, x) THEN None ELSE Under(d, x)
    BY <2>1, DeleteRangesDelete
  <2>4. low \in Nat /\ low < SignBit
    BY CardKeyParts
  <2>5. ASSUME NEW q \in Rids
        PROVE  /\ \A w \in Versions : /\ Get(d2, CardKey(q, w)) = IF q = r /\ low <= w /\ w < high THEN None ELSE Get(d, CardKey(q, w))
                                      /\ Under(d2, CardKey(q, w)) = IF q = r /\ low <= w /\ w < high THEN None ELSE Under(d, CardKey(q, w))
               /\ Get(d2, ThumbnailKey(q)) = Get(d, ThumbnailKey(q))
    BY <2>2, <2>3, <2>4, CardRange
  <2>6. QED
    BY <1>1, <2>3, <2>5, PebbleEntries DEF DbOk, Cut
<1>2. CASE e = "sqlblob"
  <2> DEFINE vs == Between(low, high)
  <2>1. SqlOk(d) /\ d2 = SqlDeleteWhere(d, r, vs)
    BY <1>2 DEF DbOk
  <2>2. /\ SqlOk(d2)
        /\ \A q \in Rids, w \in Versions : SqlGet(d2, q, w) = IF q = r /\ w \in vs THEN None ELSE SqlGet(d, q, w)
        /\ d2.thumbs = d.thumbs
    BY <2>1, DeleteWhereDeletes
  <2>3. ASSUME NEW q \in Rids
        PROVE  /\ \A w \in Versions : SqlGet(d2, q, w) = IF q = r /\ low <= w /\ w < high THEN None ELSE SqlGet(d, q, w)
               /\ SqlThumbnail(d2, q) = SqlThumbnail(d, q)
    BY <2>2 DEF SqlThumbnail, Between
  <2>4. NoCard = Cut(NoCard, low, high)
    BY DEF NoCard, Cut
  <2>5. QED
    BY <1>2, <2>2, <2>3, <2>4, SqlEntries DEF DbOk, Cut
<1>3. QED
  BY <1>1, <1>2 DEF Engines

LEMMA ItemsDeleted ==
  ASSUME NEW e \in Engines, NEW d, DbOk(e, d), NEW rs \in SUBSET Rids,
         NEW d2, d2 = IF e = "pblob" THEN PebbleDelete(d, rs) ELSE SqlDelete(d, rs)
  PROVE  /\ DbOk(e, d2)
         /\ \A q \in Rids :
              /\ CardIn(e, d2, q) = IF q \in rs THEN NoCard ELSE CardIn(e, d, q)
              /\ UnderIn(e, d2, q) = IF q \in rs THEN NoCard ELSE UnderIn(e, d, q)
              /\ ThumbIn(e, d2, q) = IF q \in rs THEN None ELSE ThumbIn(e, d, q)
<1>1. CASE e = "pblob"
  <2> DEFINE ranges == {<<<<r, minType>>, <<r, maxType>>>> : r \in rs}
  <2>1. PebbleOk(d) /\ d2 = DeleteRanges(d, ranges)
    BY <1>1 DEF DbOk, PebbleDelete
  <2>2. \A k \in Keys : Gone(ranges, k) <=> k[1] \in rs
    BY ItemRange
  <2> HIDE DEF ranges
  <2>3. /\ PebbleOk(d2)
        /\ \A x : Get(d2, x) = IF Gone(ranges, x) THEN None ELSE Get(d, x)
        /\ \A x : Under(d2, x) = IF Gone(ranges, x) THEN None ELSE Under(d, x)
    BY <2>1, DeleteRangesDelete
  <2>4. ASSUME NEW q \in Rids
        PROVE  /\ \A w \in Versions : /\ Get(d2, CardKey(q, w)) = IF q \in rs THEN None ELSE Get(d, CardKey(q, w))
                                      /\ Under(d2, CardKey(q, w)) = IF q \in rs THEN None ELSE Under(d, CardKey(q, w))
               /\ Get(d2, ThumbnailKey(q)) = IF q \in rs THEN None ELSE Get(d, ThumbnailKey(q))
    <3>1. ThumbnailKey(q) \in Keys /\ ThumbnailKey(q)[1] = q
      BY DEF Keys, ThumbnailKey
    <3>2. \A w \in Versions : CardKey(q, w) \in Keys /\ CardKey(q, w)[1] = q
      BY KeysDiffer
    <3>3. QED
      BY <2>2, <2>3, <3>1, <3>2
  <2>5. QED
    BY <1>1, <2>3, <2>4, PebbleEntries DEF DbOk, NoCard
<1>2. CASE e = "sqlblob"
  <2>1. SqlOk(d) /\ d2 = SqlDelete(d, rs)
    BY <1>2 DEF DbOk
  <2>2. /\ SqlOk(d2)
        /\ \A q \in Rids, w \in Versions : SqlGet(d2, q, w) = IF q \in rs THEN None ELSE SqlGet(d, q, w)
        /\ \A q \in Rids : SqlThumbnail(d2, q) = IF q \in rs THEN None ELSE SqlThumbnail(d, q)
    BY <2>1, SqlDeleteDeletes
  <2>3. QED
    BY <1>2, <2>2, SqlEntries DEF DbOk, NoCard
<1>3. QED
  BY <1>1, <1>2 DEF Engines

-----------------------------------------------------------------------------
(* What a Put does. *)

LEMMA LengthOfList ==
  ASSUME NEW S, S \subseteq Int, NEW s, Lists(s, S, LessThan(S))
  PROVE  Len(s) \in Nat /\ Len(s) = Cardinality(S) /\ IsFiniteSet(S)
<1> DEFINE f == [i \in 1 .. Len(s) |-> s[i]]
<1>1. Len(s) \in Nat /\ DOMAIN s = 1 .. Len(s)
  BY DEF Lists
<1>2. \A i, j \in 1 .. Len(s) : f[i] = f[j] => i = j
  BY <1>1, Ascending
<1>3. f \in [1 .. Len(s) -> S] /\ \A x \in S : \E i \in 1 .. Len(s) : f[i] = x
  BY <1>1 DEF Lists
<1>4. IsFiniteSet(1 .. Len(s)) /\ Cardinality(1 .. Len(s)) = Len(s)
  <2>1. 1 \in Int /\ Len(s) \in Int
    BY <1>1
  <2>2. IsFiniteSet(1 .. Len(s)) /\ Cardinality(1 .. Len(s)) = IF 1 > Len(s) THEN 0 ELSE Len(s) - 1 + 1
    BY <2>1, FS_Interval
  <2>3. QED
    BY <1>1, <2>2
<1> HIDE DEF f
<1>5. f \in Bijection(1 .. Len(s), S)
  BY <1>2, <1>3 DEF Bijection, Injection, Surjection, IsInjective
<1>6. ExistsBijection(1 .. Len(s), S)
  BY <1>5 DEF ExistsBijection
<1>7. QED
  BY <1>1, <1>4, <1>6, FS_Bijection

\* The versions of a card that pblob deletes to make room for v.
PrunedBy(card, v) ==
  LET S == VersionsOf(card)
  IN  IF v \in S \/ Cardinality(S) < MaxVersions THEN {}
      ELSE {w \in Versions : \A x \in Newest(S, MaxVersions - 1) : w < x}

\* What lies under a card's entries after a Put of v that deleted the versions in pruned.
UnderPut(e, card, low, v, pruned) ==
  [w \in Versions |-> IF e = "sqlblob" \/ w \in pruned THEN None
                      ELSE IF w = v /\ card[w] # None THEN card[w]
                      ELSE low[w]]

\* They end where the newest begin, at the version that the index names.
LEMMA PrunedEnd ==
  ASSUME NEW S, S \subseteq Versions, NEW s, Lists(s, S, LessThan(S)), ~(Len(s) < MaxVersions)
  PROVE  LET end == s[Len(s) - MaxVersions + 2]
         IN  /\ end \in Versions
             /\ {w \in Versions : \A x \in Newest(S, MaxVersions - 1) : w < x} = {w \in Versions : w < end}
             /\ Newest(S, MaxVersions - 1) = {w \in S : ~(w < end)}
<1> DEFINE m == MaxVersions - 1
           end == s[Len(s) - MaxVersions + 2]
<1>1. S \subseteq Nat /\ Len(s) \in Nat /\ MaxVersions \in Nat /\ MaxVersions >= 2
  BY VersionsAreNats, AtLeastTwo DEF Lists
<1>2. m \in 1 .. Len(s) /\ Len(s) - m + 1 = Len(s) - MaxVersions + 2
  BY <1>1
<1> HIDE DEF m
<1>3. /\ Len(s) - m + 1 \in DOMAIN s
      /\ Newest(S, m) \subseteq S
      /\ \A w \in S : w \in Newest(S, m) <=> ~(w < s[Len(s) - m + 1])
  BY <1>1, <1>2, FromPlace
<1>4. end \in S /\ Newest(S, m) = {w \in S : ~(w < end)}
  BY <1>2, <1>3 DEF Lists
<1> HIDE DEF end
<1>5. ASSUME NEW w \in Versions PROVE (\A x \in Newest(S, m) : w < x) <=> w < end
  <2>1. w \in Nat /\ end \in Nat
    BY <1>1, <1>4, VersionsAreNats
  <2>2. end \in Newest(S, m)
    BY <1>4, <2>1
  <2>3. ASSUME w < end, NEW x \in Newest(S, m) PROVE w < x
    <3>1. x \in S /\ ~(x < end) /\ x \in Nat
      BY <1>1, <1>4
    <3>2. QED
      BY <2>1, <2>3, <3>1
  <2>4. QED
    BY <2>2, <2>3
<1>6. {w \in Versions : \A x \in Newest(S, m) : w < x} = {w \in Versions : w < end}
  BY <1>5
<1>7. QED
  BY <1>4, <1>6 DEF m, end

RoomFor(d, r, v, cancelled) ==
  IF KeyExists(d, CardKey(r, v)) THEN d ELSE PebbleDeleteOldVersions(d, r, cancelled)

\* The versions that a Put of v deletes before it inserts.
Deleted(d, r, v, cancelled) == IF cancelled THEN {} ELSE PrunedBy(PebbleCard(d, r), v)

LEMMA RoomIsMade ==
  ASSUME NEW d, PebbleOk(d), NEW r \in Rids, NEW v \in Versions, NEW cancelled \in BOOLEAN,
         NEW d1, d1 = RoomFor(d, r, v, cancelled),
         NEW P, P = Deleted(d, r, v, cancelled)
  PROVE  /\ PebbleOk(d1)
         /\ \A q \in Rids : /\ \A w \in Versions :
                                 /\ Get(d1, CardKey(q, w)) = IF q = r /\ w \in P THEN None ELSE Get(d, CardKey(q, w))
                                 /\ Under(d1, CardKey(q, w)) = IF q = r /\ w \in P THEN None ELSE Under(d, CardKey(q, w))
                            /\ Get(d1, ThumbnailKey(q)) = Get(d, ThumbnailKey(q))
<1> DEFINE S == VersionsOf(PebbleCard(d, r))
           s == PebbleVersions(d, r, FALSE)
<1>1. S = {w \in Versions : CardKey(r, w) \in DOMAIN d.kv}
  BY PebbleCardHas
<1>2. KeyExists(d, CardKey(r, v)) <=> v \in S
  <2>1. CardKey(r, v) \in CardKeys
    BY KeysDiffer
  <2>2. QED
    BY <1>1, <2>1, KeyExistsIfThere
<1>3. MaxVersions \in Nat /\ MaxVersions >= 2
  BY AtLeastTwo
<1>4. CASE P = {} /\ d1 = d
  BY <1>4
<1>5. CASE v \in S
  <2>1. d1 = d
    BY <1>2, <1>5 DEF RoomFor
  <2>2. P = {}
    BY <1>5 DEF Deleted, PrunedBy
  <2>3. QED
    BY <1>4, <2>1, <2>2
<1>6. CASE v \notin S /\ cancelled
  <2>1. d1 = PebbleDeleteOldVersions(d, r, TRUE)
    BY <1>2, <1>6 DEF RoomFor
  <2>2. PebbleVersions(d, r, TRUE) = <<>>
    BY DEF PebbleVersions
  <2>3. Len(<<>>) < MaxVersions
    BY <1>3
  <2>4. d1 = d
    BY <2>1, <2>2, <2>3 DEF PebbleDeleteOldVersions
  <2>5. QED
    BY <1>4, <1>6, <2>4 DEF Deleted
<1>7. CASE v \notin S /\ ~cancelled
  <2>1. d1 = PebbleDeleteOldVersions(d, r, FALSE)
    BY <1>2, <1>7 DEF RoomFor
  <2>2. Lists(s, S, LessThan(S)) /\ S \subseteq Versions /\ S \subseteq Int
    <3>1. S \subseteq Versions
      BY <1>1
    <3> HIDE DEF s
    <3>2. Lists(s, S, LessThan(S))
      BY PebbleVersionsList DEF s
    <3> HIDE DEF S
    <3>3. QED
      BY <3>1, <3>2, VersionsAreNats
  <2>3. Len(s) = Cardinality(S)
    BY <2>2, LengthOfList
  <2>4. CASE Len(s) < MaxVersions
    <3>1. d1 = d
      BY <2>1, <2>4 DEF PebbleDeleteOldVersions
    <3>2. P = {}
      BY <1>7, <2>3, <2>4 DEF Deleted, PrunedBy
    <3>3. QED
      BY <1>4, <3>1, <3>2
  <2>5. CASE ~(Len(s) < MaxVersions)
    <3> DEFINE end == s[Len(s) - MaxVersions + 2]
               ranges == {<<CardKey(r, 0), CardKey(r, end)>>}
    <3>1. d1 = DeleteRanges(d, ranges)
      BY <2>1, <2>5 DEF PebbleDeleteOldVersions, DeleteRange
    <3>2. end \in Versions /\ P = {w \in Versions : w < end}
      <4>1. P = {w \in Versions : \A x \in Newest(S, MaxVersions - 1) : w < x}
        BY <1>7, <2>3, <2>5 DEF Deleted, PrunedBy
      <4> HIDE DEF S, s
      <4>2. QED
        BY <2>2, <2>5, <4>1, PrunedEnd
    <3> HIDE DEF end
    <3>3. \A x : Gone(ranges, x) <=> InRange(x, CardKey(r, 0), CardKey(r, end))
      BY DEF Gone
    <3> HIDE DEF ranges
    <3>4. /\ PebbleOk(d1)
          /\ \A x : Get(d1, x) = IF Gone(ranges, x) THEN None ELSE Get(d, x)
          /\ \A x : Under(d1, x) = IF Gone(ranges, x) THEN None ELSE Under(d, x)
      BY <3>1, DeleteRangesDelete
    <3>5. 0 \in Nat /\ 0 < SignBit
      BY VersionsFit
    <3>6. ASSUME NEW q \in Rids, NEW w \in Versions
          PROVE  /\ Gone(ranges, CardKey(q, w)) <=> q = r /\ w \in P
                 /\ ~Gone(ranges, ThumbnailKey(q))
      <4>1. 0 <= w
        BY VersionsAreNats
      <4>2. /\ InRange(CardKey(q, w), CardKey(r, 0), CardKey(r, end)) <=> q = r /\ 0 <= w /\ w < end
            /\ ~InRange(ThumbnailKey(q), CardKey(r, 0), CardKey(r, end))
        BY <3>2, <3>5, CardRange
      <4>3. QED
        BY <3>2, <3>3, <4>1, <4>2
    <3>7. \A q \in Rids : ~Gone(ranges, ThumbnailKey(q))
      BY <3>6
    <3>8. QED
      BY <3>4, <3>6, <3>7
  <2>6. QED
    BY <2>4, <2>5
<1>8. QED
  BY <1>5, <1>6, <1>7

\* What pblob's Put leaves, whatever was pruned.
LEMMA PebblePutSets ==
  ASSUME NEW d, PebbleOk(d), NEW r \in Rids, NEW v \in Versions, NEW c \in Contents, NEW cancelled \in BOOLEAN,
         NEW d2, d2 = Set(Set(RoomFor(d, r, v, cancelled), ThumbnailKey(r), c), CardKey(r, v), c),
         NEW P, P = Deleted(d, r, v, cancelled)
  PROVE  /\ PebbleOk(d2)
         /\ ThumbIn("pblob", d2, r) = c
         /\ CardIn("pblob", d2, r)
              = [w \in Versions |-> IF w = v THEN c ELSE IF w \in P THEN None ELSE CardIn("pblob", d, r)[w]]
         /\ UnderIn("pblob", d2, r) = UnderPut("pblob", CardIn("pblob", d, r), UnderIn("pblob", d, r), v, P)
         /\ \A q \in Rids : q # r =>
              /\ CardIn("pblob", d2, q) = CardIn("pblob", d, q)
              /\ UnderIn("pblob", d2, q) = UnderIn("pblob", d, q)
              /\ ThumbIn("pblob", d2, q) = ThumbIn("pblob", d, q)
<1> DEFINE d0 == RoomFor(d, r, v, cancelled)
           d1 == Set(d0, ThumbnailKey(r), c)
<1>1. /\ PebbleOk(d0)
      /\ \A q \in Rids : /\ \A w \in Versions :
                              /\ Get(d0, CardKey(q, w)) = IF q = r /\ w \in P THEN None ELSE Get(d, CardKey(q, w))
                              /\ Under(d0, CardKey(q, w)) = IF q = r /\ w \in P THEN None ELSE Under(d, CardKey(q, w))
                         /\ Get(d0, ThumbnailKey(q)) = Get(d, ThumbnailKey(q))
  <2>1. /\ PebbleOk(d) /\ r \in Rids /\ v \in Versions /\ cancelled \in BOOLEAN
        /\ d0 = RoomFor(d, r, v, cancelled)
        /\ P = Deleted(d, r, v, cancelled)
    OBVIOUS
  <2> HIDE DEF d0
  <2>2. QED
    BY ONLY <2>1, RoomIsMade
<1>2. d2 = Set(d1, CardKey(r, v), c)
  OBVIOUS
<1> HIDE DEF d0
<1>3. ThumbnailKey(r) \in Keys /\ CardKey(r, v) \in Keys /\ ThumbnailKey(r)[2] # 0 /\ CardKey(r, v)[2] = 0
  BY KeysDiffer
<1>4. /\ PebbleOk(d1)
      /\ \A x : Get(d1, x) = IF x = ThumbnailKey(r) THEN c ELSE Get(d0, x)
      /\ \A x : Under(d1, x) = Under(d0, x)
  BY <1>1, <1>3, SetSets
<1> HIDE DEF d1
<1>5. /\ PebbleOk(d2)
      /\ \A x : Get(d2, x) = IF x = CardKey(r, v) THEN c ELSE Get(d1, x)
      /\ \A x : Under(d2, x) = IF x = CardKey(r, v) /\ Get(d1, CardKey(r, v)) # None
                               THEN Get(d1, CardKey(r, v)) ELSE Under(d1, x)
  BY <1>2, <1>3, <1>4, SetSets
<1>6. \A q \in Rids, w \in Versions :
        /\ Get(d1, CardKey(q, w)) = Get(d0, CardKey(q, w))
        /\ CardKey(q, w) = CardKey(r, v) <=> q = r /\ w = v
        /\ CardKey(r, v) # ThumbnailKey(q)
        /\ ThumbnailKey(q) = ThumbnailKey(r) <=> q = r
  BY <1>4, KeysDiffer
<1>7. v \in P => Get(d, CardKey(r, v)) = None
  <2>1. VersionsOf(PebbleCard(d, r)) = {w \in Versions : CardKey(r, w) \in DOMAIN d.kv}
    BY PebbleCardHas
  <2>2. v \in P => v \notin VersionsOf(PebbleCard(d, r))
    BY DEF Deleted, PrunedBy
  <2>3. QED
    BY <2>1, <2>2 DEF Get
<1>8. \A q \in Rids, w \in Versions :
        /\ Get(d2, CardKey(q, w)) = IF q = r /\ w = v THEN c
                                    ELSE IF q = r /\ w \in P THEN None ELSE Get(d, CardKey(q, w))
        /\ Under(d2, CardKey(q, w)) = IF q = r /\ w \in P THEN None
                                      ELSE IF q = r /\ w = v /\ Get(d, CardKey(q, w)) # None THEN Get(d, CardKey(q, w))
                                      ELSE Under(d, CardKey(q, w))
  BY <1>1, <1>4, <1>5, <1>6, <1>7
<1>9. \A q \in Rids : Get(d2, ThumbnailKey(q)) = IF q = r THEN c ELSE Get(d, ThumbnailKey(q))
  BY <1>1, <1>4, <1>5, <1>6
<1>10. UnderIn("pblob", d2, r) = UnderPut("pblob", CardIn("pblob", d, r), UnderIn("pblob", d, r), v, P)
  BY <1>8, PebbleEntries DEF UnderPut
<1>11. CardIn("pblob", d2, r)
         = [w \in Versions |-> IF w = v THEN c ELSE IF w \in P THEN None ELSE CardIn("pblob", d, r)[w]]
  BY <1>8, PebbleEntries
<1>12. ASSUME NEW q \in Rids, q # r
       PROVE  /\ CardIn("pblob", d2, q) = CardIn("pblob", d, q)
              /\ UnderIn("pblob", d2, q) = UnderIn("pblob", d, q)
              /\ ThumbIn("pblob", d2, q) = ThumbIn("pblob", d, q)
  BY <1>8, <1>9, <1>12, PebbleEntries
<1>13. QED
  BY <1>5, <1>9, <1>10, <1>11, <1>12, PebbleEntries

\* That is AfterPut, if the context was not cancelled.
LEMMA PrunedIsAfterPut ==
  ASSUME NEW card \in Cards, IsFiniteSet(VersionsOf(card)), NEW v \in Versions, NEW c
  PROVE  [w \in Versions |-> IF w = v THEN c ELSE IF w \in PrunedBy(card, v) THEN None ELSE card[w]]
           = AfterPut("pblob", card, v, c)
<1> DEFINE S == VersionsOf(card)
           kept == PutKeeps("pblob", S, v)
           P == PrunedBy(card, v)
           m == MaxVersions - 1
<1>1. S \subseteq Nat /\ S \subseteq Versions /\ \A w \in Versions : w \in S <=> card[w] # None
  BY VersionsAreNats DEF VersionsOf
<1>2. m \in Nat /\ MaxVersions \in Nat /\ Cardinality(S) \in Nat
  BY AtLeastTwo, FS_CardinalityType
<1>3. kept = IF v \in S THEN S ELSE Newest(S, m) \cup {v}
  BY DEF PutKeeps
<1>4. P = IF v \in S \/ Cardinality(S) < MaxVersions THEN {}
          ELSE {w \in Versions : \A x \in Newest(S, m) : w < x}
  BY DEF PrunedBy
<1> HIDE DEF S, kept, P
<1>5. ASSUME NEW w \in Versions, w # v PROVE w \notin kept <=> w \in P \/ card[w] = None
  <2>1. CASE v \in S
    BY <1>1, <1>3, <1>4, <2>1
  <2>2. CASE v \notin S /\ Cardinality(S) < MaxVersions
    <3>1. Cardinality(S) <= m
      BY <1>2, <2>2
    <3>2. Newest(S, m) = S
      BY <1>1, <1>2, <3>1, NewestOfFew DEF S
    <3>3. QED
      BY <1>1, <1>3, <1>4, <1>5, <2>2, <3>2
  <2>3. CASE v \notin S /\ ~(Cardinality(S) < MaxVersions)
    <3>1. Newest(S, m) \subseteq S
      BY DEF Newest
    <3>2. \A x \in S \ Newest(S, m) : x \in P
      BY <1>1, <1>2, <1>4, <2>3, NewestAreNewer DEF S
    <3>3. \A x \in Newest(S, m) : x \notin P
      <4> TAKE x \in Newest(S, m)
      <4>1. x \in Nat
        BY <1>1, <3>1
      <4>2. ~(x < x)
        BY <4>1
      <4>3. QED
        BY <1>4, <2>3, <4>2
    <3>4. QED
      BY <1>1, <1>3, <1>5, <2>3, <3>1, <3>2, <3>3
  <2>4. QED
    BY <2>1, <2>2, <2>3
<1>6. v \in kept
  BY <1>3
<1>7. AfterPut("pblob", card, v, c) = [w \in Versions |-> IF w \notin kept THEN None ELSE IF w = v THEN c ELSE card[w]]
  BY DEF AfterPut, kept, S
<1>8. \A w \in Versions : (IF w = v THEN c ELSE IF w \in P THEN None ELSE card[w])
                            = (IF w \notin kept THEN None ELSE IF w = v THEN c ELSE card[w])
  BY <1>5, <1>6
<1>9. QED
  BY <1>7, <1>8 DEF P

\* What sqlblob's Put leaves.
LEMMA SqlPutSets ==
  ASSUME NEW d, SqlOk(d), NEW r \in Rids, NEW v \in Versions, NEW c \in Contents,
         NEW d1, d1 = [cards |-> With(d.cards, <<r, v>>, c), thumbs |-> With(d.thumbs, r, c)],
         NEW d2, d2 = SqlDeleteOldVersions(d1, r)
  PROVE  /\ SqlOk(d2)
         /\ ThumbIn("sqlblob", d2, r) = c
         /\ CardIn("sqlblob", d2, r) = AfterPut("sqlblob", CardIn("sqlblob", d, r), v, c)
         /\ \A q \in Rids : q # r =>
              /\ CardIn("sqlblob", d2, q) = CardIn("sqlblob", d, q)
              /\ ThumbIn("sqlblob", d2, q) = ThumbIn("sqlblob", d, q)
<1> DEFINE card == CardIn("sqlblob", d, r)
           S == VersionsOf(card)
           T == SqlVersionSet(d1, r)
           s == SqlVersions(d1, r)
           kept == PutKeeps("sqlblob", S, v)
<1>1. /\ SqlOk(d1)
      /\ \A q \in Rids, w \in Versions : SqlGet(d1, q, w) = IF q = r /\ w = v THEN c ELSE SqlGet(d, q, w)
      /\ \A q \in Rids : SqlThumbnail(d1, q) = IF q = r THEN c ELSE SqlThumbnail(d, q)
  BY InsertInserts
<1>2. card = SqlCard(d, r) /\ \A w \in Versions : card[w] = SqlGet(d, r, w)
  BY SqlEntries DEF CardIn
<1>3. T = S \cup {v}
  <2>1. T = VersionsOf(SqlCard(d1, r)) /\ S = VersionsOf(SqlCard(d, r))
    BY <1>1, <1>2, SqlCardHas
  <2>2. \A w \in Versions : SqlCard(d1, r)[w] # None <=> w = v \/ SqlCard(d, r)[w] # None
    BY <1>1, NoneIsNoContent DEF SqlCard
  <2> HIDE DEF T, S
  <2>3. QED
    BY <2>1, <2>2 DEF VersionsOf
<1>4. T \subseteq Nat /\ T \subseteq Int /\ T \subseteq Versions /\ IsFiniteSet(T)
  <2>1. T \subseteq Versions
    BY <1>3 DEF VersionsOf
  <2>2. IsFiniteSet(T)
    BY <1>1, SqlCardHas
  <2> HIDE DEF T
  <2>3. QED
    BY <2>1, <2>2, VersionsAreNats
<1>5. s = Sorted(T, <)
  BY DEF SqlVersions
<1>6. Lists(s, T, LessThan(T)) /\ Len(s) = Cardinality(T)
  <2> HIDE DEF T, s
  <2>1. QED
    BY <1>4, <1>5, SortedNumbers
<1>7. MaxVersions \in Nat /\ MaxVersions >= 2
  BY AtLeastTwo
<1>8. kept = Newest(T, MaxVersions)
  BY <1>3 DEF PutKeeps
<1>9. /\ SqlOk(d2)
      /\ \A q \in Rids, w \in Versions : SqlGet(d2, q, w) = IF q = r /\ w \in T /\ w \notin kept THEN None ELSE SqlGet(d1, q, w)
      /\ d2.thumbs = d1.thumbs
  <2>1. CASE Len(s) <= MaxVersions
    <3>1. d2 = d1
      BY <2>1 DEF SqlDeleteOldVersions
    <3>2. kept = T
      <4> HIDE DEF s, T, kept
      <4>1. QED
        BY <1>4, <1>6, <1>7, <1>8, <2>1, NewestOfFew
    <3>3. QED
      BY <1>1, <3>1, <3>2
  <2>2. CASE ~(Len(s) <= MaxVersions)
    <3> DEFINE end == s[Len(s) - MaxVersions + 1]
               vs == {w \in Versions : w < end}
    <3>1. d2 = SqlDeleteWhere(d1, r, vs)
      BY <2>2 DEF SqlDeleteOldVersions
    <3>2. \A w \in T : w \in kept <=> ~(w < end)
      <4> HIDE DEF s, T, kept
      <4>1. MaxVersions \in 1 .. Len(s)
        BY <1>6, <1>7, <2>2 DEF Lists
      <4>2. QED
        BY <1>4, <1>6, <1>8, <4>1, FromPlace
    <3>3. \A w \in Versions : w \notin T => SqlGet(d1, r, w) = None
      <4>1. \A w \in Versions : w \in T <=> <<r, w>> \in DOMAIN d1.cards
        BY <1>1, SqlCardHas
      <4>2. QED
        BY <4>1 DEF SqlGet
    <3> HIDE DEF end, vs, T, kept, s
    <3>4. /\ SqlOk(d2)
          /\ \A q \in Rids, w \in Versions : SqlGet(d2, q, w) = IF q = r /\ w \in vs THEN None ELSE SqlGet(d1, q, w)
          /\ d2.thumbs = d1.thumbs
      <4>1. SqlOk(d1) /\ r \in Rids /\ d2 = SqlDeleteWhere(d1, r, vs)
        BY <1>1, <3>1
      <4>2. QED
        BY ONLY <4>1, DeleteWhereDeletes
    <3>5. \A w \in Versions : w \in T => (w \in vs <=> w \notin kept)
      BY <3>2 DEF vs
    <3>6. QED
      BY <3>3, <3>4, <3>5
  <2>3. QED
    BY <2>1, <2>2
<1>10. CardIn("sqlblob", d2, r) = AfterPut("sqlblob", card, v, c)
  <2>1. AfterPut("sqlblob", card, v, c) = [w \in Versions |-> IF w \notin kept THEN None ELSE IF w = v THEN c ELSE card[w]]
    BY DEF AfterPut
  <2>2. kept \subseteq T
    BY <1>8 DEF Newest
  <2>3. \A w \in Versions : w \notin S => card[w] = None
    BY DEF VersionsOf
  <2> HIDE DEF T, S, kept, card
  <2>4. \A w \in Versions : SqlGet(d2, r, w) = IF w \notin kept THEN None ELSE IF w = v THEN c ELSE card[w]
    <3> TAKE w \in Versions
    <3>1. SqlGet(d2, r, w) = IF w \in T /\ w \notin kept THEN None ELSE IF w = v THEN c ELSE card[w]
      BY <1>1, <1>2, <1>9
    <3>2. w \notin T => card[w] = None /\ w # v /\ w \notin kept
      BY <1>3, <2>2, <2>3
    <3>3. QED
      BY <3>1, <3>2
  <2>5. QED
    BY <2>1, <2>4, SqlEntries
<1>11. ASSUME NEW q \in Rids
       PROVE  SqlThumbnail(d2, q) = IF q = r THEN c ELSE SqlThumbnail(d, q)
  BY <1>1, <1>9 DEF SqlThumbnail
<1>12. ASSUME NEW q \in Rids, q # r PROVE CardIn("sqlblob", d2, q) = CardIn("sqlblob", d, q)
  BY <1>1, <1>9, <1>12, SqlEntries
<1>13. QED
  BY <1>9, <1>10, <1>11, <1>12, SqlEntries

-----------------------------------------------------------------------------
(* The steps of BlobEngines, as what they do to whole cards. *)

Card(r) == CardIn(engine, db, r)
Thumb(r) == ThumbIn(engine, db, r)
Below(r) == UnderIn(engine, db, r)

TypeInv ==
  /\ engine \in Engines /\ DbOk(engine, db)
  /\ extra \in [Rids -> SUBSET Versions]
  /\ last \in [Rids -> {<<>>} \cup (Versions \X Contents)]

\* Item r has these from now on, and the others what they had.
Becomes(r, card, low, thumb) ==
  \A q \in Rids : /\ Card(q)' = IF q = r THEN card ELSE Card(q)
                  /\ Below(q)' = IF q = r THEN low ELSE Below(q)
                  /\ Thumb(q)' = IF q = r THEN thumb ELSE Thumb(q)

LEMMA ListedVersions ==
  ASSUME NEW e \in Engines, NEW d, DbOk(e, d), NEW r \in Rids
  PROVE  ToSet(IF e = "pblob" THEN PebbleVersions(d, r, FALSE) ELSE SqlVersions(d, r)) = VersionsOf(CardIn(e, d, r))
<1> DEFINE s == IF e = "pblob" THEN PebbleVersions(d, r, FALSE) ELSE SqlVersions(d, r)
           S == VersionsOf(CardIn(e, d, r))
<1>1. CASE e = "pblob"
  <2>1. PebbleOk(d) /\ S = VersionsOf(PebbleCard(d, r))
    BY <1>1 DEF DbOk, CardIn
  <2>2. Lists(PebbleVersions(d, r, FALSE), S, LessThan(S))
    BY <2>1, PebbleVersionsList
  <2>3. QED
    BY <1>1, <2>2 DEF Lists, ToSet
<1>2. CASE e # "pblob"
  <2>1. SqlOk(d) /\ S = SqlVersionSet(d, r)
    BY <1>2, SqlCardHas DEF DbOk, CardIn
  <2>2. S \subseteq Int /\ IsFiniteSet(S)
    <3>1. S \subseteq Versions
      BY DEF VersionsOf
    <3>2. IsFiniteSet(S)
      BY CardInHas
    <3> HIDE DEF S
    <3>3. QED
      BY <3>1, <3>2, VersionsAreNats
  <2>3. Lists(SqlVersions(d, r), S, LessThan(S))
    <3>1. SqlVersions(d, r) = Sorted(S, <)
      BY <2>1 DEF SqlVersions
    <3> HIDE DEF S
    <3>2. QED
      BY <2>2, <3>1, SortedNumbers
  <2>4. QED
    BY <1>2, <2>3 DEF Lists, ToSet
<1>3. QED
  BY <1>1, <1>2

LEMMA VersionsAreListed ==
  ASSUME TypeInv, NEW r \in Rids
  PROVE  ToSet(VersionsIn(r)) = VersionsOf(Card(r))
BY ListedVersions DEF TypeInv, VersionsIn, Card

LEMMA CardsAreCards ==
  ASSUME TypeInv, NEW r \in Rids
  PROVE  /\ Card(r) \in Cards /\ Below(r) \in Cards /\ Thumb(r) \in Contents \cup {None}
         /\ VersionsOf(Card(r)) \subseteq Versions /\ IsFiniteSet(VersionsOf(Card(r)))
         /\ \A v \in Versions : GetCard(r, v) = Card(r)[v]
         /\ Thumbnail(r) = Thumb(r)
<1>1. /\ Card(r) \in Cards /\ Below(r) \in Cards /\ Thumb(r) \in Contents \cup {None}
      /\ VersionsOf(Card(r)) \subseteq Versions /\ IsFiniteSet(VersionsOf(Card(r)))
  BY CardInHas DEF TypeInv, Card, Below, Thumb
<1>2. \A v \in Versions : GetCard(r, v) = Card(r)[v]
  BY DEF GetCard, Card, CardIn, PebbleCard, SqlCard
<1>3. Thumbnail(r) = Thumb(r)
  BY DEF Thumbnail, Thumb, ThumbIn
<1>4. QED
  BY <1>1, <1>2, <1>3

\* A Put of a version in full, one whose context is cancelled while pblob lists the
\* versions, and one that fails.
PutInFull(r, v, c) ==
  /\ Becomes(r, AfterPut(engine, Card(r), v, c), UnderPut(engine, Card(r), Below(r), v, PrunedBy(Card(r), v)), c)
  /\ last' = [last EXCEPT ![r] = <<v, c>>]
  /\ extra' = [extra EXCEPT ![r] = @ \cap VersionsOf(Card(r)')]

PutUnpruned(r, v, c) ==
  /\ engine = "pblob"
  /\ Becomes(r, [Card(r) EXCEPT ![v] = c], UnderPut(engine, Card(r), Below(r), v, {}), c)
  /\ last' = [last EXCEPT ![r] = <<v, c>>]
  /\ extra' = [extra EXCEPT ![r] = IF v \in VersionsOf(Card(r)) THEN @ ELSE @ \cup {v}]

LEMMA PutDoes ==
  ASSUME TypeInv, NEW r \in Rids, NEW v \in Versions, NEW c \in Contents, Put(r, v, c)
  PROVE  /\ engine' = engine /\ DbOk(engine', db')
         /\ PutInFull(r, v, c) \/ PutUnpruned(r, v, c) \/ UNCHANGED vars
<1>1. PICK cancelled \in BOOLEAN :
        LET put == IF engine = "pblob" THEN PebblePut(r, v, c, cancelled) ELSE SqlPut(r, v, c, cancelled)
        IN  /\ WithTx(put)
            /\ last' = IF put.err THEN last ELSE [last EXCEPT ![r] = <<v, c>>]
            /\ extra' = IF put.err THEN extra
                        ELSE [extra EXCEPT ![r] = IF ~cancelled THEN @ \cap ToSet(VersionsIn(r))'
                                                  ELSE IF GetCard(r, v) # None THEN @ ELSE @ \cup {v}]
  BY DEF Put
<1>2. engine' = engine /\ engine \in Engines /\ DbOk(engine, db)
  BY DEF Put, TypeInv
<1>3. /\ Card(r) \in Cards /\ IsFiniteSet(VersionsOf(Card(r)))
      /\ GetCard(r, v) # None <=> v \in VersionsOf(Card(r))
  BY CardsAreCards DEF VersionsOf
<1>4. ASSUME DbOk(engine', db') PROVE ToSet(VersionsIn(r))' = VersionsOf(Card(r)')
  BY <1>2, <1>4, ListedVersions DEF VersionsIn, Card
<1>5. CASE engine = "pblob"
  <2> DEFINE d2 == Set(Set(RoomFor(db, r, v, cancelled), ThumbnailKey(r), c), CardKey(r, v), c)
  <2>1. PebblePut(r, v, c, cancelled) = [db |-> d2, err |-> FALSE]
    BY DEF PebblePut, Ok, RoomFor
  <2>2. /\ db' = d2
        /\ last' = [last EXCEPT ![r] = <<v, c>>]
        /\ extra' = [extra EXCEPT ![r] = IF ~cancelled THEN @ \cap ToSet(VersionsIn(r))'
                                         ELSE IF GetCard(r, v) # None THEN @ ELSE @ \cup {v}]
    <3> HIDE DEF d2
    <3>1. QED
      BY <1>1, <1>5, <2>1 DEF WithTx
  <2> DEFINE P == Deleted(db, r, v, cancelled)
  <2>3. PebbleOk(db)
    BY <1>2, <1>5 DEF DbOk
  <2>4. db' = Set(Set(RoomFor(db, r, v, cancelled), ThumbnailKey(r), c), CardKey(r, v), c)
    BY <2>2
  <2>5. P = Deleted(db, r, v, cancelled)
    OBVIOUS
  <2> HIDE DEF P, d2
  <2>6. /\ PebbleOk(db')
        /\ ThumbIn("pblob", db', r) = c
        /\ CardIn("pblob", db', r)
             = [w \in Versions |-> IF w = v THEN c ELSE IF w \in P THEN None ELSE CardIn("pblob", db, r)[w]]
        /\ UnderIn("pblob", db', r) = UnderPut("pblob", CardIn("pblob", db, r), UnderIn("pblob", db, r), v, P)
        /\ \A q \in Rids : q # r =>
             /\ CardIn("pblob", db', q) = CardIn("pblob", db, q)
             /\ UnderIn("pblob", db', q) = UnderIn("pblob", db, q)
             /\ ThumbIn("pblob", db', q) = ThumbIn("pblob", db, q)
    BY <2>3, <2>4, <2>5, PebblePutSets
  <2>7. /\ Thumb(r)' = c
        /\ Card(r)' = [w \in Versions |-> IF w = v THEN c ELSE IF w \in P THEN None ELSE Card(r)[w]]
        /\ Below(r)' = UnderPut(engine, Card(r), Below(r), v, P)
        /\ \A q \in Rids : q # r => Card(q)' = Card(q) /\ Below(q)' = Below(q) /\ Thumb(q)' = Thumb(q)
    BY <1>2, <1>5, <2>6 DEF Card, Thumb, Below
  <2>8. DbOk(engine', db')
    BY <1>2, <1>5, <2>6 DEF DbOk
  <2>9. CASE cancelled
    <3>1. P = {}
      BY <2>5, <2>9 DEF Deleted
    <3>2. Card(r)' = [Card(r) EXCEPT ![v] = c]
      BY <1>3, <2>7, <3>1 DEF Cards
    <3>3. PutUnpruned(r, v, c)
      BY <1>3, <1>5, <2>2, <2>7, <2>9, <3>1, <3>2 DEF PutUnpruned, Becomes
    <3>4. QED
      BY <1>2, <2>8, <3>3
  <2>10. CASE ~cancelled
    <3>1. P = PrunedBy(Card(r), v)
      BY <1>5, <2>5, <2>10 DEF Deleted, Card, CardIn
    <3>2. Card(r)' = AfterPut(engine, Card(r), v, c)
      BY <1>3, <1>5, <2>7, <3>1, PrunedIsAfterPut
    <3>3. extra' = [extra EXCEPT ![r] = @ \cap VersionsOf(Card(r)')]
      BY <1>4, <2>2, <2>8, <2>10
    <3>4. PutInFull(r, v, c)
      BY <2>2, <2>7, <3>1, <3>2, <3>3 DEF PutInFull, Becomes
    <3>5. QED
      BY <1>2, <2>8, <3>4
  <2>11. QED
    BY <2>9, <2>10
<1>6. CASE engine = "sqlblob"
  <2> DEFINE d1 == [cards |-> With(db.cards, <<r, v>>, c), thumbs |-> With(db.thumbs, r, c)]
             d2 == SqlDeleteOldVersions(d1, r)
  <2>1. CASE cancelled
    <3>1. SqlPut(r, v, c, cancelled) = [db |-> db, err |-> TRUE]
      BY <2>1 DEF SqlPut, Fail
    <3>2. UNCHANGED vars
      BY <1>1, <1>2, <1>6, <3>1 DEF WithTx, vars
    <3>3. QED
      BY <1>2, <3>2 DEF vars
  <2>2. CASE ~cancelled
    <3>1. SqlPut(r, v, c, cancelled) = [db |-> d2, err |-> FALSE]
      BY <2>2 DEF SqlPut, Ok
    <3>2. /\ db' = d2
          /\ last' = [last EXCEPT ![r] = <<v, c>>]
          /\ extra' = [extra EXCEPT ![r] = @ \cap ToSet(VersionsIn(r))']
      <4> HIDE DEF d2
      <4>1. QED
        BY <1>1, <1>6, <2>2, <3>1 DEF WithTx
    <3>3. SqlOk(db)
      BY <1>2, <1>6 DEF DbOk
    <3>4. d1 = [cards |-> With(db.cards, <<r, v>>, c), thumbs |-> With(db.thumbs, r, c)] /\ d2 = SqlDeleteOldVersions(d1, r)
      OBVIOUS
    <3> HIDE DEF d1, d2
    <3>5. /\ SqlOk(d2)
          /\ ThumbIn("sqlblob", d2, r) = c
          /\ CardIn("sqlblob", d2, r) = AfterPut("sqlblob", CardIn("sqlblob", db, r), v, c)
          /\ \A q \in Rids : q # r =>
               /\ CardIn("sqlblob", d2, q) = CardIn("sqlblob", db, q)
               /\ ThumbIn("sqlblob", d2, q) = ThumbIn("sqlblob", db, q)
      BY <3>3, <3>4, SqlPutSets
    <3>6. /\ Thumb(r)' = c
          /\ Card(r)' = AfterPut(engine, Card(r), v, c)
          /\ \A q \in Rids : q # r => Card(q)' = Card(q) /\ Thumb(q)' = Thumb(q)
      BY <1>2, <1>6, <3>2, <3>5 DEF Card, Thumb
    <3>7. /\ \A q \in Rids : Below(q) = NoCard /\ Below(q)' = NoCard
          /\ UnderPut(engine, Card(r), Below(r), v, PrunedBy(Card(r), v)) = NoCard
      BY <1>2, <1>6 DEF Below, UnderIn, UnderPut, NoCard
    <3>8. DbOk(engine', db')
      BY <1>2, <1>6, <3>2, <3>5 DEF DbOk
    <3>9. extra' = [extra EXCEPT ![r] = @ \cap VersionsOf(Card(r)')]
      BY <1>4, <3>2, <3>8
    <3>10. PutInFull(r, v, c)
      BY <3>2, <3>6, <3>7, <3>9 DEF PutInFull, Becomes
    <3>11. QED
      BY <1>2, <3>8, <3>10
  <2>3. QED
    BY <2>1, <2>2
<1>7. QED
  BY <1>2, <1>5, <1>6 DEF Engines

LEMMA DeleteVersionDoes ==
  ASSUME TypeInv, NEW r \in Rids, NEW v \in Versions, DeleteVersion(r, v)
  PROVE  /\ engine' = engine /\ DbOk(engine', db')
         /\ Becomes(r, [Card(r) EXCEPT ![v] = None], Below(r), Thumb(r))
<1>1. /\ engine' = engine /\ engine \in Engines /\ DbOk(engine, db)
      /\ db' = IF engine = "pblob" THEN SingleDelete(db, CardKey(r, v)) ELSE SqlDeleteWhere(db, r, {v})
  BY DEF DeleteVersion, WithTx, Ok, TypeInv
<1>2. /\ DbOk(engine, db')
      /\ \A q \in Rids :
           /\ CardIn(engine, db', q) = IF q = r THEN [CardIn(engine, db, q) EXCEPT ![v] = None] ELSE CardIn(engine, db, q)
           /\ UnderIn(engine, db', q) = UnderIn(engine, db, q)
           /\ ThumbIn(engine, db', q) = ThumbIn(engine, db, q)
  BY <1>1, VersionDeleted
<1>3. QED
  BY <1>1, <1>2 DEF Becomes, Card, Below, Thumb

LEMMA DeleteVersionsDoes ==
  ASSUME TypeInv, NEW r \in Rids, NEW low \in Versions, NEW high \in Versions, DeleteVersions(r, low, high)
  PROVE  /\ engine' = engine /\ DbOk(engine', db')
         /\ Becomes(r, Cut(Card(r), low, high), Cut(Below(r), low, high), Thumb(r))
<1>1. /\ engine' = engine /\ engine \in Engines /\ DbOk(engine, db)
      /\ db' = IF engine = "pblob" THEN DeleteRange(db, CardKey(r, low), CardKey(r, high))
               ELSE SqlDeleteWhere(db, r, Between(low, high))
  BY DEF DeleteVersions, WithTx, Ok, TypeInv, Between
<1>2. /\ DbOk(engine, db')
      /\ \A q \in Rids :
           /\ CardIn(engine, db', q) = IF q = r THEN Cut(CardIn(engine, db, q), low, high) ELSE CardIn(engine, db, q)
           /\ UnderIn(engine, db', q) = IF q = r THEN Cut(UnderIn(engine, db, q), low, high) ELSE UnderIn(engine, db, q)
           /\ ThumbIn(engine, db', q) = ThumbIn(engine, db, q)
  BY <1>1, VersionsDeleted
<1>3. QED
  BY <1>1, <1>2 DEF Becomes, Card, Below, Thumb

LEMMA DeleteDoes ==
  ASSUME TypeInv, NEW rs \in SUBSET Rids, Delete(rs)
  PROVE  /\ engine' = engine /\ DbOk(engine', db')
         /\ \A q \in Rids : /\ Card(q)' = IF q \in rs THEN NoCard ELSE Card(q)
                            /\ Below(q)' = IF q \in rs THEN NoCard ELSE Below(q)
                            /\ Thumb(q)' = IF q \in rs THEN None ELSE Thumb(q)
<1>1. /\ engine' = engine /\ engine \in Engines /\ DbOk(engine, db)
      /\ db' = IF engine = "pblob" THEN PebbleDelete(db, rs) ELSE SqlDelete(db, rs)
  BY DEF Delete, WithTx, Ok, TypeInv
<1>2. /\ DbOk(engine, db')
      /\ \A q \in Rids :
           /\ CardIn(engine, db', q) = IF q \in rs THEN NoCard ELSE CardIn(engine, db, q)
           /\ UnderIn(engine, db', q) = IF q \in rs THEN NoCard ELSE UnderIn(engine, db, q)
           /\ ThumbIn(engine, db', q) = IF q \in rs THEN None ELSE ThumbIn(engine, db, q)
  BY <1>1, ItemsDeleted
<1>3. QED
  BY <1>1, <1>2 DEF Card, Below, Thumb

LEMMA CompactDoes ==
  ASSUME TypeInv, NEW r \in Rids, NEW v \in Versions, Compact(CardKey(r, v))
  PROVE  /\ engine = "pblob" /\ engine' = engine /\ DbOk(engine', db')
         /\ Below(r)[v] # None
         /\ Becomes(r, IF Card(r)[v] = None THEN [Card(r) EXCEPT ![v] = Below(r)[v]] ELSE Card(r),
                    [Below(r) EXCEPT ![v] = None], Thumb(r))
         /\ extra' = IF Card(r)[v] = None THEN [extra EXCEPT ![r] = @ \cup {v}] ELSE extra
         /\ last' = last
<1> DEFINE k == CardKey(r, v)
<1>1. /\ engine = "pblob" /\ engine' = engine /\ last' = last /\ PebbleOk(db)
      /\ k \in DOMAIN db.under
      /\ db'.kv = IF k \in DOMAIN db.kv THEN db.kv ELSE With(db.kv, k, db.under[k])
      /\ db'.under = Restrict(db.under, DOMAIN db.under \ {k})
      /\ extra' = IF k \in DOMAIN db.kv THEN extra ELSE [extra EXCEPT ![k[1]] = @ \cup {GetVersion(k)}]
  BY DEF Compact, TypeInv, DbOk
<1>2. k[1] = r /\ GetVersion(k) = v /\ k \in Keys /\ k \in CardKeys
  BY KeysDiffer, CardKeyParts
<1>3. \A q \in Rids, w \in Versions : (CardKey(q, w) = k <=> q = r /\ w = v) /\ ThumbnailKey(q) # k
  BY KeysDiffer
<1> HIDE DEF k
<1>4. /\ DOMAIN db'.under = DOMAIN db.under \ {k}
      /\ \A x \in DOMAIN db'.under : db'.under[x] = db.under[x]
  BY <1>1 DEF Restrict
<1>5. \A x : Under(db', x) = IF x = k THEN None ELSE Under(db, x)
  BY <1>4 DEF Under
<1>6. /\ db.under[k] \in Contents
      /\ Under(db, k) = db.under[k]
      /\ k \in DOMAIN db.kv <=> Get(db, k) # None
  BY <1>1, GetIsContent DEF PebbleOk, Under
<1>7. /\ PebbleOk(db')
      /\ \A x : Get(db', x) = IF x = k /\ k \notin DOMAIN db.kv THEN db.under[k] ELSE Get(db, x)
  <2>1. CASE k \in DOMAIN db.kv
    BY <1>1, <1>4, <2>1 DEF PebbleOk, Get
  <2>2. CASE k \notin DOMAIN db.kv
    <3>1. /\ DOMAIN db'.kv = DOMAIN db.kv \cup {k}
          /\ db'.kv[k] = db.under[k]
          /\ \A x \in DOMAIN db.kv : x # k => db'.kv[x] = db.kv[x]
      BY <1>1, <2>2 DEF With
    <3>2. IsFiniteSet(DOMAIN db'.kv)
      BY <1>1, <3>1, FS_AddElement DEF PebbleOk
    <3>3. PebbleOk(db')
      BY <1>1, <1>2, <1>4, <1>6, <3>1, <3>2 DEF PebbleOk
    <3>4. QED
      BY <2>2, <3>1, <3>3 DEF Get
  <2>3. QED
    BY <2>1, <2>2
<1>8. \A q \in Rids : /\ Card(q) = [w \in Versions |-> Get(db, CardKey(q, w))]
                      /\ Card(q)' = [w \in Versions |-> Get(db', CardKey(q, w))]
                      /\ Below(q) = [w \in Versions |-> Under(db, CardKey(q, w))]
                      /\ Below(q)' = [w \in Versions |-> Under(db', CardKey(q, w))]
                      /\ Thumb(q) = Get(db, ThumbnailKey(q)) /\ Thumb(q)' = Get(db', ThumbnailKey(q))
  BY <1>1, PebbleEntries DEF Card, Below, Thumb
<1>9. Card(r)[v] = Get(db, k) /\ Below(r)[v] = db.under[k]
  BY <1>3, <1>6, <1>8
<1>10. \A q \in Rids, w \in Versions :
         /\ Get(db', CardKey(q, w)) = IF q = r /\ w = v /\ Card(r)[v] = None THEN Below(r)[v] ELSE Get(db, CardKey(q, w))
         /\ Under(db', CardKey(q, w)) = IF q = r /\ w = v THEN None ELSE Under(db, CardKey(q, w))
  BY <1>3, <1>5, <1>6, <1>7, <1>9
<1>11. \A q \in Rids : Get(db', ThumbnailKey(q)) = Get(db, ThumbnailKey(q))
  BY <1>3, <1>7
<1>12. Card(r)' = IF Card(r)[v] = None THEN [Card(r) EXCEPT ![v] = Below(r)[v]] ELSE Card(r)
  BY <1>8, <1>10
<1>13. Below(r)' = [Below(r) EXCEPT ![v] = None]
  BY <1>8, <1>10
<1>14. \A q \in Rids : Thumb(q)' = Thumb(q)
  BY <1>8, <1>11
<1>15. ASSUME NEW q \in Rids, q # r PROVE Card(q)' = Card(q) /\ Below(q)' = Below(q)
  BY <1>8, <1>10, <1>15
<1>16. Becomes(r, IF Card(r)[v] = None THEN [Card(r) EXCEPT ![v] = Below(r)[v]] ELSE Card(r),
               [Below(r) EXCEPT ![v] = None], Thumb(r))
  BY <1>12, <1>13, <1>14, <1>15 DEF Becomes
<1>17. extra' = IF Card(r)[v] = None THEN [extra EXCEPT ![r] = @ \cup {v}] ELSE extra
  BY <1>1, <1>2, <1>6, <1>9
<1>18. Below(r)[v] # None /\ DbOk(engine', db')
  BY <1>1, <1>6, <1>7, <1>9, NoneIsNoContent DEF DbOk
<1>19. QED
  BY <1>1, <1>16, <1>17, <1>18

-----------------------------------------------------------------------------
(* Every step is one of BlobStore, or changes nothing there. *)

bCards == [r \in Rids |-> [v \in Versions |-> GetCard(r, v)]]
bThumbs == [r \in Rids |-> Thumbnail(r)]
bUnder == [r \in Rids |-> [v \in Versions |-> UnderCard(r, v)]]

LEMMA Mapped ==
  /\ bCards = [r \in Rids |-> Card(r)] /\ bCards' = [r \in Rids |-> Card(r)']
  /\ bThumbs = [r \in Rids |-> Thumb(r)] /\ bThumbs' = [r \in Rids |-> Thumb(r)']
  /\ bUnder = [r \in Rids |-> Below(r)] /\ bUnder' = [r \in Rids |-> Below(r)']
<1>1. bCards = [r \in Rids |-> Card(r)] /\ bCards' = [r \in Rids |-> Card(r)']
  BY DEF bCards, GetCard, Card, CardIn, PebbleCard, SqlCard
<1>2. bThumbs = [r \in Rids |-> Thumb(r)] /\ bThumbs' = [r \in Rids |-> Thumb(r)']
  BY DEF bThumbs, Thumbnail, Thumb, ThumbIn
<1>3. bUnder = [r \in Rids |-> Below(r)] /\ bUnder' = [r \in Rids |-> Below(r)']
  BY DEF bUnder, UnderCard, Below, UnderIn, PebbleUnder, NoCard
<1>4. QED
  BY <1>1, <1>2, <1>3

\* The instance has its own copy of every definition, of the library's too.
LEMMA SameCardinality ==
  ASSUME NEW S
  PROVE  B!Cardinality(S) = Cardinality(S)
BY Zenon DEF B!Cardinality, Cardinality

LEMMA SameNewest ==
  ASSUME NEW S, NEW n
  PROVE  B!Newest(S, n) = Newest(S, n)
BY SameCardinality DEF B!Newest, Newest

LEMMA SamePutKeeps ==
  ASSUME NEW S, NEW v
  PROVE  B!PutKeeps(engine, S, v) = PutKeeps(engine, S, v)
BY SameNewest DEF B!PutKeeps, PutKeeps

LEMMA SameOperators ==
  ASSUME NEW card, NEW low, NEW v, NEW c, NEW P
  PROVE  /\ B!AfterPut(engine, card, v, c) = AfterPut(engine, card, v, c)
         /\ B!VersionsOf(card) = VersionsOf(card)
         /\ B!Pruned(card, v) = PrunedBy(card, v)
         /\ B!UnderAfterPut(card, low, v, P) = UnderPut(engine, card, low, v, P)
         /\ B!NoCard = NoCard /\ B!NoPut = <<>>
<1> DEFINE S == VersionsOf(card)
<1>1. B!VersionsOf(card) = S
  BY DEF B!VersionsOf, VersionsOf
<1>2. B!AfterPut(engine, card, v, c) = AfterPut(engine, card, v, c)
  <2> DEFINE kept == PutKeeps(engine, S, v)
  <2>1. AfterPut(engine, card, v, c) = [w \in Versions |-> IF w \notin kept THEN None ELSE IF w = v THEN c ELSE card[w]]
    BY DEF AfterPut
  <2>2. B!PutKeeps(engine, B!VersionsOf(card), v) = kept
    BY <1>1, SamePutKeeps
  <2> HIDE DEF kept
  <2>3. B!AfterPut(engine, card, v, c) = [w \in Versions |-> IF w \notin kept THEN None ELSE IF w = v THEN c ELSE card[w]]
    BY <2>2 DEF B!AfterPut
  <2>4. QED
    BY <2>1, <2>3
<1>3. B!Pruned(card, v) = PrunedBy(card, v)
  <2> DEFINE N == Newest(S, MaxVersions - 1)
  <2>1. B!Newest(S, MaxVersions - 1) = N
    BY SameNewest
  <2> HIDE DEF N, S
  <2>2. B!Pruned(card, v) = IF v \in S \/ Cardinality(S) < MaxVersions THEN {}
                            ELSE {w \in Versions : \A x \in N : w < x}
    BY <1>1, <2>1, SameCardinality DEF B!Pruned
  <2>3. QED
    BY <2>2 DEF PrunedBy, N, S
<1>4. B!UnderAfterPut(card, low, v, P) = UnderPut(engine, card, low, v, P)
  BY DEF B!UnderAfterPut, UnderPut
<1>5. B!NoCard = NoCard /\ B!NoPut = <<>>
  BY DEF B!NoCard, NoCard, B!NoPut
<1>6. QED
  BY <1>1, <1>2, <1>3, <1>4, <1>5 DEF S

LEMMA BecomesMapped ==
  ASSUME NEW r \in Rids, NEW card, NEW low, NEW thumb, Becomes(r, card, low, thumb)
  PROVE  /\ bCards' = [bCards EXCEPT ![r] = card]
         /\ bUnder' = [bUnder EXCEPT ![r] = low]
         /\ bThumbs' = [bThumbs EXCEPT ![r] = thumb]
         /\ bCards[r] = Card(r) /\ bUnder[r] = Below(r) /\ bThumbs[r] = Thumb(r) /\ bCards'[r] = card
BY Mapped DEF Becomes

LEMMA PutRefines ==
  ASSUME TypeInv, NEW r \in Rids, NEW p \in Offered[r], Put(r, p[1], p[2])
  PROVE  B!Put(r, p[1], p[2]) \/ B!PutCancelled(r, p[1], p[2]) \/ UNCHANGED vars
<1> DEFINE v == p[1]
           c == p[2]
<1>1. v \in Versions /\ c \in Contents
  BY OfferedIsWhatMayBePut
<1> HIDE DEF v, c
<1>2. Put(r, v, c)
  BY DEF v, c
<1>3. engine' = engine /\ (PutInFull(r, v, c) \/ PutUnpruned(r, v, c) \/ UNCHANGED vars)
  BY <1>1, <1>2, PutDoes
<1>4. ASSUME PutInFull(r, v, c) PROVE B!Put(r, v, c)
  <2>1. /\ bCards' = [bCards EXCEPT ![r] = AfterPut(engine, bCards[r], v, c)]
        /\ bUnder' = [bUnder EXCEPT ![r] = UnderPut(engine, bCards[r], bUnder[r], v, PrunedBy(bCards[r], v))]
        /\ bThumbs' = [bThumbs EXCEPT ![r] = c]
        /\ last' = [last EXCEPT ![r] = <<v, c>>]
        /\ extra' = [extra EXCEPT ![r] = extra[r] \cap VersionsOf(bCards'[r])]
    <3>1. Card(r)' = AfterPut(engine, Card(r), v, c)
      BY <1>4 DEF PutInFull, Becomes
    <3>2. QED
      BY <1>4, <3>1, BecomesMapped DEF PutInFull
  <2>2. /\ B!AfterPut(engine, bCards[r], v, c) = AfterPut(engine, bCards[r], v, c)
        /\ B!VersionsOf(bCards'[r]) = VersionsOf(bCards'[r])
        /\ B!UnderAfterPut(bCards[r], bUnder[r], v, B!Pruned(bCards[r], v))
             = UnderPut(engine, bCards[r], bUnder[r], v, PrunedBy(bCards[r], v))
    BY SameOperators
  <2>3. QED
    BY <1>3, <2>1, <2>2 DEF B!Put, bCards, bUnder, bThumbs
<1>5. ASSUME PutUnpruned(r, v, c) PROVE B!PutCancelled(r, v, c)
  <2>1. /\ engine = "pblob"
        /\ bCards' = [bCards EXCEPT ![r] = [bCards[r] EXCEPT ![v] = c]]
        /\ bUnder' = [bUnder EXCEPT ![r] = UnderPut(engine, bCards[r], bUnder[r], v, {})]
        /\ bThumbs' = [bThumbs EXCEPT ![r] = c]
        /\ last' = [last EXCEPT ![r] = <<v, c>>]
        /\ extra' = [extra EXCEPT ![r] = IF v \in VersionsOf(bCards[r]) THEN extra[r] ELSE extra[r] \cup {v}]
    BY <1>5, BecomesMapped DEF PutUnpruned
  <2>2. /\ B!VersionsOf(bCards[r]) = VersionsOf(bCards[r])
        /\ B!UnderAfterPut(bCards[r], bUnder[r], v, {}) = UnderPut(engine, bCards[r], bUnder[r], v, {})
    BY SameOperators
  <2>3. QED
    BY <1>3, <2>1, <2>2 DEF B!PutCancelled, bCards, bUnder, bThumbs
<1>6. QED
  BY <1>3, <1>4, <1>5 DEF v, c

LEMMA DeleteVersionRefines ==
  ASSUME TypeInv, NEW r \in Rids, NEW v \in Versions, DeleteVersion(r, v)
  PROVE  B!DeleteVersion(r, v)
<1>1. engine' = engine /\ Becomes(r, [Card(r) EXCEPT ![v] = None], Below(r), Thumb(r))
  BY DeleteVersionDoes
<1>2. /\ bCards' = [bCards EXCEPT ![r] = [bCards[r] EXCEPT ![v] = None]]
      /\ bUnder' = bUnder
      /\ bThumbs' = bThumbs
  BY <1>1, Mapped DEF Becomes
<1>3. /\ extra' = [extra EXCEPT ![r] = extra[r] \ {v}]
      /\ last' = [last EXCEPT ![r] = IF last[r] # <<>> /\ last[r][1] = v THEN <<>> ELSE last[r]]
  BY DEF DeleteVersion
<1>4. B!NoPut = <<>>
  BY DEF B!NoPut
<1>5. QED
  BY <1>1, <1>2, <1>3, <1>4 DEF B!DeleteVersion, bCards, bUnder, bThumbs

LEMMA DeleteVersionsRefines ==
  ASSUME TypeInv, NEW r \in Rids, NEW low \in Versions, NEW high \in Versions, DeleteVersions(r, low, high)
  PROVE  B!DeleteVersions(r, low, high)
<1>1. engine' = engine /\ Becomes(r, Cut(Card(r), low, high), Cut(Below(r), low, high), Thumb(r))
  BY DeleteVersionsDoes
<1>2. /\ bCards' = [bCards EXCEPT ![r] = Cut(bCards[r], low, high)]
      /\ bUnder' = [bUnder EXCEPT ![r] = Cut(bUnder[r], low, high)]
      /\ bThumbs' = bThumbs
  BY <1>1, Mapped DEF Becomes
<1>3. \A x \in Versions : x \in Between(low, high) <=> low <= x /\ x < high
  BY DEF Between
<1>4. /\ extra' = [extra EXCEPT ![r] = extra[r] \ Between(low, high)]
      /\ last' = [last EXCEPT ![r] = IF last[r] # <<>> /\ last[r][1] \in Between(low, high) THEN <<>> ELSE last[r]]
  BY DEF DeleteVersions, Between
<1>5. extra[r] \subseteq Versions /\ (last[r] # <<>> => last[r][1] \in Versions)
  BY DEF TypeInv
<1>6. extra[r] \ Between(low, high) = {x \in extra[r] : ~(low <= x /\ x < high)}
  BY <1>3, <1>5
<1>7. (last[r] # <<>> /\ last[r][1] \in Between(low, high)) <=> (last[r] # <<>> /\ low <= last[r][1] /\ last[r][1] < high)
  BY <1>3, <1>5
<1>8. /\ extra' = [extra EXCEPT ![r] = {x \in extra[r] : ~(low <= x /\ x < high)}]
      /\ last' = [last EXCEPT ![r] = IF last[r] # <<>> /\ low <= last[r][1] /\ last[r][1] < high THEN <<>> ELSE last[r]]
  BY <1>4, <1>6, <1>7
<1>9. B!NoPut = <<>>
  BY DEF B!NoPut
<1>10. /\ bCards' = [bCards EXCEPT ![r] = [v \in Versions |-> IF low <= v /\ v < high THEN None ELSE bCards[r][v]]]
       /\ bUnder' = [bUnder EXCEPT ![r] = [v \in Versions |-> IF low <= v /\ v < high THEN None ELSE bUnder[r][v]]]
  BY <1>2 DEF Cut
<1>11. QED
  BY <1>1, <1>2, <1>8, <1>9, <1>10 DEF B!DeleteVersions, bCards, bUnder, bThumbs

LEMMA DeleteRefines ==
  ASSUME TypeInv, NEW rs \in SUBSET Rids, Delete(rs)
  PROVE  B!Delete(rs)
<1>1. /\ engine' = engine
      /\ \A q \in Rids : /\ Card(q)' = IF q \in rs THEN NoCard ELSE Card(q)
                         /\ Below(q)' = IF q \in rs THEN NoCard ELSE Below(q)
                         /\ Thumb(q)' = IF q \in rs THEN None ELSE Thumb(q)
  BY DeleteDoes
<1>2. /\ bCards' = [r \in Rids |-> IF r \in rs THEN NoCard ELSE bCards[r]]
      /\ bUnder' = [r \in Rids |-> IF r \in rs THEN NoCard ELSE bUnder[r]]
      /\ bThumbs' = [r \in Rids |-> IF r \in rs THEN None ELSE bThumbs[r]]
  BY <1>1, Mapped
<1>3. B!NoCard = NoCard /\ B!NoPut = <<>>
  BY SameOperators
<1>4. /\ extra' = [r \in Rids |-> IF r \in rs THEN {} ELSE extra[r]]
      /\ last' = [r \in Rids |-> IF r \in rs THEN <<>> ELSE last[r]]
  BY DEF Delete
<1>5. QED
  BY <1>1, <1>2, <1>3, <1>4 DEF B!Delete, bCards, bUnder, bThumbs

LEMMA CompactRefines ==
  ASSUME TypeInv, NEW r \in Rids, NEW v \in Versions, Compact(CardKey(r, v))
  PROVE  B!Compact(r, v)
<1>1. /\ engine' = engine /\ Below(r)[v] # None
      /\ Becomes(r, IF Card(r)[v] = None THEN [Card(r) EXCEPT ![v] = Below(r)[v]] ELSE Card(r),
                 [Below(r) EXCEPT ![v] = None], Thumb(r))
      /\ extra' = IF Card(r)[v] = None THEN [extra EXCEPT ![r] = @ \cup {v}] ELSE extra
      /\ last' = last
  BY CompactDoes
<1>2. bCards[r] = Card(r) /\ bUnder[r] = Below(r)
  BY Mapped
<1>3. /\ bUnder' = [bUnder EXCEPT ![r] = [bUnder[r] EXCEPT ![v] = None]]
      /\ bThumbs' = bThumbs
  BY <1>1, Mapped DEF Becomes
<1>4. CASE bCards[r][v] = None
  <2>1. /\ bCards' = [bCards EXCEPT ![r] = [bCards[r] EXCEPT ![v] = bUnder[r][v]]]
        /\ extra' = [extra EXCEPT ![r] = extra[r] \cup {v}]
    BY <1>1, <1>2, <1>4, Mapped DEF Becomes
  <2>2. QED
    BY <1>1, <1>2, <1>3, <1>4, <2>1 DEF B!Compact, bCards, bUnder, bThumbs
<1>5. CASE bCards[r][v] # None
  <2>1. bCards' = bCards /\ extra' = extra
    BY <1>1, <1>2, <1>5, Mapped DEF Becomes
  <2>2. QED
    BY <1>1, <1>2, <1>3, <1>5, <2>1 DEF B!Compact, bCards, bUnder, bThumbs
<1>6. QED
  BY <1>4, <1>5

LEMMA TypesHold ==
  ASSUME TypeInv, [Next]_vars
  PROVE  TypeInv'
<1>1. ASSUME NEW r \in Rids, NEW p \in Offered[r], Put(r, p[1], p[2]) PROVE TypeInv'
  <2> DEFINE v == p[1]
             c == p[2]
  <2>1. v \in Versions /\ c \in Contents
    BY OfferedIsWhatMayBePut
  <2> HIDE DEF v, c
  <2>2. Put(r, v, c)
    BY <1>1 DEF v, c
  <2>3. engine' = engine /\ DbOk(engine', db') /\ (PutInFull(r, v, c) \/ PutUnpruned(r, v, c) \/ UNCHANGED vars)
    BY <2>1, <2>2, PutDoes
  <2>4. /\ extra' \in [Rids -> SUBSET Versions]
        /\ last' \in [Rids -> {<<>>} \cup (Versions \X Contents)]
    <3>1. CASE PutInFull(r, v, c)
      BY <2>1, <3>1 DEF PutInFull, TypeInv
    <3>2. CASE PutUnpruned(r, v, c)
      BY <2>1, <3>2 DEF PutUnpruned, TypeInv
    <3>3. CASE UNCHANGED vars
      BY <3>3 DEF vars, TypeInv
    <3>4. QED
      BY <2>3, <3>1, <3>2, <3>3
  <2>5. QED
    BY <2>3, <2>4 DEF TypeInv
<1>2. ASSUME NEW r \in Rids, NEW v \in Versions, DeleteVersion(r, v) PROVE TypeInv'
  <2>1. engine' = engine /\ DbOk(engine', db')
    BY <1>2, DeleteVersionDoes
  <2>2. QED
    BY <1>2, <2>1 DEF TypeInv, DeleteVersion
<1>3. ASSUME NEW r \in Rids, NEW low \in Versions, NEW high \in Versions, DeleteVersions(r, low, high) PROVE TypeInv'
  <2>1. engine' = engine /\ DbOk(engine', db')
    BY <1>3, DeleteVersionsDoes
  <2>2. QED
    BY <1>3, <2>1 DEF TypeInv, DeleteVersions
<1>4. ASSUME NEW rs \in SUBSET Rids, Delete(rs) PROVE TypeInv'
  <2>1. engine' = engine /\ DbOk(engine', db')
    BY <1>4, DeleteDoes
  <2>2. QED
    BY <1>4, <2>1 DEF TypeInv, Delete
<1>5. ASSUME NEW r \in Rids, NEW v \in Versions, Compact(CardKey(r, v)) PROVE TypeInv'
  <2>1. /\ engine' = engine /\ DbOk(engine', db')
        /\ extra' = IF Card(r)[v] = None THEN [extra EXCEPT ![r] = @ \cup {v}] ELSE extra
        /\ last' = last
    BY <1>5, CompactDoes
  <2>2. QED
    BY <2>1 DEF TypeInv
<1>6. ASSUME NEW r \in Rids, PutFails(r) PROVE TypeInv'
  BY <1>6 DEF PutFails, WithTx, Fail, TypeInv
<1>7. CASE UNCHANGED vars
  BY <1>7 DEF vars, TypeInv
<1>8. QED
  BY <1>1, <1>2, <1>3, <1>4, <1>5, <1>6, <1>7 DEF Next

LEMMA TypesStart == Init => TypeInv
<1> SUFFICES ASSUME Init PROVE TypeInv
  OBVIOUS
<1>1. DOMAIN <<>> = {}
  OBVIOUS
<1>2. PebbleOk(PebbleEmpty) /\ SqlOk(SqlEmpty)
  BY <1>1, FS_EmptySet DEF PebbleOk, PebbleEmpty, SqlOk, SqlEmpty
<1>3. QED
  BY <1>2 DEF Init, TypeInv, DbOk

LEMMA StepRefines ==
  ASSUME TypeInv, [Next]_vars
  PROVE  [B!Next]_(B!vars)
<1>1. UNCHANGED vars => UNCHANGED <<engine, bCards, bThumbs, bUnder, extra, last>>
  BY DEF vars, bCards, bThumbs, bUnder, GetCard, Thumbnail, UnderCard
<1>2. UNCHANGED vars => UNCHANGED B!vars
  BY <1>1 DEF B!vars, bCards, bThumbs, bUnder
<1>3. ASSUME NEW r \in Rids, NEW p \in Offered[r], Put(r, p[1], p[2]) PROVE B!Next \/ UNCHANGED vars
  BY <1>3, PutRefines DEF B!Next
<1>4. ASSUME NEW r \in Rids, NEW v \in Versions, DeleteVersion(r, v) PROVE B!Next
  BY <1>4, DeleteVersionRefines DEF B!Next
<1>5. ASSUME NEW r \in Rids, NEW low \in Versions, NEW high \in Versions, low < high, DeleteVersions(r, low, high)
      PROVE  B!Next
  BY <1>5, DeleteVersionsRefines DEF B!Next
<1>6. ASSUME NEW rs \in SUBSET Rids, Delete(rs) PROVE B!Next
  BY <1>6, DeleteRefines DEF B!Next
<1>7. ASSUME NEW r \in Rids, NEW v \in Versions, Compact(CardKey(r, v)) PROVE B!Next
  BY <1>7, CompactRefines DEF B!Next
<1>8. ASSUME NEW r \in Rids, PutFails(r) PROVE UNCHANGED vars
  BY <1>8 DEF PutFails, WithTx, Fail, vars
<1>9. B!Next \/ UNCHANGED vars
  BY <1>3, <1>4, <1>5, <1>6, <1>7, <1>8 DEF Next
<1>10. QED
  BY <1>2, <1>9

LEMMA StartRefines == Init => B!Init
<1> SUFFICES ASSUME Init PROVE B!Init
  OBVIOUS
<1>1. engine \in B!Engines /\ extra = [r \in Rids |-> {}] /\ last = [r \in Rids |-> B!NoPut]
  BY DEF Init, B!Engines, Engines, B!NoPut
<1>2. /\ bCards = [r \in Rids |-> NoCard]
      /\ bThumbs = [r \in Rids |-> None]
      /\ bUnder = [r \in Rids |-> NoCard]
  <2>1. DOMAIN <<>> = {}
    OBVIOUS
  <2>2. \A r \in Rids : Card(r) = NoCard /\ Below(r) = NoCard /\ Thumb(r) = None
    BY <2>1 DEF Init, Card, CardIn, PebbleCard, PebbleGet, Get, PebbleEmpty, SqlCard, SqlGet, SqlEmpty, NoCard,
                Below, UnderIn, PebbleUnder, Thumb, ThumbIn, PebbleThumbnail, SqlThumbnail
  <2>3. QED
    BY <2>2, Mapped
<1>3. B!NoCard = NoCard
  BY SameOperators
<1>4. QED
  BY <1>1, <1>2, <1>3 DEF B!Init, bCards, bThumbs, bUnder

-----------------------------------------------------------------------------
(* The invariants: how many versions a card keeps, and what its last Put left. *)

Few == \A r \in Rids : Cardinality(VersionsOf(Card(r)) \ extra[r]) <= MaxVersions

LastIsThere ==
  \A r \in Rids : last[r] # <<>> =>
    /\ Thumb(r) = last[r][2]
    /\ \/ Card(r)[last[r][1]] = last[r][2]
       \/ engine = "sqlblob" /\ Card(r)[last[r][1]] = None

IInv == TypeInv /\ Few /\ LastIsThere

LEMMA FewerAreFew ==
  ASSUME TypeInv, Few, NEW r \in Rids, NEW A, A \subseteq VersionsOf(Card(r)) \ extra[r]
  PROVE  Cardinality(A) <= MaxVersions
<1> DEFINE M == VersionsOf(Card(r)) \ extra[r]
<1>1. IsFiniteSet(M)
  <2>1. IsFiniteSet(VersionsOf(Card(r)))
    BY CardsAreCards
  <2>2. M \in SUBSET VersionsOf(Card(r))
    OBVIOUS
  <2> HIDE DEF M
  <2>3. QED
    BY <2>1, <2>2, FS_Subset
<1>2. Cardinality(M) <= MaxVersions /\ A \in SUBSET M
  BY DEF Few
<1> HIDE DEF M
<1>3. IsFiniteSet(A) /\ Cardinality(A) <= Cardinality(M)
  BY <1>1, <1>2, FS_Subset
<1>4. Cardinality(A) \in Nat /\ Cardinality(M) \in Nat /\ MaxVersions \in Nat
  BY <1>1, <1>3, FS_CardinalityType, AtLeastTwo
<1>5. QED
  BY <1>2, <1>3, <1>4

\* What a Put in full leaves.
LEMMA PutLeaves ==
  ASSUME TypeInv, NEW r \in Rids, NEW v \in Versions, NEW c \in Contents, PutInFull(r, v, c)
  PROVE  /\ VersionsOf(Card(r)') = PutKeeps(engine, VersionsOf(Card(r)), v)
         /\ VersionsOf(Card(r)') \subseteq Versions
         /\ Card(r)'[v] = c \/ (engine = "sqlblob" /\ Card(r)'[v] = None)
         /\ Thumb(r)' = c
<1> DEFINE S == VersionsOf(Card(r))
           T == PutKeeps(engine, S, v)
<1>1. Card(r)' = AfterPut(engine, Card(r), v, c) /\ Thumb(r)' = c
  BY DEF PutInFull, Becomes
<1>2. Card(r) \in Cards /\ S \subseteq Versions /\ IsFiniteSet(S) /\ engine \in Engines
  BY CardsAreCards DEF TypeInv
<1>3. S \in SUBSET Nat /\ v \in Nat
  BY <1>2, VersionsAreNats
<1>4. Room(engine, S, v, T)
  <2> HIDE DEF S
  <2>1. QED
    BY <1>2, <1>3, PutKeepsNewest
<1>5. /\ VersionsOf(Card(r)') = T
      /\ \A w \in T : Card(r)'[w] = IF w = v THEN c ELSE Card(r)[w]
  BY <1>1, <1>2, <1>4, AfterPutHas DEF Room
<1>6. v \in T \/ engine = "sqlblob"
  BY <1>4 DEF Room
<1>7. v \notin T => Card(r)'[v] = None
  BY <1>5 DEF VersionsOf
<1>8. VersionsOf(Card(r)') \subseteq Versions
  BY DEF VersionsOf
<1>9. QED
  BY <1>1, <1>5, <1>6, <1>7, <1>8

LEMMA PutKeepsFew ==
  ASSUME TypeInv, Few, NEW r \in Rids, NEW v \in Versions, NEW c \in Contents, PutInFull(r, v, c)
  PROVE  Cardinality(VersionsOf(Card(r)') \ extra'[r]) <= MaxVersions
<1> DEFINE S == VersionsOf(Card(r))
           T == VersionsOf(Card(r)')
           A == T \ extra'[r]
           m == MaxVersions - 1
<1>1. T = PutKeeps(engine, S, v)
  BY PutLeaves
<1>2. A = T \ extra[r]
  BY DEF PutInFull, TypeInv
<1>3. /\ S \subseteq Nat /\ IsFiniteSet(S) /\ v \in Nat /\ engine \in Engines
      /\ MaxVersions \in Nat /\ m \in Nat /\ m + 1 = MaxVersions
  <2>1. S \subseteq Versions /\ IsFiniteSet(S)
    BY CardsAreCards
  <2> HIDE DEF S
  <2>2. QED
    BY <2>1, VersionsAreNats, AtLeastTwo DEF TypeInv
<1>4. IsFiniteSet(T) /\ Cardinality(T) <= MaxVersions => Cardinality(A) <= MaxVersions
  <2>1. A \in SUBSET T
    OBVIOUS
  <2> HIDE DEF A, T
  <2>2. IsFiniteSet(T) => /\ Cardinality(A) <= Cardinality(T)
                          /\ Cardinality(A) \in Nat /\ Cardinality(T) \in Nat
    BY <2>1, FS_Subset, FS_CardinalityType
  <2>3. QED
    BY <1>3, <2>2
<1>5. CASE engine = "sqlblob"
  <2>1. T = Newest(S \cup {v}, MaxVersions)
    BY <1>1, <1>5 DEF PutKeeps
  <2>2. S \cup {v} \subseteq Nat /\ IsFiniteSet(S \cup {v})
    BY <1>3, FS_AddElement
  <2> DEFINE U == S \cup {v}
  <2> HIDE DEF U
  <2>3. IsFiniteSet(Newest(U, MaxVersions)) /\ Cardinality(Newest(U, MaxVersions)) <= MaxVersions
    BY <1>3, <2>2, NewestAtMost DEF U
  <2>4. QED
    BY <1>4, <2>1, <2>3 DEF U
<1>6. CASE engine # "sqlblob" /\ v \in S
  <2>1. T = S
    BY <1>1, <1>6 DEF PutKeeps
  <2>2. A \subseteq S \ extra[r]
    BY <1>2, <2>1
  <2>3. QED
    BY <2>2, FewerAreFew
<1>7. CASE engine # "sqlblob" /\ v \notin S
  <2> DEFINE N == Newest(S, m)
  <2>1. T = N \cup {v}
    BY <1>1, <1>7 DEF PutKeeps
  <2>2. N \subseteq S /\ IsFiniteSet(N) /\ Cardinality(N) \in Nat /\ Cardinality(N) <= m
    <3> HIDE DEF S, m
    <3>1. QED
      BY <1>3, NewestAtMost
  <2> HIDE DEF N, S
  <2>3. IsFiniteSet(N \cup {v}) /\ Cardinality(N \cup {v}) = Cardinality(N) + 1
    BY <1>7, <2>2, FS_AddElement
  <2>4. Cardinality(N \cup {v}) <= MaxVersions
    BY <1>3, <2>2, <2>3
  <2>5. QED
    BY <1>4, <2>1, <2>3, <2>4
<1>8. QED
  BY <1>5, <1>6, <1>7

LEMMA FewHolds ==
  ASSUME TypeInv, Few, [Next]_vars
  PROVE  Few'
<1>1. ASSUME NEW r \in Rids, NEW p \in Offered[r], Put(r, p[1], p[2]) PROVE Few'
  <2> DEFINE v == p[1]
             c == p[2]
  <2>1. v \in Versions /\ c \in Contents
    BY OfferedIsWhatMayBePut
  <2> HIDE DEF v, c
  <2>2. Put(r, v, c)
    BY <1>1 DEF v, c
  <2>3. PutInFull(r, v, c) \/ PutUnpruned(r, v, c) \/ UNCHANGED vars
    BY <2>1, <2>2, PutDoes
  <2> SUFFICES ASSUME NEW q \in Rids PROVE Cardinality(VersionsOf(Card(q)') \ extra'[q]) <= MaxVersions
    BY DEF Few, VersionsOf
  <2>4. CASE PutInFull(r, v, c)
    <3>1. CASE q = r
      BY <2>1, <2>4, <3>1, PutKeepsFew
    <3>2. CASE q # r
      <4>1. Card(q)' = Card(q) /\ extra'[q] = extra[q]
        BY <2>4, <3>2 DEF PutInFull, Becomes, TypeInv
      <4>2. QED
        BY <4>1 DEF Few
    <3>3. QED
      BY <3>1, <3>2
  <2>5. CASE PutUnpruned(r, v, c)
    <3>1. CASE q = r
      <4>1. Card(r)' = [Card(r) EXCEPT ![v] = c] /\ Card(r) \in Cards
        BY <2>5, CardsAreCards DEF PutUnpruned, Becomes
      <4>2. \A w \in Versions : w # v => Card(r)'[w] = Card(r)[w]
        BY <4>1 DEF Cards
      <4>3. v \in VersionsOf(Card(r)) \/ v \in extra'[r]
        BY <2>5 DEF PutUnpruned, TypeInv
      <4>4. extra[r] \subseteq extra'[r]
        BY <2>5 DEF PutUnpruned, TypeInv
      <4>5. \A w \in Versions : Card(r)'[w] # None /\ w \notin extra'[r] => Card(r)[w] # None /\ w \notin extra[r]
        BY <2>1, <4>2, <4>3, <4>4 DEF VersionsOf
      <4>6. VersionsOf(Card(r)') \ extra'[r] \subseteq VersionsOf(Card(r)) \ extra[r]
        BY <4>5 DEF VersionsOf
      <4>7. QED
        BY <3>1, <4>6, FewerAreFew
    <3>2. CASE q # r
      <4>1. Card(q)' = Card(q) /\ extra'[q] = extra[q]
        BY <2>5, <3>2 DEF PutUnpruned, Becomes, TypeInv
      <4>2. QED
        BY <4>1 DEF Few
    <3>3. QED
      BY <3>1, <3>2
  <2>6. CASE UNCHANGED vars
    BY <2>6 DEF Few, vars, Card
  <2>7. QED
    BY <2>3, <2>4, <2>5, <2>6
<1>2. ASSUME NEW r \in Rids, NEW v \in Versions, DeleteVersion(r, v) PROVE Few'
  <2> SUFFICES ASSUME NEW q \in Rids PROVE Cardinality(VersionsOf(Card(q)') \ extra'[q]) <= MaxVersions
    BY DEF Few, VersionsOf
  <2>1. Becomes(r, [Card(r) EXCEPT ![v] = None], Below(r), Thumb(r)) /\ Card(r) \in Cards
    BY <1>2, DeleteVersionDoes, CardsAreCards
  <2>2. CASE q = r
    <3>1. \A w \in Versions : Card(r)'[w] = IF w = v THEN None ELSE Card(r)[w]
      BY <2>1 DEF Becomes, Cards
    <3>2. extra'[r] = extra[r] \ {v}
      BY <1>2 DEF DeleteVersion, TypeInv
    <3>3. VersionsOf(Card(r)') \ extra'[r] \subseteq VersionsOf(Card(r)) \ extra[r]
      BY <3>1, <3>2 DEF VersionsOf
    <3>4. QED
      BY <2>2, <3>3, FewerAreFew
  <2>3. CASE q # r
    <3>1. Card(q)' = Card(q) /\ extra'[q] = extra[q]
      BY <1>2, <2>1, <2>3 DEF Becomes, DeleteVersion, TypeInv
    <3>2. QED
      BY <3>1 DEF Few
  <2>4. QED
    BY <2>2, <2>3
<1>3. ASSUME NEW r \in Rids, NEW low \in Versions, NEW high \in Versions, DeleteVersions(r, low, high) PROVE Few'
  <2> SUFFICES ASSUME NEW q \in Rids PROVE Cardinality(VersionsOf(Card(q)') \ extra'[q]) <= MaxVersions
    BY DEF Few, VersionsOf
  <2>1. Becomes(r, Cut(Card(r), low, high), Cut(Below(r), low, high), Thumb(r))
    BY <1>3, DeleteVersionsDoes
  <2>2. CASE q = r
    <3>1. \A w \in Versions : Card(r)'[w] = IF w \in Between(low, high) THEN None ELSE Card(r)[w]
      BY <2>1 DEF Becomes, Cut, Between
    <3>2. extra'[r] = extra[r] \ Between(low, high)
      BY <1>3 DEF DeleteVersions, TypeInv, Between
    <3>3. VersionsOf(Card(r)') \ extra'[r] \subseteq VersionsOf(Card(r)) \ extra[r]
      BY <3>1, <3>2 DEF VersionsOf
    <3>4. QED
      BY <2>2, <3>3, FewerAreFew
  <2>3. CASE q # r
    <3>1. Card(q)' = Card(q) /\ extra'[q] = extra[q]
      BY <1>3, <2>1, <2>3 DEF Becomes, DeleteVersions, TypeInv
    <3>2. QED
      BY <3>1 DEF Few
  <2>4. QED
    BY <2>2, <2>3
<1>4. ASSUME NEW rs \in SUBSET Rids, Delete(rs) PROVE Few'
  <2> SUFFICES ASSUME NEW q \in Rids PROVE Cardinality(VersionsOf(Card(q)') \ extra'[q]) <= MaxVersions
    BY DEF Few, VersionsOf
  <2>1. Card(q)' = IF q \in rs THEN NoCard ELSE Card(q)
    BY <1>4, DeleteDoes
  <2>2. extra'[q] = IF q \in rs THEN {} ELSE extra[q]
    BY <1>4 DEF Delete
  <2>3. VersionsOf(Card(q)') \ extra'[q] \subseteq VersionsOf(Card(q)) \ extra[q]
    BY <2>1, <2>2 DEF VersionsOf, NoCard
  <2>4. QED
    BY <2>3, FewerAreFew
<1>5. ASSUME NEW r \in Rids, NEW v \in Versions, Compact(CardKey(r, v)) PROVE Few'
  <2> SUFFICES ASSUME NEW q \in Rids PROVE Cardinality(VersionsOf(Card(q)') \ extra'[q]) <= MaxVersions
    BY DEF Few, VersionsOf
  <2>1. /\ Becomes(r, IF Card(r)[v] = None THEN [Card(r) EXCEPT ![v] = Below(r)[v]] ELSE Card(r),
                   [Below(r) EXCEPT ![v] = None], Thumb(r))
        /\ extra' = IF Card(r)[v] = None THEN [extra EXCEPT ![r] = @ \cup {v}] ELSE extra
        /\ Card(r) \in Cards
    BY <1>5, CompactDoes, CardsAreCards
  <2>2. CASE q = r /\ Card(r)[v] = None
    <3>1. \A w \in Versions : w # v => Card(r)'[w] = Card(r)[w]
      BY <2>1, <2>2 DEF Becomes, Cards
    <3>2. extra'[r] = extra[r] \cup {v}
      BY <2>1, <2>2 DEF TypeInv
    <3>3. VersionsOf(Card(r)') \ extra'[r] \subseteq VersionsOf(Card(r)) \ extra[r]
      BY <3>1, <3>2 DEF VersionsOf
    <3>4. QED
      BY <2>2, <3>3, FewerAreFew
  <2>3. CASE ~(q = r /\ Card(r)[v] = None)
    <3>1. Card(q)' = Card(q) /\ extra'[q] = extra[q]
      BY <2>1, <2>3 DEF Becomes, TypeInv
    <3>2. QED
      BY <3>1 DEF Few
  <2>4. QED
    BY <2>2, <2>3
<1>6. ASSUME NEW r \in Rids, PutFails(r) PROVE Few'
  BY <1>6 DEF PutFails, WithTx, Fail, Few, Card
<1>7. CASE UNCHANGED vars
  BY <1>7 DEF vars, Few, Card
<1>8. QED
  BY <1>1, <1>2, <1>3, <1>4, <1>5, <1>6, <1>7 DEF Next

\* The last Put of r is as good as it was if its thumbnail and its version are as they were.
LEMMA LastStays ==
  ASSUME LastIsThere, engine' = engine, NEW r \in Rids, last'[r] = last[r] \/ last'[r] = <<>>,
         last'[r] # <<>> => Thumb(r)' = Thumb(r) /\ Card(r)'[last[r][1]] = Card(r)[last[r][1]]
  PROVE  last'[r] # <<>> =>
           /\ Thumb(r)' = last'[r][2]
           /\ \/ Card(r)'[last'[r][1]] = last'[r][2]
              \/ engine' = "sqlblob" /\ Card(r)'[last'[r][1]] = None
BY DEF LastIsThere

LEMMA LastHolds ==
  ASSUME TypeInv, LastIsThere, [Next]_vars
  PROVE  LastIsThere'
<1> DEFINE Stays(q) == /\ last'[q] = last[q] \/ last'[q] = <<>>
                       /\ last'[q] # <<>> => Thumb(q)' = Thumb(q) /\ Card(q)'[last[q][1]] = Card(q)[last[q][1]]
           There(q) == last'[q] # <<>> =>
                         /\ Thumb(q)' = last'[q][2]
                         /\ \/ Card(q)'[last'[q][1]] = last'[q][2]
                            \/ engine' = "sqlblob" /\ Card(q)'[last'[q][1]] = None
<1>1. (\A q \in Rids : There(q)) => LastIsThere'
  BY DEF LastIsThere
<1>2. ASSUME engine' = engine, NEW q \in Rids, Stays(q) PROVE There(q)
  BY <1>2, LastStays
<1>3. \A q \in Rids : last[q] # <<>> => last[q][1] \in Versions /\ last[q][2] \in Contents
  BY DEF TypeInv
<1> HIDE DEF There
<1>4. ASSUME NEW r \in Rids, NEW p \in Offered[r], Put(r, p[1], p[2]) PROVE LastIsThere'
  <2> DEFINE v == p[1]
             c == p[2]
  <2>1. v \in Versions /\ c \in Contents
    BY OfferedIsWhatMayBePut
  <2> HIDE DEF v, c
  <2>2. Put(r, v, c)
    BY <1>4 DEF v, c
  <2>3. engine' = engine /\ (PutInFull(r, v, c) \/ PutUnpruned(r, v, c) \/ UNCHANGED vars)
    BY <2>1, <2>2, PutDoes
  <2>4. CASE PutInFull(r, v, c)
    <3>1. last'[r] = <<v, c>> /\ \A q \in Rids : q # r => last'[q] = last[q] /\ Card(q)' = Card(q) /\ Thumb(q)' = Thumb(q)
      BY <2>4 DEF PutInFull, Becomes, TypeInv
    <3>2. Thumb(r)' = c /\ (Card(r)'[v] = c \/ (engine = "sqlblob" /\ Card(r)'[v] = None))
      BY <2>1, <2>4, PutLeaves
    <3>3. There(r)
      BY <2>3, <3>1, <3>2 DEF There
    <3>4. \A q \in Rids : q # r => There(q)
      BY <1>2, <2>3, <3>1
    <3>5. QED
      BY <1>1, <3>3, <3>4
  <2>5. CASE PutUnpruned(r, v, c)
    <3>1. last'[r] = <<v, c>> /\ \A q \in Rids : q # r => last'[q] = last[q] /\ Card(q)' = Card(q) /\ Thumb(q)' = Thumb(q)
      BY <2>5 DEF PutUnpruned, Becomes, TypeInv
    <3>2. Thumb(r)' = c /\ Card(r)'[v] = c
      BY <2>1, <2>5, CardsAreCards DEF PutUnpruned, Becomes, Cards
    <3>3. There(r)
      BY <2>3, <3>1, <3>2 DEF There
    <3>4. \A q \in Rids : q # r => There(q)
      BY <1>2, <2>3, <3>1
    <3>5. QED
      BY <1>1, <3>3, <3>4
  <2>6. CASE UNCHANGED vars
    BY <2>6 DEF vars, LastIsThere, Card, Thumb
  <2>7. QED
    BY <2>3, <2>4, <2>5, <2>6
<1>5. ASSUME NEW r \in Rids, NEW v \in Versions, DeleteVersion(r, v) PROVE LastIsThere'
  <2>1. engine' = engine /\ Becomes(r, [Card(r) EXCEPT ![v] = None], Below(r), Thumb(r)) /\ Card(r) \in Cards
    BY <1>5, DeleteVersionDoes, CardsAreCards
  <2>2. last' = [last EXCEPT ![r] = IF @ # <<>> /\ @[1] = v THEN <<>> ELSE @]
    BY <1>5 DEF DeleteVersion
  <2>3. Stays(r)
    <3>1. \A w \in Versions : w # v => Card(r)'[w] = Card(r)[w]
      BY <2>1 DEF Becomes, Cards
    <3>2. Thumb(r)' = Thumb(r)
      BY <2>1 DEF Becomes
    <3>3. last'[r] = IF last[r] # <<>> /\ last[r][1] = v THEN <<>> ELSE last[r]
      BY <2>2 DEF TypeInv
    <3>4. QED
      BY <1>3, <3>1, <3>2, <3>3
  <2>4. \A q \in Rids : q # r => Stays(q)
    BY <2>1, <2>2 DEF Becomes, TypeInv
  <2> HIDE DEF Stays
  <2>5. QED
    BY <1>1, <1>2, <2>1, <2>3, <2>4
<1>6. ASSUME NEW r \in Rids, NEW low \in Versions, NEW high \in Versions, DeleteVersions(r, low, high) PROVE LastIsThere'
  <2>1. engine' = engine /\ Becomes(r, Cut(Card(r), low, high), Cut(Below(r), low, high), Thumb(r))
    BY <1>6, DeleteVersionsDoes
  <2>2. last' = [last EXCEPT ![r] = IF @ # <<>> /\ @[1] \in Between(low, high) THEN <<>> ELSE @]
    BY <1>6 DEF DeleteVersions, Between
  <2>3. Stays(r)
    <3>1. \A w \in Versions : w \notin Between(low, high) => Card(r)'[w] = Card(r)[w]
      BY <2>1 DEF Becomes, Cut, Between
    <3>2. Thumb(r)' = Thumb(r)
      BY <2>1 DEF Becomes
    <3>3. last'[r] = IF last[r] # <<>> /\ last[r][1] \in Between(low, high) THEN <<>> ELSE last[r]
      BY <2>2 DEF TypeInv
    <3>4. QED
      BY <1>3, <3>1, <3>2, <3>3
  <2>4. \A q \in Rids : q # r => Stays(q)
    BY <2>1, <2>2 DEF Becomes, TypeInv
  <2> HIDE DEF Stays
  <2>5. QED
    BY <1>1, <1>2, <2>1, <2>3, <2>4
<1>7. ASSUME NEW rs \in SUBSET Rids, Delete(rs) PROVE LastIsThere'
  <2>1. /\ engine' = engine
        /\ \A q \in Rids : q \notin rs => Card(q)' = Card(q) /\ Thumb(q)' = Thumb(q)
    BY <1>7, DeleteDoes
  <2>2. \A q \in Rids : last'[q] = IF q \in rs THEN <<>> ELSE last[q]
    BY <1>7 DEF Delete
  <2>3. \A q \in Rids : Stays(q)
    BY <2>1, <2>2
  <2> HIDE DEF Stays
  <2>4. QED
    BY <1>1, <1>2, <2>1, <2>3
<1>8. ASSUME NEW r \in Rids, NEW v \in Versions, Compact(CardKey(r, v)) PROVE LastIsThere'
  <2>1. /\ engine = "pblob" /\ engine' = engine /\ last' = last /\ Card(r) \in Cards
        /\ Becomes(r, IF Card(r)[v] = None THEN [Card(r) EXCEPT ![v] = Below(r)[v]] ELSE Card(r),
                   [Below(r) EXCEPT ![v] = None], Thumb(r))
    BY <1>8, CompactDoes, CardsAreCards
  <2>2. Stays(r)
    <3>1. \A w \in Versions : Card(r)[w] # None => Card(r)'[w] = Card(r)[w]
      BY <2>1 DEF Becomes, Cards
    <3>2. Thumb(r)' = Thumb(r)
      BY <2>1 DEF Becomes
    <3>3. last[r] # <<>> => Card(r)[last[r][1]] = last[r][2] /\ last[r][2] # None
      BY <1>3, <2>1, NoneIsNoContent DEF LastIsThere
    <3>4. QED
      BY <1>3, <2>1, <3>1, <3>2, <3>3
  <2>3. \A q \in Rids : q # r => Stays(q)
    BY <2>1 DEF Becomes
  <2> HIDE DEF Stays
  <2>4. QED
    BY <1>1, <1>2, <2>1, <2>2, <2>3
<1>9. ASSUME NEW r \in Rids, PutFails(r) PROVE LastIsThere'
  BY <1>9 DEF PutFails, WithTx, Fail, LastIsThere, Card, Thumb
<1>10. CASE UNCHANGED vars
  BY <1>10 DEF vars, LastIsThere, Card, Thumb
<1>11. QED
  BY <1>4, <1>5, <1>6, <1>7, <1>8, <1>9, <1>10 DEF Next

\* What the engine answers about the last Put.
LEMMA LastIsRead ==
  ASSUME TypeInv, LastIsThere
  PROVE  LastPutReadable
<1> SUFFICES ASSUME NEW r \in Rids, last[r] # <<>>
             PROVE  /\ Thumbnail(r) = last[r][2]
                    /\ VersionExists(r, last[r][1]) = (GetCard(r, last[r][1]) # None)
                    /\ Cardinality({i \in DOMAIN RIDs : RIDs[i] = r}) = IF engine = "sqlblob" /\ VersionsIn(r) = <<>> THEN 0 ELSE 1
                    /\ \/ GetCard(r, last[r][1]) = last[r][2]
                       \/ engine = "sqlblob" /\ GetCard(r, last[r][1]) = None
  BY DEF LastPutReadable
<1> DEFINE v == last[r][1]
<1>1. v \in Versions /\ last[r][2] \in Contents /\ engine \in Engines
  BY DEF TypeInv
<1>2. Thumbnail(r) = Thumb(r) /\ GetCard(r, v) = Card(r)[v]
  BY <1>1, CardsAreCards
<1>3. {i \in DOMAIN RIDs : RIDs[i] = r} = Places(RIDs, r)
  BY DEF Places
<1>4. CASE engine = "pblob"
  <2>1. PebbleOk(db)
    BY <1>4 DEF TypeInv, DbOk
  <2>2. VersionExists(r, v) <=> GetCard(r, v) # None
    <3>1. CardKey(r, v) \in CardKeys
      BY <1>1, KeysDiffer
    <3>2. KeyExists(db, CardKey(r, v)) <=> CardKey(r, v) \in DOMAIN db.kv
      BY <2>1, <3>1, KeyExistsIfThere
    <3>3. GetCard(r, v) = Get(db, CardKey(r, v)) /\ (VersionExists(r, v) <=> KeyExists(db, CardKey(r, v)))
      BY <1>4 DEF GetCard, PebbleGet, VersionExists
    <3>4. QED
      BY <2>1, <3>2, <3>3, GetIsContent
  <2>3. Cardinality(Places(RIDs, r)) = 1
    <3>1. Get(db, ThumbnailKey(r)) # None
      BY <1>1, <1>2, <1>4, NoneIsNoContent DEF LastIsThere, Thumbnail, PebbleThumbnail
    <3>2. ThumbnailKey(r) \in DOMAIN db.kv /\ ThumbnailKey(r)[1] = r
      BY <1>1, <2>1, <3>1, GetIsContent, KeysDiffer
    <3>3. RIDs = PebbleRIDs(db)
      BY <1>4 DEF RIDs
    <3>4. QED
      BY <2>1, <3>2, <3>3, PebbleListsOnce
  <2>4. VersionExists(r, v) \in BOOLEAN
    BY <1>4 DEF VersionExists, KeyExists
  <2>5. QED
    BY <1>2, <1>3, <1>4, <2>2, <2>3, <2>4 DEF LastIsThere
<1>5. CASE engine = "sqlblob"
  <2>1. SqlOk(db)
    BY <1>5 DEF TypeInv, DbOk
  <2>2. VersionExists(r, v) <=> GetCard(r, v) # None
    <3>1. VersionExists(r, v) <=> \E k \in DOMAIN db.cards : k[1] = r /\ k[2] = v
      BY <1>5 DEF VersionExists, SqlVersionExists
    <3>2. \A k \in DOMAIN db.cards : k = <<k[1], k[2]>>
      BY <2>1 DEF SqlOk
    <3>3. VersionExists(r, v) <=> <<r, v>> \in DOMAIN db.cards
      BY <3>1, <3>2
    <3>4. GetCard(r, v) # None <=> <<r, v>> \in DOMAIN db.cards
      BY <1>5, <2>1, NoneIsNoContent DEF GetCard, SqlGet, SqlOk
    <3>5. QED
      BY <3>3, <3>4
  <2>3. Cardinality(Places(RIDs, r)) = IF VersionsIn(r) = <<>> THEN 0 ELSE 1
    <3>1. RIDs = SqlRIDs(db) /\ VersionsIn(r) = SqlVersions(db, r)
      BY <1>5 DEF RIDs, VersionsIn
    <3>2. QED
      BY <2>1, <3>1, SqlListsOnce
  <2>4. VersionExists(r, v) \in BOOLEAN
    BY <1>5 DEF VersionExists, SqlVersionExists
  <2>5. QED
    BY <1>2, <1>3, <1>5, <2>2, <2>3, <2>4 DEF LastIsThere
<1>6. QED
  BY <1>1, <1>4, <1>5 DEF Engines

-----------------------------------------------------------------------------
(* The newest survive. *)

\* The newest m with a number above all others are that number and the newest m - 1.
LEMMA NewestWithNewer ==
  ASSUME NEW S, S \subseteq Nat, IsFiniteSet(S), NEW v \in Nat, \A w \in S : w < v, NEW m \in Nat, m >= 1
  PROVE  Newest(S \cup {v}, m) = Newest(S, m - 1) \cup {v}
<1> DEFINE U == S \cup {v}
<1>1. v \notin S
  OBVIOUS
<1>2. ASSUME NEW w \in S PROVE Cardinality(Above(U, w)) = Cardinality(Above(S, w)) + 1 /\ Cardinality(Above(S, w)) \in Nat
  <2>1. w < v /\ w \in Nat
    OBVIOUS
  <2>2. Above(U, w) = Above(S, w) \cup {v} /\ v \notin Above(S, w)
    BY <1>1, <2>1 DEF Above
  <2>3. IsFiniteSet(Above(S, w)) /\ Cardinality(Above(S, w)) \in Nat
    BY AboveIsFinite
  <2>4. QED
    BY <2>2, <2>3, FS_AddElement
<1>3. Cardinality(Above(U, v)) = 0
  <2>1. \A w \in U : ~(w > v)
    OBVIOUS
  <2>2. Above(U, v) = {}
    BY <2>1 DEF Above
  <2>3. QED
    BY <2>2, FS_EmptySet
<1>4. \A x : x \in Newest(U, m) <=> x \in U /\ Cardinality(Above(U, x)) < m
  BY DEF Newest, Above
<1>5. \A x : x \in Newest(S, m - 1) <=> x \in S /\ Cardinality(Above(S, x)) < m - 1
  BY DEF Newest, Above
<1>6. \A x \in S : x \in Newest(U, m) <=> x \in Newest(S, m - 1)
  BY <1>2, <1>4, <1>5
<1>7. v \in Newest(U, m)
  BY <1>3, <1>4
<1>8. QED
  BY <1>4, <1>5, <1>6, <1>7

LEMMA PutsKeepNewest ==
  ASSUME TypeInv, NEW r \in Rids, NEW v \in Versions, NEW c \in Contents, PutInFull(r, v, c),
         \A w \in VersionsOf(Card(r)) : w < v
  PROVE  VersionsOf(Card(r)') = Newest(VersionsOf(Card(r)) \cup {v}, MaxVersions)
<1> DEFINE S == VersionsOf(Card(r))
<1>1. VersionsOf(Card(r)') = PutKeeps(engine, S, v)
  BY PutLeaves
<1>2. S \subseteq Nat /\ IsFiniteSet(S) /\ v \in Nat /\ MaxVersions \in Nat /\ MaxVersions >= 1
  <2>1. S \subseteq Versions /\ IsFiniteSet(S)
    BY CardsAreCards
  <2> HIDE DEF S
  <2>2. QED
    BY <2>1, VersionsAreNats, AtLeastTwo
<1>3. \A w \in S : w < v
  OBVIOUS
<1> HIDE DEF S
<1>4. v \notin S
  BY <1>2, <1>3
<1>5. Newest(S \cup {v}, MaxVersions) = Newest(S, MaxVersions - 1) \cup {v}
  BY <1>2, <1>3, NewestWithNewer
<1>6. PutKeeps(engine, S, v) = Newest(S \cup {v}, MaxVersions)
  BY <1>4, <1>5 DEF PutKeeps
<1>7. QED
  BY <1>1, <1>6 DEF S

LEMMA StepSurvives ==
  ASSUME TypeInv, TypeInv', [Next]_vars, NEW r \in Rids, NEW old, old = ToSet(VersionsIn(r)),
         NEW put, put = last'[r], put \notin {<<>>, last[r]}, \A w \in old : w < put[1], put[1] \notin extra'[r]
  PROVE  ToSet(VersionsIn(r))' = Newest(old \cup {put[1]}, MaxVersions)
<1>1. old = VersionsOf(Card(r))
  BY VersionsAreListed
<1>2. ToSet(VersionsIn(r))' = VersionsOf(Card(r)')
  <2>1. engine' \in Engines /\ DbOk(engine', db')
    BY DEF TypeInv
  <2>2. QED
    BY <2>1, ListedVersions DEF VersionsIn, Card
<1>3. last'[r] # last[r] /\ last'[r] # <<>>
  OBVIOUS
<1>4. ~UNCHANGED vars
  BY <1>3 DEF vars
<1>5. ASSUME NEW q \in Rids, NEW p \in Offered[q], Put(q, p[1], p[2])
      PROVE  VersionsOf(Card(r)') = Newest(old \cup {put[1]}, MaxVersions)
  <2> DEFINE v == p[1]
             c == p[2]
  <2>1. v \in Versions /\ c \in Contents
    BY OfferedIsWhatMayBePut
  <2> HIDE DEF v, c
  <2>2. Put(q, v, c)
    BY <1>5 DEF v, c
  <2>3. PutInFull(q, v, c) \/ PutUnpruned(q, v, c)
    BY <1>4, <2>1, <2>2, PutDoes
  <2>4. q = r /\ put = <<v, c>>
    BY <1>3, <2>3 DEF PutInFull, PutUnpruned, TypeInv
  <2>5. \A w \in VersionsOf(Card(r)) : w < v
    BY <1>1, <2>4
  <2>6. CASE PutInFull(q, v, c)
    BY <1>1, <2>1, <2>4, <2>5, <2>6, PutsKeepNewest
  <2>7. CASE PutUnpruned(q, v, c)
    <3>1. v \notin VersionsOf(Card(r))
      BY <2>1, <2>5, VersionsAreNats
    <3>2. v \in extra'[r]
      BY <2>4, <2>7, <3>1 DEF PutUnpruned, TypeInv
    <3>3. QED
      BY <2>4, <3>2
  <2>8. QED
    BY <2>3, <2>6, <2>7
<1>6. ASSUME NEW q \in Rids, NEW v \in Versions, DeleteVersion(q, v) PROVE FALSE
  BY <1>3, <1>6 DEF DeleteVersion, TypeInv
<1>7. ASSUME NEW q \in Rids, NEW low \in Versions, NEW high \in Versions, DeleteVersions(q, low, high) PROVE FALSE
  BY <1>3, <1>7 DEF DeleteVersions, TypeInv
<1>8. ASSUME NEW rs \in SUBSET Rids, Delete(rs) PROVE FALSE
  BY <1>3, <1>8 DEF Delete
<1>9. ASSUME NEW q \in Rids, NEW v \in Versions, Compact(CardKey(q, v)) PROVE FALSE
  BY <1>3, <1>9 DEF Compact
<1>10. ASSUME NEW q \in Rids, PutFails(q) PROVE FALSE
  BY <1>3, <1>10 DEF PutFails
<1>11. QED
  BY <1>2, <1>4, <1>5, <1>6, <1>7, <1>8, <1>9, <1>10 DEF Next

-----------------------------------------------------------------------------
(* The theorems. *)

LEMMA InvStarts == Init => IInv
<1> SUFFICES ASSUME Init PROVE IInv
  OBVIOUS
<1>1. TypeInv
  BY TypesStart
<1>2. \A r \in Rids : last[r] = <<>>
  BY DEF Init
<1>3. ASSUME NEW r \in Rids PROVE Cardinality(VersionsOf(Card(r)) \ extra[r]) <= MaxVersions
  <2>1. DOMAIN <<>> = {}
    OBVIOUS
  <2>2. Card(r) = NoCard
    BY <2>1 DEF Init, Card, CardIn, PebbleCard, PebbleGet, Get, PebbleEmpty, SqlCard, SqlGet, SqlEmpty, NoCard
  <2>3. VersionsOf(Card(r)) \ extra[r] = {}
    BY <2>2 DEF VersionsOf, NoCard
  <2>4. QED
    BY <2>3, FS_EmptySet, AtLeastTwo
<1>4. QED
  BY <1>1, <1>2, <1>3 DEF IInv, Few, LastIsThere

\* The inductive invariant: keys and rows are those of items and versions, no card
\* keeps too many that a pruning made room for, and the last Put's content is there.
THEOREM BlobInvariance == Spec => []IInv
<1>1. IInv /\ [Next]_vars => IInv'
  BY TypesHold, FewHolds, LastHolds DEF IInv
<1>2. QED
  BY <1>1, InvStarts, PTL DEF Spec

\* Pruning holds every card to MaxVersions versions, in either engine, but for those
\* that a compaction brought back or a cancelled Put left unpruned.
THEOREM BlobsRetained == Spec => []Retention
<1>1. IInv => Retention
  BY VersionsAreListed DEF IInv, Few, Retention
<1>2. QED
  BY <1>1, BlobInvariance, PTL

\* The last Put of a card can be read back as the engine answers: its content, its
\* thumbnail, that its version exists, and its item among the RIDs once.
THEOREM BlobsReadable == Spec => []LastPutReadable
<1>1. IInv => LastPutReadable
  BY LastIsRead DEF IInv
<1>2. QED
  BY <1>1, BlobInvariance, PTL

\* Both engines keep the newest versions when a newer one is put, whether they
\* prune before the insert or after it.
THEOREM NewestDoSurvive == Spec => NewestSurvive
<1> DEFINE Survives == \A r \in Rids :
             LET old == ToSet(VersionsIn(r))
                 put == last'[r]
             IN  (put \notin {<<>>, last[r]} /\ (\A w \in old : w < put[1]) /\ put[1] \notin extra'[r])
                   => ToSet(VersionsIn(r))' = Newest(old \cup {put[1]}, MaxVersions)
<1>1. IInv /\ IInv' /\ [Next]_vars => Survives
  BY StepSurvives DEF IInv
<1>2. IInv /\ IInv' /\ [Next]_vars => [Survives]_vars
  BY <1>1
<1>3. QED
  BY <1>2, BlobInvariance, PTL DEF Spec, NewestSurvive

\* The ordered keys of Pebble and the tables of SQLite implement one store of whole
\* cards: every call is a step of BlobStore, or changes nothing there.
THEOREM EnginesImplementBlobStore == Spec => ImplementsBlobStore
<1>1. IInv /\ [Next]_vars => [B!Next]_(B!vars)
  BY StepRefines DEF IInv
<1>2. QED
  BY <1>1, StartRefines, BlobInvariance, PTL DEF Spec, ImplementsBlobStore, B!Spec
=============================================================================
