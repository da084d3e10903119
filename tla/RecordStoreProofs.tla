--------------------------- MODULE RecordStoreProofs ---------------------------
(***************************************************************************)
(* Proofs about RecordStore, for any cards, tags and values.  What the     *)
(* invariants need is that a row of table records never refers to a        *)
(* creator or a tag that is not there (Kept), although CleanupCreators     *)
(* deletes creators, and that what a check has read is still a record      *)
(* (Checking).  The lemmas say so of each call that RecordOps describes.   *)
(***************************************************************************)
EXTENDS RecordStore, FiniteSetTheorems, WellFoundedInduction, TLAPS

Vaults == [rows : [Urls -> Rows \cup {None}],
           creators : [Creators -> Nicknames \cup {None}],
           tags : [Slugs -> Names \cup {None}],
           fts : [Urls -> SUBSET Texts],
           sheets : [Urls -> [Times -> Sheets \cup {None}]]]

NamesOf(v, u) == [s \in v.rows[u].tags |-> v.tags[s]]
SheetOf(v, u) == v.sheets[u][v.rows[u].update]

\* What a vault keeps of the card u, if it has one.
Kept(v, u) ==
  IF v.rows[u] = None THEN v.fts[u] = {}
  ELSE /\ v.creators[v.rows[u].creator] # None
       /\ \A s \in v.rows[u].tags : v.tags[s] # None
       /\ SheetOf(v, u) # None
       /\ SheetOf(v, u).text \in v.fts[u]
       /\ SheetOf(v, u).tags = TagNames(NamesOf(v, u))

VaultIsOk(v) == v \in Vaults /\ \A u \in Urls : Kept(v, u)

\* What a check has read or decided to save.
Checking ==
  /\ checking \in BOOLEAN
  /\ DOMAIN snapshot \subseteq Urls
  /\ \A u \in DOMAIN snapshot : snapshot[u] \in Metadata
  /\ repair = None \/ (repair.url \in Urls /\ repair.record \in Metadata /\ repair.sheet \in Sheets)
  /\ ~checking => DOMAIN snapshot = {} /\ repair = None

IInv == VaultIsOk(vault) /\ Checking

-----------------------------------------------------------------------------
(* Tags in the order of their slugs                                        *)

\* Every place in the order has a slug.
LEMMA EveryPlace ==
  ASSUME NEW S \in SUBSET Slugs, NEW i \in 1 .. Cardinality(S)
  PROVE  \E s \in S : Before(S, s) = i - 1
<1> DEFINE n == Cardinality(S)
           place == [s \in S |-> Before(S, s) + 1]
<1>1. IsFiniteSet(S) /\ n \in Nat /\ S \subseteq Int
  BY SlugsAreInts, FS_Subset, FS_CardinalityType
<1>2. ASSUME NEW s \in S PROVE Before(S, s) \in 0 .. (n - 1)
  <2>1. {t \in S : t < s} \in SUBSET (S \ {s})
    BY <1>1
  <2>2. IsFiniteSet(S \ {s}) /\ Cardinality(S \ {s}) = n - 1
    BY <1>1, FS_RemoveElement
  <2>3. IsFiniteSet({t \in S : t < s}) /\ Cardinality({t \in S : t < s}) <= n - 1
    BY <2>1, <2>2, FS_Subset
  <2>4. Cardinality({t \in S : t < s}) \in Nat
    BY <2>3, FS_CardinalityType
  <2>5. QED
    BY <1>1, <2>3, <2>4 DEF Before
<1>3. ASSUME NEW s \in S, NEW t \in S, s < t PROVE Before(S, s) < Before(S, t)
  <2>1. {x \in S : x < s} \in SUBSET {x \in S : x < t}
    <3>1. s \in Int /\ t \in Int /\ \A x \in S : x \in Int
      BY <1>1
    <3>2. \A x \in Int : x < s => x < t
      BY <1>3, <3>1
    <3>3. QED
      BY <3>1, <3>2
  <2>2. s \in {x \in S : x < t} /\ s \notin {x \in S : x < s}
    BY <1>1, <1>3
  <2>3. {x \in S : x < t} \in SUBSET S
    OBVIOUS
  <2>4. IsFiniteSet({x \in S : x < t})
    BY <1>1, <2>3, FS_Subset
  <2>5. /\ Cardinality({x \in S : x < s}) <= Cardinality({x \in S : x < t})
        /\ Cardinality({x \in S : x < s}) # Cardinality({x \in S : x < t})
    BY <2>1, <2>2, <2>4, FS_Subset
  <2>6. Before(S, s) \in Int /\ Before(S, t) \in Int
    BY <1>2
  <2>7. QED
    BY <2>5, <2>6 DEF Before
<1>4. place \in [S -> 1 .. n]
  BY <1>1, <1>2
<1>5. \A s, t \in S : place[s] = place[t] => s = t
  <2>1. \A s, t \in S : Before(S, s) = Before(S, t) => s = t
    BY <1>1, <1>2, <1>3
  <2>2. QED
    BY <1>2, <2>1
<1>6. IsFiniteSet(1 .. n) /\ Cardinality(1 .. n) = n
  BY <1>1, FS_Interval
<1>7. place \in Surjection(S, 1 .. n)
  <2> HIDE DEF place
  <2>1. place \in Injection(S, 1 .. n)
    BY <1>4, <1>5 DEF Injection, IsInjective
  <2>2. QED
    BY <1>6, <2>1, FS_Injection
<1>8. PICK s \in S : place[s] = i
  BY <1>7 DEF Surjection
<1>9. Before(S, s) + 1 = i /\ Before(S, s) \in Int
  BY <1>2, <1>8
<1>10. QED
  BY <1>9

LEMMA TagNamesAreNames ==
  ASSUME NEW S \in SUBSET Slugs, NEW names \in [S -> Names]
  PROVE  TagNames(names) \in Seq(Names)
<1>1. DOMAIN names = S /\ Cardinality(S) \in Nat
  BY SlugsAreInts, FS_Subset, FS_CardinalityType
<1>2. ASSUME NEW i \in 1 .. Cardinality(S)
      PROVE  names[CHOOSE s \in S : Before(S, s) = i - 1] \in Names
  <2>1. (CHOOSE s \in S : Before(S, s) = i - 1) \in S
    BY EveryPlace
  <2>2. QED
    BY <2>1
<1>3. [i \in 1 .. Cardinality(S) |-> names[CHOOSE s \in S : Before(S, s) = i - 1]]
        \in [1 .. Cardinality(S) -> Names]
  BY <1>2
<1>4. TagNames(names) \in [1 .. Cardinality(S) -> Names]
  BY <1>1, <1>3 DEF TagNames
<1>5. QED
  BY <1>1, <1>4

-----------------------------------------------------------------------------
(* What the calls leave of the vault                                       *)

LEMMA VaultTypes ==
  ASSUME NEW v \in Vaults
  PROVE  /\ v.rows \in [Urls -> Rows \cup {None}]
         /\ v.creators \in [Creators -> Nicknames \cup {None}]
         /\ v.tags \in [Slugs -> Names \cup {None}]
         /\ v.fts \in [Urls -> SUBSET Texts]
         /\ v.sheets \in [Urls -> [Times -> Sheets \cup {None}]]
BY DEF Vaults

LEMMA RowTypes ==
  ASSUME NEW v \in Vaults, NEW u \in Urls, v.rows[u] # None
  PROVE  /\ v.rows[u] \in Rows /\ v.rows[u].creator \in Creators /\ v.rows[u].tags \in SUBSET Slugs
         /\ v.rows[u].title \in Titles /\ v.rows[u].update \in Times /\ v.rows[u].book \in 0 .. MaxTime
         /\ v.rows[u].greetings \in 0 .. 1 /\ v.rows[u].mark \in BOOLEAN /\ v.rows[u].status \in Statuses
<1>1. v.rows[u] \in Rows
  BY VaultTypes
<1>2. QED
  BY <1>1 DEF Rows

LEMMA MetadataTypes ==
  ASSUME NEW m \in Metadata
  PROVE  /\ m.creator \in Creators /\ m.nick \in Nicknames /\ m.title \in Titles /\ m.update \in Times
         /\ m.book \in 0 .. MaxTime /\ m.greetings \in 0 .. 1
         /\ DOMAIN m.names \in SUBSET Slugs /\ m.names \in [DOMAIN m.names -> Names]
<1>1. /\ m.creator \in Creators /\ m.nick \in Nicknames /\ m.title \in Titles /\ m.update \in Times
      /\ m.book \in 0 .. MaxTime /\ m.greetings \in 0 .. 1
      /\ m.names \in UNION {[S -> Names] : S \in SUBSET Slugs}
  BY DEF Metadata
<1>2. PICK S \in SUBSET Slugs : m.names \in [S -> Names]
  BY <1>1
<1>3. QED
  BY <1>1, <1>2

\* What FindRecord reads of a card has all that a save needs.
LEMMA RecordIsMetadata ==
  ASSUME NEW v, VaultIsOk(v), NEW u \in Urls, v.rows[u] # None
  PROVE  Record(v, u) \in Metadata
<1>1. v \in Vaults /\ Kept(v, u)
  BY DEF VaultIsOk
<1>2. v.creators[v.rows[u].creator] \in Nicknames
  BY <1>1, RowTypes, VaultTypes DEF Kept
<1>3. NamesOf(v, u) \in [v.rows[u].tags -> Names]
  BY <1>1, RowTypes, VaultTypes DEF Kept, NamesOf
<1>4. NamesOf(v, u) \in UNION {[S -> Names] : S \in SUBSET Slugs}
  BY <1>1, <1>3, RowTypes
<1>5. Record(v, u) = [creator |-> v.rows[u].creator, nick |-> v.creators[v.rows[u].creator],
                      title |-> v.rows[u].title, update |-> v.rows[u].update, book |-> v.rows[u].book,
                      greetings |-> v.rows[u].greetings, names |-> NamesOf(v, u)]
  BY DEF Record, NamesOf
<1>6. QED
  BY <1>1, <1>2, <1>4, <1>5, RowTypes DEF Metadata

\* A new card, or a new version: only u changes, and tags are added.
LEMMA SaveKeeps ==
  ASSUME NEW v, VaultIsOk(v), NEW u \in Urls, NEW m \in Metadata, NEW sheet \in Sheets
  PROVE  VaultIsOk(SaveCard(v, u, m, sheet))
<1> DEFINE w == SaveCard(v, u, m, sheet)
           tags == UpsertTags(v.tags, m.names)
           names == TagNames([s \in DOMAIN m.names |-> tags[s]])
           row == RowAfter(v, u, m, v.rows[u] # None /\ v.rows[u].mark, "SUCCESS")
           saved == [sheet EXCEPT !.tags = names]
<1>1. v \in Vaults /\ \A x \in Urls : Kept(v, x)
  BY DEF VaultIsOk
<1>2. /\ v.rows \in [Urls -> Rows \cup {None}]
      /\ v.creators \in [Creators -> Nicknames \cup {None}]
      /\ v.tags \in [Slugs -> Names \cup {None}]
      /\ v.fts \in [Urls -> SUBSET Texts]
      /\ v.sheets \in [Urls -> [Times -> Sheets \cup {None}]]
  BY <1>1, VaultTypes
<1>3. /\ m.creator \in Creators /\ m.nick \in Nicknames /\ m.title \in Titles /\ m.update \in Times
      /\ m.book \in 0 .. MaxTime /\ m.greetings \in 0 .. 1
      /\ DOMAIN m.names \in SUBSET Slugs /\ m.names \in [DOMAIN m.names -> Names]
  BY MetadataTypes
<1>4. w = [rows |-> [v.rows EXCEPT ![u] = row],
           creators |-> [v.creators EXCEPT ![m.creator] = m.nick],
           tags |-> tags,
           fts |-> [v.fts EXCEPT ![u] = @ \cup {sheet.text}],
           sheets |-> [v.sheets EXCEPT ![u][m.update] = saved]]
  BY <1>2 DEF SaveCard
<1>5. /\ tags \in [Slugs -> Names \cup {None}]
      /\ \A s \in Slugs : v.tags[s] # None => tags[s] = v.tags[s]
      /\ \A s \in DOMAIN m.names : tags[s] # None
  BY <1>2, <1>3, NoneIsNoValue DEF UpsertTags
<1>6. /\ row \in Rows /\ row # None /\ row.creator = m.creator /\ row.tags = DOMAIN m.names
      /\ row.update = m.update
  <2>1. (v.rows[u] # None /\ v.rows[u].mark) \in BOOLEAN
    BY <1>1, RowTypes
  <2>2. "SUCCESS" \in Statuses
    BY DEF Statuses
  <2>3. row \in Rows
    BY <1>3, <2>1, <2>2 DEF RowAfter, Rows
  <2>4. QED
    BY <2>3, NoneIsNoRow DEF RowAfter
<1>7. names \in Seq(Names)
  <2>1. [s \in DOMAIN m.names |-> tags[s]] \in [DOMAIN m.names -> Names]
    BY <1>3, <1>5
  <2>2. QED
    BY <1>3, <2>1, TagNamesAreNames
<1>8. saved \in Sheets /\ saved # None /\ saved.text = sheet.text /\ saved.tags = names
      /\ sheet.text \in Texts
  <2> HIDE DEF names
  <2>1. saved \in Sheets /\ saved.text = sheet.text /\ saved.tags = names /\ sheet.text \in Texts
    BY <1>7 DEF Sheets
  <2>2. QED
    BY <2>1, NoneIsNoRow
<1> HIDE DEF w, row, saved
<1>9. /\ w.rows = [v.rows EXCEPT ![u] = row] /\ w.creators = [v.creators EXCEPT ![m.creator] = m.nick]
      /\ w.tags = tags /\ w.fts = [v.fts EXCEPT ![u] = @ \cup {sheet.text}]
      /\ w.sheets = [v.sheets EXCEPT ![u][m.update] = saved]
  BY <1>4
<1>10. w \in Vaults
  <2> HIDE DEF tags
  <2>1. [v.rows EXCEPT ![u] = row] \in [Urls -> Rows \cup {None}]
    BY <1>2, <1>6
  <2>2. [v.creators EXCEPT ![m.creator] = m.nick] \in [Creators -> Nicknames \cup {None}]
    BY <1>2, <1>3
  <2>3. [v.fts EXCEPT ![u] = @ \cup {sheet.text}] \in [Urls -> SUBSET Texts]
    BY <1>2, <1>8
  <2>4. [v.sheets EXCEPT ![u][m.update] = saved] \in [Urls -> [Times -> Sheets \cup {None}]]
    BY <1>2, <1>3, <1>8
  <2>5. QED
    BY <1>4, <1>5, <2>1, <2>2, <2>3, <2>4 DEF Vaults
<1>11. Kept(w, u)
  <2>1. /\ w.rows[u] = row /\ w.creators[m.creator] = m.nick /\ w.fts[u] = v.fts[u] \cup {sheet.text}
        /\ w.sheets[u][m.update] = saved
    BY <1>2, <1>3, <1>9
  <2>2. SheetOf(w, u) = saved
    BY <1>6, <2>1 DEF SheetOf
  <2>3. NamesOf(w, u) = [s \in DOMAIN m.names |-> tags[s]]
    BY <1>6, <1>9, <2>1 DEF NamesOf
  <2>4. m.nick # None
    BY <1>3, NoneIsNoValue
  <2>5. QED
    BY <1>5, <1>6, <1>8, <1>9, <2>1, <2>2, <2>3, <2>4 DEF Kept
<1>12. ASSUME NEW x \in Urls, x # u PROVE Kept(w, x)
  <2>1. w.rows[x] = v.rows[x] /\ w.fts[x] = v.fts[x] /\ w.sheets[x] = v.sheets[x]
    BY <1>2, <1>9, <1>12
  <2>2. CASE v.rows[x] = None
    BY <1>1, <2>1, <2>2 DEF Kept
  <2>3. CASE v.rows[x] # None
    <3>1. Kept(v, x) /\ v.rows[x].creator \in Creators /\ v.rows[x].tags \in SUBSET Slugs
      BY <1>1, <2>3, RowTypes
    <3>2. \A s \in v.rows[x].tags : w.tags[s] = v.tags[s]
      BY <1>5, <1>9, <2>3, <3>1 DEF Kept
    <3>3. NamesOf(w, x) = NamesOf(v, x) /\ SheetOf(w, x) = SheetOf(v, x)
      BY <2>1, <3>2 DEF NamesOf, SheetOf
    <3>4. w.creators[v.rows[x].creator] # None
      BY <1>2, <1>3, <1>9, <2>3, <3>1, NoneIsNoValue DEF Kept
    <3>5. QED
      BY <2>1, <2>3, <3>1, <3>2, <3>3, <3>4 DEF Kept
  <2>4. QED
    BY <2>2, <2>3
<1>13. QED
  BY <1>10, <1>11, <1>12 DEF VaultIsOk, w

\* A call that changes the row of u at most in what Kept does not look at, or
\* removes it with its texts, and forgets no creator or tag that is in use.
Harmless(v, w, u) ==
  /\ w.tags = v.tags
  /\ \/ w.rows[u] = None /\ w.fts[u] = {}
     \/ /\ v.rows[u] # None /\ w.rows[u] # None /\ w.fts[u] = v.fts[u] /\ w.sheets[u] = v.sheets[u]
        /\ w.rows[u].creator = v.rows[u].creator /\ w.rows[u].tags = v.rows[u].tags
        /\ w.rows[u].update = v.rows[u].update
        /\ w.creators[v.rows[u].creator] = v.creators[v.rows[u].creator]

LEMMA HarmlessKeeps ==
  ASSUME NEW v, NEW w, NEW u, Kept(v, u), Harmless(v, w, u)
  PROVE  Kept(w, u)
<1>1. CASE w.rows[u] = None /\ w.fts[u] = {}
  BY <1>1 DEF Kept
<1>2. CASE ~(w.rows[u] = None /\ w.fts[u] = {})
  <2>1. NamesOf(w, u) = NamesOf(v, u) /\ SheetOf(w, u) = SheetOf(v, u)
    BY <1>2 DEF Harmless, NamesOf, SheetOf
  <2>2. QED
    BY <1>2, <2>1 DEF Harmless, Kept
<1>3. QED
  BY <1>1, <1>2

\* No call forgets what u has if it does not change u.
LEMMA UntouchedIsHarmless ==
  ASSUME NEW v, NEW w, NEW u, Kept(v, u), w.tags = v.tags, w.rows[u] = v.rows[u],
         w.fts[u] = v.fts[u], w.sheets[u] = v.sheets[u],
         v.rows[u] # None => w.creators[v.rows[u].creator] = v.creators[v.rows[u].creator]
  PROVE  Harmless(v, w, u)
BY DEF Harmless, Kept

LEMMA DeleteKeeps ==
  ASSUME NEW v, VaultIsOk(v), NEW u \in Urls
  PROVE  VaultIsOk(DeleteCard(v, u))
<1> DEFINE w == DeleteCard(v, u)
<1>1. v \in Vaults /\ \A x \in Urls : Kept(v, x)
  BY DEF VaultIsOk
<1>2. /\ w.rows = [v.rows EXCEPT ![u] = None] /\ w.fts = [v.fts EXCEPT ![u] = {}]
      /\ w.sheets = [v.sheets EXCEPT ![u] = [t \in Times |-> None]]
      /\ w.tags = v.tags /\ w.creators = v.creators /\ w \in Vaults
  <2> DEFINE w1 == [v EXCEPT !.rows = [@ EXCEPT ![u] = None]]
             w2 == [w1 EXCEPT !.fts = [@ EXCEPT ![u] = {}]]
  <2>1. /\ w1.rows = [v.rows EXCEPT ![u] = None] /\ w1.fts = v.fts /\ w1.sheets = v.sheets
        /\ w1.tags = v.tags /\ w1.creators = v.creators /\ w1 \in Vaults
    BY <1>1 DEF Vaults
  <2> HIDE DEF w1
  <2>2. /\ w2.rows = [v.rows EXCEPT ![u] = None] /\ w2.fts = [v.fts EXCEPT ![u] = {}] /\ w2.sheets = v.sheets
        /\ w2.tags = v.tags /\ w2.creators = v.creators /\ w2 \in Vaults
    BY <2>1 DEF Vaults
  <2>3. w = [w2 EXCEPT !.sheets = [@ EXCEPT ![u] = [t \in Times |-> None]]]
    BY <1>1 DEF DeleteCard, w1, Vaults
  <2> HIDE DEF w, w2
  <2>4. QED
    BY <2>2, <2>3 DEF Vaults
<1> HIDE DEF w
<1>3. Kept(w, u)
  <2>1. w.rows[u] = None /\ w.fts[u] = {}
    BY <1>1, <1>2, VaultTypes
  <2>2. QED
    BY <2>1 DEF Kept
<1>4. ASSUME NEW x \in Urls, x # u PROVE Kept(w, x)
  <2>1. w.rows[x] = v.rows[x] /\ w.fts[x] = v.fts[x] /\ w.sheets[x] = v.sheets[x]
    BY <1>1, <1>2, <1>4, VaultTypes
  <2>2. QED
    BY <1>1, <1>2, <2>1, UntouchedIsHarmless, HarmlessKeeps
<1>5. QED
  BY <1>2, <1>3, <1>4 DEF VaultIsOk, w

LEMMA CleanupKeeps ==
  ASSUME NEW v, VaultIsOk(v)
  PROVE  VaultIsOk(CleanupCreators(v))
<1> DEFINE w == CleanupCreators(v)
           kept == [c \in Creators |-> IF \E u \in Stored(v) : v.rows[u].creator = c THEN v.creators[c] ELSE None]
<1>1. v \in Vaults /\ \A x \in Urls : Kept(v, x)
  BY DEF VaultIsOk
<1>2. kept \in [Creators -> Nicknames \cup {None}]
  BY <1>1, VaultTypes
<1>3. /\ w.rows = v.rows /\ w.fts = v.fts /\ w.sheets = v.sheets /\ w.tags = v.tags
      /\ w.creators = kept /\ w \in Vaults
  <2>1. w = [v EXCEPT !.creators = kept]
    BY <1>1 DEF CleanupCreators, Vaults
  <2> HIDE DEF w, kept
  <2>2. QED
    BY <1>1, <1>2, <2>1 DEF Vaults
<1> HIDE DEF w
<1>4. ASSUME NEW x \in Urls PROVE Kept(w, x)
  <2>1. v.rows[x] # None => w.creators[v.rows[x].creator] = v.creators[v.rows[x].creator]
    BY <1>1, <1>3, RowTypes DEF Stored
  <2>2. QED
    BY <1>1, <1>3, <2>1, UntouchedIsHarmless, HarmlessKeeps
<1>5. QED
  BY <1>3, <1>4 DEF VaultIsOk, w

\* Rows that change in their mark or status only.
LEMMA RowsKeep ==
  ASSUME NEW v, VaultIsOk(v), NEW rows \in [Urls -> Rows \cup {None}],
         \A u \in Urls : \/ rows[u] = v.rows[u]
                         \/ /\ v.rows[u] # None /\ rows[u] # None
                            /\ rows[u].creator = v.rows[u].creator /\ rows[u].tags = v.rows[u].tags
                            /\ rows[u].update = v.rows[u].update
  PROVE  VaultIsOk([v EXCEPT !.rows = rows])
<1> DEFINE w == [v EXCEPT !.rows = rows]
<1>1. v \in Vaults /\ \A x \in Urls : Kept(v, x)
  BY DEF VaultIsOk
<1>2. /\ w.rows = rows /\ w.fts = v.fts /\ w.sheets = v.sheets /\ w.tags = v.tags
      /\ w.creators = v.creators /\ w \in Vaults
  BY <1>1 DEF Vaults
<1> HIDE DEF w
<1>3. ASSUME NEW x \in Urls PROVE Kept(w, x)
  <2>1. CASE rows[x] = v.rows[x]
    BY <1>1, <1>2, <2>1, UntouchedIsHarmless, HarmlessKeeps
  <2>2. CASE rows[x] # v.rows[x]
    <3>1. Harmless(v, w, x)
      BY <1>2, <2>2 DEF Harmless
    <3>2. QED
      BY <1>1, <3>1, HarmlessKeeps
  <2>3. QED
    BY <2>1, <2>2
<1>4. QED
  BY <1>2, <1>3 DEF VaultIsOk, w

LEMMA MarkKeeps ==
  ASSUME NEW us \in SUBSET Stored(vault), NEW mark \in BOOLEAN, VaultIsOk(vault), Mark(us, mark)
  PROVE  VaultIsOk(vault')
<1> DEFINE rows == [u \in Urls |-> IF u \in us THEN [vault.rows[u] EXCEPT !.mark = mark] ELSE vault.rows[u]]
<1>1. vault \in Vaults
  BY DEF VaultIsOk
<1>2. vault' = [vault EXCEPT !.rows = rows]
  BY <1>1 DEF Mark, Vaults
<1>3. ASSUME NEW u \in Urls
      PROVE  /\ rows[u] \in Rows \cup {None}
             /\ \/ rows[u] = vault.rows[u]
                \/ /\ vault.rows[u] # None /\ rows[u] # None
                   /\ rows[u].creator = vault.rows[u].creator /\ rows[u].tags = vault.rows[u].tags
                   /\ rows[u].update = vault.rows[u].update
  <2>1. CASE u \notin us
    BY <1>1, <2>1, VaultTypes
  <2>2. CASE u \in us
    <3>1. vault.rows[u] # None /\ vault.rows[u] \in Rows
      BY <1>1, <2>2, RowTypes DEF Stored
    <3>2. rows[u] = [vault.rows[u] EXCEPT !.mark = mark]
      BY <2>2
    <3> HIDE DEF rows
    <3>3. /\ rows[u] \in Rows /\ rows[u].creator = vault.rows[u].creator
          /\ rows[u].tags = vault.rows[u].tags /\ rows[u].update = vault.rows[u].update
      BY <3>1, <3>2 DEF Rows
    <3>4. QED
      BY <3>1, <3>3, NoneIsNoRow
  <2>3. QED
    BY <2>1, <2>2
<1>4. rows \in [Urls -> Rows \cup {None}]
  BY <1>3
<1> HIDE DEF rows
<1>5. QED
  BY <1>2, <1>3, <1>4, RowsKeep

LEMMA SyncDataKeeps ==
  ASSUME NEW u \in Urls, VaultIsOk(vault), UpdateSyncData(u)
  PROVE  VaultIsOk(vault')
<1>1. vault \in Vaults /\ vault.rows[u] # None
  BY DEF VaultIsOk, UpdateSyncData, Stored
<1>2. PICK status \in Statuses : vault' = [vault EXCEPT !.rows[u].status = status]
  BY DEF UpdateSyncData
<1> DEFINE rows == [vault.rows EXCEPT ![u] = [vault.rows[u] EXCEPT !.status = status]]
<1>3. vault' = [vault EXCEPT !.rows = rows]
  BY <1>1, <1>2 DEF Vaults
<1>4. vault.rows \in [Urls -> Rows \cup {None}] /\ vault.rows[u] \in Rows
  BY <1>1, VaultTypes, RowTypes
<1>5. /\ [vault.rows[u] EXCEPT !.status = status] \in Rows
      /\ [vault.rows[u] EXCEPT !.status = status].creator = vault.rows[u].creator
      /\ [vault.rows[u] EXCEPT !.status = status].tags = vault.rows[u].tags
      /\ [vault.rows[u] EXCEPT !.status = status].update = vault.rows[u].update
  BY <1>4 DEF Rows
<1>6. /\ rows \in [Urls -> Rows \cup {None}] /\ \A x \in Urls : x # u => rows[x] = vault.rows[x]
      /\ rows[u] = [vault.rows[u] EXCEPT !.status = status]
  BY <1>4, <1>5
<1> HIDE DEF rows
<1>7. \A x \in Urls : \/ rows[x] = vault.rows[x]
                      \/ /\ vault.rows[x] # None /\ rows[x] # None
                         /\ rows[x].creator = vault.rows[x].creator /\ rows[x].tags = vault.rows[x].tags
                         /\ rows[x].update = vault.rows[x].update
  BY <1>1, <1>5, <1>6, NoneIsNoRow
<1>8. QED
  BY <1>3, <1>6, <1>7, RowsKeep

-----------------------------------------------------------------------------
(* Repairs                                                                 *)

LEMMA SecondsInRange ==
  ASSUME NEW t \in 0 .. MaxTime
  PROVE  Seconds(t) \in 0 .. MaxTime
<1>1. t \in Nat /\ PerSecond \in Nat \ {0} /\ MaxTime \in Nat
  BY TimesAreNats
<1>2. t \div PerSecond \in Nat /\ t \div PerSecond <= t
  BY <1>1
<1>3. QED
  BY <1>1, <1>2 DEF Seconds

LEMMA LatestInRange ==
  ASSUME NEW r \in Metadata
  PROVE  LatestUpdateTime(r) \in 0 .. MaxTime
<1>1. r.update \in 0 .. MaxTime /\ r.book \in 0 .. MaxTime
  BY MetadataTypes, TimesAreNats DEF Times
<1>2. QED
  BY <1>1 DEF LatestUpdateTime

LEMMA SyncedSheet ==
  ASSUME NEW r \in Metadata, NEW sheet \in Sheets, NEW t, t = SyncSheetFields(r, sheet)
  PROVE  /\ t \in Sheets
         /\ t.title = r.title /\ t.creator = r.nick /\ t.tags = TagNames(r.names)
         /\ t.modified = Seconds(LatestUpdateTime(r)) /\ t.greetings = sheet.greetings
         /\ t.book = sheet.book /\ t.complete = sheet.complete /\ t.text = sheet.text
<1> DEFINE tags == TagNames(r.names)
           modified == Seconds(LatestUpdateTime(r))
           s1 == [sheet EXCEPT !.title = r.title]
           s2 == [s1 EXCEPT !.creator = r.nick]
           s3 == [s2 EXCEPT !.tags = tags]
<1>1. /\ r.title \in Titles /\ r.nick \in Nicknames /\ tags \in Seq(Names)
      /\ modified \in 0 .. MaxTime
  BY MetadataTypes, TagNamesAreNames, LatestInRange, SecondsInRange
<1>2. t = [s3 EXCEPT !.modified = modified]
  BY DEF SyncSheetFields
<1>3. /\ s1 \in Sheets /\ s1.title = r.title
      /\ s1.greetings = sheet.greetings /\ s1.book = sheet.book
      /\ s1.complete = sheet.complete /\ s1.text = sheet.text
  BY <1>1 DEF Sheets
<1> HIDE DEF tags, modified, s1
<1>4. /\ s2 \in Sheets /\ s2.title = r.title /\ s2.creator = r.nick
      /\ s2.greetings = sheet.greetings /\ s2.book = sheet.book
      /\ s2.complete = sheet.complete /\ s2.text = sheet.text
  BY <1>1, <1>3 DEF Sheets
<1> HIDE DEF s2
<1>5. /\ s3 \in Sheets /\ s3.title = r.title /\ s3.creator = r.nick /\ s3.tags = tags
      /\ s3.greetings = sheet.greetings /\ s3.book = sheet.book
      /\ s3.complete = sheet.complete /\ s3.text = sheet.text
  BY <1>1, <1>4 DEF Sheets
<1> HIDE DEF s3
<1>6. /\ t \in Sheets /\ t.title = r.title /\ t.creator = r.nick /\ t.tags = tags
      /\ t.modified = modified /\ t.greetings = sheet.greetings /\ t.book = sheet.book
      /\ t.complete = sheet.complete /\ t.text = sheet.text
  BY <1>1, <1>2, <1>5 DEF Sheets
<1>7. QED
  BY <1>6 DEF tags, modified

BookAfter(r, sheet) == IF ~sheet.book THEN 0 ELSE IF r.book = 0 THEN LatestUpdateTime(r) ELSE r.book

LEMMA SyncedRecord ==
  ASSUME NEW r \in Metadata, NEW sheet \in Sheets, NEW q, q = SyncRecordFields(r, sheet)
  PROVE  /\ q \in Metadata
         /\ q.creator = r.creator /\ q.nick = r.nick /\ q.title = r.title /\ q.update = r.update
         /\ q.names = r.names /\ q.greetings = sheet.greetings /\ q.book = BookAfter(r, sheet)
<1> DEFINE r1 == [r EXCEPT !.greetings = sheet.greetings]
<1>1. sheet.greetings \in 0 .. 1
  BY DEF Sheets
<1>2. BookAfter(r, sheet) \in 0 .. MaxTime
  BY LatestInRange, MetadataTypes, TimesAreNats DEF BookAfter
<1>3. /\ r1 \in Metadata /\ r1.creator = r.creator /\ r1.nick = r.nick /\ r1.title = r.title
      /\ r1.update = r.update /\ r1.names = r.names /\ r1.greetings = sheet.greetings
  BY <1>1 DEF Metadata
<1>4. q = [r1 EXCEPT !.book = BookAfter(r, sheet)]
  BY DEF SyncRecordFields, Metadata, BookAfter
<1> HIDE DEF r1
<1>5. QED
  BY <1>2, <1>3, <1>4 DEF Metadata

\* A repair saves a record and a sheet.
LEMMA FixTypes ==
  ASSUME NEW r \in Metadata, NEW sheet \in Sheets
  PROVE  FixIntegrity(r, sheet).record \in Metadata /\ FixIntegrity(r, sheet).sheet \in Sheets
BY SyncedSheet, SyncedRecord DEF FixIntegrity

\* The sheet, or the record, needs no sync with the other.
SheetFits(r, sheet) == SyncSheetFields(r, sheet) = sheet
RecordFits(r, sheet) == SyncRecordFields(r, sheet) = r

LEMMA EqualSheets ==
  ASSUME NEW s \in Sheets, NEW t \in Sheets, s.creator = t.creator, s.title = t.title,
         s.modified = t.modified, s.tags = t.tags, s.greetings = t.greetings,
         s.book = t.book, s.complete = t.complete, s.text = t.text
  PROVE  s = t
BY DEF Sheets

LEMMA EqualMetadata ==
  ASSUME NEW r \in Metadata, NEW q \in Metadata, r.creator = q.creator, r.nick = q.nick,
         r.title = q.title, r.update = q.update, r.book = q.book, r.greetings = q.greetings,
         r.names = q.names
  PROVE  r = q
BY DEF Metadata

\* Syncing the sheet leaves it in step with the record, and does not change
\* whether the record is in step with it.
LEMMA SheetSynced ==
  ASSUME NEW r \in Metadata, NEW sheet \in Sheets, NEW t, t = SyncSheetFields(r, sheet)
  PROVE  t \in Sheets /\ SheetFits(r, t) /\ (RecordFits(r, sheet) => RecordFits(r, t))
<1> DEFINE t2 == SyncSheetFields(r, t)
           q == SyncRecordFields(r, sheet)
           q2 == SyncRecordFields(r, t)
<1>1. /\ t \in Sheets
      /\ t.title = r.title /\ t.creator = r.nick /\ t.tags = TagNames(r.names)
      /\ t.modified = Seconds(LatestUpdateTime(r)) /\ t.greetings = sheet.greetings
      /\ t.book = sheet.book /\ t.complete = sheet.complete /\ t.text = sheet.text
  BY SyncedSheet
<1>2. t2 = t
  <2>1. /\ t2 \in Sheets
        /\ t2.title = r.title /\ t2.creator = r.nick /\ t2.tags = TagNames(r.names)
        /\ t2.modified = Seconds(LatestUpdateTime(r)) /\ t2.greetings = t.greetings
        /\ t2.book = t.book /\ t2.complete = t.complete /\ t2.text = t.text
    BY <1>1, SyncedSheet
  <2> HIDE DEF t2
  <2>2. QED
    BY <1>1, <2>1, EqualSheets
<1>3. q2 = q
  <2>1. /\ q \in Metadata
        /\ q.creator = r.creator /\ q.nick = r.nick /\ q.title = r.title /\ q.update = r.update
        /\ q.names = r.names /\ q.greetings = sheet.greetings /\ q.book = BookAfter(r, sheet)
    BY SyncedRecord
  <2>2. /\ q2 \in Metadata
        /\ q2.creator = r.creator /\ q2.nick = r.nick /\ q2.title = r.title /\ q2.update = r.update
        /\ q2.names = r.names /\ q2.greetings = t.greetings /\ q2.book = BookAfter(r, t)
    BY <1>1, SyncedRecord
  <2>3. BookAfter(r, t) = BookAfter(r, sheet)
    BY <1>1 DEF BookAfter
  <2> HIDE DEF q, q2
  <2>4. QED
    BY <1>1, <2>1, <2>2, <2>3, EqualMetadata
<1>4. QED
  BY <1>1, <1>2, <1>3 DEF SheetFits, RecordFits

\* Syncing the record leaves it in step with the sheet.
LEMMA RecordSynced ==
  ASSUME NEW r \in Metadata, NEW sheet \in Sheets, NEW q, q = SyncRecordFields(r, sheet)
  PROVE  RecordFits(q, sheet)
<1> DEFINE q2 == SyncRecordFields(q, sheet)
<1>1. /\ q \in Metadata
      /\ q.creator = r.creator /\ q.nick = r.nick /\ q.title = r.title /\ q.update = r.update
      /\ q.names = r.names /\ q.greetings = sheet.greetings /\ q.book = BookAfter(r, sheet)
  BY SyncedRecord
<1>2. /\ q2 \in Metadata
      /\ q2.creator = q.creator /\ q2.nick = q.nick /\ q2.title = q.title /\ q2.update = q.update
      /\ q2.names = q.names /\ q2.greetings = sheet.greetings /\ q2.book = BookAfter(q, sheet)
  BY <1>1, SyncedRecord
<1>3. BookAfter(q, sheet) = q.book
  <2>1. r.update \in Int /\ r.update >= 1 /\ r.book \in Int /\ r.book >= 0
    BY MetadataTypes, TimesAreNats DEF Times
  <2>2. LatestUpdateTime(r) # 0
    BY <2>1 DEF LatestUpdateTime
  <2>3. QED
    BY <1>1, <2>2 DEF BookAfter
<1> HIDE DEF q2
<1>4. q2 = q
  BY <1>1, <1>2, <1>3, EqualMetadata
<1>5. QED
  BY <1>4 DEF RecordFits, q2

\* A check of the card u alone, and what its record and sheet still need.
Fixed(v, u) == FixRecordIntegrity(v, u, Record(v, u))
NeedsFix(v, u) == Integrity(v, u, Record(v, u)) = "FIXED"
SheetIsFit(v, u) == SheetFits(Record(v, u), SheetOf(v, u))
RecordIsFit(v, u) == RecordFits(Record(v, u), SheetOf(v, u))

LEMMA FoundSheet ==
  ASSUME NEW v, VaultIsOk(v), NEW u \in Urls, v.rows[u] # None
  PROVE  /\ Record(v, u) \in Metadata /\ SheetOf(v, u) \in Sheets
         /\ v.sheets[u][Record(v, u).update] = SheetOf(v, u) /\ SheetOf(v, u) # None
<1>1. v \in Vaults /\ Kept(v, u)
  BY DEF VaultIsOk
<1>2. Record(v, u).update = v.rows[u].update /\ v.rows[u].update \in Times
  BY <1>1, RowTypes DEF Record
<1>3. SheetOf(v, u) \in Sheets /\ SheetOf(v, u) # None
  BY <1>1, <1>2, VaultTypes DEF Kept, SheetOf
<1>4. QED
  BY <1>2, <1>3, RecordIsMetadata DEF SheetOf

\* A save that gives no tag a new name is read back as it was given.
LEMMA SavedIsRead ==
  ASSUME NEW v, VaultIsOk(v), NEW u \in Urls, v.rows[u] # None,
         NEW m \in Metadata, NEW sheet \in Sheets, m.names = Record(v, u).names,
         sheet.tags = TagNames(m.names), NEW w, w = SaveCard(v, u, m, sheet)
  PROVE  w.rows[u] # None /\ Record(w, u) = m /\ SheetOf(w, u) = sheet
<1> DEFINE tags == UpsertTags(v.tags, m.names)
           names == [s \in DOMAIN m.names |-> tags[s]]
           row == RowAfter(v, u, m, v.rows[u] # None /\ v.rows[u].mark, "SUCCESS")
           saved == [sheet EXCEPT !.tags = TagNames(names)]
<1>1. v \in Vaults /\ Kept(v, u)
  BY DEF VaultIsOk
<1>2. m.names = NamesOf(v, u) /\ v.rows[u].tags \in SUBSET Slugs
  BY <1>1, RowTypes DEF Record, NamesOf
<1>3. names = m.names
  <2>1. DOMAIN m.names = v.rows[u].tags /\ \A s \in DOMAIN m.names : v.tags[s] # None /\ m.names[s] = v.tags[s]
    BY <1>1, <1>2 DEF NamesOf, Kept
  <2>2. \A s \in DOMAIN m.names : tags[s] = v.tags[s]
    BY <1>2, <2>1 DEF UpsertTags
  <2>3. m.names = [s \in DOMAIN m.names |-> m.names[s]]
    BY <1>2 DEF NamesOf
  <2> HIDE DEF tags
  <2>4. QED
    BY <2>1, <2>2, <2>3
<1>4. saved = sheet
  <2> HIDE DEF names
  <2>1. saved \in Sheets /\ saved.tags = sheet.tags
    BY <1>3 DEF Sheets
  <2>2. /\ saved.creator = sheet.creator /\ saved.title = sheet.title /\ saved.modified = sheet.modified
        /\ saved.greetings = sheet.greetings /\ saved.book = sheet.book
        /\ saved.complete = sheet.complete /\ saved.text = sheet.text
    BY DEF Sheets
  <2> HIDE DEF saved
  <2>3. QED
    BY <2>1, <2>2, EqualSheets
<1>5. /\ w.rows = [v.rows EXCEPT ![u] = row] /\ w.creators = [v.creators EXCEPT ![m.creator] = m.nick]
      /\ w.tags = tags /\ w.sheets = [v.sheets EXCEPT ![u][m.update] = saved]
  <2>1. v.rows \in [Urls -> Rows \cup {None}]
    BY <1>1, VaultTypes
  <2>2. QED
    BY <2>1 DEF SaveCard
<1>6. /\ v.rows \in [Urls -> Rows \cup {None}] /\ v.creators \in [Creators -> Nicknames \cup {None}]
      /\ v.sheets \in [Urls -> [Times -> Sheets \cup {None}]]
      /\ m.creator \in Creators /\ m.update \in Times
  BY <1>1, VaultTypes, MetadataTypes
<1>7. /\ row.creator = m.creator /\ row.tags = DOMAIN m.names /\ row.title = m.title
      /\ row.update = m.update /\ row.book = m.book /\ row.greetings = m.greetings
  BY DEF RowAfter
<1> HIDE DEF row, saved, names, tags
<1>8. /\ w.rows[u] = row /\ w.creators[m.creator] = m.nick /\ w.sheets[u][m.update] = sheet
  BY <1>4, <1>5, <1>6
<1>9. row # None
  <2>1. VaultIsOk(w)
    BY SaveKeeps
  <2>2. CASE row = None
    <3>1. w.fts[u] = {}
      BY <1>8, <2>1, <2>2 DEF VaultIsOk, Kept
    <3>2. w.fts = [v.fts EXCEPT ![u] = @ \cup {sheet.text}] /\ v.fts \in [Urls -> SUBSET Texts]
      BY <1>1, VaultTypes DEF SaveCard
    <3>3. QED
      BY <3>1, <3>2
  <2>3. QED
    BY <2>2
<1>10. SheetOf(w, u) = sheet
  BY <1>7, <1>8 DEF SheetOf
<1>11. Record(w, u) = [creator |-> m.creator, nick |-> m.nick, title |-> m.title, update |-> m.update,
                       book |-> m.book, greetings |-> m.greetings, names |-> m.names]
  <2>1. [s \in row.tags |-> w.tags[s]] = m.names
    BY <1>3, <1>5, <1>7 DEF names
  <2>2. QED
    BY <1>7, <1>8, <2>1 DEF Record
<1>12. Record(w, u) = m
  BY <1>11 DEF Metadata
<1>13. QED
  BY <1>8, <1>9, <1>10, <1>12

\* One check: it leaves the card as it was if nothing is to be repaired, syncs
\* the sheet if it needs that, and only otherwise the record.
LEMMA OneCheck ==
  ASSUME NEW v, VaultIsOk(v), NEW u \in Urls, v.rows[u] # None, NEW w, w = Fixed(v, u)
  PROVE  /\ VaultIsOk(w) /\ w.rows[u] # None
         /\ ~NeedsFix(v, u) => w = v
         /\ NeedsFix(v, u) => ~SheetIsFit(v, u) \/ ~RecordIsFit(v, u)
         /\ NeedsFix(v, u) /\ ~SheetIsFit(v, u) =>
              SheetIsFit(w, u) /\ (RecordIsFit(v, u) => RecordIsFit(w, u))
         /\ NeedsFix(v, u) /\ SheetIsFit(v, u) => RecordIsFit(w, u)
<1> DEFINE r == Record(v, u)
           sheet == SheetOf(v, u)
           fix == FixIntegrity(r, sheet)
<1>1. r \in Metadata /\ sheet \in Sheets /\ v.sheets[u][r.update] = sheet /\ sheet # None
  BY FoundSheet
<1>2. NeedsFix(v, u) <=> fix.integrity = "FIXED"
  BY <1>1 DEF NeedsFix, Integrity
<1>3. CASE ~NeedsFix(v, u)
  BY <1>3 DEF NeedsFix, Fixed, FixRecordIntegrity
<1>4. CASE NeedsFix(v, u)
  <2> DEFINE newSheet == SyncSheetFields(r, sheet)
             newRecord == IF newSheet = sheet THEN SyncRecordFields(r, sheet) ELSE r
  <2>1. w = SaveCard(v, u, fix.record, fix.sheet)
    BY <1>1, <1>4 DEF NeedsFix, Fixed, FixRecordIntegrity
  <2>2. fix.record = newRecord /\ fix.sheet = newSheet /\ (newSheet # sheet \/ newRecord # r)
    BY <1>2, <1>4 DEF FixIntegrity
  <2>3. newSheet \in Sheets /\ newSheet.tags = TagNames(r.names)
    BY <1>1, SyncedSheet
  <2>4. newRecord \in Metadata /\ newRecord.names = r.names
    BY <1>1, SyncedRecord
  <2> HIDE DEF fix, newSheet, newRecord, r, sheet
  <2>5. w = SaveCard(v, u, newRecord, newSheet)
    BY <2>1, <2>2
  <2>6. w.rows[u] # None /\ Record(w, u) = newRecord /\ SheetOf(w, u) = newSheet
    BY <2>3, <2>4, <2>5, SavedIsRead DEF r
  <2>7. VaultIsOk(w)
    BY <2>3, <2>4, <2>5, SaveKeeps
  <2>8. /\ SheetIsFit(v, u) <=> newSheet = sheet
        /\ RecordIsFit(v, u) <=> RecordFits(r, sheet)
        /\ SheetIsFit(w, u) <=> SheetFits(newRecord, newSheet)
        /\ RecordIsFit(w, u) <=> RecordFits(newRecord, newSheet)
    BY <2>6 DEF SheetIsFit, RecordIsFit, SheetFits, RecordFits, newSheet, r, sheet
  <2>9. CASE newSheet # sheet
    <3>1. newRecord = r
      BY <2>9 DEF newRecord
    <3>2. SheetFits(r, newSheet) /\ (RecordFits(r, sheet) => RecordFits(r, newSheet))
      BY <1>1, SheetSynced DEF newSheet
    <3>3. QED
      BY <1>4, <2>6, <2>7, <2>8, <2>9, <3>1, <3>2
  <2>10. CASE newSheet = sheet
    <3>1. newRecord = SyncRecordFields(r, sheet)
      BY <2>10 DEF newRecord
    <3>2. RecordFits(newRecord, newSheet)
      BY <1>1, <2>10, <3>1, RecordSynced
    <3>3. ~RecordFits(r, sheet)
      BY <2>2, <2>10, <3>1 DEF RecordFits
    <3>4. QED
      BY <1>4, <2>6, <2>7, <2>8, <2>10, <3>2, <3>3
  <2>11. QED
    BY <2>9, <2>10
<1>5. QED
  BY <1>3, <1>4

\* It changes nothing of another card: the creators and tags that it writes are
\* those that it has read.
LEMMA OneCheckKeepsOthers ==
  ASSUME NEW v, VaultIsOk(v), NEW u \in Urls, v.rows[u] # None, NEW x \in Urls, x # u,
         v.rows[x] # None, NEW w, w = Fixed(v, u)
  PROVE  w.rows[x] # None /\ Record(w, x) = Record(v, x) /\ SheetOf(w, x) = SheetOf(v, x)
<1> DEFINE r == Record(v, u)
           sheet == SheetOf(v, u)
           fix == FixIntegrity(r, sheet)
           m == fix.record
<1>1. r \in Metadata /\ sheet \in Sheets /\ v.sheets[u][r.update] = sheet
  BY FoundSheet
<1>2. CASE w = v
  BY <1>2
<1>3. CASE w # v
  <2>1. w = SaveCard(v, u, m, fix.sheet)
    BY <1>1, <1>3 DEF Fixed, FixRecordIntegrity
  <2>2. m.creator = r.creator /\ m.nick = r.nick /\ m.names = r.names
    BY <1>1, SyncedRecord DEF FixIntegrity
  <2>3. /\ v \in Vaults /\ v.rows \in [Urls -> Rows \cup {None}]
        /\ v.creators \in [Creators -> Nicknames \cup {None}]
        /\ v.tags \in [Slugs -> Names \cup {None}]
        /\ v.sheets \in [Urls -> [Times -> Sheets \cup {None}]]
    BY VaultTypes DEF VaultIsOk
  <2>4. /\ r.creator \in Creators /\ r.nick = v.creators[r.creator]
        /\ r.names = NamesOf(v, u) /\ v.rows[u].tags \in SUBSET Slugs
    BY <2>3, RowTypes DEF Record, NamesOf
  <2> HIDE DEF m, fix, r
  <2>5. w.creators = v.creators
    <3>1. w.creators = [v.creators EXCEPT ![m.creator] = m.nick]
      BY <2>1 DEF SaveCard
    <3>2. QED
      BY <2>2, <2>3, <2>4, <3>1
  <2>6. w.tags = v.tags
    <3>1. w.tags = UpsertTags(v.tags, m.names)
      BY <2>1 DEF SaveCard
    <3>2. \A s \in DOMAIN m.names : v.tags[s] # None
      BY <2>2, <2>4 DEF VaultIsOk, Kept, NamesOf
    <3>3. UpsertTags(v.tags, m.names) = [s \in Slugs |-> v.tags[s]]
      BY <3>2 DEF UpsertTags
    <3>4. QED
      BY <2>3, <3>1, <3>3
  <2>7. w.rows[x] = v.rows[x] /\ w.sheets[x] = v.sheets[x]
    BY <2>1, <2>3 DEF SaveCard
  <2>8. QED
    BY <2>5, <2>6, <2>7 DEF Record, SheetOf
<1>4. QED
  BY <1>2, <1>3

-----------------------------------------------------------------------------
(* Checks of all cards                                                     *)

\* A set of numbers that has a number whenever it has all smaller ones has all.
LEMMA NoLeastMissing ==
  ASSUME NEW S, \A n \in Nat : (\A k \in Nat : k < n => k \in S) => n \in S
  PROVE  Nat \subseteq S
<1> DEFINE R == OpToRel(<, Nat)
           T == Nat \ S
<1>1. IsWellFoundedOn(R, Nat)
  BY NatLessThanWellFounded
<1>2. \A x, y \in Nat : <<y, x>> \in R <=> y < x
  BY DEF OpToRel
<1> HIDE DEF R
<1>3. SUFFICES ASSUME T # {} PROVE FALSE
  OBVIOUS
<1>4. PICK x \in T : \A y \in T : ~(<<y, x>> \in R)
  BY <1>1, <1>3, WFMin
<1>5. \A k \in Nat : k < x => k \in S
  BY <1>2, <1>4
<1>6. QED
  BY <1>4, <1>5

\* What a check of u in v that gave w has done to the card.
Checks(v, w, u) ==
  /\ w.rows[u] # None
  /\ ~NeedsFix(v, u) => ~NeedsFix(w, u)
  /\ NeedsFix(v, u) /\ ~SheetIsFit(v, u) => SheetIsFit(w, u) /\ (RecordIsFit(v, u) => RecordIsFit(w, u))
  /\ NeedsFix(v, u) /\ SheetIsFit(v, u) => RecordIsFit(w, u)

\* The card is in w as it is in v.
SameCard(v, w, u) ==
  w.rows[u] # None /\ Record(w, u) = Record(v, u) /\ SheetOf(w, u) = SheetOf(v, u)

LEMMA SameNeeds ==
  ASSUME NEW v, VaultIsOk(v), NEW w, VaultIsOk(w), NEW u \in Urls, v.rows[u] # None, SameCard(v, w, u)
  PROVE  /\ NeedsFix(w, u) <=> NeedsFix(v, u)
         /\ SheetIsFit(w, u) <=> SheetIsFit(v, u)
         /\ RecordIsFit(w, u) <=> RecordIsFit(v, u)
<1>1. /\ v.sheets[u][Record(v, u).update] = SheetOf(v, u)
      /\ w.sheets[u][Record(w, u).update] = SheetOf(w, u)
  BY FoundSheet DEF SameCard
<1>2. NeedsFix(w, u) <=> NeedsFix(v, u)
  BY <1>1 DEF NeedsFix, Integrity, SameCard
<1>3. QED
  BY <1>2 DEF SheetIsFit, RecordIsFit, SameCard

\* Three checks repair the card, whatever happens to others in between.
LEMMA ThreeRoundsDo ==
  ASSUME NEW v, VaultIsOk(v), NEW v1, VaultIsOk(v1), NEW v2, VaultIsOk(v2), NEW v3, VaultIsOk(v3),
         NEW u \in Urls, v.rows[u] # None,
         Checks(v, v1, u), Checks(v1, v2, u), Checks(v2, v3, u)
  PROVE  ~NeedsFix(v3, u)
<1>1. /\ NeedsFix(v1, u) => ~SheetIsFit(v1, u) \/ ~RecordIsFit(v1, u)
      /\ NeedsFix(v2, u) => ~SheetIsFit(v2, u) \/ ~RecordIsFit(v2, u)
      /\ NeedsFix(v3, u) => ~SheetIsFit(v3, u) \/ ~RecordIsFit(v3, u)
  BY OneCheck DEF Checks
<1>2. QED
  BY <1>1 DEF Checks

\* One more check, in a vault w in which the card u is still as it was in v.
LEMMA CheckInRound ==
  ASSUME NEW v, VaultIsOk(v), NEW w, VaultIsOk(w), NEW u \in Urls, v.rows[u] # None, SameCard(v, w, u),
         NEW next, next = FixRecordIntegrity(w, u, Record(v, u))
  PROVE  /\ VaultIsOk(next) /\ Checks(v, next, u)
         /\ \A x \in Urls \ {u} : w.rows[x] # None => SameCard(w, next, x)
<1>1. next = Fixed(w, u) /\ w.rows[u] # None
  BY DEF Fixed, SameCard
<1>2. \A x \in Urls \ {u} : w.rows[x] # None => SameCard(w, next, x)
  BY <1>1, OneCheckKeepsOthers DEF SameCard
<1>3. /\ VaultIsOk(next) /\ next.rows[u] # None
      /\ ~NeedsFix(w, u) => next = w
      /\ NeedsFix(w, u) /\ ~SheetIsFit(w, u) =>
           SheetIsFit(next, u) /\ (RecordIsFit(w, u) => RecordIsFit(next, u))
      /\ NeedsFix(w, u) /\ SheetIsFit(w, u) => RecordIsFit(next, u)
  BY <1>1, OneCheck
<1>4. QED
  BY <1>2, <1>3, SameNeeds DEF Checks

LEMMA ChecksOfSame ==
  ASSUME NEW v, NEW w, VaultIsOk(w), NEW next, VaultIsOk(next), NEW u \in Urls,
         Checks(v, w, u), SameCard(w, next, u)
  PROVE  Checks(v, next, u)
BY SameNeeds DEF Checks, SameCard

LEMMA SameTwice ==
  ASSUME NEW v, NEW w, NEW next, NEW u, SameCard(v, w, u), SameCard(w, next, u)
  PROVE  SameCard(v, next, u)
BY DEF SameCard

\* The vault that Checked computes on the way exist, one per card.
LEMMA RoundIsDefined ==
  ASSUME NEW v, NEW n \in Nat, NEW order
  PROVE  \E after : after =
           [i \in 0 .. n |-> IF i = 0 THEN v ELSE FixRecordIntegrity(after[i - 1], order[i], Record(v, order[i]))]
<1> DEFINE Step(w, i) == FixRecordIntegrity(w, order[i], Record(v, order[i]))
           IsRound(after, k) == after = [i \in 0 .. k |-> IF i = 0 THEN v ELSE Step(after[i - 1], i)]
           S == {k \in Nat : \E after : IsRound(after, k)}
<1> HIDE DEF Step
<1>1. ASSUME NEW k \in Nat, \A j \in Nat : j < k => j \in S
      PROVE  k \in S
  <2>1. CASE k = 0
    <3> DEFINE f == [i \in 0 .. 0 |-> v]
    <3>1. IsRound(f, 0)
      OBVIOUS
    <3>2. QED
      BY <2>1, <3>1
  <2>2. CASE k # 0
    <3>1. k - 1 \in Nat /\ k - 1 < k
      BY <2>2
    <3>2. PICK g : IsRound(g, k - 1)
      BY <1>1, <3>1
    <3> DEFINE f == [i \in 0 .. k |-> IF i = 0 THEN v ELSE Step(g[i - 1], i)]
    <3>3. \A i \in 0 .. k - 1 : f[i] = g[i]
      BY <3>1, <3>2
    <3>4. \A i \in 0 .. k : i # 0 => i - 1 \in 0 .. k - 1
      BY <3>1
    <3>5. IsRound(f, k)
      BY <3>3, <3>4
    <3>6. QED
      BY <3>5
  <2>3. QED
    BY <2>1, <2>2
<1>2. n \in S
  <2> HIDE DEF S
  <2>1. QED
    BY <1>1, NoLeastMissing
<1>3. QED
  BY <1>2 DEF Step

\* A round of checks, each card once.
LEMMA OneRound ==
  ASSUME NEW v, VaultIsOk(v), NEW n \in Nat, NEW order, order \in [1 .. n -> Urls], Len(order) = n,
         \A i, j \in 1 .. n : i # j => order[i] # order[j],
         \A i \in 1 .. n : v.rows[order[i]] # None
  PROVE  /\ VaultIsOk(Checked(v, order))
         /\ \A i \in 1 .. n : Checks(v, Checked(v, order), order[i])
<1> DEFINE Step(w, i) == FixRecordIntegrity(w, order[i], Record(v, order[i]))
           IsRound(after) == after = [i \in 0 .. n |-> IF i = 0 THEN v ELSE Step(after[i - 1], i)]
           g == CHOOSE after : IsRound(after)
<1>1. IsRound(g)
  BY RoundIsDefined
<1>2. Checked(v, order) = g[n]
  BY DEF Checked
<1> HIDE DEF g, Step
<1> DEFINE Done(i) == /\ VaultIsOk(g[i])
                      /\ \A j \in 1 .. n : IF j <= i THEN Checks(v, g[i], order[j])
                                           ELSE SameCard(v, g[i], order[j])
           S == {i \in Nat : i <= n => Done(i)}
<1>3. ASSUME NEW k \in Nat, \A j \in Nat : j < k => j \in S
      PROVE  k \in S
  <2>1. CASE k > n
    BY <2>1
  <2>2. CASE k = 0
    <3>1. g[0] = v
      BY <1>1
    <3>2. Done(0)
      BY <3>1 DEF SameCard
    <3>3. QED
      BY <2>2, <3>2
  <2>3. CASE k \in 1 .. n
    <3>1. k - 1 \in Nat /\ k - 1 < k /\ k - 1 <= n
      BY <2>3
    <3>2. Done(k - 1)
      BY <1>3, <3>1
    <3> DEFINE w == g[k - 1]
               u == order[k]
               next == g[k]
    <3>3. next = Step(w, k)
      BY <1>1, <2>3
    <3>4. u \in Urls /\ v.rows[u] # None /\ VaultIsOk(w) /\ SameCard(v, w, u)
      BY <2>3, <3>2
    <3>5. /\ VaultIsOk(next) /\ Checks(v, next, u)
          /\ \A x \in Urls \ {u} : w.rows[x] # None => SameCard(w, next, x)
      BY <3>3, <3>4, CheckInRound DEF Step
    <3>6. ASSUME NEW j \in 1 .. n
          PROVE  IF j <= k THEN Checks(v, next, order[j]) ELSE SameCard(v, next, order[j])
      <4>1. CASE j = k
        BY <3>5, <4>1
      <4>2. CASE j < k
        <5>1. order[j] \in Urls \ {u} /\ Checks(v, w, order[j])
          BY <2>3, <3>2, <4>2
        <5>2. w.rows[order[j]] # None
          BY <5>1 DEF Checks
        <5>3. Checks(v, next, order[j])
          BY <3>4, <3>5, <5>1, <5>2, ChecksOfSame
        <5>4. QED
          BY <4>2, <5>3
      <4>3. CASE j > k
        <5>1. order[j] \in Urls \ {u} /\ SameCard(v, w, order[j])
          BY <2>3, <3>2, <4>3
        <5>2. SameCard(v, next, order[j])
          BY <3>5, <5>1, SameTwice DEF SameCard
        <5>3. QED
          BY <2>3, <4>3, <5>2
      <4>4. QED
        BY <2>3, <4>1, <4>2, <4>3
    <3>7. Done(k)
      BY <3>5, <3>6
    <3>8. QED
      BY <3>7
  <2>4. QED
    BY <2>1, <2>2, <2>3
<1>4. n \in S
  <2> HIDE DEF S
  <2>1. QED
    BY <1>3, NoLeastMissing
<1>5. QED
  BY <1>2, <1>4

-----------------------------------------------------------------------------
(* Every step keeps the invariant                                          *)

LEMMA InitKeeps ==
  ASSUME Init
  PROVE  IInv
<1>1. vault = EmptyVault /\ checking = FALSE /\ DOMAIN snapshot = {} /\ repair = None
  BY DEF Init
<1>2. VaultIsOk(vault)
  BY <1>1 DEF EmptyVault, VaultIsOk, Vaults, Kept
<1>3. Checking
  BY <1>1 DEF Checking
<1>4. QED
  BY <1>2, <1>3 DEF IInv

LEMMA SaveStep ==
  ASSUME IInv, NEW u \in Urls, Save(u)
  PROVE  IInv'
<1>1. PICK f \in Fetched[u] : vault' = SaveCard(vault, u, f.metadata, f.sheet)
  BY DEF Save
<1>2. f.metadata \in Metadata /\ f.sheet \in Sheets
  BY FetchedIsWhatMayBeSaved
<1>3. VaultIsOk(vault')
  BY <1>1, <1>2, SaveKeeps DEF IInv
<1>4. QED
  BY <1>3 DEF IInv, Checking, Save, VaultIsOk

LEMMA DeleteStep ==
  ASSUME IInv, NEW u \in Urls, Delete(u)
  PROVE  IInv'
<1>1. VaultIsOk(vault')
  BY DeleteKeeps DEF IInv, Delete
<1>2. Checking'
  BY DEF IInv, Checking, Delete
<1>3. QED
  BY <1>1, <1>2 DEF IInv, VaultIsOk

LEMMA MarkStep ==
  ASSUME IInv, NEW us \in SUBSET Stored(vault), NEW mark \in BOOLEAN, Mark(us, mark)
  PROVE  IInv'
<1>1. VaultIsOk(vault')
  BY MarkKeeps DEF IInv
<1>2. QED
  BY <1>1 DEF IInv, Checking, Mark, VaultIsOk

LEMMA SyncDataStep ==
  ASSUME IInv, NEW u \in Urls, UpdateSyncData(u)
  PROVE  IInv'
<1>1. VaultIsOk(vault')
  BY SyncDataKeeps DEF IInv
<1>2. QED
  BY <1>1 DEF IInv, Checking, UpdateSyncData, VaultIsOk

LEMMA CheckStartStep ==
  ASSUME IInv, CheckStart
  PROVE  IInv'
<1>1. \A u \in Stored(vault) : u \in Urls /\ Record(vault, u) \in Metadata
  BY RecordIsMetadata DEF Stored, IInv
<1>2. Checking'
  BY <1>1 DEF IInv, Checking, CheckStart
<1>3. QED
  BY <1>2 DEF IInv, CheckStart, VaultIsOk

LEMMA CheckOneStep ==
  ASSUME IInv, NEW u \in Urls, CheckOne(u)
  PROVE  IInv'
<1> DEFINE r == snapshot[u]
           fix == FixIntegrity(r, vault.sheets[u][r.update])
<1>1. u \in DOMAIN snapshot /\ Checking /\ r \in Metadata /\ vault \in Vaults
  BY DEF IInv, Checking, CheckOne, VaultIsOk
<1>2. repair' = None \/ (repair'.url \in Urls /\ repair'.record \in Metadata /\ repair'.sheet \in Sheets)
  <2>1. CASE Integrity(vault, u, r) # "FIXED"
    BY <2>1 DEF CheckOne
  <2>2. CASE Integrity(vault, u, r) = "FIXED"
    <3>1. vault.sheets[u][r.update] \in Sheets
      BY <1>1, <2>2, VaultTypes, MetadataTypes DEF Integrity
    <3>2. repair' = [url |-> u, record |-> fix.record, sheet |-> fix.sheet]
      BY <2>2 DEF CheckOne
    <3>3. fix.record \in Metadata /\ fix.sheet \in Sheets
      BY <1>1, <3>1, FixTypes
    <3> HIDE DEF fix
    <3>4. QED
      BY <3>2, <3>3
  <2>3. QED
    BY <2>1, <2>2
<1>3. checking'
  BY <1>1 DEF CheckOne, Checking
<1>4. /\ DOMAIN snapshot' \subseteq Urls /\ checking' \in BOOLEAN
      /\ \A w \in DOMAIN snapshot' : snapshot'[w] \in Metadata
  BY <1>1 DEF CheckOne, Checking
<1>5. Checking'
  BY <1>2, <1>3, <1>4 DEF Checking
<1>6. QED
  BY <1>5 DEF IInv, CheckOne, VaultIsOk

LEMMA RepairStep ==
  ASSUME IInv, Repair
  PROVE  IInv'
<1>1. repair.url \in Urls /\ repair.record \in Metadata /\ repair.sheet \in Sheets
  BY DEF IInv, Checking, Repair
<1>2. VaultIsOk(vault')
  BY <1>1, SaveKeeps DEF IInv, Repair
<1>3. Checking'
  BY DEF IInv, Checking, Repair
<1>4. QED
  BY <1>2, <1>3 DEF IInv, VaultIsOk

LEMMA CheckEndStep ==
  ASSUME IInv, CheckEnd
  PROVE  IInv'
<1>1. VaultIsOk(vault')
  BY CleanupKeeps DEF IInv, CheckEnd
<1>2. Checking'
  BY DEF IInv, Checking, CheckEnd
<1>3. QED
  BY <1>1, <1>2 DEF IInv, VaultIsOk

-----------------------------------------------------------------------------
(* The theorems                                                            *)

\* In every reachable state a row's creator and tags are there, its card is in
\* its version, and a check holds records that were read.
THEOREM RecordsInvariance == Spec => []IInv
<1>1. Init => IInv
  BY InitKeeps
<1>2. IInv /\ [Next]_vars => IInv'
  <2>1. IInv /\ UNCHANGED vars => IInv'
    BY DEF IInv, Checking, VaultIsOk, vars
  <2>2. QED
    BY <2>1, SaveStep, DeleteStep, MarkStep, SyncDataStep, CheckStartStep, CheckOneStep, RepairStep,
       CheckEndStep DEF Next
<1>3. QED
  BY <1>1, <1>2, PTL DEF Spec

\* The tables, the cards and a check have their types.
THEOREM RecordTypesCorrect == Spec => []TypeOK
<1>1. IInv => TypeOK
  BY VaultTypes DEF IInv, VaultIsOk, Checking, TypeOK
<1>2. QED
  BY <1>1, RecordsInvariance, PTL

\* Every record has its card, and a search finds it by the card's text; a card
\* that was deleted is found by nothing.
THEOREM RecordsSearchable == Spec => []Searchable
<1>1. IInv => Searchable
  BY DEF IInv, VaultIsOk, Kept, SheetOf, Searchable
<1>2. QED
  BY <1>1, RecordsInvariance, PTL

\* A card has the names that the store shows for its tags.
THEOREM CardsHaveTagNames == Spec => []CardHasTagNames
<1>1. ASSUME IInv, NEW u \in Stored(vault)
      PROVE  vault.sheets[u][vault.rows[u].update].tags = TagNames(Record(vault, u).names)
  <2>1. Kept(vault, u) /\ vault.rows[u] # None
    BY <1>1 DEF IInv, VaultIsOk, Stored
  <2>2. Record(vault, u).names = NamesOf(vault, u)
    BY DEF Record, NamesOf
  <2>3. QED
    BY <2>1, <2>2 DEF Kept, SheetOf
<1>2. IInv => CardHasTagNames
  BY <1>1 DEF CardHasTagNames
<1>3. QED
  BY <1>2, RecordsInvariance, PTL

\* Only finitely many cards are stored.
Finite == IsFiniteSet(Stored(vault))

LEMMA StoredStaysFinite ==
  ASSUME IInv, Finite, [Next]_vars
  PROVE  Finite'
<1>1. \E u : Stored(vault') \in SUBSET (Stored(vault) \cup {u})
  <2>0. vault \in Vaults
    BY DEF IInv, VaultIsOk
  <2>1. vault.rows \in [Urls -> Rows \cup {None}]
    BY <2>0, VaultTypes
  <2>2. ASSUME NEW u, NEW m, NEW sheet, vault' = SaveCard(vault, u, m, sheet)
        PROVE  Stored(vault') \in SUBSET (Stored(vault) \cup {u})
    BY <2>1, <2>2 DEF SaveCard, Stored
  <2>3. ASSUME NEW u \in Urls, Save(u) \/ Delete(u) \/ UpdateSyncData(u) \/ CheckOne(u)
        PROVE  Stored(vault') \in SUBSET (Stored(vault) \cup {u})
    <3>1. CASE Save(u)
      BY <2>2, <3>1 DEF Save
    <3>2. CASE Delete(u)
      BY <2>1, <3>2 DEF Delete, DeleteCard, Stored
    <3>3. CASE UpdateSyncData(u)
      <4>1. PICK status \in Statuses : vault' = [vault EXCEPT !.rows[u].status = status]
        BY <3>3 DEF UpdateSyncData
      <4>2. \A x \in Urls \ {u} : vault'.rows[x] = vault.rows[x]
        BY <2>1, <4>1 DEF VaultIsOk
      <4>3. QED
        BY <4>2 DEF Stored
    <3>4. CASE CheckOne(u)
      BY <3>4 DEF CheckOne, Stored
    <3>5. QED
      BY <2>3, <3>1, <3>2, <3>3, <3>4
  <2>4. ASSUME NEW us \in SUBSET Stored(vault), NEW mark, Mark(us, mark)
        PROVE  Stored(vault') \in SUBSET Stored(vault)
    BY <2>1, <2>4 DEF Mark, Stored
  <2>5. CASE Repair
    BY <2>2, <2>5 DEF Repair
  <2>6. CASE CheckStart \/ CheckEnd \/ UNCHANGED vars
    <3>1. vault'.rows = vault.rows
      <4>1. CASE CheckEnd
        BY <2>0, <4>1 DEF CheckEnd, CleanupCreators, Vaults
      <4>2. QED
        BY <2>6, <4>1 DEF CheckStart, vars
    <3>2. QED
      BY <3>1 DEF Stored
  <2>7. QED
    BY <2>3, <2>4, <2>5, <2>6 DEF Next
<1>2. PICK u : Stored(vault') \in SUBSET (Stored(vault) \cup {u})
  BY <1>1
<1>3. IsFiniteSet(Stored(vault) \cup {u})
  BY FS_AddElement DEF Finite
<1>4. IsFiniteSet(Stored(vault'))
  BY <1>2, <1>3, FS_Subset
<1>5. QED
  BY <1>4 DEF Finite, Stored

LEMMA OnlyFinitelyMany == Spec => []Finite
<1>1. Init => Finite
  <2>1. Init => Stored(vault) = {}
    BY DEF Init, EmptyVault, Stored
  <2>2. QED
    BY <2>1, FS_EmptySet DEF Finite
<1>2. IInv /\ Finite /\ [Next]_vars => Finite'
  BY StoredStaysFinite
<1>3. QED
  BY <1>1, <1>2, RecordsInvariance, PTL DEF Spec

\* An order has all cards, each once.
LEMMA OrdersAreComplete ==
  ASSUME NEW S, IsFiniteSet(S), NEW order \in SetToSeqs(S)
  PROVE  /\ Cardinality(S) \in Nat /\ Len(order) = Cardinality(S)
         /\ order \in [1 .. Cardinality(S) -> S]
         /\ \A i, j \in 1 .. Cardinality(S) : i # j => order[i] # order[j]
         /\ \A u \in S : \E i \in 1 .. Cardinality(S) : order[i] = u
<1> DEFINE n == Cardinality(S)
<1>1. n \in Nat
  BY FS_CardinalityType
<1>2. order \in [1 .. n -> S] /\ \A i, j \in 1 .. n : i # j => order[i] # order[j]
  BY DEF SetToSeqs
<1> HIDE DEF n
<1>3. Len(order) = n
  <2>1. order \in Seq(S) /\ DOMAIN order = 1 .. n
    BY <1>1, <1>2
  <2>2. QED
    BY <1>1, <2>1
<1>4. order \in Injection(1 .. n, S)
  BY <1>2 DEF Injection, IsInjective
<1>5. IsFiniteSet(1 .. n) /\ Cardinality(1 .. n) = n
  BY <1>1, FS_Interval
<1>6. order \in Surjection(1 .. n, S)
  BY <1>4, <1>5, FS_Injection DEF n
<1>7. QED
  BY <1>1, <1>2, <1>3, <1>6 DEF Surjection, n

\* Whatever records and sheets the cards have, three checks by themselves end all
\* repairs, in whatever order the workers take the cards (FixRecordIntegrity).
THEOREM ChecksDoConverge == Spec => []ChecksConverge
<1>1. ASSUME IInv, Finite, NEW order \in Orders
      PROVE  LET done == Checked(Checked(Checked(vault, order), order), order)
             IN  \A u \in Stored(vault) : Integrity(done, u, Record(done, u)) # "FIXED"
  <2> DEFINE S == Stored(vault)
             n == Cardinality(S)
             v1 == Checked(vault, order)
             v2 == Checked(v1, order)
             v3 == Checked(v2, order)
  <2>1. /\ n \in Nat /\ Len(order) = n /\ order \in [1 .. n -> S]
        /\ \A i, j \in 1 .. n : i # j => order[i] # order[j]
        /\ \A u \in S : \E i \in 1 .. n : order[i] = u
    BY <1>1, OrdersAreComplete DEF Orders, Finite
  <2>2. VaultIsOk(vault) /\ \A u \in S : u \in Urls /\ vault.rows[u] # None
    BY <1>1 DEF IInv, Stored
  <2>3. order \in [1 .. n -> Urls]
    BY <2>1, <2>2
  <2> HIDE DEF S, n
  <2>4. VaultIsOk(v1) /\ \A i \in 1 .. n : Checks(vault, v1, order[i])
    BY <2>1, <2>2, <2>3, OneRound
  <2> HIDE DEF v1
  <2>5. VaultIsOk(v2) /\ \A i \in 1 .. n : Checks(v1, v2, order[i])
    <3>1. \A i \in 1 .. n : v1.rows[order[i]] # None
      BY <2>4 DEF Checks
    <3>2. QED
      BY <2>1, <2>3, <2>4, <3>1, OneRound
  <2> HIDE DEF v2
  <2>6. VaultIsOk(v3) /\ \A i \in 1 .. n : Checks(v2, v3, order[i])
    <3>1. \A i \in 1 .. n : v2.rows[order[i]] # None
      BY <2>5 DEF Checks
    <3>2. QED
      BY <2>1, <2>3, <2>5, <3>1, OneRound
  <2> HIDE DEF v3
  <2>7. \A u \in S : ~NeedsFix(v3, u)
    <3> TAKE u \in S
    <3>1. PICK i \in 1 .. n : order[i] = u
      BY <2>1
    <3>2. QED
      BY <2>2, <2>4, <2>5, <2>6, <3>1, ThreeRoundsDo
  <2>8. QED
    BY <2>7 DEF NeedsFix, S, v1, v2, v3
<1>2. IInv /\ Finite => ChecksConverge
  BY <1>1 DEF ChecksConverge
<1>3. QED
  BY <1>2, RecordsInvariance, OnlyFinitelyMany, PTL
=============================================================================
