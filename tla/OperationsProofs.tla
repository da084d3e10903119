--------------------------- MODULE OperationsProofs ---------------------------
(***************************************************************************)
(* Proofs about VaultManager, for any goroutines, vaults and bounds, and   *)
(* about Operations, for any operations, clients and cards besides.        *)
(***************************************************************************)
EXTENDS Operations, SequenceTheorems, FiniteSetTheorems, TLAPS

(***************************************************************************)
(* VaultManager.  That an operation uses an open catalog rests on the lock *)
(* (Locks): who swaps or closes the loaded vault excludes all readers.     *)
(* That no catalog is closed by the wrong goroutine rests on the handles   *)
(* (Handles): the loaded catalog, the one that LoadVault closes and those  *)
(* of the imports are all different.  That imports keep apart rests on the *)
(* names (Apart): an import's name is one of the library's vaults from its *)
(* Create on.                                                              *)
(***************************************************************************)

Types == TypeOK /\ pc \in [Goroutines -> PCs]

Locks == \A g \in Goroutines :
  /\ pc[g] \in {"load", "close"} <=> writer = g
  /\ pc[g] = "using" <=> g \in readers

Targets == \A g \in Goroutines : pc[g] \in {"load", "create", "open"} => target[g] \in Names

Handles == \A g \in Goroutines :
  /\ pc[g] = "using" => cat[g] = vault /\ vault # None
  /\ pc[g] = "close" => cat[g] # vault \/ cat[g] = None
  /\ pc[g] = "import" =>
       /\ cat[g] # None /\ cat[g] # vault
       /\ \A h \in Goroutines : h # g /\ pc[h] \in {"close", "import"} => cat[h] # cat[g]

\* The vault that an import has created.
Importing(g) == pc[g] \in {"open", "import"} /\ g \notin undone
Made(g) == IF pc[g] = "open" THEN target[g] ELSE catalogs[cat[g]].vault

Apart == \A g \in Goroutines : Importing(g) =>
  /\ Made(g) \in vaults
  /\ \A h \in Goroutines : h # g /\ Importing(h) => Made(h) # Made(g)

IInv == Types /\ Locks /\ Targets /\ Handles /\ OpenIsHeld /\ Apart

-----------------------------------------------------------------------------
(* What opening, closing and deleting do to the sequence of catalogs       *)

\* A new catalog comes last and changes no other.
LEMMA OpenedIsLast ==
  ASSUME catalogs \in Seq(Catalog), NEW n \in Names
  PROVE  /\ Opened(n) \in Seq(Catalog)
         /\ Len(Opened(n)) = Len(catalogs) + 1
         /\ \A i \in 1 .. Len(catalogs) : Opened(n)[i] = catalogs[i]
         /\ Opened(n)[Len(catalogs) + 1].vault = n
         /\ Opened(n)[Len(catalogs) + 1].open
<1> DEFINE c == [vault |-> n, open |-> TRUE, removed |-> FALSE]
<1>1. c \in Catalog
  BY DEF Catalog
<1>2. Opened(n) = Append(catalogs, c)
  BY DEF Opened
<1> HIDE DEF c
<1>3. /\ Append(catalogs, c) \in Seq(Catalog)
      /\ Len(Append(catalogs, c)) = Len(catalogs) + 1
      /\ \A i \in 1 .. Len(catalogs) : Append(catalogs, c)[i] = catalogs[i]
      /\ Append(catalogs, c)[Len(catalogs) + 1] = c
  BY <1>1, AppendProperties
<1>4. c.vault = n /\ c.open
  BY DEF c
<1>5. QED
  BY <1>2, <1>3, <1>4

\* Closing one catalog leaves the others, and every catalog's vault.
LEMMA ClosedIsClosed ==
  ASSUME catalogs \in Seq(Catalog), NEW i \in (1 .. Len(catalogs)) \cup {None}
  PROVE  /\ Closed(i) \in Seq(Catalog)
         /\ Len(Closed(i)) = Len(catalogs)
         /\ \A j \in 1 .. Len(catalogs) :
              /\ Closed(i)[j].vault = catalogs[j].vault
              /\ j # i \/ i = None => Closed(i)[j].open = catalogs[j].open
              /\ j = i /\ i # None => ~Closed(i)[j].open
<1>1. CASE i = None
  BY <1>1 DEF Closed
<1>2. CASE i # None
  <2>1. i \in 1 .. Len(catalogs)
    BY <1>2
  <2>2. catalogs[i] \in Catalog
    BY <2>1, ElementOfSeq
  <2> DEFINE c == [catalogs[i] EXCEPT !.open = FALSE]
  <2>3. c \in Catalog /\ c.vault = catalogs[i].vault /\ ~c.open
    BY <2>2 DEF Catalog
  <2>4. Closed(i) = [catalogs EXCEPT ![i] = c]
    BY <1>2 DEF Closed
  <2> HIDE DEF c
  <2>5. /\ Closed(i) \in Seq(Catalog)
        /\ Len(Closed(i)) = Len(catalogs)
        /\ \A j \in 1 .. Len(catalogs) : Closed(i)[j] = IF j = i THEN c ELSE catalogs[j]
    BY <2>1, <2>3, <2>4, ExceptSeq
  <2>6. QED
    BY <1>2, <2>3, <2>5
<1>3. QED
  BY <1>1, <1>2

\* Deleting a vault's directory closes no catalog.
LEMMA DeletedStaysOpen ==
  ASSUME catalogs \in Seq(Catalog), NEW n \in Names, Delete(n)
  PROVE  /\ catalogs' \in Seq(Catalog)
         /\ Len(catalogs') = Len(catalogs)
         /\ \A j \in 1 .. Len(catalogs) :
              catalogs'[j].vault = catalogs[j].vault /\ catalogs'[j].open = catalogs[j].open
<1> DEFINE c(j) == IF catalogs[j].vault = n THEN [catalogs[j] EXCEPT !.removed = TRUE] ELSE catalogs[j]
<1>1. DOMAIN catalogs = 1 .. Len(catalogs) /\ Len(catalogs) \in Nat
  BY LenProperties
<1>2. \A j \in 1 .. Len(catalogs) :
        c(j) \in Catalog /\ c(j).vault = catalogs[j].vault /\ c(j).open = catalogs[j].open
  <2> TAKE j \in 1 .. Len(catalogs)
  <2>1. catalogs[j] \in Catalog
    BY ElementOfSeq
  <2>2. QED
    BY <2>1 DEF Catalog
<1>3. catalogs' = [j \in 1 .. Len(catalogs) |-> c(j)]
  BY <1>1 DEF Delete
<1> HIDE DEF c
<1>4. catalogs' \in Seq(Catalog) /\ Len(catalogs') = Len(catalogs)
  BY <1>1, <1>2, <1>3, IsASeq, LenProperties
<1>5. QED
  BY <1>2, <1>3, <1>4

-----------------------------------------------------------------------------

\* At first nothing is open and nobody holds anything.
LEMMA InitIInv == Init => IInv
<1> SUFFICES ASSUME Init PROVE IInv
  OBVIOUS
<1> USE DEF Init
<1>1. Types
  <2>1. catalogs \in Seq(Catalog) /\ Len(catalogs) = 0
    BY EmptySeq
  <2>2. QED
    BY <2>1, VaultBounds DEF Types, TypeOK, PCs
<1>2. Locks /\ Targets /\ Handles /\ Apart
  BY NobodyIsNoGoroutine DEF Locks, Targets, Handles, Apart, Importing
<1>3. OpenIsHeld
  BY DEF OpenIsHeld
<1>4. QED
  BY <1>1, <1>2, <1>3 DEF IInv

\* Every step keeps the invariant.
LEMMA NextIInv == IInv /\ [Next]_vars => IInv'
<1> SUFFICES ASSUME IInv, [Next]_vars PROVE IInv'
  OBVIOUS
<1> USE NobodyIsNoGoroutine, NoneIsNoCatalog, VaultBounds
<1> USE DEF IInv, Types, TypeOK, PCs, Locks, Targets, Handles, OpenIsHeld, Apart, Importing, Made, Goto, Set
<1>1. DOMAIN catalogs = 1 .. Len(catalogs) /\ Len(catalogs) \in Nat
  BY LenProperties
<1>2. ASSUME NEW g \in Goroutines, NEW n \in Names, LoadVault(g, n) PROVE IInv'
  <2>1. Types'
    BY <1>1, <1>2 DEF LoadVault, TryLock
  <2>2. Locks'
    BY <1>1, <1>2 DEF LoadVault, TryLock
  <2>3. Targets'
    BY <1>1, <1>2 DEF LoadVault, TryLock
  <2>4. Handles'
    BY <1>1, <1>2 DEF LoadVault, TryLock
  <2>5. OpenIsHeld'
    BY <1>1, <1>2 DEF LoadVault, TryLock
  <2>6. Apart'
    BY <1>1, <1>2 DEF LoadVault, TryLock
  <2>7. QED
    BY <2>1, <2>2, <2>3, <2>4, <2>5, <2>6
<1>3. ASSUME NEW g \in Goroutines, LoadSwap(g) PROVE IInv'
  <2>1. target[g] \in Names /\ catalogs' = Opened(target[g])
    BY <1>3 DEF LoadSwap, CanOpen
  <2>2. /\ catalogs' \in Seq(Catalog) /\ Len(catalogs') = Len(catalogs) + 1
        /\ DOMAIN catalogs' = 1 .. Len(catalogs) + 1
        /\ \A i \in 1 .. Len(catalogs) : catalogs'[i] = catalogs[i]
        /\ catalogs'[Len(catalogs) + 1].vault = target[g]
        /\ catalogs'[Len(catalogs) + 1].open
    BY <2>1, OpenedIsLast, LenProperties
  <2>3. Types'
    BY <1>1, <1>3, <2>1, <2>2 DEF LoadSwap, CanOpen
  <2>4. Locks'
    BY <1>1, <1>3, <2>1, <2>2 DEF LoadSwap, CanOpen
  <2>5. Targets'
    BY <1>1, <1>3, <2>1, <2>2 DEF LoadSwap, CanOpen
  <2>6. Handles'
    BY <1>1, <1>3, <2>1, <2>2 DEF LoadSwap, CanOpen
  <2>7. OpenIsHeld'
    BY <1>1, <1>3, <2>1, <2>2 DEF LoadSwap, CanOpen
  <2>8. Apart'
    BY <1>1, <1>3, <2>1, <2>2 DEF LoadSwap, CanOpen
  <2>9. QED
    BY <2>3, <2>4, <2>5, <2>6, <2>7, <2>8
<1>4. ASSUME NEW g \in Goroutines, LoadFails(g) PROVE IInv'
  <2>1. Types'
    BY <1>1, <1>4 DEF LoadFails
  <2>2. Locks'
    BY <1>1, <1>4 DEF LoadFails
  <2>3. Targets'
    BY <1>1, <1>4 DEF LoadFails
  <2>4. Handles'
    BY <1>1, <1>4 DEF LoadFails
  <2>5. OpenIsHeld'
    BY <1>1, <1>4 DEF LoadFails
  <2>6. Apart'
    BY <1>1, <1>4 DEF LoadFails
  <2>7. QED
    BY <2>1, <2>2, <2>3, <2>4, <2>5, <2>6
<1>5. ASSUME NEW g \in Goroutines, LoadCloseOld(g) PROVE IInv'
  <2>1. PICK i \in (1 .. Len(catalogs)) \cup {None} : i = cat[g] /\ catalogs' = Closed(i)
    BY <1>5 DEF LoadCloseOld
  <2>2. /\ catalogs' \in Seq(Catalog) /\ Len(catalogs') = Len(catalogs)
        /\ DOMAIN catalogs' = 1 .. Len(catalogs)
        /\ \A j \in 1 .. Len(catalogs) :
             /\ catalogs'[j].vault = catalogs[j].vault
             /\ j # i \/ i = None => catalogs'[j].open = catalogs[j].open
             /\ j = i /\ i # None => ~catalogs'[j].open
    <3>1. catalogs' \in Seq(Catalog) /\ Len(catalogs') = Len(catalogs)
      BY <2>1, ClosedIsClosed
    <3>2. DOMAIN catalogs' = 1 .. Len(catalogs)
      BY <3>1, LenProperties
    <3>3. QED
      BY <2>1, <3>1, <3>2, ClosedIsClosed
  <2>3. Types'
    BY <1>1, <1>5, <2>1, <2>2 DEF LoadCloseOld
  <2>4. Locks'
    BY <1>1, <1>5, <2>1, <2>2 DEF LoadCloseOld
  <2>5. Targets'
    BY <1>1, <1>5, <2>1, <2>2 DEF LoadCloseOld
  <2>6. Handles'
    BY <1>1, <1>5, <2>1, <2>2 DEF LoadCloseOld
  <2>7. OpenIsHeld'
    <3>1. vault' = vault /\ (vault # None => vault # i)
      BY <1>1, <1>5, <2>1, <2>2 DEF LoadCloseOld
    <3>2. \A h \in Goroutines : h # g => pc'[h] = pc[h] /\ cat'[h] = cat[h]
      BY <1>1, <1>5, <2>1, <2>2 DEF LoadCloseOld
    <3>3. ASSUME NEW j \in DOMAIN catalogs', catalogs'[j].open
          PROVE  j = vault \/ \E h \in Goroutines : pc'[h] \in {"close", "import"} /\ cat'[h] = j
      <4>1. j \in DOMAIN catalogs /\ catalogs[j].open /\ j # i
        BY <1>1, <2>2, <3>3
      <4>2. QED
        BY <2>1, <3>2, <4>1
    <3>4. vault # None => catalogs'[vault].open
      BY <2>2, <3>1
    <3>5. QED
      BY <3>1, <3>3, <3>4
  <2>8. Apart'
    <3>1. ASSUME NEW h \in Goroutines, Importing(h)'
          PROVE  Importing(h) /\ Made(h)' = Made(h)
      <4>1. h # g /\ pc'[h] = pc[h] /\ cat'[h] = cat[h] /\ target'[h] = target[h] /\ Importing(h)
        BY <1>1, <1>5, <2>1, <2>2, <3>1 DEF LoadCloseOld
      <4>2. CASE pc[h] = "open"
        BY <4>1, <4>2
      <4>3. CASE pc[h] = "import"
        <5>1. cat[h] \in 1 .. Len(catalogs)
          BY <4>3
        <5>2. catalogs'[cat[h]].vault = catalogs[cat[h]].vault
          BY <2>2, <5>1
        <5>3. QED
          BY <4>1, <4>3, <5>2
      <4>4. QED
        BY <4>1, <4>2, <4>3
    <3>2. vaults' = vaults
      BY <1>5 DEF LoadCloseOld
    <3> HIDE DEF Importing, Made
    <3>3. QED
      BY <3>1, <3>2
  <2>9. QED
    BY <2>3, <2>4, <2>5, <2>6, <2>7, <2>8
<1>6. ASSUME NEW g \in Goroutines, UnloadVault(g) PROVE IInv'
  <2>1. PICK i \in (1 .. Len(catalogs)) \cup {None} : i = vault /\ catalogs' = Closed(i)
    BY <1>6 DEF UnloadVault
  <2>2. /\ catalogs' \in Seq(Catalog) /\ Len(catalogs') = Len(catalogs)
        /\ DOMAIN catalogs' = 1 .. Len(catalogs)
        /\ \A j \in 1 .. Len(catalogs) :
             /\ catalogs'[j].vault = catalogs[j].vault
             /\ j # i \/ i = None => catalogs'[j].open = catalogs[j].open
             /\ j = i /\ i # None => ~catalogs'[j].open
    <3>1. catalogs' \in Seq(Catalog) /\ Len(catalogs') = Len(catalogs)
      BY <2>1, ClosedIsClosed
    <3>2. DOMAIN catalogs' = 1 .. Len(catalogs)
      BY <3>1, LenProperties
    <3>3. QED
      BY <2>1, <3>1, <3>2, ClosedIsClosed
  <2>3. Types'
    BY <1>1, <1>6, <2>1, <2>2 DEF UnloadVault
  <2>4. Locks'
    BY <1>1, <1>6, <2>1, <2>2 DEF UnloadVault
  <2>5. Targets'
    BY <1>1, <1>6, <2>1, <2>2 DEF UnloadVault
  <2>6. Handles'
    BY <1>1, <1>6, <2>1, <2>2 DEF UnloadVault
  <2>7. OpenIsHeld'
    BY <1>1, <1>6, <2>1, <2>2 DEF UnloadVault
  <2>8. Apart'
    BY <1>1, <1>6, <2>1, <2>2 DEF UnloadVault
  <2>9. QED
    BY <2>3, <2>4, <2>5, <2>6, <2>7, <2>8
<1>7. ASSUME NEW g \in Goroutines, BeginOp(g) PROVE IInv'
  <2>1. Types'
    BY <1>1, <1>7 DEF BeginOp, BeginReadOp
  <2>2. Locks'
    BY <1>1, <1>7 DEF BeginOp, BeginReadOp
  <2>3. Targets'
    BY <1>1, <1>7 DEF BeginOp, BeginReadOp
  <2>4. Handles'
    BY <1>1, <1>7 DEF BeginOp, BeginReadOp
  <2>5. OpenIsHeld'
    BY <1>1, <1>7 DEF BeginOp, BeginReadOp
  <2>6. Apart'
    BY <1>1, <1>7 DEF BeginOp, BeginReadOp
  <2>7. QED
    BY <2>1, <2>2, <2>3, <2>4, <2>5, <2>6
<1>8. ASSUME NEW g \in Goroutines, EndOp(g) PROVE IInv'
  <2>1. Types'
    BY <1>1, <1>8 DEF EndOp
  <2>2. Locks'
    BY <1>1, <1>8 DEF EndOp
  <2>3. Targets'
    BY <1>1, <1>8 DEF EndOp
  <2>4. Handles'
    BY <1>1, <1>8 DEF EndOp
  <2>5. OpenIsHeld'
    BY <1>1, <1>8 DEF EndOp
  <2>6. Apart'
    BY <1>1, <1>8 DEF EndOp
  <2>7. QED
    BY <2>1, <2>2, <2>3, <2>4, <2>5, <2>6
<1>9. ASSUME NEW g \in Goroutines, NEW n \in Names, ImportVault(g, n) PROVE IInv'
  <2>1. Types'
    BY <1>1, <1>9 DEF ImportVault
  <2>2. Locks'
    BY <1>1, <1>9 DEF ImportVault
  <2>3. Targets'
    BY <1>1, <1>9 DEF ImportVault
  <2>4. Handles'
    BY <1>1, <1>9 DEF ImportVault
  <2>5. OpenIsHeld'
    BY <1>1, <1>9 DEF ImportVault
  <2>6. Apart'
    BY <1>1, <1>9 DEF ImportVault
  <2>7. QED
    BY <2>1, <2>2, <2>3, <2>4, <2>5, <2>6
<1>10. ASSUME NEW g \in Goroutines, ImportCreate(g) PROVE IInv'
  <2>1. Types'
    BY <1>1, <1>10 DEF ImportCreate, CanCreate
  <2>2. Locks'
    BY <1>1, <1>10 DEF ImportCreate, CanCreate
  <2>3. Targets'
    BY <1>1, <1>10 DEF ImportCreate, CanCreate
  <2>4. Handles'
    BY <1>1, <1>10 DEF ImportCreate, CanCreate
  <2>5. OpenIsHeld'
    BY <1>1, <1>10 DEF ImportCreate, CanCreate
  <2>6. Apart'
    BY <1>1, <1>10 DEF ImportCreate, CanCreate
  <2>7. QED
    BY <2>1, <2>2, <2>3, <2>4, <2>5, <2>6
<1>11. ASSUME NEW g \in Goroutines, ImportFails(g) PROVE IInv'
  <2>1. Types'
    BY <1>1, <1>11 DEF ImportFails
  <2>2. Locks'
    BY <1>1, <1>11 DEF ImportFails
  <2>3. Targets'
    BY <1>1, <1>11 DEF ImportFails
  <2>4. Handles'
    BY <1>1, <1>11 DEF ImportFails
  <2>5. OpenIsHeld'
    BY <1>1, <1>11 DEF ImportFails
  <2>6. Apart'
    BY <1>1, <1>11 DEF ImportFails
  <2>7. QED
    BY <2>1, <2>2, <2>3, <2>4, <2>5, <2>6
<1>12. ASSUME NEW g \in Goroutines, ImportOpen(g) PROVE IInv'
  <2>1. target[g] \in Names /\ catalogs' = Opened(target[g])
    BY <1>12 DEF ImportOpen, CanOpen
  <2>2. /\ catalogs' \in Seq(Catalog) /\ Len(catalogs') = Len(catalogs) + 1
        /\ DOMAIN catalogs' = 1 .. Len(catalogs) + 1
        /\ \A i \in 1 .. Len(catalogs) : catalogs'[i] = catalogs[i]
        /\ catalogs'[Len(catalogs) + 1].vault = target[g]
        /\ catalogs'[Len(catalogs) + 1].open
    BY <2>1, OpenedIsLast, LenProperties
  <2>3. Types'
    BY <1>1, <1>12, <2>1, <2>2 DEF ImportOpen, CanOpen
  <2>4. Locks'
    BY <1>1, <1>12, <2>1, <2>2 DEF ImportOpen, CanOpen
  <2>5. Targets'
    BY <1>1, <1>12, <2>1, <2>2 DEF ImportOpen, CanOpen
  <2>6. Handles'
    BY <1>1, <1>12, <2>1, <2>2 DEF ImportOpen, CanOpen
  <2>7. OpenIsHeld'
    BY <1>1, <1>12, <2>1, <2>2 DEF ImportOpen, CanOpen
  <2>8. Apart'
    BY <1>1, <1>12, <2>1, <2>2 DEF ImportOpen, CanOpen
  <2>9. QED
    BY <2>3, <2>4, <2>5, <2>6, <2>7, <2>8
<1>13. ASSUME NEW g \in Goroutines, ImportEnd(g) PROVE IInv'
  <2>1. PICK i \in (1 .. Len(catalogs)) \cup {None} : i = cat[g] /\ catalogs' = Closed(i)
    BY <1>13 DEF ImportEnd
  <2>2. /\ catalogs' \in Seq(Catalog) /\ Len(catalogs') = Len(catalogs)
        /\ DOMAIN catalogs' = 1 .. Len(catalogs)
        /\ \A j \in 1 .. Len(catalogs) :
             /\ catalogs'[j].vault = catalogs[j].vault
             /\ j # i \/ i = None => catalogs'[j].open = catalogs[j].open
             /\ j = i /\ i # None => ~catalogs'[j].open
    <3>1. catalogs' \in Seq(Catalog) /\ Len(catalogs') = Len(catalogs)
      BY <2>1, ClosedIsClosed
    <3>2. DOMAIN catalogs' = 1 .. Len(catalogs)
      BY <3>1, LenProperties
    <3>3. QED
      BY <2>1, <3>1, <3>2, ClosedIsClosed
  <2>3. Types'
    BY <1>1, <1>13, <2>1, <2>2 DEF ImportEnd
  <2>4. Locks'
    BY <1>1, <1>13, <2>1, <2>2 DEF ImportEnd
  <2>5. Targets'
    BY <1>1, <1>13, <2>1, <2>2 DEF ImportEnd
  <2>6. Handles'
    BY <1>1, <1>13, <2>1, <2>2 DEF ImportEnd
  <2>7. OpenIsHeld'
    <3>1. vault' = vault /\ (vault # None => vault # i)
      BY <1>1, <1>13, <2>1, <2>2 DEF ImportEnd
    <3>2. \A h \in Goroutines : h # g => pc'[h] = pc[h] /\ cat'[h] = cat[h]
      BY <1>1, <1>13, <2>1, <2>2 DEF ImportEnd
    <3>3. ASSUME NEW j \in DOMAIN catalogs', catalogs'[j].open
          PROVE  j = vault \/ \E h \in Goroutines : pc'[h] \in {"close", "import"} /\ cat'[h] = j
      <4>1. j \in DOMAIN catalogs /\ catalogs[j].open /\ j # i
        BY <1>1, <2>2, <3>3
      <4>2. QED
        BY <2>1, <3>2, <4>1
    <3>4. vault # None => catalogs'[vault].open
      BY <2>2, <3>1
    <3>5. QED
      BY <3>1, <3>3, <3>4
  <2>8. Apart'
    <3>1. ASSUME NEW h \in Goroutines, Importing(h)'
          PROVE  Importing(h) /\ Made(h)' = Made(h)
      <4>1. h # g /\ pc'[h] = pc[h] /\ cat'[h] = cat[h] /\ target'[h] = target[h] /\ Importing(h)
        BY <1>1, <1>13, <2>1, <2>2, <3>1 DEF ImportEnd
      <4>2. CASE pc[h] = "open"
        BY <4>1, <4>2
      <4>3. CASE pc[h] = "import"
        <5>1. cat[h] \in 1 .. Len(catalogs)
          BY <4>3
        <5>2. catalogs'[cat[h]].vault = catalogs[cat[h]].vault
          BY <2>2, <5>1
        <5>3. QED
          BY <4>1, <4>3, <5>2
      <4>4. QED
        BY <4>1, <4>2, <4>3
    <3>2. vaults' = vaults
      BY <1>13 DEF ImportEnd
    <3> HIDE DEF Importing, Made
    <3>3. QED
      BY <3>1, <3>2
  <2>9. QED
    BY <2>3, <2>4, <2>5, <2>6, <2>7, <2>8
<1>14. ASSUME NEW n \in Names, Create(n) PROVE IInv'
  <2>1. Types'
    BY <1>1, <1>14 DEF Create, CanCreate
  <2>2. Locks'
    BY <1>1, <1>14 DEF Create, CanCreate
  <2>3. Targets'
    BY <1>1, <1>14 DEF Create, CanCreate
  <2>4. Handles'
    BY <1>1, <1>14 DEF Create, CanCreate
  <2>5. OpenIsHeld'
    BY <1>1, <1>14 DEF Create, CanCreate
  <2>6. Apart'
    BY <1>1, <1>14 DEF Create, CanCreate
  <2>7. QED
    BY <2>1, <2>2, <2>3, <2>4, <2>5, <2>6
<1>15. ASSUME NEW n \in Names, Delete(n) PROVE IInv'
  <2>1. /\ catalogs' \in Seq(Catalog) /\ Len(catalogs') = Len(catalogs)
        /\ DOMAIN catalogs' = 1 .. Len(catalogs)
        /\ \A j \in 1 .. Len(catalogs) :
             catalogs'[j].vault = catalogs[j].vault /\ catalogs'[j].open = catalogs[j].open
    BY <1>15, DeletedStaysOpen, LenProperties
  <2>2. Types'
    BY <1>1, <1>15, <2>1 DEF Delete
  <2>3. Locks'
    BY <1>1, <1>15, <2>1 DEF Delete
  <2>4. Targets'
    BY <1>1, <1>15, <2>1 DEF Delete
  <2>5. Handles'
    BY <1>1, <1>15, <2>1 DEF Delete
  <2>6. OpenIsHeld'
    BY <1>1, <1>15, <2>1 DEF Delete
  <2>7. Apart'
    BY <1>1, <1>15, <2>1 DEF Delete
  <2>8. QED
    BY <2>2, <2>3, <2>4, <2>5, <2>6, <2>7
<1>16. ASSUME UNCHANGED vars PROVE IInv'
  BY <1>16 DEF vars
<1> HIDE DEF IInv
<1>17. QED
  BY <1>2, <1>3, <1>4, <1>5, <1>6, <1>7, <1>8, <1>9, <1>10, <1>11, <1>12, <1>13, <1>14, <1>15, <1>16 DEF Next, FacadeStep, LoadGoesOn, ImportStep

\* With the two lemmas above, the invariant holds throughout.
LEMMA InvariantHolds == Spec => []IInv
  BY InitIInv, NextIInv, PTL DEF Spec

\* What an operation of the facade holds is the loaded vault's open catalog until
\* it ends, however many goroutines load and unload (vault.go:75-86).
THEOREM UsedIsOpenHolds == Spec => []UsedIsOpen
<1>1. IInv => UsedIsOpen
  BY DEF IInv, Handles, OpenIsHeld, UsedIsOpen
<1>2. QED
  BY <1>1, InvariantHolds, PTL

\* No catalog is left open without an owner, and the loaded one is open (vault.go:24-73).
THEOREM OpenIsHeldHolds == Spec => []OpenIsHeld
<1>1. IInv => OpenIsHeld
  BY DEF IInv
<1>2. QED
  BY <1>1, InvariantHolds, PTL

\* Imports that were given one name do not restore into one directory
\* (fslibrary.go:97-114, 186-207).
THEOREM ImportsApartHolds == Spec => []ImportsApart
<1>1. IInv => ImportsApart
  BY DEF IInv, Apart, Importing, Made, ImportsApart
<1>2. QED
  BY <1>1, InvariantHolds, PTL

-----------------------------------------------------------------------------
(***************************************************************************)
(* Operations, in three parts that share few variables: the vault's lock   *)
(* and catalogs (VaultOk, as above but with the flushes), the requests of  *)
(* the result cache (CacheOk), and the operations themselves: a report     *)
(* agrees at every step with what has become of the cards (Tally), an      *)
(* operation past its cards has no handler at work (Course), and it has    *)
(* pushed a request for each card that was dealt with (PushesDealt).       *)
(***************************************************************************)

VaultOk ==
  /\ TypeOK
  /\ pc \in [Goroutines -> PCs \cup {"flush", "taken", "find"}]
  /\ \A g \in Goroutines : g \in readers <=> pc[g] \in {"using", "find"}
  /\ \A g \in Goroutines : pc[g] \in {"load", "create", "open"} => target[g] \in Names

\* An operation neither loads nor flushes.
OpsKeepOut == \A o \in Ops : pc[o] \notin {"load", "close", "flush", "taken", "find"}

CacheOk ==
  /\ cache \in Requests
  /\ batch \in [Goroutines -> Requests]
  /\ pushed \subseteq Request
  /\ answers \in [Request -> Nat]
  /\ AnsweredOnce

\* Only a flush has taken requests.
BatchesHeld == \A g \in Goroutines : batch[g] # <<>> => pc[g] \in {"taken", "find"}

-----------------------------------------------------------------------------
(* The vault                                                               *)

LEMMA LoadVaultVault ==
  ASSUME VaultOk, NEW g \in Goroutines, NEW n \in Names, LoadVault(g, n)
  PROVE  VaultOk'
BY NobodyIsNoGoroutine DEF VaultOk, TypeOK, PCs, Goto, Set, LoadVault, TryLock

LEMMA LoadFailsVault ==
  ASSUME VaultOk, NEW g \in Goroutines, LoadFails(g)
  PROVE  VaultOk'
BY NobodyIsNoGoroutine DEF VaultOk, TypeOK, PCs, Goto, Set, LoadFails

LEMMA BeginOpVault ==
  ASSUME VaultOk, NEW g \in Goroutines, BeginOp(g)
  PROVE  VaultOk'
BY NobodyIsNoGoroutine DEF VaultOk, TypeOK, PCs, Goto, Set, BeginOp, BeginReadOp

LEMMA EndOpVault ==
  ASSUME VaultOk, NEW g \in Goroutines, EndOp(g)
  PROVE  VaultOk'
BY NobodyIsNoGoroutine DEF VaultOk, TypeOK, PCs, Goto, Set, EndOp

LEMMA ImportVaultVault ==
  ASSUME VaultOk, NEW g \in Goroutines, NEW n \in Names, ImportVault(g, n)
  PROVE  VaultOk'
BY NobodyIsNoGoroutine DEF VaultOk, TypeOK, PCs, Goto, Set, ImportVault

LEMMA ImportCreateVault ==
  ASSUME VaultOk, NEW g \in Goroutines, ImportCreate(g)
  PROVE  VaultOk'
BY NobodyIsNoGoroutine DEF VaultOk, TypeOK, PCs, Goto, Set, ImportCreate

LEMMA ImportFailsVault ==
  ASSUME VaultOk, NEW g \in Goroutines, ImportFails(g)
  PROVE  VaultOk'
BY NobodyIsNoGoroutine DEF VaultOk, TypeOK, PCs, Goto, Set, ImportFails

LEMMA FlushHasRequestsVault ==
  ASSUME VaultOk, NEW g \in Goroutines, FlushHasRequests(g)
  PROVE  VaultOk'
BY NobodyIsNoGoroutine DEF VaultOk, TypeOK, PCs, Goto, Set, FlushHasRequests

LEMMA FlushTakeVault ==
  ASSUME VaultOk, NEW g \in Goroutines, FlushTake(g)
  PROVE  VaultOk'
BY NobodyIsNoGoroutine DEF VaultOk, TypeOK, PCs, Goto, Set, FlushTake

LEMMA FlushNoVaultVault ==
  ASSUME VaultOk, NEW g \in Goroutines, FlushNoVault(g)
  PROVE  VaultOk'
BY NobodyIsNoGoroutine DEF VaultOk, TypeOK, PCs, Goto, Set, FlushNoVault

LEMMA FlushBeginVault ==
  ASSUME VaultOk, NEW g \in Goroutines, FlushBegin(g)
  PROVE  VaultOk'
BY NobodyIsNoGoroutine DEF VaultOk, TypeOK, PCs, Goto, Set, FlushBegin, BeginReadOp

LEMMA FlushFindVault ==
  ASSUME VaultOk, NEW g \in Goroutines, FlushFind(g)
  PROVE  VaultOk'
BY NobodyIsNoGoroutine DEF VaultOk, TypeOK, PCs, Goto, Set, FlushFind

LEMMA LoadSwapVault ==
  ASSUME VaultOk, NEW g \in Goroutines, LoadSwap(g)
  PROVE  VaultOk'
<1>1. target[g] \in Names /\ catalogs' = Opened(target[g]) /\ Len(catalogs) < MaxCatalogs
  BY DEF VaultOk, LoadSwap, CanOpen, Goto
<1>2. catalogs \in Seq(Catalog) /\ Len(catalogs) \in Nat
  BY LenProperties DEF VaultOk, TypeOK
<1>3. catalogs' \in Seq(Catalog) /\ Len(catalogs') = Len(catalogs) + 1
  BY <1>1, <1>2, OpenedIsLast
<1>4. (1 .. Len(catalogs)) \subseteq (1 .. Len(catalogs')) /\ Len(catalogs) + 1 \in 1 .. Len(catalogs')
  BY <1>2, <1>3
<1>5. Len(catalogs') <= MaxCatalogs
  BY <1>1, <1>2, <1>3, VaultBounds
<1>6. QED
  BY <1>3, <1>4, <1>5, NobodyIsNoGoroutine DEF VaultOk, TypeOK, PCs, Goto, Set, LoadSwap

LEMMA ImportOpenVault ==
  ASSUME VaultOk, NEW g \in Goroutines, ImportOpen(g)
  PROVE  VaultOk'
<1>1. target[g] \in Names /\ catalogs' = Opened(target[g]) /\ Len(catalogs) < MaxCatalogs
  BY DEF VaultOk, ImportOpen, CanOpen, Goto
<1>2. catalogs \in Seq(Catalog) /\ Len(catalogs) \in Nat
  BY LenProperties DEF VaultOk, TypeOK
<1>3. catalogs' \in Seq(Catalog) /\ Len(catalogs') = Len(catalogs) + 1
  BY <1>1, <1>2, OpenedIsLast
<1>4. (1 .. Len(catalogs)) \subseteq (1 .. Len(catalogs')) /\ Len(catalogs) + 1 \in 1 .. Len(catalogs')
  BY <1>2, <1>3
<1>5. Len(catalogs') <= MaxCatalogs
  BY <1>1, <1>2, <1>3, VaultBounds
<1>6. QED
  BY <1>3, <1>4, <1>5, NobodyIsNoGoroutine DEF VaultOk, TypeOK, PCs, Goto, Set, ImportOpen

LEMMA LoadCloseOldVault ==
  ASSUME VaultOk, NEW g \in Goroutines, LoadCloseOld(g)
  PROVE  VaultOk'
<1>1. cat[g] \in (1 .. Len(catalogs)) \cup {None} /\ catalogs' = Closed(cat[g])
  BY DEF VaultOk, TypeOK, LoadCloseOld
<1>2. catalogs' \in Seq(Catalog) /\ Len(catalogs') = Len(catalogs)
  BY <1>1, ClosedIsClosed DEF VaultOk, TypeOK
<1>3. QED
  BY <1>2, NobodyIsNoGoroutine DEF VaultOk, TypeOK, PCs, Goto, Set, LoadCloseOld

LEMMA ImportEndVault ==
  ASSUME VaultOk, NEW g \in Goroutines, ImportEnd(g)
  PROVE  VaultOk'
<1>1. cat[g] \in (1 .. Len(catalogs)) \cup {None} /\ catalogs' = Closed(cat[g])
  BY DEF VaultOk, TypeOK, ImportEnd
<1>2. catalogs' \in Seq(Catalog) /\ Len(catalogs') = Len(catalogs)
  BY <1>1, ClosedIsClosed DEF VaultOk, TypeOK
<1>3. QED
  BY <1>2, NobodyIsNoGoroutine DEF VaultOk, TypeOK, PCs, Goto, Set, ImportEnd

LEMMA UnloadVaultVault ==
  ASSUME VaultOk, NEW g \in Goroutines, UnloadVault(g)
  PROVE  VaultOk'
<1>1. vault \in (1 .. Len(catalogs)) \cup {None} /\ catalogs' = Closed(vault)
  BY DEF VaultOk, TypeOK, UnloadVault
<1>2. catalogs' \in Seq(Catalog) /\ Len(catalogs') = Len(catalogs)
  BY <1>1, ClosedIsClosed DEF VaultOk, TypeOK
<1>3. QED
  BY <1>2, NobodyIsNoGoroutine DEF VaultOk, TypeOK, PCs, Goto, Set, UnloadVault

LEMMA FacadeVault ==
  ASSUME VaultOk, NEW g \in Goroutines, FacadeStep(g)
  PROVE  VaultOk'
BY LoadVaultVault, LoadSwapVault, LoadFailsVault, LoadCloseOldVault, UnloadVaultVault,
   BeginOpVault, EndOpVault DEF FacadeStep, LoadGoesOn

LEMMA FlushVault ==
  ASSUME VaultOk, NEW g \in Goroutines, FlushStep(g)
  PROVE  VaultOk'
BY FlushHasRequestsVault, FlushTakeVault, FlushNoVaultVault, FlushBeginVault, FlushFindVault
   DEF FlushStep, FlushGoesOn

-----------------------------------------------------------------------------
(* The requests                                                            *)

LEMMA CountOfNone == ASSUME NEW r PROVE CountOf(<<>>, r) = 0
<1>1. {i \in DOMAIN <<>> : <<>>[i] = r} = {}
  OBVIOUS
<1>2. QED
  BY <1>1, FS_EmptySet DEF CountOf

LEMMA CountOfIsNat ==
  ASSUME NEW rs \in Requests, NEW r
  PROVE  CountOf(rs, r) \in Nat /\ IsFiniteSet({i \in DOMAIN rs : rs[i] = r})
<1>1. DOMAIN rs = 1 .. Len(rs) /\ Len(rs) \in Nat
  BY LenProperties DEF Requests
<1>2. IsFiniteSet(DOMAIN rs)
  BY <1>1, FS_Interval
<1>3. IsFiniteSet({i \in DOMAIN rs : rs[i] = r})
  BY <1>2, FS_Subset
<1>4. QED
  BY <1>3, FS_CardinalityType DEF CountOf

LEMMA CountOfPushed ==
  ASSUME NEW rs \in Requests, NEW x \in Request, NEW r
  PROVE  /\ Append(rs, x) \in Requests
         /\ CountOf(Append(rs, x), r) = IF r = x THEN CountOf(rs, r) + 1 ELSE CountOf(rs, r)
<1> DEFINE more == Append(rs, x)
           places == {i \in DOMAIN rs : rs[i] = r}
<1>1. /\ rs \in Seq(Request) /\ Len(rs) \in Nat /\ DOMAIN rs = 1 .. Len(rs)
  BY LenProperties DEF Requests
<1>2. /\ more \in Seq(Request) /\ Len(more) = Len(rs) + 1 /\ more[Len(rs) + 1] = x
      /\ \A i \in 1 .. Len(rs) : more[i] = rs[i]
  BY <1>1, AppendProperties
<1>3. DOMAIN more = 1 .. (Len(rs) + 1)
  BY <1>2, LenProperties
<1> HIDE DEF more
<1>4. {i \in DOMAIN more : more[i] = r} = IF r = x THEN places \cup {Len(rs) + 1} ELSE places
  BY <1>1, <1>2, <1>3
<1>5. IsFiniteSet(places) /\ Len(rs) + 1 \notin places
  <2>1. IsFiniteSet(places)
    BY CountOfIsNat
  <2>2. \A i \in places : i \in 1 .. Len(rs)
    BY <1>1
  <2>3. Len(rs) + 1 \notin 1 .. Len(rs)
    BY <1>1
  <2> HIDE DEF places
  <2>4. QED
    BY <2>1, <2>2, <2>3
<1>6. CountOf(rs, r) = Cardinality(places)
  BY DEF CountOf
<1> HIDE DEF places
<1>7. CountOf(more, r) = Cardinality(IF r = x THEN places \cup {Len(rs) + 1} ELSE places)
  BY <1>4 DEF CountOf
<1>8. Cardinality(places \cup {Len(rs) + 1}) = Cardinality(places) + 1
  BY <1>5, FS_AddElement
<1>9. CountOf(more, r) = IF r = x THEN CountOf(rs, r) + 1 ELSE CountOf(rs, r)
  BY <1>6, <1>7, <1>8
<1>10. QED
  BY <1>2, <1>9 DEF more, Requests

LEMMA PushCache ==
  ASSUME CacheOk, NEW g \in Goroutines, NEW c \in Cards, Push(g, c), <<g, c>> \notin pushed
  PROVE  CacheOk'
<1> DEFINE x == <<g, c>>
<1>1. /\ x \in Request /\ cache' = Append(cache, x) /\ pushed' = pushed \cup {x}
      /\ batch' = batch /\ answers' = answers
  BY DEF Push, Request
<1>2. x \notin pushed
  OBVIOUS
<1> HIDE DEF x
<1>3. cache' \in Requests
      /\ \A r : CountOf(cache', r) = IF r = x THEN CountOf(cache, r) + 1 ELSE CountOf(cache, r)
  BY <1>1, CountOfPushed DEF CacheOk
<1>4. \A r, h : HeldBy(r, h)' <=> HeldBy(r, h)
  BY <1>1 DEF HeldBy
<1>5. AnsweredOnce'
  <2>1. SUFFICES ASSUME NEW r \in Request
                 PROVE  IF r \notin pushed' THEN CountOf(cache', r) = 0 /\ answers'[r] = 0 /\ HeldBy(r, Nobody)
                        ELSE \/ CountOf(cache', r) = 1 /\ answers'[r] = 0 /\ HeldBy(r, Nobody)
                             \/ CountOf(cache', r) = 0 /\ answers'[r] = 0 /\ \E h \in Goroutines : HeldBy(r, h)
                             \/ CountOf(cache', r) = 0 /\ answers'[r] = 1 /\ HeldBy(r, Nobody)
    BY <1>4 DEF AnsweredOnce
  <2>2. CASE r = x
    BY <1>1, <1>2, <1>3, <2>2 DEF CacheOk, AnsweredOnce
  <2>3. CASE r # x
    BY <1>1, <1>3, <2>3 DEF CacheOk, AnsweredOnce
  <2>4. QED
    BY <2>2, <2>3
<1>6. QED
  BY <1>1, <1>3, <1>5 DEF CacheOk

\* g, which has nothing, takes all that waits.
LEMMA FlushTakeCache ==
  ASSUME CacheOk, NEW g \in Goroutines, FlushTake(g), batch[g] = <<>>
  PROVE  CacheOk'
<1>1. /\ cache' = <<>> /\ batch' = [batch EXCEPT ![g] = cache]
      /\ pushed' = pushed /\ answers' = answers
  BY DEF FlushTake
<1>2. batch' \in [Goroutines -> Requests] /\ batch'[g] = cache
      /\ \A h \in Goroutines : h # g => batch'[h] = batch[h]
  BY <1>1 DEF CacheOk
<1>3. <<>> \in Requests
  BY EmptySeq DEF Requests
<1>4. AnsweredOnce'
  <2>1. SUFFICES ASSUME NEW r \in Request
                 PROVE  IF r \notin pushed THEN answers[r] = 0 /\ HeldBy(r, Nobody)'
                        ELSE \/ answers[r] = 0 /\ \E h \in Goroutines : HeldBy(r, h)'
                             \/ answers[r] = 1 /\ HeldBy(r, Nobody)'
    BY <1>1, CountOfNone DEF AnsweredOnce
  <2>2. CountOf(batch[g], r) = 0
    BY CountOfNone
  <2>3. ASSUME CountOf(cache, r) = 1, HeldBy(r, Nobody) PROVE HeldBy(r, g)'
    BY <1>2, <2>3, NobodyIsNoGoroutine DEF HeldBy
  <2>4. ASSUME CountOf(cache, r) = 0, NEW h, HeldBy(r, h) PROVE HeldBy(r, h)'
    BY <1>2, <2>2, <2>4 DEF HeldBy
  <2>5. QED
    BY <2>3, <2>4 DEF CacheOk, AnsweredOnce
<1>5. QED
  BY <1>1, <1>2, <1>3, <1>4 DEF CacheOk

\* g answers all that it has taken.
LEMMA AnswerCache ==
  ASSUME CacheOk, NEW g \in Goroutines, Answer(batch[g]),
         batch' = [batch EXCEPT ![g] = <<>>], UNCHANGED <<cache, pushed>>
  PROVE  CacheOk'
<1>1. batch[g] \in Requests /\ <<>> \in Requests
  BY EmptySeq DEF CacheOk, Requests
<1>2. batch' \in [Goroutines -> Requests] /\ batch'[g] = <<>>
      /\ \A h \in Goroutines : h # g => batch'[h] = batch[h]
  BY <1>1 DEF CacheOk
<1>3. \A r \in Request : CountOf(batch[g], r) \in Nat
  BY <1>1, CountOfIsNat
<1>4. answers' = [r \in Request |-> answers[r] + CountOf(batch[g], r)]
  BY DEF Answer
<1>5. answers' \in [Request -> Nat]
  BY <1>3, <1>4 DEF CacheOk
<1>6. AnsweredOnce'
  <2>1. SUFFICES ASSUME NEW r \in Request
                 PROVE  IF r \notin pushed THEN CountOf(cache, r) = 0 /\ answers'[r] = 0 /\ HeldBy(r, Nobody)'
                        ELSE \/ CountOf(cache, r) = 1 /\ answers'[r] = 0 /\ HeldBy(r, Nobody)'
                             \/ CountOf(cache, r) = 0 /\ answers'[r] = 0 /\ \E h \in Goroutines : HeldBy(r, h)'
                             \/ CountOf(cache, r) = 0 /\ answers'[r] = 1 /\ HeldBy(r, Nobody)'
    BY DEF AnsweredOnce
  <2>2. answers'[r] = answers[r] + CountOf(batch[g], r) /\ answers[r] \in Nat
    BY <1>4 DEF CacheOk
  <2>3. CountOf(batch'[g], r) = 0
    BY <1>2, CountOfNone
  <2>4. ASSUME NEW h, h # g, HeldBy(r, h)
        PROVE  HeldBy(r, h)' /\ answers'[r] = answers[r]
    <3>1. CountOf(batch[g], r) = 0
      BY <2>4 DEF HeldBy
    <3>2. HeldBy(r, h)'
      BY <1>2, <2>3, <2>4 DEF HeldBy
    <3>3. QED
      BY <2>2, <3>1, <3>2
  <2>5. ASSUME HeldBy(r, g)
        PROVE  HeldBy(r, Nobody)' /\ answers'[r] = answers[r] + 1
    <3>1. CountOf(batch[g], r) = 1
      BY <2>5 DEF HeldBy
    <3>2. HeldBy(r, Nobody)'
      BY <1>2, <2>3, <2>5, NobodyIsNoGoroutine DEF HeldBy
    <3>3. QED
      BY <2>2, <3>1, <3>2
  <2>6. g # Nobody
    BY NobodyIsNoGoroutine
  <2>7. QED
    BY <2>2, <2>4, <2>5, <2>6 DEF CacheOk, AnsweredOnce
<1>7. QED
  BY <1>2, <1>5, <1>6 DEF CacheOk

LEMMA FlushCache ==
  ASSUME VaultOk, CacheOk, BatchesHeld, NEW g \in Goroutines, FlushStep(g)
  PROVE  CacheOk' /\ BatchesHeld'
<1>1. pc \in [Goroutines -> PCs \cup {"flush", "taken", "find"}] /\ batch \in [Goroutines -> Requests]
  BY DEF VaultOk, CacheOk
<1>2. CASE FlushHasRequests(g) \/ FlushBegin(g)
  <2>1. UNCHANGED <<cache, batch, pushed, answers>>
    BY <1>2 DEF FlushHasRequests, FlushBegin, cacheVars
  <2>2. CacheOk'
    BY <2>1 DEF CacheOk, AnsweredOnce, HeldBy
  <2>3. BatchesHeld'
    BY <1>1, <1>2, <2>1 DEF BatchesHeld, FlushHasRequests, FlushBegin, BeginReadOp, Goto
  <2>4. QED
    BY <2>2, <2>3
<1>3. CASE FlushTake(g)
  <2>1. batch[g] = <<>>
    BY <1>3 DEF FlushTake, Goto, BatchesHeld
  <2>2. BatchesHeld'
    BY <1>1, <1>3 DEF BatchesHeld, FlushTake, Goto
  <2>3. QED
    BY <1>3, <2>1, <2>2, FlushTakeCache
<1>4. CASE FlushNoVault(g) \/ FlushFind(g)
  <2>1. /\ Answer(batch[g]) /\ batch' = [batch EXCEPT ![g] = <<>>] /\ UNCHANGED <<cache, pushed>>
        /\ pc' = [pc EXCEPT ![g] = "idle"]
    BY <1>4 DEF FlushNoVault, FlushFind, Goto
  <2>2. BatchesHeld'
    BY <1>1, <2>1 DEF BatchesHeld
  <2>3. QED
    BY <2>1, <2>2, AnswerCache
<1>5. QED
  BY <1>2, <1>3, <1>4 DEF FlushStep, FlushGoesOn

LEMMA CacheKept ==
  ASSUME CacheOk, UNCHANGED cacheVars
  PROVE  CacheOk'
<1>1. UNCHANGED <<cache, batch, pushed, answers>>
  BY DEF cacheVars
<1>2. QED
  BY <1>1 DEF CacheOk, AnsweredOnce, HeldBy

-----------------------------------------------------------------------------
(* The operations: the invariant                                           *)

CardStates == {"no", "waiting", "busy", "done"} \cup Results
Reports == [total : Nat, progress : Nat, invalid : Nat, success : Nat, failure : Nat, other : Nat]

OpTypes ==
  /\ kind \in [Ops -> Kinds \cup {"none"}]
  /\ stage \in [Ops -> Stages]
  /\ status \in [Ops -> {"none", "ONGOING", "COMPLETED", "CANCELLED"}]
  /\ cancelled \subseteq Ops
  /\ card \in [Ops -> [Cards -> CardStates]]
  /\ report \in [Ops -> Reports]
  /\ uncounted \in [Ops -> Nat]

\* The cards that have been dealt with and reported, that were ever given to the
\* scheduler, and that a handler has.
DoneIn(cd) == {c \in Cards : cd[c] = "done"}
GivenIn(cd) == {c \in Cards : cd[c] # "no"}
BusyIn(cd) == {c \in Cards : cd[c] \in {"busy"} \cup Results}

Early == {"none", "begun", "counted", "lost"}
Late == {"ending", "completing", "cancelling", "ended"}

\* The report r of an operation in stage st agrees with its cards.
Tally(st, cd, r, u) ==
  /\ r.success + r.failure + r.other = Cardinality(DoneIn(cd))
  /\ r.progress = r.invalid + Cardinality(DoneIn(cd))
  /\ st \in Early => r.invalid = 0 /\ u = 0 /\ GivenIn(cd) = {}
  /\ st \in {"none", "begun"} => r.total = 0
  /\ st \notin Early => r.total = Cardinality(GivenIn(cd)) + r.invalid + u

\* What an operation has behind it.
Course(o) ==
  /\ stage[o] # "ended" => status[o] \in {"none", "ONGOING"}
  /\ stage[o] \in Late => BusyIn(card[o]) = {}
  /\ (stage[o] = "ending" /\ o \notin cancelled) \/ stage[o] = "completing" \/ status[o] = "COMPLETED" =>
       \A c \in Cards : card[o][c] # "waiting"
  /\ stage[o] = "none" => kind[o] = "none"
  /\ kind[o] = "ImportVault" =>
       /\ stage[o] = "begun" => pc[o] \in {"create", "open", "import"}
       /\ stage[o] = "cards" => pc[o] = "import"
       /\ stage[o] = "ending" => pc[o] \in {"import", "idle"}
       /\ stage[o] \in {"completing", "cancelling", "ended"} => pc[o] = "idle"

PushesDealt(o) == \A c \in Cards :
  <<o, c>> \in pushed <=> kind[o] \in {"Update", "Export"} /\ card[o][c] \in Results \cup {"done"}

OpOk(o) ==
  /\ Cardinality(BusyIn(card[o])) <= Workers
  /\ Tally(stage[o], card[o], report[o], uncounted[o])
  /\ Course(o)
  /\ PushesDealt(o)

OpsOk == OpTypes /\ \A o \in Ops : OpOk(o)

OpInvariant == VaultOk /\ OpsKeepOut /\ CacheOk /\ BatchesHeld /\ OpsOk

-----------------------------------------------------------------------------
(* The operations: what a step does to them                                *)

\* The step is not one of operation h.
NotOf(h) ==
  /\ kind'[h] = kind[h] /\ stage'[h] = stage[h] /\ status'[h] = status[h]
  /\ card'[h] = card[h] /\ report'[h] = report[h] /\ uncounted'[h] = uncounted[h]
  /\ pc'[h] = pc[h] /\ (h \in cancelled' <=> h \in cancelled)
  /\ \A c \in Cards : <<h, c>> \in pushed' <=> <<h, c>> \in pushed

LEMMA OthersKept ==
  ASSUME NEW h \in Ops, OpOk(h), NotOf(h)
  PROVE  OpOk(h)'
BY DEF OpOk, NotOf, Course, PushesDealt

LEMMA OfOne ==
  ASSUME OpsOk, NEW o \in Ops, OpTypes', OpOk(o)', \A h \in Ops : h # o => NotOf(h)
  PROVE  OpsOk'
BY OthersKept DEF OpsOk

LEMMA SubsetsOfCards ==
  ASSUME NEW S \in SUBSET Cards
  PROVE  IsFiniteSet(S) /\ Cardinality(S) \in Nat
BY CardsAreFinite, FS_Subset, FS_CardinalityType

LEMMA PartsAreCards ==
  ASSUME NEW cd
  PROVE  DoneIn(cd) \in SUBSET Cards /\ GivenIn(cd) \in SUBSET Cards /\ BusyIn(cd) \in SUBSET Cards
BY DEF DoneIn, GivenIn, BusyIn

\* Nothing was given yet, and S is.
LEMMA GivingCounts ==
  ASSUME NEW S \in SUBSET Cards, NEW cd, cd = [c \in Cards |-> IF c \in S THEN "waiting" ELSE "no"]
  PROVE  /\ cd \in [Cards -> CardStates]
         /\ DoneIn(cd) = {} /\ BusyIn(cd) = {} /\ GivenIn(cd) = S
         /\ Cardinality(DoneIn(cd)) = 0 /\ Cardinality(BusyIn(cd)) = 0
BY FS_EmptySet DEF CardStates, DoneIn, BusyIn, GivenIn, Results

LEMMA NothingGiven ==
  ASSUME NEW cd, GivenIn(cd) = {}
  PROVE  /\ DoneIn(cd) = {} /\ BusyIn(cd) = {} /\ Cardinality(DoneIn(cd)) = 0
         /\ Cardinality(GivenIn(cd)) = 0
         /\ \A c \in Cards : cd[c] = "no"
BY FS_EmptySet DEF GivenIn, DoneIn, BusyIn, Results

\* A step between stages of one kind, with the report as it was.
LEMMA TallyKept ==
  ASSUME NEW st, NEW to, NEW cd, NEW r, NEW u, Tally(st, cd, r, u),
         (st \in Early /\ to = "counted") \/ (st \notin Early /\ to \notin Early)
           \/ (st \in {"none", "begun"} /\ to \in {"begun", "ending"})
           \/ (st = "counted" /\ to = "lost"),
         r \in Reports
  PROVE  Tally(to, cd, r, u)
<1>1. GivenIn(cd) = {} => Cardinality(GivenIn(cd)) = 0
  BY NothingGiven
<1>2. QED
  BY <1>1 DEF Tally, Early, Reports

-----------------------------------------------------------------------------
(* The operations: their steps                                             *)

\* Only pc[o] changes, in a stage where it may.
OnlyPcOf(o, p) == pc' = [pc EXCEPT ![o] = p] /\ UNCHANGED <<cacheVars, opVars>>

LEMMA OnlyPc ==
  ASSUME VaultOk, OpsOk, NEW o \in Ops, NEW p, OnlyPcOf(o, p),
         kind[o] = "ImportVault" =>
           \/ stage[o] = "begun" /\ p \in {"create", "open", "import"}
           \/ stage[o] = "ending" /\ p = "idle"
           \/ stage[o] = "ended" /\ p = "idle"
  PROVE  OpsOk'
<1>1. UNCHANGED <<cache, batch, pushed, answers, kind, stage, status, cancelled, card, report, uncounted>>
      /\ pc' = [pc EXCEPT ![o] = p]
  BY DEF OnlyPcOf, cacheVars, opVars
<1>2. pc'[o] = p /\ \A h \in Ops : h # o => pc'[h] = pc[h]
  BY <1>1, OpsAreGoroutines DEF VaultOk
<1>3. OpTypes'
  BY <1>1 DEF OpsOk, OpTypes
<1>4. OpOk(o)'
  BY <1>1, <1>2 DEF OpsOk, OpOk, Course, PushesDealt
<1>5. \A h \in Ops : h # o => NotOf(h)
  BY <1>1, <1>2 DEF NotOf
<1>6. QED
  BY <1>3, <1>4, <1>5, OfOne

LEMMA BeginOps ==
  ASSUME VaultOk, OpsOk, NEW o \in Ops, NEW k \in Kinds, NewOperation(o, k),
         pc' = [pc EXCEPT ![o] = IF k = "ImportVault" THEN "create" ELSE "using"],
         UNCHANGED cacheVars
  PROVE  OpsOk'
<1> DEFINE p == IF k = "ImportVault" THEN "create" ELSE "using"
<1>1. /\ stage[o] = "none" /\ stage' = [stage EXCEPT ![o] = "begun"]
      /\ kind' = [kind EXCEPT ![o] = k] /\ status' = [status EXCEPT ![o] = "ONGOING"]
      /\ UNCHANGED <<cancelled, card, report, uncounted, pushed>>
  BY DEF NewOperation, Advance, Set, cacheVars
<1>2. /\ stage'[o] = "begun" /\ kind'[o] = k /\ status'[o] = "ONGOING" /\ pc'[o] = p
      /\ \A h \in Ops : h # o => /\ stage'[h] = stage[h] /\ kind'[h] = kind[h]
                                 /\ status'[h] = status[h] /\ pc'[h] = pc[h]
  BY <1>1, OpsAreGoroutines DEF OpsOk, OpTypes, VaultOk
<1>3. OpTypes'
  BY <1>1 DEF OpsOk, OpTypes, Stages
<1>4. OpOk(o) /\ report[o] \in Reports
  BY DEF OpsOk, OpTypes
<1>5. GivenIn(card[o]) = {} /\ kind[o] = "none"
  BY <1>1, <1>4 DEF OpOk, Course, Tally, Early
<1>6. BusyIn(card[o]) = {} /\ \A c \in Cards : card[o][c] = "no"
  BY <1>5, NothingGiven
<1>7. OpOk(o)'
  <2>1. Tally("begun", card[o], report[o], uncounted[o])
    BY <1>1, <1>4, TallyKept DEF OpOk
  <2>2. Course(o)'
    BY <1>1, <1>2, <1>6 DEF Course, Late
  <2>3. PushesDealt(o)'
    BY <1>1, <1>2, <1>4, <1>5, <1>6 DEF OpOk, PushesDealt, Results
  <2>4. QED
    BY <1>1, <1>2, <1>4, <2>1, <2>2, <2>3 DEF OpOk
<1>8. \A h \in Ops : h # o => NotOf(h)
  BY <1>1, <1>2 DEF NotOf
<1>9. QED
  BY <1>3, <1>7, <1>8, OfOne

\* A step of o's worker that changes its stage, status and pc at most.
OnlyStage(o, to, q, p) ==
  /\ stage' = [stage EXCEPT ![o] = to]
  /\ status' = [status EXCEPT ![o] = q]
  /\ pc' = [pc EXCEPT ![o] = p]
  /\ UNCHANGED <<pushed, kind, cancelled, card, report, uncounted>>

LEMMA StageChanges ==
  ASSUME VaultOk, OpsOk, NEW o \in Ops, NEW to, NEW q, NEW p, OnlyStage(o, to, q, p)
  PROVE  /\ stage'[o] = to /\ status'[o] = q /\ pc'[o] = p
         /\ UNCHANGED <<pushed, kind, cancelled, card, report, uncounted>>
         /\ \A h \in Ops : h # o => NotOf(h)
BY OpsAreGoroutines DEF OnlyStage, OpsOk, OpTypes, VaultOk, NotOf

LEMMA StageOps ==
  ASSUME VaultOk, OpsOk, NEW o \in Ops, NEW to \in Stages,
         NEW q \in {"none", "ONGOING", "COMPLETED", "CANCELLED"}, NEW p, OnlyStage(o, to, q, p),
         Tally(to, card[o], report[o], uncounted[o]), Course(o)'
  PROVE  OpsOk'
<1>1. /\ stage'[o] = to /\ status'[o] = q /\ pc'[o] = p
      /\ UNCHANGED <<pushed, kind, cancelled, card, report, uncounted>>
      /\ \A h \in Ops : h # o => NotOf(h)
  BY StageChanges
<1>2. OpTypes'
  BY <1>1 DEF OpsOk, OpTypes, OnlyStage
<1>3. OpOk(o)'
  BY <1>1 DEF OpsOk, OpOk, PushesDealt
<1>4. QED
  BY <1>1, <1>2, <1>3, OfOne

\* What is known of o itself.
LEMMA OfOperation ==
  ASSUME OpsOk, NEW o \in Ops
  PROVE  /\ Cardinality(BusyIn(card[o])) <= Workers /\ Course(o) /\ PushesDealt(o)
         /\ Tally(stage[o], card[o], report[o], uncounted[o])
         /\ report[o] \in Reports /\ uncounted[o] \in Nat /\ card[o] \in [Cards -> CardStates]
         /\ stage[o] \in Stages /\ kind[o] \in Kinds \cup {"none"}
         /\ status[o] \in {"none", "ONGOING", "COMPLETED", "CANCELLED"}
BY DEF OpsOk, OpOk, OpTypes

LEMMA NotYetGiven ==
  ASSUME OpsOk, NEW o \in Ops, stage[o] \in {"begun", "counted"}
  PROVE  /\ BusyIn(card[o]) = {} /\ \A c \in Cards : card[o][c] = "no" /\ <<o, c>> \notin pushed
         /\ report[o].invalid = 0 /\ uncounted[o] = 0 /\ report[o].progress = 0
         /\ report[o].success + report[o].failure + report[o].other = 0
<1>1. Tally(stage[o], card[o], report[o], uncounted[o]) /\ PushesDealt(o) /\ report[o] \in Reports
  BY OfOperation
<1>2. GivenIn(card[o]) = {}
  BY <1>1 DEF Tally, Early
<1>3. BusyIn(card[o]) = {} /\ Cardinality(DoneIn(card[o])) = 0 /\ \A c \in Cards : card[o][c] = "no"
  BY <1>2, NothingGiven
<1>4. \A c \in Cards : <<o, c>> \notin pushed
  BY <1>1, <1>3 DEF PushesDealt, Results
<1>5. QED
  BY <1>1, <1>3, <1>4 DEF Tally, Early, Reports

\* A step that changes nothing of the vault leaves every pc.
LEMMA PcStays ==
  ASSUME VaultOk, NEW o \in Ops, UNCHANGED vars
  PROVE  pc' = [pc EXCEPT ![o] = pc[o]]
<1>1. pc' = pc
  BY DEF vars
<1>2. QED
  BY <1>1, OpsAreGoroutines DEF VaultOk

LEMMA StatusStays ==
  ASSUME OpsOk, NEW o \in Ops, UNCHANGED status
  PROVE  status' = [status EXCEPT ![o] = status[o]]
BY DEF OpsOk, OpTypes

LEMMA VaultNotMadeOps ==
  ASSUME VaultOk, OpsOk, NEW o \in Ops, VaultNotMade(o)
  PROVE  OpsOk'
<1>1. /\ stage[o] = "begun" /\ OnlyStage(o, "ending", status[o], "idle")
  BY StatusStays DEF VaultNotMade, ImportFails, Goto, Advance, OnlyStage, cacheVars
<1>2. Tally("ending", card[o], report[o], uncounted[o])
  BY <1>1, OfOperation, TallyKept
<1>3. Course(o)'
  <2>1. BusyIn(card[o]) = {} /\ \A c \in Cards : card[o][c] = "no"
    BY <1>1, OfOperation, NotYetGiven
  <2>2. QED
    BY <1>1, <2>1, OfOperation, StageChanges DEF Course
<1>4. QED
  BY <1>1, <1>2, <1>3, OfOperation, StageOps DEF Stages

LEMMA CannotPrepareOps ==
  ASSUME VaultOk, OpsOk, NEW o \in Ops, CannotPrepare(o)
  PROVE  OpsOk'
<1>1. /\ stage[o] = "begun" /\ OnlyStage(o, "ending", status[o], pc[o]) /\ pc[o] \in {"using", "import"}
  BY StatusStays, PcStays DEF CannotPrepare, Prepare, Advance, OnlyStage, cacheVars
<1>2. Tally("ending", card[o], report[o], uncounted[o])
  BY <1>1, OfOperation, TallyKept
<1>3. Course(o)'
  <2>1. BusyIn(card[o]) = {} /\ \A c \in Cards : card[o][c] = "no"
    BY <1>1, OfOperation, NotYetGiven
  <2>2. QED
    BY <1>1, <2>1, OfOperation, StageChanges DEF Course
<1>4. QED
  BY <1>1, <1>2, <1>3, OfOperation, StageOps DEF Stages

LEMMA CannotFindURLsOps ==
  ASSUME VaultOk, OpsOk, NEW o \in Ops, CannotFindURLs(o)
  PROVE  OpsOk'
<1>1. /\ stage[o] = "counted" /\ OnlyStage(o, "lost", status[o], "idle") /\ kind[o] = "Import"
  BY StatusStays DEF CannotFindURLs, EndOp, Goto, Advance, OnlyStage, cacheVars
<1>2. Tally("lost", card[o], report[o], uncounted[o])
  BY <1>1, OfOperation, TallyKept
<1>3. Course(o)'
  BY <1>1, OfOperation, StageChanges DEF Course, Late
<1>4. QED
  BY <1>1, <1>2, <1>3, OfOperation, StageOps DEF Stages

LEMMA EndCardsOps ==
  ASSUME VaultOk, OpsOk, NEW o \in Ops, EndCards(o)
  PROVE  OpsOk'
<1>1. /\ stage[o] = "cards" /\ OnlyStage(o, "ending", status[o], pc[o])
      /\ BusyIn(card[o]) = {} /\ (o \in cancelled \/ \A c \in Cards : card[o][c] # "waiting")
  BY StatusStays, PcStays DEF EndCards, Busy, BusyIn, Advance, OnlyStage, cacheVars
<1>2. Tally("ending", card[o], report[o], uncounted[o])
  BY <1>1, OfOperation, TallyKept DEF Early
<1>3. Course(o)'
  BY <1>1, OfOperation, StageChanges DEF Course, Late
<1>4. QED
  BY <1>1, <1>2, <1>3, OfOperation, StageOps DEF Stages

LEMMA CheckCancelledOps ==
  ASSUME VaultOk, OpsOk, NEW o \in Ops, CheckCancelled(o)
  PROVE  OpsOk'
<1> DEFINE to == IF o \in cancelled THEN "cancelling" ELSE "completing"
<1>1. /\ stage[o] = "ending" /\ OnlyStage(o, to, status[o], pc[o]) /\ pc[o] # "import"
  BY StatusStays, PcStays DEF CheckCancelled, Advance, OnlyStage, cacheVars
<1>2. Tally(to, card[o], report[o], uncounted[o])
  BY <1>1, OfOperation, TallyKept DEF Early
<1>3. Course(o)'
  <2> HIDE DEF to
  <2>1. to = "completing" => o \notin cancelled
    BY DEF to
  <2>2. to \in {"cancelling", "completing"}
    BY DEF to
  <2>3. QED
    BY <1>1, <2>1, <2>2, OfOperation, StageChanges DEF Course, Late
<1>4. QED
  BY <1>1, <1>2, <1>3, OfOperation, StageOps DEF Stages

LEMMA MarkTerminatedOps ==
  ASSUME VaultOk, OpsOk, NEW o \in Ops, MarkTerminated(o)
  PROVE  OpsOk'
<1>1. PICK q \in {"COMPLETED", "CANCELLED"} :
        /\ OnlyStage(o, "ended", q, pc[o])
        /\ stage[o] = IF q = "COMPLETED" THEN "completing" ELSE "cancelling"
  BY PcStays DEF MarkTerminated, Advance, Set, OnlyStage, cacheVars
<1>2. Tally("ended", card[o], report[o], uncounted[o])
  BY <1>1, OfOperation, TallyKept DEF Early
<1>3. Course(o)'
  BY <1>1, OfOperation, StageChanges DEF Course, Late
<1>4. QED
  BY <1>1, <1>2, <1>3, StageOps DEF Stages

\* A step of o's worker that changes its stage, its cards and its report at most.
OnlyCards(o, to, cd, r, u) ==
  /\ stage' = [stage EXCEPT ![o] = to]
  /\ card' = [card EXCEPT ![o] = cd]
  /\ report' = [report EXCEPT ![o] = r]
  /\ uncounted' = [uncounted EXCEPT ![o] = u]
  /\ UNCHANGED <<pc, kind, status, cancelled>>
  /\ \A h \in Ops : h # o => \A c \in Cards : <<h, c>> \in pushed' <=> <<h, c>> \in pushed

LEMMA CardChanges ==
  ASSUME OpsOk, NEW o \in Ops, NEW to, NEW cd, NEW r, NEW u, OnlyCards(o, to, cd, r, u)
  PROVE  /\ stage'[o] = to /\ card'[o] = cd /\ report'[o] = r /\ uncounted'[o] = u
         /\ UNCHANGED <<pc, kind, status, cancelled>>
         /\ \A h \in Ops : h # o => NotOf(h)
BY DEF OnlyCards, OpsOk, OpTypes, NotOf

LEMMA CardOps ==
  ASSUME OpsOk, NEW o \in Ops, NEW to \in Stages, NEW cd \in [Cards -> CardStates],
         NEW r \in Reports, NEW u \in Nat, OnlyCards(o, to, cd, r, u),
         Cardinality(BusyIn(cd)) <= Workers, Tally(to, cd, r, u), Course(o)', PushesDealt(o)'
  PROVE  OpsOk'
<1>1. /\ stage'[o] = to /\ card'[o] = cd /\ report'[o] = r /\ uncounted'[o] = u
      /\ UNCHANGED <<pc, kind, status, cancelled>>
      /\ \A h \in Ops : h # o => NotOf(h)
  BY CardChanges
<1>2. OpTypes'
  BY <1>1 DEF OpsOk, OpTypes, OnlyCards
<1>3. OpOk(o)'
  BY <1>1 DEF OpOk
<1>4. QED
  BY <1>1, <1>2, <1>3, OfOne

\* What is assigned back to o is as it was.
LEMMA StageStays ==
  ASSUME OpsOk, NEW o \in Ops, UNCHANGED stage PROVE stage' = [stage EXCEPT ![o] = stage[o]]
BY DEF OpsOk, OpTypes

LEMMA CardStays ==
  ASSUME OpsOk, NEW o \in Ops, UNCHANGED card PROVE card' = [card EXCEPT ![o] = card[o]]
BY DEF OpsOk, OpTypes

LEMMA ReportStays ==
  ASSUME OpsOk, NEW o \in Ops, UNCHANGED report PROVE report' = [report EXCEPT ![o] = report[o]]
BY DEF OpsOk, OpTypes

LEMMA UncountedStays ==
  ASSUME OpsOk, NEW o \in Ops, UNCHANGED uncounted
  PROVE  uncounted' = [uncounted EXCEPT ![o] = uncounted[o]]
BY DEF OpsOk, OpTypes

LEMMA CountOps ==
  ASSUME VaultOk, OpsOk, NEW o \in Ops, Count(o)
  PROVE  OpsOk'
<1>1. PICK n \in 0 .. Cardinality(Cards) : report' = [report EXCEPT ![o].total = n]
  BY DEF Count
<1>2. n \in Nat
  OBVIOUS
<1> DEFINE r == [report[o] EXCEPT !.total = n]
<1>3. report[o] \in Reports /\ card[o] \in [Cards -> CardStates]
  BY OfOperation
<1>4. /\ stage[o] = "begun" /\ OnlyCards(o, "counted", card[o], r, uncounted[o])
      /\ kind[o] \in {"Integrity", "Import"} /\ UNCHANGED pushed
  BY <1>1, CardStays, UncountedStays DEF Count, Prepare, Advance, OnlyCards, vars, cacheVars, OpsOk, OpTypes
<1>5. /\ r \in Reports /\ r.invalid = report[o].invalid /\ r.progress = report[o].progress
      /\ r.success = report[o].success /\ r.failure = report[o].failure /\ r.other = report[o].other
  BY <1>2, <1>3 DEF Reports
<1> HIDE DEF r
<1>6. Tally("counted", card[o], r, uncounted[o])
  BY <1>4, <1>5, OfOperation DEF Tally, Early
<1>7. Course(o)' /\ PushesDealt(o)'
  BY <1>4, OfOperation, CardChanges, NotYetGiven DEF Course, PushesDealt, Late
<1>8. QED
  BY <1>3, <1>4, <1>5, <1>6, <1>7, OfOperation, CardOps DEF Stages

LEMMA CannotFindRecordsOps ==
  ASSUME VaultOk, OpsOk, NEW o \in Ops, CannotFindRecords(o)
  PROVE  OpsOk'
<1> DEFINE u == report[o].total
<1>1. report[o] \in Reports /\ card[o] \in [Cards -> CardStates]
  BY OfOperation
<1>2. u \in Nat
  BY <1>1 DEF Reports
<1>3. /\ stage[o] = "counted" /\ OnlyCards(o, "ending", card[o], report[o], u)
      /\ kind[o] = "Integrity" /\ UNCHANGED pushed
  BY CardStays, ReportStays
     DEF CannotFindRecords, Prepare, Advance, Set, OnlyCards, vars, cacheVars
<1>4. Tally("ending", card[o], report[o], u)
  <2>1. Tally(stage[o], card[o], report[o], uncounted[o])
    BY OfOperation
  <2>2. GivenIn(card[o]) = {} /\ report[o].invalid = 0
    BY <1>3, <2>1 DEF Tally, Early
  <2>3. Cardinality(GivenIn(card[o])) = 0
    BY <2>2, NothingGiven
  <2>4. QED
    BY <1>1, <2>1, <2>2, <2>3 DEF Tally, Early, Reports
<1> HIDE DEF u
<1>5. /\ stage'[o] = "ending" /\ card'[o] = card[o] /\ UNCHANGED <<pc, kind, status, cancelled>>
  BY <1>3, CardChanges
<1>6. /\ Course(o) /\ PushesDealt(o) /\ BusyIn(card[o]) = {}
      /\ \A c \in Cards : card[o][c] = "no" /\ <<o, c>> \notin pushed
  BY <1>3, OfOperation, NotYetGiven
<1>7. Course(o)'
  BY <1>3, <1>5, <1>6 DEF Course, Late
<1>8. PushesDealt(o)'
  BY <1>3, <1>5, <1>6 DEF PushesDealt
<1>9. QED
  BY <1>1, <1>2, <1>3, <1>4, <1>7, <1>8, OfOperation, CardOps DEF Stages

\* The cards of S are given to the scheduler, with the report r.
Giving(S) == [c \in Cards |-> IF c \in S THEN "waiting" ELSE "no"]

LEMMA GiveOps ==
  ASSUME VaultOk, OpsOk, NEW o \in Ops, NEW S \in SUBSET Cards, NEW r \in Reports, NEW u \in Nat,
         stage[o] \in {"begun", "counted"}, OnlyCards(o, "cards", Giving(S), r, u),
         UNCHANGED pushed, kind[o] = "ImportVault" => pc[o] = "import",
         r.total = Cardinality(S) + r.invalid + u, r.progress = r.invalid,
         r.success + r.failure + r.other = 0
  PROVE  OpsOk'
<1>1. /\ Giving(S) \in [Cards -> CardStates] /\ GivenIn(Giving(S)) = S /\ BusyIn(Giving(S)) = {}
      /\ Cardinality(DoneIn(Giving(S))) = 0 /\ Cardinality(BusyIn(Giving(S))) = 0
      /\ \A c \in Cards : Giving(S)[c] \in {"waiting", "no"}
  BY GivingCounts DEF Giving
<1>2. Tally("cards", Giving(S), r, u)
  BY <1>1 DEF Tally, Early, Reports
<1>3. stage'[o] = "cards" /\ card'[o] = Giving(S) /\ UNCHANGED <<pc, kind, status, cancelled>>
  BY CardChanges
<1>4. Course(o) /\ \A c \in Cards : <<o, c>> \notin pushed
  BY OfOperation, NotYetGiven
<1>5. Course(o)'
  BY <1>3, <1>4 DEF Course, Late
<1>6. PushesDealt(o)'
  BY <1>1, <1>3, <1>4 DEF PushesDealt, Results
<1>7. Cardinality(BusyIn(Giving(S))) <= Workers
  BY <1>1, WorkersIsPositive
<1>8. "cards" \in Stages
  BY DEF Stages
<1>9. QED
  BY <1>1, <1>2, <1>5, <1>6, <1>7, <1>8, CardOps

LEMMA TakeCardsOps ==
  ASSUME VaultOk, OpsOk, NEW o \in Ops, TakeCards(o)
  PROVE  OpsOk'
<1>1. PICK S \in SUBSET Cards : Given(o, S) /\ report' = [report EXCEPT ![o].total = Cardinality(S)]
  BY DEF TakeCards
<1>2. Cardinality(S) \in Nat
  BY SubsetsOfCards
<1> DEFINE r == [report[o] EXCEPT !.total = Cardinality(S)]
<1>3. report[o] \in Reports /\ stage[o] = "begun" /\ Course(o)
  BY OfOperation DEF TakeCards, Advance
<1>4. OnlyCards(o, "cards", Giving(S), r, uncounted[o]) /\ UNCHANGED pushed
  BY <1>1, UncountedStays
     DEF TakeCards, Prepare, Advance, Set, Given, Giving, OnlyCards, vars, cacheVars, OpsOk, OpTypes
<1>5. kind[o] = "ImportVault" => pc[o] = "import"
  BY <1>3 DEF TakeCards, Prepare, Course
<1>6. /\ r \in Reports /\ r.total = Cardinality(S)
      /\ r.invalid = report[o].invalid /\ r.progress = report[o].progress
      /\ r.success = report[o].success /\ r.failure = report[o].failure /\ r.other = report[o].other
  BY <1>2, <1>3 DEF Reports
<1> HIDE DEF r
<1>7. /\ r.total = Cardinality(S) + r.invalid + uncounted[o] /\ r.progress = r.invalid
      /\ r.success + r.failure + r.other = 0 /\ uncounted[o] \in Nat
  BY <1>2, <1>3, <1>6, NotYetGiven
<1>8. QED
  BY <1>3, <1>4, <1>5, <1>6, <1>7, GiveOps

LEMMA FindRecordsOps ==
  ASSUME VaultOk, OpsOk, NEW o \in Ops, FindRecords(o)
  PROVE  OpsOk'
<1>1. PICK S \in SUBSET Cards :
        /\ Cardinality(S) <= report[o].total /\ Given(o, S)
        /\ Set(uncounted, o, report[o].total - Cardinality(S))
  BY DEF FindRecords
<1> DEFINE u == report[o].total - Cardinality(S)
<1>2. report[o] \in Reports /\ stage[o] = "counted" /\ kind[o] = "Integrity"
  BY OfOperation DEF FindRecords, Advance
<1>3. OnlyCards(o, "cards", Giving(S), report[o], u) /\ UNCHANGED pushed
  BY <1>1, ReportStays
     DEF FindRecords, Prepare, Advance, Set, Given, Giving, OnlyCards, vars, cacheVars
<1>4. Cardinality(S) \in Nat /\ report[o].total \in Nat
  BY <1>2, SubsetsOfCards DEF Reports
<1>5. u \in Nat /\ report[o].total = Cardinality(S) + u
  BY <1>1, <1>4
<1> HIDE DEF u
<1>6. /\ report[o].total = Cardinality(S) + report[o].invalid + u
      /\ report[o].progress = report[o].invalid
      /\ report[o].success + report[o].failure + report[o].other = 0
  BY <1>2, <1>4, <1>5, NotYetGiven
<1>7. QED
  BY <1>2, <1>3, <1>5, <1>6, GiveOps

LEMMA FindURLsOps ==
  ASSUME VaultOk, OpsOk, NEW o \in Ops, FindURLs(o)
  PROVE  OpsOk'
<1>1. PICK S \in SUBSET Cards, invalid \in {0, 1} :
        /\ Cardinality(S) + invalid <= report[o].total /\ Given(o, S)
        /\ report' = [report EXCEPT ![o].invalid = invalid, ![o].progress = invalid]
        /\ Set(uncounted, o, report[o].total - Cardinality(S) - invalid)
  BY DEF FindURLs
<1> DEFINE u == report[o].total - Cardinality(S) - invalid
           r == [report[o] EXCEPT !.invalid = invalid, !.progress = invalid]
<1>2. report[o] \in Reports /\ stage[o] = "counted" /\ kind[o] = "Import"
  BY OfOperation DEF FindURLs, Advance
<1>3. OnlyCards(o, "cards", Giving(S), r, u) /\ UNCHANGED pushed
  BY <1>1 DEF FindURLs, Prepare, Advance, Set, Given, Giving, OnlyCards, vars, cacheVars, OpsOk, OpTypes
<1>4. Cardinality(S) \in Nat /\ report[o].total \in Nat
  BY <1>2, SubsetsOfCards DEF Reports
<1>5. u \in Nat /\ report[o].total = Cardinality(S) + invalid + u
  BY <1>1, <1>4
<1>6. /\ r \in Reports /\ r.total = report[o].total /\ r.invalid = invalid /\ r.progress = invalid
      /\ r.success = report[o].success /\ r.failure = report[o].failure /\ r.other = report[o].other
  <2> DEFINE r1 == [report[o] EXCEPT !.invalid = invalid]
  <2>1. invalid \in Nat
    OBVIOUS
  <2>2. /\ r1 \in Reports /\ r1.total = report[o].total /\ r1.invalid = invalid
        /\ r1.success = report[o].success /\ r1.failure = report[o].failure /\ r1.other = report[o].other
    BY <1>2, <2>1 DEF Reports
  <2>3. r = [r1 EXCEPT !.progress = invalid]
    BY <1>2 DEF Reports
  <2> HIDE DEF r, r1
  <2>4. QED
    BY <2>1, <2>2, <2>3 DEF Reports
<1> HIDE DEF u, r
<1>7. /\ r.total = Cardinality(S) + r.invalid + u /\ r.progress = r.invalid
      /\ r.success + r.failure + r.other = 0
  BY <1>2, <1>5, <1>6, NotYetGiven
<1>8. QED
  BY <1>2, <1>3, <1>5, <1>6, <1>7, GiveOps

\* A handler is at work only while the cards are dealt with.
LEMMA AtWork ==
  ASSUME OpsOk, NEW o \in Ops, NEW c \in Cards, card[o][c] \in {"waiting", "busy"} \cup Results,
         card[o][c] = "waiting" => stage[o] = "cards"
  PROVE  /\ stage[o] = "cards" /\ status[o] \in {"none", "ONGOING"}
         /\ kind[o] = "ImportVault" => pc[o] = "import"
<1>1. Tally(stage[o], card[o], report[o], uncounted[o]) /\ Course(o) /\ stage[o] \in Stages
  BY OfOperation
<1>2. c \in GivenIn(card[o]) /\ (card[o][c] # "waiting" => c \in BusyIn(card[o]))
  BY DEF GivenIn, BusyIn, Results
<1>3. stage[o] \notin Early
  BY <1>1, <1>2 DEF Tally
<1>4. stage[o] = "cards"
  BY <1>1, <1>2, <1>3 DEF Course, Stages, Early, Late
<1>5. QED
  BY <1>1, <1>4 DEF Course

LEMMA WorkGoesOn ==
  ASSUME NEW o \in Ops, stage[o] = "cards", stage'[o] = "cards",
         status[o] \in {"none", "ONGOING"}, kind[o] = "ImportVault" => pc[o] = "import",
         UNCHANGED <<pc, kind, status, cancelled>>
  PROVE  Course(o)'
BY DEF Course, Late

\* What the change of one card does to the sets of cards.
Changed(o, c, x) == [card[o] EXCEPT ![c] = x]

LEMMA TakenCard ==
  ASSUME NEW o \in Ops, NEW c \in Cards, card[o] \in [Cards -> CardStates], card[o][c] = "waiting"
  PROVE  /\ Changed(o, c, "busy") \in [Cards -> CardStates]
         /\ DoneIn(Changed(o, c, "busy")) = DoneIn(card[o])
         /\ GivenIn(Changed(o, c, "busy")) = GivenIn(card[o])
         /\ BusyIn(Changed(o, c, "busy")) = BusyIn(card[o]) \cup {c}
         /\ c \notin BusyIn(card[o])
BY DEF Changed, CardStates, DoneIn, GivenIn, BusyIn, Results

LEMMA DealtCard ==
  ASSUME NEW o \in Ops, NEW c \in Cards, NEW x \in Results,
         card[o] \in [Cards -> CardStates], card[o][c] = "busy"
  PROVE  /\ Changed(o, c, x) \in [Cards -> CardStates]
         /\ DoneIn(Changed(o, c, x)) = DoneIn(card[o])
         /\ GivenIn(Changed(o, c, x)) = GivenIn(card[o])
         /\ BusyIn(Changed(o, c, x)) = BusyIn(card[o])
BY DEF Changed, CardStates, DoneIn, GivenIn, BusyIn, Results

LEMMA ReportedCard ==
  ASSUME NEW o \in Ops, NEW c \in Cards, card[o] \in [Cards -> CardStates], card[o][c] \in Results
  PROVE  /\ Changed(o, c, "done") \in [Cards -> CardStates]
         /\ DoneIn(Changed(o, c, "done")) = DoneIn(card[o]) \cup {c}
         /\ GivenIn(Changed(o, c, "done")) = GivenIn(card[o])
         /\ BusyIn(Changed(o, c, "done")) = BusyIn(card[o]) \ {c}
         /\ c \notin DoneIn(card[o]) /\ c \in BusyIn(card[o])
BY DEF Changed, CardStates, DoneIn, GivenIn, BusyIn, Results

LEMMA TakeOps ==
  ASSUME VaultOk, OpsOk, NEW o \in Ops, NEW c \in Cards, Take(o, c)
  PROVE  OpsOk'
<1> DEFINE cd == Changed(o, c, "busy")
<1>1. /\ card[o] \in [Cards -> CardStates] /\ report[o] \in Reports /\ uncounted[o] \in Nat
      /\ Tally(stage[o], card[o], report[o], uncounted[o]) /\ PushesDealt(o)
  BY OfOperation
<1>2. stage[o] = "cards" /\ card[o][c] = "waiting" /\ Cardinality(BusyIn(card[o])) < Workers
  BY DEF Take, Busy, BusyIn
<1>3. OnlyCards(o, "cards", cd, report[o], uncounted[o]) /\ UNCHANGED pushed
  BY <1>2, StageStays, ReportStays, UncountedStays
     DEF Take, OnlyCards, Changed, vars, cacheVars, OpsOk, OpTypes
<1>4. /\ cd \in [Cards -> CardStates] /\ DoneIn(cd) = DoneIn(card[o]) /\ GivenIn(cd) = GivenIn(card[o])
      /\ BusyIn(cd) = BusyIn(card[o]) \cup {c} /\ c \notin BusyIn(card[o])
  BY <1>1, <1>2, TakenCard
<1>5. \A d \in Cards : cd[d] = IF d = c THEN "busy" ELSE card[o][d]
  BY <1>1 DEF Changed
<1> HIDE DEF cd
<1>6. IsFiniteSet(BusyIn(card[o])) /\ Cardinality(BusyIn(card[o])) \in Nat
  BY PartsAreCards, SubsetsOfCards
<1>7. Cardinality(BusyIn(cd)) = Cardinality(BusyIn(card[o])) + 1
  BY <1>4, <1>6, FS_AddElement
<1>8. Cardinality(BusyIn(cd)) <= Workers
  BY <1>2, <1>6, <1>7, WorkersIsPositive
<1>9. Tally("cards", cd, report[o], uncounted[o])
  BY <1>1, <1>2, <1>4 DEF Tally
<1>10. stage'[o] = "cards" /\ card'[o] = cd /\ UNCHANGED <<pc, kind, status, cancelled>>
  BY <1>3, CardChanges
<1>11. Course(o)'
  BY <1>2, <1>10, AtWork, WorkGoesOn
<1>12. PushesDealt(o)'
  BY <1>1, <1>2, <1>3, <1>5, <1>10 DEF PushesDealt, Results
<1>13. "cards" \in Stages
  BY DEF Stages
<1>14. QED
  BY <1>1, <1>3, <1>4, <1>8, <1>9, <1>11, <1>12, <1>13, CardOps

LEMMA ReportOfDeal ==
  ASSUME OpsOk, NEW o \in Ops, NEW c \in Cards, NEW x \in Results, Deal(o, c, x)
  PROVE  /\ card[o][c] = "busy" /\ card' = [card EXCEPT ![o] = Changed(o, c, x)]
         /\ UNCHANGED <<pc, kind, stage, status, cancelled, report, uncounted>>
         /\ IF kind[o] \in {"Update", "Export"} THEN pushed' = pushed \cup {<<o, c>>} ELSE pushed' = pushed
BY DEF Deal, Push, Changed, vars, cacheVars, OpsOk, OpTypes

LEMMA DealOps ==
  ASSUME VaultOk, OpsOk, NEW o \in Ops, NEW c \in Cards, NEW x \in Results, Deal(o, c, x)
  PROVE  OpsOk'
<1> DEFINE cd == Changed(o, c, x)
<1>1. /\ card[o] \in [Cards -> CardStates] /\ report[o] \in Reports /\ uncounted[o] \in Nat
      /\ Tally(stage[o], card[o], report[o], uncounted[o]) /\ PushesDealt(o)
      /\ Cardinality(BusyIn(card[o])) <= Workers
  BY OfOperation
<1>2. /\ card[o][c] = "busy" /\ card' = [card EXCEPT ![o] = cd]
      /\ UNCHANGED <<pc, kind, stage, status, cancelled, report, uncounted>>
      /\ IF kind[o] \in {"Update", "Export"} THEN pushed' = pushed \cup {<<o, c>>} ELSE pushed' = pushed
  BY ReportOfDeal
<1>3. stage[o] = "cards" /\ status[o] \in {"none", "ONGOING"} /\ (kind[o] = "ImportVault" => pc[o] = "import")
  BY <1>2, AtWork
<1>4. OnlyCards(o, "cards", cd, report[o], uncounted[o])
  BY <1>2, <1>3, StageStays, ReportStays, UncountedStays DEF OnlyCards
<1>5. /\ cd \in [Cards -> CardStates] /\ DoneIn(cd) = DoneIn(card[o]) /\ GivenIn(cd) = GivenIn(card[o])
      /\ BusyIn(cd) = BusyIn(card[o])
  BY <1>1, <1>2, DealtCard
<1>6. \A d \in Cards : cd[d] = IF d = c THEN x ELSE card[o][d]
  BY <1>1 DEF Changed
<1> HIDE DEF cd
<1>7. Tally("cards", cd, report[o], uncounted[o])
  BY <1>1, <1>3, <1>5 DEF Tally
<1>8. stage'[o] = "cards" /\ card'[o] = cd /\ UNCHANGED <<pc, kind, status, cancelled>>
  BY <1>4, CardChanges
<1>9. Course(o)'
  BY <1>3, <1>8, WorkGoesOn
<1>10. PushesDealt(o)'
  BY <1>1, <1>2, <1>6, <1>8 DEF PushesDealt, Results
<1>11. "cards" \in Stages
  BY DEF Stages
<1>12. QED
  BY <1>1, <1>4, <1>5, <1>7, <1>9, <1>10, <1>11, CardOps

\* One more of progress and one more of x.
CountsOne(r, x) == [r EXCEPT !.progress = @ + 1, ![x] = @ + 1]

LEMMA CountingOne ==
  ASSUME NEW r \in Reports, NEW x \in Results
  PROVE  /\ CountsOne(r, x) \in Reports
         /\ CountsOne(r, x).total = r.total /\ CountsOne(r, x).invalid = r.invalid
         /\ CountsOne(r, x).progress = r.progress + 1
         /\ CountsOne(r, x).success + CountsOne(r, x).failure + CountsOne(r, x).other
              = r.success + r.failure + r.other + 1
<1> DEFINE s == [r EXCEPT !.progress = @ + 1]
<1>1. /\ s \in Reports /\ s.total = r.total /\ s.invalid = r.invalid /\ s.progress = r.progress + 1
      /\ s.success = r.success /\ s.failure = r.failure /\ s.other = r.other
  BY DEF Reports
<1>2. CountsOne(r, x) = [s EXCEPT ![x] = @ + 1]
  BY DEF CountsOne, Reports, Results
<1> HIDE DEF s
<1>3. CASE x = "success"
  BY <1>1, <1>2, <1>3 DEF Reports
<1>4. CASE x = "failure"
  BY <1>1, <1>2, <1>4 DEF Reports
<1>5. CASE x = "other"
  BY <1>1, <1>2, <1>5 DEF Reports
<1>6. QED
  BY <1>3, <1>4, <1>5 DEF Results

LEMMA ReportOps ==
  ASSUME VaultOk, OpsOk, NEW o \in Ops, NEW c \in Cards, Report(o, c)
  PROVE  OpsOk'
<1> DEFINE cd == Changed(o, c, "done")
           r == CountsOne(report[o], card[o][c])
<1>1. /\ card[o] \in [Cards -> CardStates] /\ report[o] \in Reports /\ uncounted[o] \in Nat
      /\ Tally(stage[o], card[o], report[o], uncounted[o]) /\ PushesDealt(o)
      /\ Cardinality(BusyIn(card[o])) <= Workers
  BY OfOperation
<1>2. /\ card[o][c] \in Results /\ card' = [card EXCEPT ![o] = cd]
      /\ report' = [report EXCEPT ![o] = r]
      /\ UNCHANGED <<pc, pushed, kind, stage, status, cancelled, uncounted>>
  BY DEF Report, Changed, CountsOne, vars, cacheVars, OpsOk, OpTypes
<1>3. stage[o] = "cards" /\ status[o] \in {"none", "ONGOING"} /\ (kind[o] = "ImportVault" => pc[o] = "import")
  BY <1>2, AtWork DEF Results
<1>4. OnlyCards(o, "cards", cd, r, uncounted[o])
  BY <1>2, <1>3, StageStays, UncountedStays DEF OnlyCards
<1>5. /\ cd \in [Cards -> CardStates] /\ DoneIn(cd) = DoneIn(card[o]) \cup {c} /\ GivenIn(cd) = GivenIn(card[o])
      /\ BusyIn(cd) = BusyIn(card[o]) \ {c} /\ c \notin DoneIn(card[o]) /\ c \in BusyIn(card[o])
  BY <1>1, <1>2, ReportedCard
<1>6. \A d \in Cards : cd[d] = IF d = c THEN "done" ELSE card[o][d]
  BY <1>1 DEF Changed
<1>7. /\ r \in Reports /\ r.total = report[o].total /\ r.invalid = report[o].invalid
      /\ r.progress = report[o].progress + 1
      /\ r.success + r.failure + r.other = report[o].success + report[o].failure + report[o].other + 1
  BY <1>1, <1>2, CountingOne
<1> HIDE DEF cd, r
<1>8. /\ IsFiniteSet(BusyIn(card[o])) /\ Cardinality(BusyIn(card[o])) \in Nat
      /\ IsFiniteSet(DoneIn(card[o])) /\ Cardinality(DoneIn(card[o])) \in Nat
      /\ Cardinality(BusyIn(cd)) \in Nat
  BY PartsAreCards, SubsetsOfCards
<1>9. Cardinality(DoneIn(cd)) = Cardinality(DoneIn(card[o])) + 1
  BY <1>5, <1>8, FS_AddElement
<1>10. Cardinality(BusyIn(cd)) = Cardinality(BusyIn(card[o])) - 1
  BY <1>5, <1>8, FS_RemoveElement
<1>11. Cardinality(BusyIn(cd)) <= Workers
  BY <1>1, <1>8, <1>10, WorkersIsPositive
<1>12. Tally("cards", cd, r, uncounted[o])
  BY <1>1, <1>3, <1>5, <1>7, <1>8, <1>9 DEF Tally, Early, Reports
<1>13. stage'[o] = "cards" /\ card'[o] = cd /\ UNCHANGED <<pc, kind, status, cancelled>>
  BY <1>4, CardChanges
<1>14. Course(o)'
  BY <1>3, <1>13, WorkGoesOn
<1>15. PushesDealt(o)'
  BY <1>1, <1>2, <1>6, <1>13 DEF PushesDealt, Results
<1>16. "cards" \in Stages
  BY DEF Stages
<1>17. QED
  BY <1>1, <1>4, <1>5, <1>7, <1>11, <1>12, <1>14, <1>15, <1>16, CardOps

LEMMA CancelOps ==
  ASSUME VaultOk, OpsOk, NEW o \in Ops, Cancel(o)
  PROVE  OpsOk'
<1>1. /\ cancelled' = cancelled \cup {o}
      /\ UNCHANGED <<pc, pushed, kind, stage, status, card, report, uncounted>>
  BY DEF Cancel, vars, cacheVars
<1>2. OpTypes'
  BY <1>1 DEF OpsOk, OpTypes
<1>3. OpOk(o)'
  BY <1>1 DEF OpsOk, OpOk, Course, PushesDealt
<1>4. \A h \in Ops : h # o => NotOf(h)
  BY <1>1 DEF NotOf
<1>5. QED
  BY <1>2, <1>3, <1>4, OfOne

LEMMA PrepareVaultOps ==
  ASSUME VaultOk, OpsOk, NEW o \in Ops, PrepareVault(o)
  PROVE  OpsOk'
<1>1. PICK p \in {"open", "import"} : OnlyPcOf(o, p) /\ stage[o] = "begun"
  BY DEF PrepareVault, ImportCreate, ImportOpen, Goto, OnlyPcOf
<1>2. QED
  BY <1>1, OnlyPc

LEMMA CloseImportOps ==
  ASSUME VaultOk, OpsOk, NEW o \in Ops, CloseImport(o)
  PROVE  OpsOk'
<1>1. OnlyPcOf(o, "idle") /\ stage[o] = "ending"
  BY DEF CloseImport, ImportEnd, Goto, OnlyPcOf
<1>2. QED
  BY <1>1, OnlyPc

LEMMA ReturnOps ==
  ASSUME VaultOk, OpsOk, NEW o \in Ops, Return(o)
  PROVE  OpsOk'
<1>1. OnlyPcOf(o, "idle") /\ stage[o] = "ended"
  BY DEF Return, EndOp, Goto, OnlyPcOf
<1>2. QED
  BY <1>1, OnlyPc

LEMMA BeginningOps ==
  ASSUME VaultOk, OpsOk, NEW o \in Ops, Begin(o)
  PROVE  OpsOk'
<1>1. ASSUME NEW k \in FacadeKinds, BeginFacade(o, k) PROVE OpsOk'
  <2>1. k \in Kinds /\ k # "ImportVault"
    BY DEF Kinds, FacadeKinds
  <2>2. NewOperation(o, k) /\ UNCHANGED cacheVars
        /\ pc' = [pc EXCEPT ![o] = IF k = "ImportVault" THEN "create" ELSE "using"]
    BY <1>1, <2>1 DEF BeginFacade, BeginOp, BeginReadOp, Goto
  <2>3. QED
    BY <2>1, <2>2, BeginOps
<1>2. ASSUME NEW n \in Names, BeginImportVault(o, n) PROVE OpsOk'
  <2>1. "ImportVault" \in Kinds
    BY DEF Kinds
  <2>2. NewOperation(o, "ImportVault") /\ UNCHANGED cacheVars
        /\ pc' = [pc EXCEPT ![o] = IF "ImportVault" = "ImportVault" THEN "create" ELSE "using"]
    BY <1>2 DEF BeginImportVault, ImportVault, Goto
  <2>3. QED
    BY <2>1, <2>2, BeginOps
<1>3. QED
  BY <1>1, <1>2 DEF Begin

LEMMA StepOps ==
  ASSUME VaultOk, OpsOk, NEW o \in Ops, Begin(o) \/ OperationStep(o) \/ Cancel(o)
  PROVE  OpsOk'
BY BeginningOps, CancelOps, PrepareVaultOps, VaultNotMadeOps, TakeCardsOps, CannotPrepareOps, CountOps,
   FindRecordsOps, CannotFindRecordsOps, FindURLsOps, CannotFindURLsOps, TakeOps, DealOps, ReportOps,
   EndCardsOps, CloseImportOps, CheckCancelledOps, MarkTerminatedOps, ReturnOps DEF OperationStep

-----------------------------------------------------------------------------
(* Every step keeps the invariant                                          *)

\* Where a step may take g, and only g.
Moves(g, from, to) ==
  /\ \A h \in Goroutines : h # g => pc'[h] = pc[h]
  /\ pc'[g] = pc[g] \/ (pc[g] \in from /\ pc'[g] \in to)

LEMMA Moved ==
  ASSUME VaultOk, NEW g \in Goroutines, NEW from, NEW to, NEW p \in to,
         pc[g] \in from, pc' = [pc EXCEPT ![g] = p]
  PROVE  Moves(g, from, to)
BY DEF VaultOk, Moves

OpPCs == {"idle", "using", "create", "open", "import"}

LEMMA WorkerMoves ==
  ASSUME VaultOk, NEW o \in Ops, Begin(o) \/ OperationStep(o) \/ Cancel(o)
  PROVE  Moves(o, OpPCs, OpPCs) /\ batch' = batch
<1>0. o \in Goroutines
  BY OpsAreGoroutines
<1>1. ASSUME UNCHANGED vars PROVE Moves(o, OpPCs, OpPCs)
  BY <1>1 DEF vars, Moves
<1>2. CASE Begin(o)
  BY <1>0, <1>2, Moved DEF OpPCs, Begin, BeginFacade, BeginImportVault,
     BeginOp, BeginReadOp, ImportVault, Goto, cacheVars
<1>3. CASE PrepareVault(o) \/ VaultNotMade(o) \/ CannotFindURLs(o) \/ CloseImport(o) \/ Return(o)
  BY <1>0, <1>3, Moved DEF OpPCs, PrepareVault, VaultNotMade, CannotFindURLs, CloseImport, Return,
     ImportCreate, ImportOpen, ImportFails, ImportEnd, EndOp, Goto, cacheVars
<1>4. CASE TakeCards(o) \/ CannotPrepare(o) \/ Count(o) \/ FindRecords(o) \/ CannotFindRecords(o) \/ FindURLs(o)
  BY <1>1, <1>4 DEF TakeCards, CannotPrepare, Count, FindRecords, CannotFindRecords,
     FindURLs, Prepare, cacheVars
<1>5. CASE EndCards(o) \/ CheckCancelled(o) \/ MarkTerminated(o) \/ Cancel(o)
  BY <1>1, <1>5 DEF EndCards, CheckCancelled, MarkTerminated, Cancel, cacheVars
<1>6. ASSUME NEW c \in Cards, Take(o, c) \/ (\E x \in Results : Deal(o, c, x)) \/ Report(o, c)
      PROVE  Moves(o, OpPCs, OpPCs) /\ batch' = batch
  BY <1>1, <1>6 DEF Take, Deal, Push, Report, cacheVars
<1>7. QED
  BY <1>2, <1>3, <1>4, <1>5, <1>6 DEF OperationStep

LEMMA StepVault ==
  ASSUME VaultOk, NEW o \in Ops, Begin(o) \/ OperationStep(o) \/ Cancel(o)
  PROVE  VaultOk'
<1>0. o \in Goroutines
  BY OpsAreGoroutines
<1>1. ASSUME UNCHANGED vars PROVE VaultOk'
  BY <1>1 DEF vars, VaultOk, TypeOK
<1>2. CASE Begin(o)
  BY <1>0, <1>2, BeginOpVault, ImportVaultVault DEF Begin, BeginFacade, BeginImportVault
<1>3. CASE PrepareVault(o) \/ VaultNotMade(o) \/ CannotFindURLs(o) \/ CloseImport(o) \/ Return(o)
  BY <1>0, <1>3, ImportCreateVault, ImportOpenVault, ImportFailsVault, ImportEndVault, EndOpVault
     DEF PrepareVault, VaultNotMade, CannotFindURLs, CloseImport, Return
<1>4. CASE TakeCards(o) \/ CannotPrepare(o) \/ Count(o) \/ FindRecords(o) \/ CannotFindRecords(o) \/ FindURLs(o)
  BY <1>1, <1>4 DEF TakeCards, CannotPrepare, Count, FindRecords, CannotFindRecords, FindURLs, Prepare
<1>5. CASE EndCards(o) \/ CheckCancelled(o) \/ MarkTerminated(o) \/ Cancel(o)
  BY <1>1, <1>5 DEF EndCards, CheckCancelled, MarkTerminated, Cancel
<1>6. ASSUME NEW c \in Cards, Take(o, c) \/ (\E x \in Results : Deal(o, c, x)) \/ Report(o, c)
      PROVE  VaultOk'
  BY <1>1, <1>6 DEF Take, Deal, Report
<1>7. QED
  BY <1>2, <1>3, <1>4, <1>5, <1>6 DEF OperationStep

LEMMA StepCache ==
  ASSUME CacheOk, OpsOk, NEW o \in Ops, Begin(o) \/ OperationStep(o) \/ Cancel(o)
  PROVE  CacheOk'
<1>1. ASSUME UNCHANGED cacheVars PROVE CacheOk'
  BY <1>1, CacheKept
<1>2. CASE Begin(o) \/ Cancel(o)
  BY <1>1, <1>2 DEF Begin, BeginFacade, BeginImportVault, Cancel
<1>3. CASE PrepareVault(o) \/ VaultNotMade(o) \/ CannotFindURLs(o) \/ CloseImport(o) \/ Return(o)
  BY <1>1, <1>3 DEF PrepareVault, VaultNotMade, CannotFindURLs, CloseImport, Return
<1>4. CASE TakeCards(o) \/ CannotPrepare(o) \/ Count(o) \/ FindRecords(o) \/ CannotFindRecords(o) \/ FindURLs(o)
  BY <1>1, <1>4 DEF TakeCards, CannotPrepare, Count, FindRecords, CannotFindRecords, FindURLs, Prepare
<1>5. CASE EndCards(o) \/ CheckCancelled(o) \/ MarkTerminated(o)
  BY <1>1, <1>5 DEF EndCards, CheckCancelled, MarkTerminated
<1>6. ASSUME NEW c \in Cards, Take(o, c) \/ Report(o, c) PROVE CacheOk'
  BY <1>1, <1>6 DEF Take, Report
<1>7. ASSUME NEW c \in Cards, NEW x \in Results, Deal(o, c, x) PROVE CacheOk'
  <2>1. CASE kind[o] \in {"Update", "Export"}
    <3>1. Push(o, c) /\ card[o][c] = "busy" /\ PushesDealt(o)
      BY <1>7, <2>1, OfOperation DEF Deal
    <3>2. <<o, c>> \notin pushed
      BY <3>1 DEF PushesDealt, Results
    <3>3. o \in Goroutines
      BY OpsAreGoroutines
    <3>4. QED
      BY <3>1, <3>2, <3>3, PushCache
  <2>2. CASE kind[o] \notin {"Update", "Export"}
    BY <1>1, <1>7, <2>2 DEF Deal
  <2>3. QED
    BY <2>1, <2>2
<1>8. QED
  BY <1>2, <1>3, <1>4, <1>5, <1>6, <1>7 DEF OperationStep

LEMMA ClientMoves ==
  ASSUME VaultOk, NEW g \in Goroutines, FlushStep(g) \/ FacadeStep(g)
  PROVE  \A h \in Goroutines : h # g => pc'[h] = pc[h]
<1>1. CASE FlushStep(g)
  BY <1>1 DEF VaultOk, FlushStep, FlushGoesOn, FlushHasRequests, FlushTake, FlushNoVault,
     FlushBegin, BeginReadOp, FlushFind, Goto
<1>2. CASE FacadeStep(g)
  BY <1>2 DEF VaultOk, FacadeStep, LoadVault, LoadGoesOn, LoadSwap, LoadFails, LoadCloseOld, UnloadVault,
     BeginOp, BeginReadOp, EndOp, Goto
<1>3. QED
  BY <1>1, <1>2

LEMMA FacadeKeepsBatches ==
  ASSUME VaultOk, BatchesHeld, NEW g \in Goroutines, FacadeStep(g), UNCHANGED cacheVars
  PROVE  BatchesHeld'
BY DEF VaultOk, BatchesHeld, cacheVars, FacadeStep, LoadVault, LoadGoesOn, LoadSwap, LoadFails,
   LoadCloseOld, UnloadVault, BeginOp, BeginReadOp, EndOp, Goto

LEMMA ClientOps ==
  ASSUME VaultOk, OpsOk, OpsKeepOut, NEW g \in Goroutines, g \notin Ops, UNCHANGED opVars,
         FlushStep(g) \/ (FacadeStep(g) /\ UNCHANGED cacheVars)
  PROVE  OpsOk' /\ OpsKeepOut'
<1>1. \A h \in Ops : pc'[h] = pc[h]
  BY ClientMoves, OpsAreGoroutines
<1>2. pushed' = pushed
  BY DEF FlushStep, FlushGoesOn, FlushHasRequests, FlushTake, FlushNoVault, FlushBegin, FlushFind, cacheVars
<1>3. UNCHANGED <<kind, stage, status, cancelled, card, report, uncounted>>
  BY DEF opVars
<1>4. \A h \in Ops : NotOf(h)
  BY <1>1, <1>2, <1>3 DEF NotOf
<1>5. OpTypes'
  BY <1>3 DEF OpsOk, OpTypes
<1>6. OpsOk'
  BY <1>4, <1>5, OthersKept DEF OpsOk
<1>7. OpsKeepOut'
  BY <1>1 DEF OpsKeepOut
<1>8. QED
  BY <1>6, <1>7

LEMMA StepKeepsAll ==
  ASSUME OpInvariant, NEW o \in Ops, Begin(o) \/ OperationStep(o) \/ Cancel(o)
  PROVE  OpInvariant'
<1>1. VaultOk /\ OpsKeepOut /\ CacheOk /\ BatchesHeld /\ OpsOk
  BY DEF OpInvariant
<1>2. Moves(o, OpPCs, OpPCs) /\ batch' = batch
  BY <1>1, WorkerMoves
<1>3. OpsKeepOut'
  BY <1>1, <1>2, OpsAreGoroutines DEF OpsKeepOut, Moves, OpPCs
<1>4. BatchesHeld'
  BY <1>1, <1>2 DEF BatchesHeld, Moves, OpPCs
<1>5. QED
  BY <1>1, <1>3, <1>4, StepVault, StepCache, StepOps DEF OpInvariant

LEMMA ClientKeepsAll ==
  ASSUME OpInvariant, NEW g \in Clients,
         \/ FlushStep(g) /\ UNCHANGED opVars
         \/ FacadeStep(g) /\ UNCHANGED <<cacheVars, opVars>>
  PROVE  OpInvariant'
<1>1. VaultOk /\ OpsKeepOut /\ CacheOk /\ BatchesHeld /\ OpsOk
  BY DEF OpInvariant
<1>2. g \in Goroutines /\ g \notin Ops
  BY DEF Clients
<1>3. VaultOk'
  BY <1>1, <1>2, FlushVault, FacadeVault
<1>4. CacheOk' /\ BatchesHeld'
  BY <1>1, <1>2, FlushCache, CacheKept, FacadeKeepsBatches
<1>5. OpsOk' /\ OpsKeepOut'
  BY <1>1, <1>2, ClientOps
<1>6. QED
  BY <1>3, <1>4, <1>5 DEF OpInvariant

LEMMA NothingKeepsAll ==
  ASSUME OpInvariant, UNCHANGED everything
  PROVE  OpInvariant'
BY CacheKept DEF OpInvariant, everything, vars, cacheVars, opVars, VaultOk, TypeOK, OpsKeepOut, BatchesHeld,
   OpsOk, OpTypes, OpOk, Course, PushesDealt

LEMMA InitOps ==
  ASSUME OpInit
  PROVE  OpsOk
<1>1. /\ kind = [o \in Ops |-> "none"] /\ stage = [o \in Ops |-> "none"] /\ status = [o \in Ops |-> "none"]
      /\ cancelled = {} /\ card = [o \in Ops |-> [c \in Cards |-> "no"]]
      /\ report = [o \in Ops |-> Blank] /\ uncounted = [o \in Ops |-> 0] /\ pushed = {}
  BY DEF OpInit, CacheInit
<1>2. Blank \in Reports
  BY DEF Blank, Reports
<1>3. OpTypes
  BY <1>1, <1>2 DEF OpTypes, Stages, CardStates
<1>4. ASSUME NEW o \in Ops PROVE OpOk(o)
  <2>1. GivenIn(card[o]) = {}
    BY <1>1 DEF GivenIn
  <2>2. DoneIn(card[o]) = {} /\ BusyIn(card[o]) = {} /\ Cardinality(DoneIn(card[o])) = 0
    BY <2>1, NothingGiven
  <2>3. Cardinality(BusyIn(card[o])) = 0
    BY <2>2, FS_EmptySet
  <2>4. Tally(stage[o], card[o], report[o], uncounted[o])
    BY <1>1, <2>1, <2>2 DEF Tally, Early, Blank
  <2>5. Course(o) /\ PushesDealt(o)
    BY <1>1 DEF Course, Late, PushesDealt
  <2>6. QED
    BY <2>3, <2>4, <2>5, WorkersIsPositive DEF OpOk
<1>5. QED
  BY <1>3, <1>4 DEF OpsOk

LEMMA InitVault ==
  ASSUME OpInit
  PROVE  VaultOk /\ OpsKeepOut
BY NobodyIsNoGoroutine, OpsAreGoroutines, VaultBounds, EmptySeq, LenProperties
   DEF OpInit, CacheInit, Init, VaultOk, TypeOK, PCs, OpsKeepOut

LEMMA InitCache ==
  ASSUME OpInit
  PROVE  CacheOk /\ BatchesHeld
<1>1. /\ cache = <<>> /\ batch = [g \in Goroutines |-> <<>>] /\ pushed = {}
      /\ answers = [r \in Request |-> 0]
  BY DEF OpInit, CacheInit
<1>2. <<>> \in Requests
  BY EmptySeq DEF Requests
<1>3. AnsweredOnce
  BY <1>1, CountOfNone, NobodyIsNoGoroutine DEF AnsweredOnce, HeldBy
<1>4. QED
  BY <1>1, <1>2, <1>3 DEF CacheOk, BatchesHeld

-----------------------------------------------------------------------------
(* The theorems                                                            *)

\* Every reachable state of the operations and their clients satisfies the
\* invariant.
THEOREM OperationsInvariance == OpSpec => []OpInvariant
<1>1. OpInit => OpInvariant
  BY InitOps, InitVault, InitCache DEF OpInvariant
<1>2. OpInvariant /\ [OpNext]_everything => OpInvariant'
  BY StepKeepsAll, ClientKeepsAll, NothingKeepsAll DEF OpNext
<1>3. QED
  BY <1>1, <1>2, PTL DEF OpSpec

\* The operations and what they share have their types, no operation is where
\* only a client may be, and no scheduler has more handlers than it has workers.
THEOREM OperationsTypeCorrect == OpSpec => []OpTypeOK
<1>1. ASSUME OpInvariant PROVE OpTypeOK
  <2>1. CacheTypeOK
    BY <1>1 DEF OpInvariant, VaultOk, CacheOk, CacheTypeOK
  <2>2. \A o \in Ops : Cardinality({c \in Cards : card[o][c] \in {"busy"} \cup Results}) <= Workers
    BY <1>1 DEF OpInvariant, OpsOk, OpOk, BusyIn
  <2>3. QED
    BY <1>1, <2>1, <2>2 DEF OpInvariant, OpsKeepOut, OpsOk, OpTypes, CardStates, OpTypeOK
<1>2. QED
  BY <1>1, OperationsInvariance, PTL

\* A request that an update or an export pushed waits, is in the hands of one
\* flush or has been answered once, for any number of operations and clients.
THEOREM RequestsAnsweredOnce == OpSpec => []AnsweredOnce
<1>1. OpInvariant => AnsweredOnce
  BY DEF OpInvariant, CacheOk
<1>2. QED
  BY <1>1, OperationsInvariance, PTL

\* The counters of every report add up to its progress, which reaches its total
\* in an operation that is COMPLETED.
THEOREM ReportsAdd == OpSpec => []ReportAdds
<1>1. ASSUME OpInvariant, NEW o \in Ops
      PROVE  /\ report[o].progress = report[o].invalid + report[o].success + report[o].failure + report[o].other
             /\ report[o].progress + uncounted[o] <= report[o].total
             /\ status[o] = "COMPLETED" /\ uncounted[o] = 0 => report[o].progress = report[o].total
             /\ status[o] = "COMPLETED" => \A c \in Cards : card[o][c] \in {"no", "done"}
  <2>1. OpsOk
    BY <1>1 DEF OpInvariant
  <2>2. /\ Tally(stage[o], card[o], report[o], uncounted[o]) /\ Course(o)
        /\ report[o] \in Reports /\ uncounted[o] \in Nat /\ card[o] \in [Cards -> CardStates]
    BY <2>1, OfOperation
  <2>3. /\ Cardinality(DoneIn(card[o])) \in Nat /\ Cardinality(GivenIn(card[o])) \in Nat
        /\ IsFiniteSet(GivenIn(card[o]))
    BY PartsAreCards, SubsetsOfCards
  <2>4. Cardinality(DoneIn(card[o])) <= Cardinality(GivenIn(card[o]))
    <3>1. DoneIn(card[o]) \in SUBSET GivenIn(card[o])
      BY DEF DoneIn, GivenIn
    <3>2. QED
      BY <2>3, <3>1, FS_Subset
  <2>5. /\ report[o].progress = report[o].invalid + report[o].success + report[o].failure + report[o].other
        /\ report[o].progress + uncounted[o] <= report[o].total
    <3>1. CASE stage[o] \in Early
      <4>1. Cardinality(DoneIn(card[o])) = 0
        BY <2>2, <3>1, NothingGiven DEF Tally
      <4>2. QED
        BY <2>2, <3>1, <4>1 DEF Tally, Reports
    <3>2. CASE stage[o] \notin Early
      BY <2>2, <2>3, <2>4, <3>2 DEF Tally, Reports
    <3>3. QED
      BY <3>1, <3>2
  <2>6. ASSUME status[o] = "COMPLETED"
        PROVE  /\ stage[o] = "ended" /\ \A c \in Cards : card[o][c] \in {"no", "done"}
    <3>1. stage[o] = "ended"
      BY <2>2, <2>6 DEF Course
    <3>2. BusyIn(card[o]) = {} /\ \A c \in Cards : card[o][c] # "waiting"
      BY <2>2, <2>6, <3>1 DEF Course, Late
    <3>3. QED
      BY <2>2, <3>1, <3>2 DEF BusyIn, CardStates
  <2>7. ASSUME status[o] = "COMPLETED", uncounted[o] = 0
        PROVE  report[o].progress = report[o].total
    <3>1. DoneIn(card[o]) = GivenIn(card[o]) /\ stage[o] \notin Early
      BY <2>6, <2>7 DEF DoneIn, GivenIn, Early
    <3>2. QED
      BY <2>2, <2>3, <2>7, <3>1 DEF Tally, Reports
  <2>8. QED
    BY <2>5, <2>6, <2>7
<1>2. OpInvariant => ReportAdds
  BY <1>1 DEF ReportAdds
<1>3. QED
  BY <1>2, OperationsInvariance, PTL

\* An operation whose end can be seen has no handler at work, has closed the
\* catalog it imported into and has pushed a request for every card it reports.
THEOREM EndsAreFinal == OpSpec => []EndIsFinal
<1>1. ASSUME OpInvariant, NEW o \in Ops, status[o] \in {"COMPLETED", "CANCELLED"}
      PROVE  /\ Busy(o) = {}
             /\ kind[o] = "ImportVault" => pc[o] = "idle"
             /\ kind[o] \in {"Update", "Export"} =>
                  Cardinality(Pushed(o)) = report[o].success + report[o].failure + report[o].other
  <2>1. OpsOk /\ pushed \subseteq Request
    BY <1>1 DEF OpInvariant, CacheOk
  <2>2. /\ Tally(stage[o], card[o], report[o], uncounted[o]) /\ Course(o) /\ PushesDealt(o)
        /\ card[o] \in [Cards -> CardStates]
    BY <2>1, OfOperation
  <2>3. stage[o] = "ended"
    BY <1>1, <2>2 DEF Course
  <2>4. BusyIn(card[o]) = {} /\ (kind[o] = "ImportVault" => pc[o] = "idle")
    BY <2>2, <2>3 DEF Course, Late
  <2>5. ASSUME kind[o] \in {"Update", "Export"}
        PROVE  Cardinality(Pushed(o)) = Cardinality(DoneIn(card[o]))
    <3>1. \A c \in Cards : <<o, c>> \in pushed <=> c \in DoneIn(card[o])
      BY <2>2, <2>4, <2>5 DEF PushesDealt, DoneIn, BusyIn
    <3>2. DoneIn(card[o]) \in SUBSET Cards
      BY PartsAreCards
    <3>3. Pushed(o) = {o} \X DoneIn(card[o])
      BY <2>1, <3>1, <3>2 DEF Pushed, Request
    <3>4. IsFiniteSet(DoneIn(card[o])) /\ Cardinality(DoneIn(card[o])) \in Nat
      BY <3>2, SubsetsOfCards
    <3>5. IsFiniteSet({o}) /\ Cardinality({o}) = 1
      BY FS_Singleton
    <3>6. Cardinality(Pushed(o)) = 1 * Cardinality(DoneIn(card[o]))
      BY <3>3, <3>4, <3>5, FS_Product
    <3>7. QED
      BY <3>4, <3>6
  <2>6. QED
    BY <2>2, <2>4, <2>5 DEF Tally, Busy, BusyIn
<1>2. OpInvariant => EndIsFinal
  BY <1>1 DEF EndIsFinal
<1>3. QED
  BY <1>2, OperationsInvariance, PTL

\* What a client was shown of an operation at its end stays as it was: no handler
\* reports, no request is pushed and nobody marks the operation again.
EndStays == \A o \in Ops : status[o] \in {"COMPLETED", "CANCELLED"} =>
  /\ status'[o] = status[o] /\ report'[o] = report[o] /\ card'[o] = card[o]
  /\ \A c \in Cards : <<o, c>> \in pushed' <=> <<o, c>> \in pushed

LEMMA StepKeepsEnd ==
  ASSUME OpInvariant, NEW o \in Ops, status[o] \in {"COMPLETED", "CANCELLED"},
         NEW h \in Ops, Begin(h) \/ OperationStep(h) \/ Cancel(h)
  PROVE  /\ status'[o] = status[o] /\ report'[o] = report[o] /\ card'[o] = card[o]
         /\ \A c \in Cards : <<o, c>> \in pushed' <=> <<o, c>> \in pushed
<1> DEFINE Stays == /\ status'[o] = status[o] /\ report'[o] = report[o] /\ card'[o] = card[o]
                    /\ \A c \in Cards : <<o, c>> \in pushed' <=> <<o, c>> \in pushed
<1>1. OpsOk
  BY DEF OpInvariant
<1>2. /\ status \in [Ops -> {"none", "ONGOING", "COMPLETED", "CANCELLED"}]
      /\ report \in [Ops -> Reports] /\ card \in [Ops -> [Cards -> CardStates]]
  BY <1>1 DEF OpsOk, OpTypes
<1>3. stage[o] = "ended" /\ BusyIn(card[o]) = {}
  BY <1>1, OfOperation DEF Course, Late
<1>4. \A c \in Cards : card[o][c] \notin {"busy"} \cup Results
  BY <1>3 DEF BusyIn
<1>5. CASE Begin(h)
  BY <1>2, <1>3, <1>5 DEF Begin, BeginFacade, BeginImportVault, NewOperation, Advance, Set, cacheVars
<1>6. CASE PrepareVault(h) \/ CloseImport(h) \/ Return(h) \/ Cancel(h) \/ VaultNotMade(h)
           \/ CannotFindURLs(h) \/ CannotPrepare(h) \/ EndCards(h) \/ CheckCancelled(h)
  BY <1>6 DEF PrepareVault, CloseImport, Return, Cancel, VaultNotMade, CannotFindURLs, CannotPrepare,
     EndCards, CheckCancelled, Prepare, cacheVars, opVars
<1>7. CASE TakeCards(h) \/ Count(h) \/ FindRecords(h) \/ CannotFindRecords(h) \/ FindURLs(h)
  BY <1>2, <1>3, <1>7 DEF TakeCards, Count, FindRecords, CannotFindRecords, FindURLs, Given, Set, Advance,
     Prepare, cacheVars
<1>8. CASE MarkTerminated(h)
  BY <1>2, <1>3, <1>8 DEF MarkTerminated, Advance, Set, cacheVars
<1>9. ASSUME NEW c \in Cards, Take(h, c) \/ (\E x \in Results : Deal(h, c, x)) \/ Report(h, c)
      PROVE  Stays
  <2>1. h # o
    BY <1>3, <1>4, <1>9 DEF Take, Deal, Report
  <2>2. CASE Take(h, c)
    BY <1>2, <2>1, <2>2 DEF Take, cacheVars
  <2>3. CASE \E x \in Results : Deal(h, c, x)
    BY <1>2, <2>1, <2>3 DEF Deal, Push, cacheVars
  <2>4. CASE Report(h, c)
    BY <1>2, <2>1, <2>4 DEF Report, cacheVars
  <2>5. QED
    BY <1>9, <2>2, <2>3, <2>4
<1>10. QED
  BY <1>5, <1>6, <1>7, <1>8, <1>9 DEF OperationStep

\* EndStays for every step of the operations and their clients.
THEOREM EndsStay == OpSpec => [][EndStays]_everything
<1>1. OpInvariant /\ [OpNext]_everything => [EndStays]_everything
  <2>1. ASSUME OpInvariant, NEW g \in Clients,
               \/ FlushStep(g) /\ UNCHANGED opVars
               \/ FacadeStep(g) /\ UNCHANGED <<cacheVars, opVars>>
        PROVE  EndStays
    BY <2>1 DEF EndStays, opVars, cacheVars, FlushStep, FlushGoesOn, FlushHasRequests, FlushTake, FlushNoVault,
       FlushBegin, FlushFind
  <2>2. QED
    BY <2>1, StepKeepsEnd DEF OpNext, EndStays
<1>2. QED
  BY <1>1, OperationsInvariance, PTL DEF OpSpec
=============================================================================
