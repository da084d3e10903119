------------------------------- MODULE BlobOps -------------------------------
(***************************************************************************)
(* What a blob store keeps of one card (store/blob).  A card is a function *)
(* from version to content, None where there is no such version.           *)
(* A version is the record's UpdateTime; times are natural numbers.        *)
(***************************************************************************)
EXTENDS Naturals, FiniteSets

CONSTANTS Versions,     \* the update times a card can have
          Contents,     \* the contents a card can have
          MaxVersions,  \* Options.MaxVersions
          None          \* no content

ASSUME VersionsAreNats == Versions \subseteq Nat
ASSUME NoneIsNoContent == None \notin Contents
\* pblob's index versions[count - max + 1] is out of range for MaxVersions = 1:
\* the second Put of a card would panic.  The builders use 5 (client/config.go:48).
ASSUME AtLeastTwo == MaxVersions \in Nat /\ MaxVersions >= 2

Engines == {"pblob", "sqlblob"}

Cards == [Versions -> Contents \cup {None}]

NoCard == [v \in Versions |-> None]

VersionsOf(card) == {v \in Versions : card[v] # None}

\* The newest n versions of S.
Newest(S, n) == {v \in S : Cardinality({w \in S : w > v}) < n}

\* The versions of a card that had those in S, after Put of version v: pblob
\* makes room before a new version goes in, sqlblob prunes afterwards.
PutKeeps(engine, S, v) ==
  IF engine = "sqlblob" THEN Newest(S \cup {v}, MaxVersions)
  ELSE IF v \in S THEN S
  ELSE Newest(S, MaxVersions - 1) \cup {v}

\* The card after Put(v, c).
AfterPut(engine, card, v, c) ==
  LET kept == PutKeeps(engine, VersionsOf(card), v)
  IN  [w \in Versions |-> IF w \notin kept THEN None ELSE IF w = v THEN c ELSE card[w]]
=============================================================================
