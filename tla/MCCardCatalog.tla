---------------------------- MODULE MCCardCatalog ----------------------------
(* CardCatalog for TLC: two callers, two URLs, three versions of which two are *)
(* kept, at most MaxSeq ids and MaxFailures calls that end between the commits.*)
EXTENDS CardCatalog, TLC

CONSTANTS w1, w2, a, b

MCWriters == {w1, w2}
MCContents == {a, b}
MCVersions == 1 .. 3
Symmetric == Permutations(MCWriters) \cup Permutations(MCContents)
==============================================================================
