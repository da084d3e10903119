---------------------------- MODULE MCBlobEngines ----------------------------
(* BlobEngines for TLC: one card with every sequence of three versions, of     *)
(* which two are kept, and two contents; the item with the next id has one     *)
(* version, so that a range that is too long would reach it.                   *)
EXTENDS BlobEngines

CONSTANTS a, b

MCRids == {1, 2}
MCContents == {a, b}
MCVersions == 0 .. 2
MCOffered == [r \in MCRids |-> IF r = 1 THEN (MCVersions \X {a}) \cup {<<1, b>>} ELSE {<<0, a>>}]
==============================================================================
