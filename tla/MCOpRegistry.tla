---------------------------- MODULE MCOpRegistry ----------------------------
(* OpRegistry for TLC: one operation, two clients that poll at once.         *)
EXTENDS OpRegistry

CONSTANTS o1, c1, c2

MCOps == {o1}
MCClients == {c1, c2}
============================================================================
