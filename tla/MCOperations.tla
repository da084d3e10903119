---------------------------- MODULE MCOperations -----------------------------
(* Operations for TLC: one operation of up to two cards, and two clients.        *)
EXTENDS Operations

CONSTANTS o1, client1, client2, v1, c1, c2

MCOps == {o1}
MCGoroutines == {o1, client1, client2}
MCNames == {v1}
MCCards == {c1, c2}
==============================================================================
