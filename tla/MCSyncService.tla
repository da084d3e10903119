--------------------------- MODULE MCSyncService -----------------------------
(* SyncService for TLC: workers that meet at one card, of which the website    *)
(* publishes MaxVersion versions.                                              *)
EXTENDS SyncService, TLC

CONSTANTS t1, t2, t3, r1

MCThreads == {t1, t2, t3}
MCPair == {t1, t2}
MCRids == {r1}
Symmetric == Permutations(MCThreads)
==============================================================================
