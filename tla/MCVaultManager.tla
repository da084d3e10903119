--------------------------- MODULE MCVaultManager ----------------------------
(* VaultManager for TLC: three goroutines, two vaults.                         *)
EXTENDS VaultManager, TLC

CONSTANTS g1, g2, g3, v1, v2

MCGoroutines == {g1, g2, g3}
MCNames == {v1, v2}
Symmetric == Permutations(MCGoroutines) \cup Permutations(MCNames)
==============================================================================
