---------------------------- MODULE MCMuTracker ----------------------------
(* MuTracker for TLC: the goroutines are not symmetric because the run        *)
(* checks liveness.                                                           *)
EXTENDS MuTracker

CONSTANTS t1, t2, r1, r2, m1, m2, m3

MCThreads == {t1, t2}
MCRids == {r1, r2}
MCUnowned == {r2}
\* One address more than there are items, so that a second lock for an item
\* would have a place to be.
MCMutexes == {m1, m2, m3}
============================================================================
