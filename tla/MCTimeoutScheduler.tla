------------------------- MODULE MCTimeoutScheduler -------------------------
(* Small instances of TimeoutScheduler for TLC.                              *)
EXTENDS TimeoutScheduler, TLC

CONSTANTS s1, s2, w1, w2

Workers == {w1, w2}
Symmetry == Permutations(Session) \cup Permutations(Worker)
=============================================================================
