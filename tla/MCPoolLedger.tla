---------------------------- MODULE MCPoolLedger ----------------------------
(* Instances of PoolLedger for TLC. *)
EXTENDS PoolLedger, TLC

MCCounts == {-1, 1, 2}

\* Units and cleanup chains are interchangeable.
Symmetry == Permutations(Unit) \cup Permutations(Chain)
=============================================================================
