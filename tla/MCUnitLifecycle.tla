-------------------------- MODULE MCUnitLifecycle --------------------------
(* Instances of UnitLifecycle for TLC. *)
EXTENDS UnitLifecycle, TLC

\* Cleanup chains are interchangeable.
Symmetry == Permutations(Clean)
=============================================================================
