--------------------------- MODULE MCSandboxLocks ---------------------------
(* Instances of SandboxLocks for TLC. *)
EXTENDS SandboxLocks, TLC

\* Web threads are interchangeable.
Symmetry == Permutations(Thread)
=============================================================================
