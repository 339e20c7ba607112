---------------------------- MODULE MCSandboxPool ----------------------------
(* Instances of SandboxPool for TLC. *)
EXTENDS SandboxPool, TLC

CallerSymmetry == Permutations(Callers)
=============================================================================
