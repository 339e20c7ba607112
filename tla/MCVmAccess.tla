------------------------------ MODULE MCVmAccess ------------------------------
(* Instances of VmAccess for TLC. *)
EXTENDS VmAccess, TLC

CONSTANTS r1, r2, k

Interchangeable == Permutations(Slots)
=============================================================================
