------------------------- MODULE MCControlPlaneLink -------------------------
(* Instances of ControlPlaneLink for TLC. *)
EXTENDS ControlPlaneLink, TLC

RequestSymmetry == Permutations(Requests)
=============================================================================
