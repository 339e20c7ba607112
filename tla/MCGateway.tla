------------------------------ MODULE MCGateway ------------------------------
(* Instances of Gateway for TLC. *)
EXTENDS Gateway, TLC

CONSTANTS c1, c2, h1

Symmetry == Permutations(Chats)
=============================================================================
