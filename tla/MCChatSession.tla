---------------------------- MODULE MCChatSession ----------------------------
(* Instances of ChatSession for TLC. *)
EXTENDS ChatSession, TLC

ChatSymmetry == Permutations(Chats)
=============================================================================
