----------------------------- MODULE MCTaskQueue -----------------------------
(* Instances of TaskQueue for TLC. *)
EXTENDS TaskQueue, TLC

CONSTANTS t1, t2, s1, s2

OneSession == [t \in Tasks |-> s1]
ConsumerSymmetry == Permutations(Consumers) \cup Permutations(Slots)
=============================================================================
