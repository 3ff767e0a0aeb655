---------------------------- MODULE MCTaskRuntime ----------------------------
(* Small instances of TaskRuntime for TLC. *)
EXTENDS TaskRuntime, TLC

CONSTANTS t1, t2, t3, r1, r2, s1

OneSession == [t \in TaskIds |-> s1]

Symmetry == Permutations(TaskIds) \cup Permutations(Requests)
RequestSymmetry == Permutations(Requests)
=============================================================================
