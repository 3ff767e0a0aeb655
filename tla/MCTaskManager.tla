---------------------------- MODULE MCTaskManager ----------------------------
(* A small instance of TaskManager for TLC. *)
EXTENDS TaskManager, TLC

CONSTANTS t1, t2, s1

\* Both tasks belong to the same session.
OneSession == [t \in TaskIds |-> s1]

SameSessionSymmetry == Permutations({t1, t2})

HalfDone == {50}
=============================================================================
