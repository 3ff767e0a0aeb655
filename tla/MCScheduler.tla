----------------------------- MODULE MCScheduler -----------------------------
(* Symmetry for TLC. *)
EXTENDS Scheduler, TLC

Symmetry == Permutations(ProfileIds) \cup Permutations(TaskIds) \cup Permutations(Calls)
=============================================================================
