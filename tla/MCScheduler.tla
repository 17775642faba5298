---------------------------- MODULE MCScheduler -----------------------------
(* Instances of Scheduler for TLC.                                         *)
EXTENDS Scheduler, TLC

Symmetry == Permutations(TaskIds) \cup Permutations(Requests) \cup Permutations(Slots)
=============================================================================
