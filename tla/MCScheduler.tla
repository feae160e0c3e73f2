---------------------------- MODULE MCScheduler ----------------------------
(* Model values for checking the scheduler. *)
EXTENDS SchedulerProperties
CONSTANTS r1, r2, r3
MCIds == {r1, r2, r3}
MCSymmetry == Permutations(MCIds)
=============================================================================
