-------------------------- MODULE MCModelExecution --------------------------
(* Model values for checking the execution of steps.                        *)
EXTENDS ModelExecution
CONSTANTS r1, r2, r3
MCIds == {r1, r2, r3}
MCSymmetry == Permutations(MCIds)
=============================================================================
