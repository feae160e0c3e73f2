---------------------------- MODULE MCEngineCore ----------------------------
(* Model values for checking the engine process. *)
EXTENDS EngineCore
CONSTANTS r1, r2
MCIds == {r1, r2}
MCSymmetry == Permutations(MCIds)
=============================================================================
