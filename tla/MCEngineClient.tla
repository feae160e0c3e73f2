--------------------------- MODULE MCEngineClient ---------------------------
(* Model values for checking the engine client. *)
EXTENDS EngineClientProperties
CONSTANTS r1, r2
MCIds == {r1, r2}
MCOneId == {r1}
MCSymmetry == Permutations(MCIds)
=============================================================================
