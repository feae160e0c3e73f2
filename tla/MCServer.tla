------------------------------ MODULE MCServer ------------------------------
(* One request for checking the server: handlers share nothing but the client, *)
(* which MCEngineClient checks with two.                                       *)
EXTENDS Server
CONSTANT r1
MCIds == {r1}
=============================================================================
