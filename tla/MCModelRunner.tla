---------------------------- MODULE MCModelRunner ----------------------------
(* The model runner from the two readings of its directory to its end, on a  *)
(* device that is large enough or too small at any of the allocations.       *)
EXTENDS ModelRunner

CONSTANTS MaxModelLens, OtherBytes

EosFields == {<<"absent", {}>>, <<"null", {}>>, <<"one", 7>>, <<"many", {7, 8}>>, <<"many", {8, 9}>>}

Directories ==
    [supported : {TRUE}, shapesSupported : {TRUE}, maxModelLen : {2},
     eos : EosFields, generation : EosFields]
    \cup [supported : BOOLEAN, shapesSupported : BOOLEAN, maxModelLen : MaxModelLens,
          eos : {<<"one", 7>>}, generation : {<<"absent", {}>>}]

Init == RunnerInit(Directories, OtherBytes)

Spec == Init /\ [][RunnerNext]_vars
=============================================================================
