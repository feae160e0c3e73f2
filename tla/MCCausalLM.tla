----------------------------- MODULE MCCausalLM -----------------------------
(* Files and bounds for checking the loading and the memory of the model.    *)
EXTENDS CausalLM

(* Every rotation of the order in which build_plan places the tensors, its   *)
(* reverse, those at odd places before the others, and the reverse behind a  *)
(* tensor of no use, and before one; and a file that lacks the first tensor. *)
MCOrders ==
    LET planned == PlannedTensors
        other == <<Tensor("rotary_emb.inv_freq", 0, HeadDim, FALSE)>>
        rotated(k) == [i \in 1 .. Len(planned) |-> planned[((i + k) % Len(planned)) + 1]]
        half(r) == LET places == {i \in DOMAIN planned : i % 2 = r}
                   IN  [i \in 1 .. Cardinality(places) |-> planned[2 * i - r]]
    IN  {rotated(k) : k \in 1 .. Len(planned)}
        \union {Reverse(planned), half(1) \o half(0)}
        \union {other \o Reverse(planned), Reverse(planned) \o other}
        \union {Tail(planned)}

MCLength(t) == FoldSeq(LAMBDA tensor, sum : tensor.size + sum, 0, t)

(* The last element may be missing.                                          *)
MCFiles ==
    {[tensors |-> t, length |-> MCLength(t) - lost] : t \in MCOrders, lost \in {0, 1}}

MCInit == config \in Configs /\ file \in MCFiles /\ ModelInit

MCSpec == MCInit /\ [][ModelNext]_modelVars
=============================================================================
