----------------------------- MODULE MCSampler -----------------------------
(* Values for checking the sampler. *)
EXTENDS Sampler
=============================================================================
