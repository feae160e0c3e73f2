------------------------------ MODULE Workspace ------------------------------
(* Workspace::create and Workspace::view: the activations of a forward pass  *)
(* in one device buffer.  Activations that are not needed at the same time   *)
(* share its memory: the ffn's with the attention's, and those of the logits *)
(* with everything before them.                                              *)
EXTENDS ModelConfig, FiniteSetsExt

CONSTANTS
    MaxTokens,             \* max_num_scheduled_tokens
    MaxSamplingReqs,       \* max_num_seqs
    WorkspaceAlignment     \* kAlignment, in elements

ASSUME WorkspaceAssumption ==
    {MaxTokens, MaxSamplingReqs, WorkspaceAlignment} \subseteq Nat \ {0}

(* place_view: rows of cols elements after an offset.                        *)
PlaceView(offset, rows, cols) ==
    [offset |-> AlignUp(WorkspaceAlignment, offset),
     rows |-> rows, cols |-> cols, stride |-> cols]

EndOfView(view) == view.offset + view.rows * view.stride

Hidden == PlaceView(0, MaxTokens, HiddenSize)
Residual == PlaceView(EndOfView(Hidden), MaxTokens, HiddenSize)
Qkv == PlaceView(EndOfView(Residual), MaxTokens, QSize + 2 * KVSize)
AttnOut == PlaceView(EndOfView(Qkv), MaxTokens, QSize)

\* variant: the ffn's activations start over the residual.
GateUpOverResidual == PlaceView(EndOfView(Hidden), MaxTokens, 2 * IntermediateSize)

GateUp == PlaceView(EndOfView(Residual), MaxTokens, 2 * IntermediateSize)
Gated == [GateUp EXCEPT !.cols = IntermediateSize]
SamplingHidden == PlaceView(0, MaxSamplingReqs, HiddenSize)
Logits == PlaceView(EndOfView(SamplingHidden), MaxSamplingReqs, VocabSize)

WorkspaceViews ==
    [hidden |-> Hidden, residual |-> Residual, qkv |-> Qkv, attn_out |-> AttnOut,
     gate_up |-> GateUp, gated |-> Gated, sampling_hidden |-> SamplingHidden,
     logits |-> Logits]

ViewNames == DOMAIN WorkspaceViews

RequiredSize == Max({EndOfView(AttnOut), EndOfView(GateUp), EndOfView(Logits)})

(* The address of an element of a view.                                      *)
Address(name, r, col) ==
    WorkspaceViews[name].offset + r * WorkspaceViews[name].stride + col

RowAddresses(name, r) ==
    {Address(name, r, col) : col \in 0 .. WorkspaceViews[name].cols - 1}
=============================================================================
