---------------------------- MODULE ModelWeights ----------------------------
(* ModelWeights::load_from_safetensors: the tensors of a safetensors file    *)
(* are copied, in chunks and in the order of the file, to the places that a  *)
(* plan gives them in one device buffer, and views are laid over the buffer. *)
(* The q, k and v matrices of a layer are one view, and so are gate and up.  *)
(*                                                                           *)
(* An element of the buffer is <<tensor, k>>, the k-th element of a tensor   *)
(* of the file, or Unwritten.                                                *)
EXTENDS ModelConfig, FiniteSetsExt, SequencesExt

CONSTANTS
    WeightAlignment, \* kWeightAlignment, in elements
    UploadChunkSize, \* kUploadChunkSize, in elements
    OtherNames       \* names of tensors of a file that the model has no use for

ASSUME ModelWeightsAssumption == {WeightAlignment, UploadChunkSize} \subseteq Nat \ {0}

VARIABLES
    loading,         \* how far load_from_safetensors is
    file,            \* the file: its tensors in order, and how long it is
    plan,            \* CopyPlans that are still to be uploaded
    copied,          \* elements of the next of them that are uploaded
    weights,         \* the device buffer
    views            \* ModelWeights: the views over it

weightVars == <<loading, file, plan, copied, weights, views>>

Unwritten == <<>>

Tensor(name, layer, size, align) ==
    [name |-> name, layer |-> layer, size |-> size, align |-> align]

(* The tensors in the order in which build_plan places them; layer 0 is the  *)
(* part outside the layers.                                                  *)
QkNorms(layer) ==
    IF config.hasQkNorm
    THEN <<Tensor("q_norm", layer, HeadDim, TRUE), Tensor("k_norm", layer, HeadDim, TRUE)>>
    ELSE <<>>

LayerTensors(layer) ==
    <<Tensor("input_layernorm", layer, HiddenSize, TRUE),
      Tensor("q_proj", layer, QSize * HiddenSize, TRUE),
      Tensor("k_proj", layer, KVSize * HiddenSize, FALSE),
      Tensor("v_proj", layer, KVSize * HiddenSize, FALSE)>>
    \o QkNorms(layer) \o
    <<Tensor("o_proj", layer, HiddenSize * QSize, TRUE),
      Tensor("post_attention_layernorm", layer, HiddenSize, TRUE),
      Tensor("gate_proj", layer, IntermediateSize * HiddenSize, TRUE),
      Tensor("up_proj", layer, IntermediateSize * HiddenSize, FALSE),
      Tensor("down_proj", layer, HiddenSize * IntermediateSize, TRUE)>>

PlannedTensors ==
    <<Tensor("embed_tokens", 0, VocabSize * HiddenSize, TRUE)>>
    \o FlattenSeq([layer \in Layers |-> LayerTensors(layer)])
    \o <<Tensor("norm", 0, HiddenSize, TRUE)>>
    \o (IF config.tieWordEmbeddings THEN <<>>
        ELSE <<Tensor("lm_head", 0, VocabSize * HiddenSize, TRUE)>>)

(* Where build_plan puts each of them.                                       *)
\* variant: every tensor is aligned.
DstOffsetsAligned ==
    LET placed == PlannedTensors
        place[i \in 1 .. Len(placed)] ==
            IF i = 1 THEN 0 ELSE AlignUp(WeightAlignment, place[i - 1] + placed[i - 1].size)
    IN  place

DstOffsets ==
    LET placed == PlannedTensors
        place[i \in 1 .. Len(placed)] ==
            LET end == IF i = 1 THEN 0 ELSE place[i - 1] + placed[i - 1].size
            IN  IF placed[i].align THEN AlignUp(WeightAlignment, end) ELSE end
    IN  place

(* What a safetensors file may be: any tensors, those of the model or others, *)
(* in any order, each named once, one after the other in a byte buffer of    *)
(* any length, which may end before they do.  A gap is one of the others.    *)
TensorNames ==
    {"embed_tokens", "input_layernorm", "q_proj", "k_proj", "v_proj", "q_norm", "k_norm",
     "o_proj", "post_attention_layernorm", "gate_proj", "up_proj", "down_proj", "norm",
     "lm_head"} \union OtherNames

WellFormed(f) ==
    /\ f.tensors \in Seq([name : TensorNames, layer : Nat, size : Nat, align : BOOLEAN])
    /\ \A i, j \in DOMAIN f.tensors :
          f.tensors[i].name = f.tensors[j].name /\ f.tensors[i].layer = f.tensors[j].layer
              => i = j
    /\ f.length \in Nat

(* Where a tensor starts in the file's byte buffer.                          *)
SrcOffset(tensor) ==
    LET before == {i \in DOMAIN file.tensors :
                     i < (CHOOSE k \in DOMAIN file.tensors : file.tensors[k] = tensor)}
    IN  MapThenSumSet(LAMBDA i : file.tensors[i].size, before)

FileElements == FlattenSeq([i \in DOMAIN file.tensors |->
                    [k \in 1 .. file.tensors[i].size |-> <<file.tensors[i], k>>]])

(* From where in the file each tensor is copied, and to where.               *)
CopyPlans ==
    LET placed == PlannedTensors
        offsets == DstOffsets
    IN  {[src |-> SrcOffset(placed[i]), dst |-> offsets[i], size |-> placed[i].size] :
            i \in DOMAIN placed}

SrcEnd(plans) == Max({p.src + p.size : p \in plans})
DstEnd(plans) == Max({p.dst + p.size : p \in plans})

(* The header is parsed and the plan built; a tensor that the header does    *)
(* not have, or has with another type or shape, is an error, and so is a     *)
(* file that ends before the last tensor of the plan.                        *)
BuildPlan ==
    /\ loading = "header"
    /\ IF ~ (ToSet(PlannedTensors) \subseteq ToSet(file.tensors))
       THEN loading' = "failed" /\ UNCHANGED <<plan, weights>>
       ELSE LET plans == CopyPlans
            IN  IF SrcEnd(plans) > file.length
                THEN loading' = "failed" /\ UNCHANGED <<plan, weights>>
                ELSE /\ loading' = "upload"
                     /\ plan' = plans
                     /\ weights' = [offset \in 0 .. DstEnd(plans) - 1 |-> Unwritten]
    /\ UNCHANGED <<config, file, copied, views>>

(* The copy plans are sorted by src_offset.                                  *)
NextPlan == CHOOSE p \in plan : \A other \in plan : p.src <= other.src

(* One turn of the copy loop of upload.                                      *)
UploadChunk ==
    /\ loading = "upload" /\ plan # {}
    /\ LET p == NextPlan
           chunk == Min({UploadChunkSize, p.size - copied})
           start == p.dst + copied
           elements == FileElements
       IN  /\ weights' = [offset \in DOMAIN weights |->
                             IF offset \in start .. start + chunk - 1
                             THEN elements[p.src + copied + (offset - start) + 1]
                             ELSE weights[offset]]
           /\ IF copied + chunk = p.size
              THEN plan' = plan \ {p} /\ copied' = 0
              ELSE copied' = copied + chunk /\ UNCHANGED plan
    /\ UNCHANGED <<config, loading, file, views>>

View(name, layer, tensor, size) ==
    [name |-> name, layer |-> layer, size |-> size,
     offset |-> LET tensors == PlannedTensors
                    i == CHOOSE i \in DOMAIN tensors :
                             tensors[i].name = tensor /\ tensors[i].layer = layer
                IN  DstOffsets[i]]

LayerViews(layer) ==
    {View("input_layernorm", layer, "input_layernorm", HiddenSize),
     View("qkv_proj", layer, "q_proj", (QSize + 2 * KVSize) * HiddenSize),
     View("o_proj", layer, "o_proj", HiddenSize * QSize),
     View("post_attn_layernorm", layer, "post_attention_layernorm", HiddenSize),
     View("gate_up_proj", layer, "gate_proj", 2 * IntermediateSize * HiddenSize),
     View("down_proj", layer, "down_proj", HiddenSize * IntermediateSize)}
    \union (IF config.hasQkNorm THEN {View("q_norm", layer, "q_norm", HeadDim),
                                      View("k_norm", layer, "k_norm", HeadDim)} ELSE {})

BuildView ==
    /\ loading = "upload" /\ plan = {}
    /\ loading' = "loaded"
    /\ views' = (UNION {LayerViews(layer) : layer \in Layers}) \union
                {View("embed_tokens", 0, "embed_tokens", VocabSize * HiddenSize),
                 View("norm", 0, "norm", HiddenSize),
                 View("lm_head", 0,
                      IF config.tieWordEmbeddings THEN "embed_tokens" ELSE "lm_head",
                      VocabSize * HiddenSize)}
    /\ file' = [tensors |-> <<>>, length |-> 0]
    /\ UNCHANGED <<config, plan, copied, weights>>

LoadNext == BuildPlan \/ UploadChunk \/ BuildView
-----------------------------------------------------------------------------
(* The tensors of the file whose elements, one tensor after the other, make  *)
(* up a view.                                                                *)
PartsOf(view) ==
    CASE view.name = "qkv_proj"     -> <<"q_proj", "k_proj", "v_proj">>
      [] view.name = "gate_up_proj" -> <<"gate_proj", "up_proj">>
      [] view.name = "post_attn_layernorm" -> <<"post_attention_layernorm">>
      [] view.name = "lm_head" /\ config.tieWordEmbeddings -> <<"embed_tokens">>
      [] OTHER                      -> <<view.name>>

TensorNamed(name, layer) ==
    CHOOSE tensor \in ToSet(PlannedTensors) : tensor.name = name /\ tensor.layer = layer

ElementsOf(view) ==
    LET parts == PartsOf(view)
        elements(name) == LET tensor == TensorNamed(name, view.layer)
                          IN  [k \in 1 .. tensor.size |-> <<tensor, k>>]
    IN  FlattenSeq([i \in DOMAIN parts |-> elements(parts[i])])

(* A model that has been loaded has, under every view, the elements of the   *)
(* view's tensors, whole and in order, whatever the order of the file: the   *)
(* joined views rely on k and v being placed right after q, and up right     *)
(* after gate (model_weights.cpp:142-155, 261-265, 279-283).  A file that is *)
(* too short or lacks a tensor is refused instead.                           *)
WeightsWhole ==
    loading = "loaded" =>
        \A view \in views :
            ElementsOf(view) = [k \in 1 .. view.size |-> weights[view.offset + k - 1]]
=============================================================================
