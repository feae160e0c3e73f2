----------------------------- MODULE ModelConfig -----------------------------
(* The sizes of the model, in tensor elements, and what its config.json may  *)
(* choose: q and k norms (Qwen3 has them, Llama does not) and whether the    *)
(* embedding matrix is also the output matrix.                               *)
EXTENDS Integers, Sequences

CONSTANTS
    VocabSize, HiddenSize, IntermediateSize, HeadDim,
    QSize,           \* num_attention_heads * head_dim
    KVSize,          \* num_kv_heads * head_dim
    NumLayers        \* num_hidden_layers

ASSUME ModelConfigAssumption ==
    {VocabSize, HiddenSize, IntermediateSize, HeadDim, QSize, KVSize, NumLayers}
        \subseteq Nat \ {0}

VARIABLE config
Configs == [hasQkNorm : BOOLEAN, tieWordEmbeddings : BOOLEAN]

Layers == 1 .. NumLayers
AlignUp(alignment, offset) == ((offset + alignment - 1) \div alignment) * alignment
=============================================================================
