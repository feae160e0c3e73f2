------------------------------ MODULE CausalLM ------------------------------
(* ModelRunner's model: it is loaded, and from then on every step runs       *)
(* CausalLM::forward and compute_logits over the workspace.                  *)
(*                                                                           *)
(* The operators run one after the other on one stream; the rows of one      *)
(* operator run in any order.  What an operator computes is left out: a row  *)
(* that it writes is marked with the operator, and the mark is kept twice,   *)
(* in the elements of the workspace that the row occupies and, in tensors,   *)
(* under the view's name, as it would be if no two views shared memory.      *)
EXTENDS ModelWeights, Workspace

VARIABLES
    batch,           \* the step: its tokens and logits_indices
    op,              \* the operator of the pass that runs, 0 between steps
    pending,         \* its rows that have not run
    memory,          \* the workspace: what each element holds
    tensors          \* per view: which operator wrote each row last

passVars == <<batch, op, pending, memory, tensors>>
modelVars == <<config, weightVars, passVars>>

Operator(name, reads, writes) == [name |-> name, reads |-> reads, writes |-> writes]

DecoderLayer ==
    <<Operator("rms_norm", {"residual"}, {"hidden"}),
      Operator("projection", {"hidden"}, {"qkv"}),
      Operator("rope", {"qkv"}, {"qkv"}),
      Operator("unified_kv_cache_update", {"qkv"}, {}),
      Operator("paged_attention", {"qkv"}, {"attn_out"}),
      Operator("projection", {"attn_out"}, {"hidden"}),
      Operator("residual_add", {"hidden", "residual"}, {"residual"}),
      Operator("rms_norm", {"residual"}, {"hidden"}),
      Operator("projection", {"hidden"}, {"gate_up"}),
      Operator("swiglu", {"gate_up"}, {"gated"}),
      Operator("projection", {"gated"}, {"hidden"}),
      Operator("residual_add", {"hidden", "residual"}, {"residual"})>>

Forward ==
    <<Operator("embedding", {}, {"residual"})>>
    \o FlattenSeq([layer \in Layers |-> DecoderLayer])

ComputeLogits ==
    <<Operator("gather", {"residual"}, {"sampling_hidden"}),
      Operator("rms_norm", {"sampling_hidden"}, {"sampling_hidden"}),
      Operator("projection", {"sampling_hidden"}, {"logits"}),
      Operator("sample", {"logits"}, {})>>

Program == Forward \o ComputeLogits

(* A step that samples no request stops after forward.                       *)
LastOp == IF batch.sampled = <<>> THEN Len(Forward) ELSE Len(Program)

RowsOf(o) ==
    IF o <= Len(Forward) THEN 0 .. batch.numTokens - 1 ELSE 0 .. Len(batch.sampled) - 1

(* The row of its input that an operator reads for a row of its output.      *)
ReadRow(o, r) == IF Program[o].name = "gather" THEN batch.sampled[r + 1] ELSE r

StartPass ==
    /\ loading = "loaded" /\ op = 0
    /\ \E numTokens \in 1 .. MaxTokens, count \in 0 .. MaxSamplingReqs :
       \E rows \in [1 .. count -> 0 .. numTokens - 1] :
            /\ \A i, j \in 1 .. count : i < j => rows[i] < rows[j]
            /\ batch' = [numTokens |-> numTokens, sampled |-> rows]
            /\ pending' = 0 .. numTokens - 1
    /\ op' = 1
    /\ UNCHANGED <<config, weightVars, memory, tensors>>

RunRow(r) ==
    /\ op # 0 /\ r \in pending
    /\ \A name \in Program[op].writes :
          /\ memory' = [address \in DOMAIN memory |->
                IF address \in RowAddresses(name, r)
                THEN [op |-> op, row |-> r, address |-> address]
                ELSE memory[address]]
          /\ tensors' = [tensors EXCEPT ![name][r] = op]
    /\ Program[op].writes = {} => UNCHANGED <<memory, tensors>>
    /\ IF pending # {r} THEN pending' = pending \ {r} /\ UNCHANGED op
       ELSE IF op = LastOp THEN pending' = {} /\ op' = 0
       ELSE pending' = RowsOf(op + 1) /\ op' = op + 1
    /\ UNCHANGED <<config, weightVars, batch>>

ModelInit ==
    /\ config \in Configs
    /\ loading = "header"
    /\ WellFormed(file)
    /\ plan = {} /\ copied = 0 /\ weights = <<>> /\ views = {}
    /\ batch = [numTokens |-> 0, sampled |-> <<>>]
    /\ op = 0 /\ pending = {}
    /\ memory = [address \in 0 .. RequiredSize - 1 |-> Unwritten]
    /\ tensors = [name \in ViewNames |-> [r \in 0 .. WorkspaceViews[name].rows - 1 |-> 0]]

LoadModel == LoadNext /\ UNCHANGED passVars

ModelNext ==
    \/ LoadModel
    \/ StartPass
    \/ \E r \in 0 .. MaxTokens - 1 : RunRow(r)

ModelSpec == ModelInit /\ [][ModelNext]_modelVars
-----------------------------------------------------------------------------
(* Sharing the workspace's memory changes nothing: whatever an operator is   *)
(* about to read is what the last operator that wrote that view left there,  *)
(* every element of it, although views that share its memory may have been   *)
(* written since, and although rows of the running operator may already have *)
(* written their output (workspace.cpp:79-104, causal_lm.cpp:27-166).        *)
AliasingInvisible ==
    \A r \in pending : \A name \in Program[op].reads :
        LET from == ReadRow(op, r)
        IN  \A address \in RowAddresses(name, from) :
                /\ address \in DOMAIN memory
                /\ memory[address] = [op |-> tensors[name][from], row |-> from,
                                      address |-> address]
=============================================================================
