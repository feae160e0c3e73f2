------------------------------ MODULE MCKernels ------------------------------
(***************************************************************************)
(* The kernels of csrc/ops.  A behaviour does one of three things: it puts *)
(* a batch of up to MaxReqs requests together, one entry at a time, for    *)
(* the attention grid; it runs one thread block of the attention kernel;   *)
(* or it launches one row kernel, or the softmax of one row, on an input.  *)
(***************************************************************************)
EXTENDS PagedAttention, AttentionBlock, OnlineSoftmax, RowKernels, ModelInput

CONSTANTS
    MaxReqs, QueryLens, PrefixLens,  \* the batches
    Scores, MaxScores,               \* the scores of a row
    MaxTokens                        \* the rows of a row kernel's tensor

ASSUME BatchesAssumption == QueryLens \subseteq Nat \ {0} /\ PrefixLens \subseteq Nat

VARIABLES entries, launch

vars == <<blockVars, entries, launch>>

NoLaunch == [kernel |-> "none"]

Init == BlockInit /\ entries = <<>> /\ launch = NoLaunch

Idle == entries = <<>> /\ launch = NoLaunch

\* Blocks of one slot, so that the table is as long as the sequence.
AddEntry(prefixLen, queryLen) ==
    /\ Len(entries) < MaxReqs /\ launch = NoLaunch
    /\ BlockInit /\ keySteps = 1 /\ UNCHANGED blockVars
    /\ entries' = Append(entries,
        [id |-> Len(entries), sample |-> TRUE, offset |-> prefixLen, count |-> queryLen,
         blocks |-> [i \in 1 .. prefixLen + queryLen |-> i]])
    /\ UNCHANGED launch

Launches ==
    [kernel : {"rms_norm", "residual_add"}, tokens : 1 .. MaxTokens, dim : {1024, 2048}]
    \cup [kernel : {"residual_add"}, tokens : 1 .. MaxTokens, dim : {1, 5, 8, 21, 60}]
    \cup [kernel : {"embedding"}, tokenIds : {[t \in 0 .. 2 |-> (7 * t) % 5]}, dim : {1024}]
    \cup [kernel : {"rope", "qk_norm", "qk_norm_rope"},
          positions : {[t \in 0 .. 1 |-> 3 * t]}, numHeads : {24}, headDim : {128}]
    \cup [kernel : {"rope"}, positions : {[t \in 0 .. 1 |-> 3 - t]},
          numHeads : {40}, headDim : {64}]
    \cup [kernel : {"swiglu"}, tokens : 1 .. MaxTokens, dim : {8, 24, 48}]
    \cup [kernel : {"kv_cache_update"}, slots : [0 .. 1 -> {-1, 0, 3}], kvSize : {8, 24, 48}]
    \cup [kernel : {"projection"}, tokens : 1 .. MaxTokens, outputSize : {1, 3},
          inputSize : {2, 4}, padding : {0, 2}]
    \cup [kernel : {"softmax"},
          scores : UNION {[1 .. n -> Scores] : n \in 1 .. MaxScores}]

Launch(l) ==
    /\ Idle /\ BlockInit /\ keySteps = 1
    /\ l.kernel = "kv_cache_update" => l.slots[0] # l.slots[1] \/ l.slots[0] = -1
    /\ launch' = l
    /\ UNCHANGED <<blockVars, entries>>

RunBlock == Idle /\ BlockNext /\ UNCHANGED <<entries, launch>>

Next ==
    \/ \E prefixLen \in PrefixLens, queryLen \in QueryLens : AddEntry(prefixLen, queryLen)
    \/ \E l \in Launches : Launch(l)
    \/ RunBlock

Spec == Init /\ [][Next]_vars

-----------------------------------------------------------------------------

Input == PrepareModelInput(entries, 1)

\* No query row is skipped or computed twice, however the requests of a batch
\* fall on the tiles of the grid (paged_attention.cu:175-196 and :400), and the
\* tile's key count and the causal mask that most warps skip leave each row
\* exactly the keys up to its own position (paged_attention.cu:225-273).
CausalAttention == entries # <<>> => TilesCoverRows(Input) /\ RowsSeeTheirPast(Input)

\* The lazily rescaled softmax of a row is the softmax (paged_attention.cu:
\* 283-315 and 345-351): every key's weight is in proportion to 2^score, all
\* lanes divide by the same sum, and no weight outgrows the exponent gap.
SoftmaxExact == launch.kernel = "softmax" => RowIsSoftmax(launch.scores)

Stride(l) == (l.numHeads + 8) * l.headDim

Cache(l) == RopeCache(4, l.headDim)

HeadCells(l, Promised(_, _)) ==
    LET stride == Stride(l)
        row == l.numHeads * l.headDim
        promised == [t \in DOMAIN l.positions |-> [h \in 0 .. l.numHeads - 1 |-> Promised(t, h)]]
    IN  [c \in {c \in 0 .. 2 * stride - 1 : c % stride < row} |->
            promised[c \div stride][(c % stride) \div l.headDim][c % l.headDim]]

QkWeights(h) == IF h < 16 THEN "q" ELSE "k"

\* The residual stream and the normalised rows: each element from its own row,
\* added or scaled once, whatever the number of warps, blocks and vectors
\* (embedding.cu:26-30, rms_norm.cu:49-66, residual_add.cu:53-72, swiglu.cu:47,
\* unified_kv_cache_update.cu:30-48, projection.cu:32-44).
RowsExact(l) ==
    /\ l.kernel = "embedding" => Computes(Embedding(l.tokenIds, l.dim),
            [c \in 0 .. 3 * l.dim - 1 |-> l.tokenIds[c \div l.dim] * l.dim + (c % l.dim)])
    /\ l.kernel = "rms_norm" => Computes(RmsNorm(l.tokens, l.dim),
            [c \in 0 .. l.tokens * l.dim - 1 |->
                Normed(c, c % l.dim, SetToBag(0 .. l.dim \div Vec - 1))])
    /\ l.kernel = "residual_add" => Computes(ResidualAdd(l.tokens, l.dim),
            [c \in 0 .. l.tokens * l.dim - 1 |-> <<"sum", c>>])
    /\ l.kernel = "swiglu" => Computes(Swiglu(l.tokens, l.dim),
            [c \in {c \in 0 .. l.tokens * 2 * l.dim - 1 : c % (2 * l.dim) < l.dim} |->
                <<"silu", c, c + l.dim>>])
    /\ l.kernel = "kv_cache_update" => Computes(KvCacheUpdate(l.slots, 16, l.kvSize),
            [c \in {"k", "v"} \X UNION {l.slots[t] * l.kvSize .. (l.slots[t] + 1) * l.kvSize - 1 :
                                          t \in {t \in 0 .. 1 : l.slots[t] >= 0}} |->
                LET t == CHOOSE t \in 0 .. 1 : l.slots[t] = c[2] \div l.kvSize
                IN  (t + 1) * (16 + 2 * l.kvSize) - (IF c[1] = "k" THEN 2 ELSE 1) * l.kvSize
                        + (c[2] % l.kvSize)])
    /\ l.kernel = "projection" =>
            Computes(Projection(l.tokens, l.outputSize, l.inputSize, l.inputSize + l.padding),
                [c \in 0 .. l.tokens * l.outputSize - 1 |->
                    {<<(c % l.outputSize) * l.inputSize + i,
                       (c \div l.outputSize) * (l.inputSize + l.padding) + i>> :
                        i \in 0 .. l.inputSize - 1}])

\* Queries and keys are rotated by the angles of their own position and
\* normalised over their own head with their own weights, through the words,
\* shuffles and swaps of the lanes, for both supported shapes; the fused kernel
\* is the composition of the other two (rope.cu:62-117, qk_norm.cu:34-77,
\* qk_norm_rope_fused.cu:56-143).
HeadsExact(l) ==
    /\ l.kernel = "rope" => Computes(Rope(l.positions, l.numHeads, l.headDim, Stride(l), Cache(l)),
            HeadCells(l, LAMBDA t, h : RotationOf(Unrotated(l.headDim), l.headDim, l.positions[t])))
    /\ l.kernel = "qk_norm" => Computes(QkNorm(2, l.numHeads, l.headDim, Stride(l)),
            HeadCells(l, LAMBDA t, h : NormOf(l.headDim, QkWeights(h))))
    /\ l.kernel = "qk_norm_rope" =>
            Computes(QkNormRope(l.positions, l.numHeads, l.headDim, Stride(l), Cache(l)),
                HeadCells(l, LAMBDA t, h :
                    RotationOf(NormOf(l.headDim, QkWeights(h)), l.headDim, l.positions[t])))

\* Every launch of a row kernel computes exactly what its operator promises:
\* each element once, from the right row, position and head, in whatever way
\* warps, vectors and shuffles divide the work (embedding.cu, rms_norm.cu,
\* qk_norm.cu, rope.cu, qk_norm_rope_fused.cu, residual_add.cu, swiglu.cu,
\* unified_kv_cache_update.cu, projection.cu).
RowKernelsExact == RowsExact(launch) /\ HeadsExact(launch)
=============================================================================
