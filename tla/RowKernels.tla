----------------------------- MODULE RowKernels -----------------------------
(***************************************************************************)
(* The kernels of csrc/ops that work row by row: which thread writes which *)
(* cell of a tensor, and out of which cells.                               *)
(*                                                                         *)
(* A cell is an offset into a row-major tensor and a value is the term     *)
(* that computes it.  A launch is the set of its writes, each with the     *)
(* thread that makes it and the cells of the written tensor the thread     *)
(* reads; nothing orders the threads of a launch.  Rounding is left out.   *)
(***************************************************************************)
EXTENDS WarpReduce, Sequences, FiniteSetsExt, Bags

CONSTANTS
    WarpSize,       \* kNumThreadsPerWarp
    Vec,            \* kNumBf16sPerVector
    AddThreads,     \* kNumThreads of the general residual_add, 256 in the code
    MaxAddBlocks,   \* its most blocks, 4096 in the code
    LoopThreads     \* the threads of swiglu (128) and of the cache update (256)

ASSUME WarpSizeAssumption == WarpSize \in Nat \ {0}
ASSUME VecAssumption == Vec \in Nat \ {0} /\ Vec % 8 = 0
ASSUME ThreadsAssumption ==
    AddThreads \in Nat /\ AddThreads >= Vec /\ MaxAddBlocks \in Nat \ {0} /\ LoopThreads \in Nat \ {0}

Write(by, cell, term, reads) == [by |-> by, cell |-> cell, term |-> term, reads |-> reads]

\* The elements of the i-th vector of a row that starts at an offset.
VectorAt(start, i) == {start + i * Vec + k : k \in 0 .. Vec - 1}

\* The values 0, stride, 2 * stride... from a start to below a limit.
GridStride(start, stride, limit) == {i \in start .. limit - 1 : (i - start) % stride = 0}

Clamp(n, low, high) == IF n < low THEN low ELSE IF n > high THEN high ELSE n

-----------------------------------------------------------------------------

\* bf16_embedding: one block per token, one thread per vector.
Embedding(tokenIds, dim) ==
    UNION {{Write(<<t, i>>, t * dim + k, tokenIds[t] * dim + k, {}) : k \in VectorAt(0, i)} :
        t \in DOMAIN tokenIds, i \in 0 .. dim \div Vec - 1}

\* warp_reduce_sum, as the bag of what is summed up: what lane 0 is left with.
WarpReduceSum(val, width) == Butterfly(LAMBDA a, b : a (+) b, val, width)[0]

\* variant: the second reduction runs over the width of a whole warp's half.
RmsSumHalf(numThreads) ==
    LET numWarps == numThreads \div WarpSize
        warpSum == [w \in 0 .. numWarps - 1 |->
            WarpReduceSum([lane \in 0 .. WarpSize - 1 |-> SetToBag({w * WarpSize + lane})], WarpSize)]
    IN  WarpReduceSum([lane \in 0 .. WarpSize - 1 |->
                IF lane < numWarps THEN warpSum[lane] ELSE EmptyBag], numWarps \div 2)

\* The sum over a row in bf16_rms_norm, as the bag of the threads whose vectors
\* are in it: over each warp, through shared memory, and over the warps.
RmsSum(numThreads) ==
    LET numWarps == numThreads \div WarpSize
        warpSum == [w \in 0 .. numWarps - 1 |->
            WarpReduceSum([lane \in 0 .. WarpSize - 1 |-> SetToBag({w * WarpSize + lane})], WarpSize)]
    IN  WarpReduceSum([lane \in 0 .. WarpSize - 1 |->
                IF lane < numWarps THEN warpSum[lane] ELSE EmptyBag], numWarps)

\* A normalised element: itself, its weight and the sum it is scaled by.
Normed(x, weight, sum) == [x |-> x, weight |-> weight, sum |-> sum]

RmsNorm(numTokens, dim) ==
    LET threads == dim \div Vec
        sum == RmsSum(threads)
    IN  UNION {{Write(<<t, i>>, t * dim + k, Normed(t * dim + k, k, sum), VectorAt(t * dim, i)) :
            k \in VectorAt(0, i)} : t \in 0 .. numTokens - 1, i \in 0 .. threads - 1}

\* The three blocks of a token in the head kernels: which weights a head takes.
WeightsOf(head, headsPerBlock) == IF head \div headsPerBlock < 2 THEN "q" ELSE "k"

\* One head after qk_norm: the lanes of the head reduce among themselves.
NormedHead(head, headDim, headsPerBlock) ==
    LET lanes == headDim \div Vec
        sum == WarpReduceSum([lane \in 0 .. lanes - 1 |-> SetToBag({lane})], lanes)
    IN  [k \in 0 .. headDim - 1 |-> Normed(k, <<WeightsOf(head, headsPerBlock), k>>, sum)]

-----------------------------------------------------------------------------

\* RopeCache::create: one cosine and one sine per position and angle.
RopeCache(maxModelLen, headDim) ==
    LET half == headDim \div 2
    IN  [offset \in 0 .. maxModelLen * headDim - 1 |->
            <<IF offset % 2 = 0 THEN "cos" ELSE "sin",
              offset \div headDim, (offset \div 2) % half>>]

\* A rotated element: one element times a cosine plus or minus another times a
\* sine.
Rotated(x, cos, y, sin, sign) ==
    [cosOf |-> x, cos |-> cos, sinOf |-> y, sin |-> sin, sign |-> sign]

\* The four words of two elements that a lane loads, and a sequence of words.
WordsOf(head, lane) ==
    [word \in 1 .. 4 |-> [e \in 0 .. 1 |-> head[lane * Vec + 2 * (word - 1) + e]]]

\* The elements of the words in order.
Elements(words) == [i \in 0 .. 7 |-> words[i \div 2 + 1][i % 2]]

\* A lane takes the second half of what its peer in the other group holds.
Exchanged(held, halfLanes) ==
    [lane \in DOMAIN held |-> [i \in 0 .. 7 |->
        IF i < 4 THEN held[lane][i] ELSE held[XorLane(lane, halfLanes)][i]]]

\* What the lanes hold before the first exchange: two words of their own half
\* of the head, and the two that the peer rotates for them.
Gathered(head, lanes) ==
    [lane \in 0 .. lanes - 1 |->
        LET w == WordsOf(head, lane)
        IN  Elements(IF lane < lanes \div 2 THEN <<w[1], w[3], w[2], w[4]>>
                     ELSE <<w[2], w[4], w[1], w[3]>>)]

\* variant: both groups of lanes take the cosines of the first.
CacheIndexOneGroup(lane, lanes, i) ==
    LET groupLane == lane % (lanes \div 2)
    IN  4 * (4 * groupLane + 2 * (i \div 4)) + (i % 4)

\* cs_f: the i-th of the eight floats a lane loads from the cache.
CacheIndex(lane, lanes, i) ==
    LET group == lane \div (lanes \div 2)
        groupLane == lane % (lanes \div 2)
    IN  4 * (4 * groupLane + 2 * (i \div 4) + group) + (i % 4)

\* Each lane rotates four pairs: outputs for itself, then for its peer.
RotatedPairs(held, lanes, cacheRow) ==
    [lane \in DOMAIN held |-> [i \in 0 .. 7 |->
        LET pair == i % 4
            cos == cacheRow[CacheIndex(lane, lanes, 2 * pair)]
            sin == cacheRow[CacheIndex(lane, lanes, 2 * pair + 1)]
            sign == IF lane < lanes \div 2 THEN 1 ELSE -1
        IN  IF i < 4 THEN Rotated(held[lane][pair], cos, held[lane][pair + 4], sin, -sign)
            ELSE Rotated(held[lane][pair + 4], cos, held[lane][pair], sin, sign)]]

\* The swaps before the store: group 1 swaps its halves, then all the middle words.
Scattered(held, lanes) ==
    [lane \in DOMAIN held |->
        LET words == [w \in 0 .. 3 |->
                IF lane < lanes \div 2 THEN w ELSE (w + 2) % 4]
            order == <<words[0], words[2], words[1], words[3]>>
        IN  [i \in 0 .. 7 |-> held[lane][2 * order[i \div 2 + 1] + (i % 2)]]]

\* One head of a token at a position after the rotation.
RotatedHead(head, headDim, cache, pos) ==
    LET lanes == headDim \div Vec
        cacheRow == [i \in 0 .. headDim - 1 |-> cache[pos * headDim + i]]
        pairs == RotatedPairs(Exchanged(Gathered(head, lanes), lanes \div 2), lanes, cacheRow)
        stored == Scattered(Exchanged(pairs, lanes \div 2), lanes)
    IN  [k \in 0 .. headDim - 1 |-> stored[k \div Vec][k % Vec]]

\* A kernel over the heads of a packed row, blocks of 128 threads; the threads
\* past the last head return.
HeadKernel(NewHead(_, _), numTokens, numHeads, headDim, stride) ==
    LET headsPerBlock == (4 * WarpSize) \div (headDim \div Vec)
        blocks == (numHeads + headsPerBlock - 1) \div headsPerBlock
        heads == {head \in 0 .. blocks * headsPerBlock - 1 : head < numHeads}
    IN  UNION {LET after == NewHead(t, head)
                   start == t * stride + head * headDim
               IN  {Write(<<t, head, k \div Vec>>, start + k, after[k],
                        VectorAt(start, k \div Vec)) : k \in 0 .. headDim - 1} :
               t \in 0 .. numTokens - 1, head \in heads}

Unrotated(headDim) == [k \in 0 .. headDim - 1 |-> k]

Rope(positions, numHeads, headDim, stride, cache) ==
    HeadKernel(LAMBDA t, head : RotatedHead(Unrotated(headDim), headDim, cache, positions[t]),
        Cardinality(DOMAIN positions), numHeads, headDim, stride)

QkNorm(numTokens, numHeads, headDim, stride) ==
    HeadKernel(LAMBDA t, head : NormedHead(head, headDim, 8),
        numTokens, numHeads, headDim, stride)

QkNormRope(positions, numHeads, headDim, stride, cache) ==
    HeadKernel(LAMBDA t, head :
            RotatedHead(NormedHead(head, headDim, 8), headDim, cache, positions[t]),
        Cardinality(DOMAIN positions), numHeads, headDim, stride)

-----------------------------------------------------------------------------

\* The general bf16_elementwise_add: vectors in a grid stride, then the tail.
ElementwiseAdd(n, numThreads, numBlocks) ==
    LET numVec == n \div Vec
        Adds(by, cell) == Write(by, cell, <<"sum", cell>>, {cell})
    IN  UNION {UNION {{Adds(<<b, i>>, k) : k \in VectorAt(0, v)} :
            v \in GridStride(b * numThreads + i, numBlocks * numThreads, numVec)} :
            b \in 0 .. numBlocks - 1, i \in 0 .. numThreads - 1}
        \cup {Adds(<<0, i>>, numVec * Vec + i) :
            i \in {i \in 0 .. numThreads - 1 : i < n - numVec * Vec}}

\* residual_add: a block per token for the hidden sizes of the supported models.
ResidualAdd(numTokens, dim) ==
    LET n == numTokens * dim
        numVec == n \div Vec
    IN  IF dim \in {1024, 2048}
        THEN UNION {{Write(<<t, i>>, k, <<"sum", k>>, {k}) : k \in VectorAt(t * dim, i)} :
                t \in 0 .. numTokens - 1, i \in 0 .. dim \div Vec - 1}
        ELSE ElementwiseAdd(n, AddThreads,
                Clamp((numVec + AddThreads - 1) \div AddThreads, 1, MaxAddBlocks))

\* bf16_swiglu_packedgu: the product takes the place of the gate.
Swiglu(numTokens, inter) ==
    UNION {UNION {{Write(<<t, i>>, k, <<"silu", k, k + inter>>, {k, k + inter}) :
            k \in VectorAt(t * 2 * inter, v)} :
            v \in GridStride(i, LoopThreads, inter \div Vec)} :
            t \in 0 .. numTokens - 1, i \in 0 .. LoopThreads - 1}

\* The cache update: tokens without a slot are left alone.
KvCacheUpdate(slots, qSize, kvSize) ==
    LET threads == Clamp(kvSize \div Vec, 1, LoopThreads)
        stride == qSize + 2 * kvSize
        Copies(t, i, part) == UNION {{
                Write(<<t, i>>, <<part, slots[t] * kvSize + k>>,
                    t * stride + qSize + (IF part = "v" THEN kvSize ELSE 0) + k, {}) :
                k \in VectorAt(0, v)} : v \in GridStride(i, threads, kvSize \div Vec)}
    IN  UNION {Copies(t, i, part) :
            t \in {t \in DOMAIN slots : slots[t] >= 0}, i \in 0 .. threads - 1, part \in {"k", "v"}}

\* projection: cuBLAS computes column j of the output, rows i, out of column i
\* of the transposed weights and column j of the input, all column major.
Projection(numTokens, outputSize, inputSize, inputStride) ==
    {Write(<<i, j>>, i + j * outputSize,
        {<<l + i * inputSize, l + j * inputStride>> : l \in 0 .. inputSize - 1}, {}) :
        i \in 0 .. outputSize - 1, j \in 0 .. numTokens - 1}

-----------------------------------------------------------------------------

\* The pairs of a half-split rotation over one head: element j with j + half,
\* by the j-th angle of the position.
RotationOf(head, headDim, pos) ==
    LET half == headDim \div 2
    IN  [k \in 0 .. headDim - 1 |->
            LET j == k % half
                cos == <<"cos", pos, j>>
                sin == <<"sin", pos, j>>
            IN  IF k < half THEN Rotated(head[j], cos, head[j + half], sin, -1)
                ELSE Rotated(head[j + half], cos, head[j], sin, 1)]

\* The root-mean-square norm of one head with its own weights.
NormOf(headDim, weights) ==
    [k \in 0 .. headDim - 1 |-> Normed(k, <<weights, k>>, SetToBag(0 .. headDim \div Vec - 1))]

\* A launch does what a kernel promises: it writes the promised cells with the
\* promised terms, each once, and no thread reads a cell that another writes.
Computes(writes, promised) ==
    /\ {<<w.cell, w.term>> : w \in writes} = {<<c, promised[c]>> : c \in DOMAIN promised}
    /\ Cardinality(writes) = Cardinality(DOMAIN promised)
    /\ LET owner == [c \in DOMAIN promised |-> (CHOOSE w \in writes : w.cell = c).by]
       IN  \A w \in writes : \A c \in w.reads \cap DOMAIN promised : owner[c] = w.by
=============================================================================
