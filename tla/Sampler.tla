------------------------------ MODULE Sampler ------------------------------
(* ops::sample for one row of logits: the two kernels that turn a row into a *)
(* token by top-k selection, temperature, and top-p rejection sampling.      *)
(*                                                                           *)
(* Rows are independent of each other, so one row is one behaviour.  Threads *)
(* of a block meet at a barrier between the steps below; within a step the   *)
(* work is split over NumThreads threads that read LoadWidth neighbours at a *)
(* time, and that split is modelled, because the token drawn depends on it.  *)
(*                                                                           *)
(* The bits of a bf16 logit, its sign first, are a number of two digits      *)
(* (Radix = 256 in the code).  A weight is a whole number of units, One of   *)
(* them being the code's 1.f; a top_p is a number of quarters (FloatOne).    *)
EXTENDS Integers, FiniteSetsExt

CONSTANTS
    VocabSize,
    NumThreads,      \* kNumThreads
    LoadWidth,       \* logits a thread loads at a time in sample_rows: 4
    TileWidth,       \* logits a thread reads in prepare_logits: 8
    Radix,           \* values of one radix digit: 256
    LogitCodes,      \* bf16 bit patterns that a logit may have
    One,             \* the weight 1.f
    TopKs,           \* values of top_k that are tried
    RequestTopPs,    \* values of top_p in requests, in sixteenths
    Coolings         \* 0: temperature 0; otherwise a gap of one divides by it

ASSUME SamplerAssumption ==
    /\ {VocabSize, NumThreads, LoadWidth, TileWidth, Radix, One} \subseteq Nat \ {0}
    /\ Radix % 2 = 0
    /\ LogitCodes \subseteq 0 .. Radix * Radix - 1
    /\ TopKs \subseteq Nat /\ Coolings \subseteq Nat
    /\ RequestTopPs \subseteq 1 .. 16       \* the server's gt = 0, le = 1

VARIABLES
    stage,           \* what the block does next
    logits,          \* the row
    param,           \* SampleParams of the row
    ranges,          \* per tile: its largest logit and where it is
    histograms,      \* per tile: how many logits have each high digit
    best,            \* the merged range
    cutoff,          \* the smallest logit that top-k keeps
    row,             \* weights
    threadMass,      \* per thread: the weight of its tokens above low
    low, high,       \* the bounds of the rejection rounds
    target,          \* top_p * total, in quarters
    candidate,       \* the token drawn in this round
    output           \* the sampled token

samplerVars == <<stage, logits, param, ranges, histograms, best, cutoff, row,
                 threadMass, low, high, target, candidate, output>>

Stages == {"prepare", "merge", "cutoff", "weigh", "draw", "judge", "done"}

Tokens == 0 .. VocabSize - 1
Threads == 0 .. NumThreads - 1
Digits == 0 .. Radix - 1
NoToken == VocabSize                        \* INT_MAX
SignBit == (Radix \div 2) * Radix
FloatOne == 4

(* The number a bit pattern stands for; a pattern with the sign bit set is   *)
(* negative or minus zero.                                                   *)
Value(code) == IF code < SignBit THEN code ELSE SignBit - code
MinusInfinity == -SignBit

(* bf16_key: an unsigned key in the order of the values.                     *)
Bf16Key(code) ==
    LET bits == IF Value(code) = 0 THEN 0 ELSE code
    IN  IF bits >= SignBit THEN 2 * SignBit - 1 - bits ELSE bits + SignBit

KeyValue(key) ==
    Value(IF key >= SignBit THEN key - SignBit ELSE 2 * SignBit - 1 - key)

HighDigit(code) == Bf16Key(code) \div Radix
LowDigit(code) == Bf16Key(code) % Radix

(* A double of the request's JSON becomes a float when the engine unpacks    *)
(* it; a value under half of the smallest float becomes zero.                *)
FloatTopP(topP) == (topP * FloatOne + 8) \div 16

SumOver(weights, S) == MapThenSumSet(LAMBDA x : weights[x], S)
-----------------------------------------------------------------------------
(* prepare_logits *)

TileSize == NumThreads * TileWidth
Tiles == 0 .. (VocabSize + TileSize - 1) \div TileSize - 1
TileTokens(tile) == {i \in Tokens : i \div TileSize = tile}

NoRange == [high |-> MinusInfinity, index |-> NoToken]

MergeRange(a, b) ==
    IF b.high > a.high \/ (b.high = a.high /\ b.index < a.index) THEN b ELSE a

(* top_k is off at 0 and at the vocabulary's size, and needs no histogram    *)
(* at 1.                                                                     *)
UsesRadix == param.cooling # 0 /\ param.topK > 1 /\ param.topK < VocabSize

PrepareLogits ==
    /\ stage = "prepare"
    /\ ranges' = [tile \in Tiles |->
           FoldSet(MergeRange, NoRange,
                   {[high |-> Value(logits[i]), index |-> i] : i \in TileTokens(tile)})]
    /\ histograms' = IF UsesRadix
           THEN [tile \in Tiles |-> [digit \in Digits |->
                    Quantify(TileTokens(tile), LAMBDA i : HighDigit(logits[i]) = digit)]]
           ELSE histograms
    /\ stage' = "merge"
    /\ UNCHANGED <<logits, param, best, cutoff, row, threadMass, low, high,
                   target, candidate, output>>
-----------------------------------------------------------------------------
(* sample_rows *)

MergeTiles ==
    /\ stage = "merge"
    /\ LET merged == FoldSet(MergeRange, NoRange, {ranges[tile] : tile \in Tiles})
       IN  /\ best' = merged
           /\ IF param.cooling = 0
              THEN output' = merged.index /\ stage' = "done"
              ELSE stage' = "cutoff" /\ UNCHANGED output
    /\ UNCHANGED <<logits, param, ranges, histograms, cutoff, row, threadMass,
                   low, high, target, candidate>>

(* select_digit: the digit of the k-th largest, and its rank among the       *)
(* numbers that have this digit.                                             *)
\* variant: the rank is not taken down to those numbers.
SelectDigitKeepsRank(count, k) ==
    LET above(digit) == SumOver(count, {d \in Digits : d > digit})
    IN  [digit |-> Max({0} \union {d \in Digits : above(d) < k /\ k <= above(d) + count[d]}),
         k |-> k]

SelectDigit(count, k) ==
    LET above(digit) == SumOver(count, {d \in Digits : d > digit})
        digit == CHOOSE d \in Digits : above(d) < k /\ k <= above(d) + count[d]
    IN  [digit |-> digit, k |-> k - above(digit)]

LowDigits(highDigit) ==
    [digit \in Digits |->
        Quantify(Tokens, LAMBDA i : /\ LowDigit(logits[i]) = digit
                                    /\ HighDigit(logits[i]) = highDigit)]

RadixCutoff ==
    LET highs == [digit \in Digits |->
                     SumOver([tile \in Tiles |-> histograms[tile][digit]], Tiles)]
        first == SelectDigit(highs, param.topK)
        second == SelectDigit(LowDigits(first.digit), first.k)
    IN  KeyValue(first.digit * Radix + second.digit)

SelectCutoff ==
    /\ stage = "cutoff"
    /\ cutoff' = CASE param.topK = 1 -> best.high
                   [] UsesRadix      -> RadixCutoff
                   [] OTHER          -> MinusInfinity
    /\ stage' = "weigh"
    /\ UNCHANGED <<logits, param, ranges, histograms, best, row, threadMass,
                   low, high, target, candidate, output>>

(* exp of a logit that is gap below the largest, scaled; far below it is 0.  *)
Exp(gap) ==
    LET exp[g \in 0 .. gap] == IF g = 0 THEN One ELSE exp[g - 1] \div param.cooling
    IN  exp[gap]

WeightOf(i) ==
    CASE Value(logits[i]) = best.high -> One
      [] Value(logits[i]) >= cutoff /\ Value(logits[i]) # best.high
                                     -> Exp(best.high - Value(logits[i]))
      [] OTHER                       -> 0

ThreadTokens(t) == {i \in Tokens : (i \div LoadWidth) % NumThreads = t}

(* The weight of the thread's tokens that are above a bound.                 *)
MassAbove(weights, t, bound) ==
    SumOver(weights, {i \in ThreadTokens(t) : weights[i] > bound})

WeighRow ==
    /\ stage = "weigh"
    /\ LET weights == [i \in Tokens |-> WeightOf(i)]
           masses == [t \in Threads |-> MassAbove(weights, t, 0)]
       IN  /\ row' = weights
           /\ threadMass' = masses
           /\ target' = param.topP * SumOver(masses, Threads)
    /\ low' = 0 /\ high' = One
    /\ stage' = "draw"
    /\ UNCHANGED <<logits, param, ranges, histograms, best, cutoff, candidate, output>>
-----------------------------------------------------------------------------
(* One round: draw a token above low in proportion to its weight. *)

Total == SumOver(threadMass, Threads)

Kept(i) == IF row[i] > low THEN row[i] ELSE 0

(* The first level of the CDF: the stretch of draws that a thread takes.     *)
Buckets ==
    {[thread |-> t,
      start  |-> SumOver(threadMass, {s \in Threads : s < t})] : t \in Threads}

(* The second level spreads a bucket over the block, in passes: the vector   *)
(* of the bucket that thread t reads in a pass, and what is read before a    *)
(* token in that order.                                                      *)
Vector(bucket, pass, t) ==
    LET first == (bucket + (pass * NumThreads + t) * NumThreads) * LoadWidth
    IN  {i \in Tokens : first <= i /\ i < first + LoadWidth}

Passes(bucket) ==
    {pass \in Tokens : (bucket + pass * NumThreads * NumThreads) * LoadWidth < VocabSize}

Readings(bucket) ==
    UNION {UNION {{<<pass, t, i>> : i \in Vector(bucket, pass, t)} : t \in Threads} :
           pass \in Passes(bucket)}

ReadBefore(r1, r2) ==
    \/ r1[1] < r2[1]
    \/ r1[1] = r2[1] /\ r1[2] < r2[2]
    \/ r1[1] = r2[1] /\ r1[2] = r2[2] /\ r1[3] < r2[3]

(* Per reading of a bucket, where the stretch of draws that it takes starts. *)
Stretches(bucket) ==
    LET readings == Readings(bucket)
        weights == [q \in readings |-> Kept(q[3])]
    IN  {[pass |-> r[1], token |-> r[3],
          start |-> SumOver(weights, {q \in readings : ReadBefore(q, r)})] : r \in readings}

(* What a value of the uniform number leads to: the first thread whose       *)
(* bucket holds it, and there the least token of the first pass that has     *)
(* one.  The largest logit stands in when there is none.                     *)
BucketsOf(uniform) ==
    {b \in Buckets : b.start <= uniform /\ uniform < b.start + threadMass[b.thread]}

FoundIn(bucket, offset) ==
    {s \in Stretches(bucket) : s.start <= offset /\ offset < s.start + Kept(s.token)}

FirstFound(found) ==
    Min({s.token : s \in {s \in found : \A other \in found : s.pass <= other.pass}})

DrawnToken(uniform) ==
    LET b == CHOOSE b \in BucketsOf(uniform) :
                 \A other \in BucketsOf(uniform) : b.thread <= other.thread
        found == FoundIn(b.thread, uniform - b.start)
    IN  IF BucketsOf(uniform) = {} \/ found = {} THEN best.index ELSE FirstFound(found)

Draws == {[uniform |-> u, token |-> DrawnToken(u)] : u \in 0 .. Total - 1}

(* The float prefix sums may leave a gap of an ulp between two tokens, and a *)
(* draw that falls in it takes the largest logit.                            *)
DrawnTokens == {d.token : d \in Draws} \union {best.index}

Draw ==
    /\ stage = "draw"
    /\ candidate' \in DrawnTokens
    /\ IF param.topP = FloatOne
       THEN output' = candidate' /\ stage' = "done"
       ELSE stage' = "judge" /\ UNCHANGED output
    /\ UNCHANGED <<logits, param, ranges, histograms, best, cutoff, row,
                   threadMass, low, high, target>>

Pivot == row[candidate]
Midpoint == (Pivot + high) \div 2
SumAbove(bound) == SumOver([t \in Threads |-> MassAbove(row, t, bound)], Threads)

\* variant: a token at the edge of the nucleus is accepted.
AtMostTarget(mass) == mass * FloatOne <= target

BelowTarget(mass) == mass * FloatOne < target

Accept ==
    /\ stage = "judge"
    /\ BelowTarget(SumAbove(Pivot))
    /\ output' = candidate
    /\ stage' = "done"
    /\ UNCHANGED <<logits, param, ranges, histograms, best, cutoff, row,
                   threadMass, low, high, target, candidate>>

\* variant: the threads keep the masses of the round before.
NarrowToOldMasses(newLow, newHigh) ==
    low' = newLow /\ high' = newHigh /\ UNCHANGED threadMass

\* variant: low stays where it was.
NarrowToHigh(newLow, newHigh) ==
    high' = newHigh /\ UNCHANGED <<low, threadMass>>

NarrowTo(newLow, newHigh) ==
    /\ low' = newLow
    /\ high' = newHigh
    /\ threadMass' = [t \in Threads |-> MassAbove(row, t, newLow)]

Reject ==
    /\ stage = "judge"
    /\ ~BelowTarget(SumAbove(Pivot))
    /\ IF BelowTarget(SumAbove(Midpoint)) THEN NarrowTo(Pivot, Midpoint)
                                          ELSE NarrowTo(Midpoint, high)
    /\ stage' = "draw"
    /\ UNCHANGED <<logits, param, ranges, histograms, best, cutoff, row,
                   target, candidate, output>>
-----------------------------------------------------------------------------
SamplerInit ==
    /\ stage = "prepare"
    /\ logits \in [Tokens -> LogitCodes]
    /\ param \in [topK : TopKs, cooling : Coolings, topP : {FloatTopP(p) : p \in RequestTopPs}]
    /\ ranges = <<>> /\ histograms = <<>>
    /\ best = NoRange
    /\ cutoff = MinusInfinity
    /\ row = <<>> /\ threadMass = <<>>
    /\ low = 0 /\ high = One /\ target = 0
    /\ candidate = NoToken /\ output = NoToken

SamplerNext ==
    \/ PrepareLogits \/ MergeTiles \/ SelectCutoff \/ WeighRow
    \/ Draw \/ Accept \/ Reject

(* A kernel that is launched runs on until it has written its token: some    *)
(* step is enabled until then, and every step changes stage.                 *)
BlockRuns == stage # "done" /\ stage' \in Stages

SamplerSpec == SamplerInit /\ [][SamplerNext]_samplerVars /\ WF_stage(BlockRuns)
-----------------------------------------------------------------------------
NumLarger(i) == Quantify(Tokens, LAMBDA j : Value(logits[j]) > Value(logits[i]))

KeptByTopK ==
    IF param.topK \in 1 .. VocabSize - 1
    THEN {i \in Tokens : NumLarger(i) < param.topK}
    ELSE Tokens

(* Top-k is exact: the cutoff keeps the top_k largest logits, with all that  *)
(* are equal to the last of them, and no other (ops/sampler.cu:214-250).     *)
TopKExact ==
    stage = "weigh" => {i \in Tokens : Value(logits[i]) >= cutoff} = KeptByTopK

(* A round draws each token that it has not ruled out in proportion to its   *)
(* weight, and no other, however the row is spread over the threads: of the  *)
(* Total values of the uniform number as many lead to a token as it weighs   *)
(* (ops/sampler.cu:296-352).                                                 *)
DrawProportional ==
    stage = "draw" /\ Total > 0 =>
        LET draws == Draws
        IN  \A i \in Tokens : Quantify(draws, LAMBDA d : d.token = i) = Kept(i)

(* The tokens of which those that weigh more have less than top_p of the     *)
(* row's weight.                                                             *)
Nucleus ==
    {i \in Tokens :
        /\ row[i] > 0
        /\ LET heavier == {j \in Tokens : row[j] > row[i]}
           IN  SumOver(row, heavier) * FloatOne
                 < param.topP * SumOver(row, Tokens)}

(* No round rules a token of the nucleus out, and the token that is returned *)
(* belongs to it; a temperature of 0 returns the first of the largest        *)
(* logits (ops/sampler.cu:207-212, 359-385).                                 *)
NucleusSampling ==
    /\ stage \in {"draw", "judge"} => \A i \in Nucleus : row[i] > low
    /\ stage = "done" =>
          IF param.cooling = 0
          THEN /\ NumLarger(output) = 0
               /\ \A i \in Tokens : i < output => NumLarger(i) > 0
          ELSE output \in Nucleus

(* Every row that is sampled gets its token (ops/sampler.cu:296-386): the    *)
(* engine waits for it, and with it every request.                           *)
SamplingEnds == <>(stage = "done")
=============================================================================
