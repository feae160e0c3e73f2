--------------------------- MODULE OnlineSoftmax ---------------------------
(***************************************************************************)
(* The online softmax of one query row in the paged attention kernel       *)
(* (csrc/ops/paged_attention.cu:218-221, 256-351), with its lazy           *)
(* rescaling: the reference maximum of a row moves only when a step        *)
(* exceeds it by more than kMaxExponentGap.                                *)
(*                                                                         *)
(* A score is the integer power of two that enters exp2f.  A weight is     *)
(* counted in units of 2^-Precision, so that every weight of a row is      *)
(* a whole number of units and the arithmetic is exact.                    *)
(***************************************************************************)
EXTENDS WarpReduce, Sequences, FiniteSetsExt

CONSTANTS
    MaxExponentGap,  \* kMaxExponentGap
    Lanes,           \* the lanes that share a row, four in the code
    StepKeys,        \* kBc
    Precision        \* the scores of a row differ by at most this

ASSUME MaxExponentGapAssumption == MaxExponentGap \in Nat
ASSUME LanesAssumption == Lanes \in Nat \ {0} /\ StepKeys % Lanes = 0
ASSUME PrecisionAssumption == Precision \in Nat

\* The score of a masked key, -CUDART_INF_F.
Masked == -1000

\* The score of a key in the step that starts at keyStart; the mask leaves the
\* keys after the row's own position out.
ScoreAt(scores, key) == IF key < Len(scores) THEN scores[key + 1] ELSE Masked

KeysOfLane(keyStart, lane) ==
    {key \in keyStart .. keyStart + StepKeys - 1 : key % Lanes = lane}

Larger(a, b) == IF a > b THEN a ELSE b

Plus(a, b) == a + b

\* tile_max: each lane over its own columns, then across the lanes of the row.
TileMax(scores, keyStart) ==
    Butterfly(Larger,
        [lane \in 0 .. Lanes - 1 |->
            Max({ScoreAt(scores, key) : key \in KeysOfLane(keyStart, lane)})],
        Lanes)

\* exp2f of a score against the reference maximum.
Weight(score, ref) == IF score = Masked THEN 0 ELSE 2 ^ (Precision + score - ref)

\* Multiplication by exp2f(ref - newMax).
Scaled(weight, ref, newMax) == weight \div 2 ^ (newMax - ref)

\* variant: the sum of the weights keeps the old reference.
RescaleOutputOnly(row, newMax) ==
    [ref |-> newMax,
     sum |-> row.sum,
     out |-> [key \in DOMAIN row.out |-> Scaled(row.out[key], row.ref, newMax)]]

\* The reference moves up, and with it all that was added so far.
Rescale(row, newMax) ==
    [ref |-> newMax,
     sum |-> Scaled(row.sum, row.ref, newMax),
     out |-> [key \in DOMAIN row.out |-> Scaled(row.out[key], row.ref, newMax)]]

Rebased(row, keyStart, newMax) ==
    IF keyStart = 0 THEN [row EXCEPT !.ref = newMax]
    ELSE IF newMax > row.ref + MaxExponentGap THEN Rescale(row, newMax)
    ELSE row

\* What one lane holds after a step: m_ref, its part of l, and how much of the
\* value of each key acc_o holds (the MMA gives every lane all the columns).
SoftmaxStep(scores, keyStart, row, lane) ==
    LET base == Rebased(row, keyStart, TileMax(scores, keyStart)[lane])
        W(key) == Weight(ScoreAt(scores, key), base.ref)
    IN  [ref |-> base.ref,
         sum |-> base.sum + MapThenSumSet(W, KeysOfLane(keyStart, lane)),
         out |-> [key \in DOMAIN base.out |->
                    IF key \in keyStart .. keyStart + StepKeys - 1 THEN W(key) ELSE base.out[key]]]

\* The lanes after all the steps over the keys of a row.
AfterSteps(scores) ==
    LET steps == (Len(scores) + StepKeys - 1) \div StepKeys
        after[t \in 0 .. steps] ==
            [lane \in 0 .. Lanes - 1 |->
                IF t = 0
                THEN [ref |-> 0, sum |-> 0, out |-> [key \in 0 .. Len(scores) - 1 |-> 0]]
                ELSE SoftmaxStep(scores, (t - 1) * StepKeys, after[t - 1][lane], lane)]
    IN  after[steps]

\* The reduction of l over the lanes.
WeightSum(lanes) == Butterfly(Plus, [lane \in DOMAIN lanes |-> lanes[lane].sum], Lanes)

-----------------------------------------------------------------------------

\* What a softmax gives: weights in the ratio of 2^score.
Reference(scores) ==
    LET least == Min({scores[i] : i \in DOMAIN scores})
    IN  [key \in 0 .. Len(scores) - 1 |-> 2 ^ (scores[key + 1] - least)]

\* Every lane of a row divides its output by the same sum, which is at least 1,
\* the key weights have exactly the ratios of the softmax, and none exceeds
\* 2^MaxExponentGap, however the scores rise from step to step.
RowIsSoftmax(scores) ==
    LET lanes == AfterSteps(scores)
        total == WeightSum(lanes)
        exact == Reference(scores)
        exactSum == MapThenSumSet(LAMBDA key : exact[key], DOMAIN exact)
    IN  \A lane \in DOMAIN lanes :
            /\ total[lane] >= 2 ^ Precision
            /\ \A key \in DOMAIN exact :
                /\ lanes[lane].out[key] * exactSum = exact[key] * total[lane]
                /\ lanes[lane].out[key] <= 2 ^ (Precision + MaxExponentGap)
=============================================================================
