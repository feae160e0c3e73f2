----------------------------- MODULE WarpReduce -----------------------------
(* Reductions across the lanes of a warp (csrc/ops/utils.h).                *)
EXTENDS Integers

Log2(n) == CHOOSE k \in 0 .. n : 2 ^ k = n

\* lane ^ distance, for a distance that is a power of two.
XorLane(lane, distance) ==
    IF (lane \div distance) % 2 = 0 THEN lane + distance ELSE lane - distance

\* The values of the lanes after the rounds of shuffles with a width: each
\* round combines a lane with the one at half the distance of the round before.
Butterfly(Combine(_, _), val, width) ==
    LET after[k \in 0 .. Log2(width)] ==
            IF k = 0 THEN val
            ELSE LET before == after[k - 1]
                 IN  [lane \in DOMAIN val |->
                        Combine(before[lane], before[XorLane(lane, width \div 2 ^ k)])]
    IN  after[Log2(width)]
=============================================================================
