------------------------ MODULE ModelExecutionProofs ------------------------
(***************************************************************************)
(* What ModelExecution's properties say of every step, for any pool,       *)
(* limits and requests: attention reads a request's own keys, samples come *)
(* from its last token, and the arrays of a step fit their buffer.  The    *)
(* invariant of the scheduler is reused: ExecSpec implements SchedSpec.    *)
(***************************************************************************)
EXTENDS ModelExecution, SchedulerProofs

\* A step's entries, each with tokens to compute and blocks for them.
Batches ==
    {batch \in Seq(ScheduledRequests) : \A i \in 1 .. Len(batch) :
        /\ batch[i].count > 0
        /\ batch[i].offset + batch[i].count <= Len(batch[i].blocks) * BlockSize}

LEMMA EntryTypes ==
    ASSUME NEW batch \in Seq(ScheduledRequests), NEW i \in 0 .. Len(batch) - 1
    PROVE  LET e == Entry(batch, i)
           IN  /\ i + 1 \in 1 .. Len(batch) /\ e = batch[i + 1] /\ e \in ScheduledRequests
               /\ e.id \in Ids /\ e.sample \in BOOLEAN
               /\ e.offset \in Nat /\ e.count \in Nat /\ e.blocks \in Seq(Blocks)
<1>1. i + 1 \in 1 .. Len(batch) /\ batch[i + 1] \in ScheduledRequests
  OBVIOUS
<1> QED BY <1>1 DEF Entry, ScheduledRequests

-----------------------------------------------------------------------------
(* Where the tokens of each entry are.                                      *)

LEMMA StartsOfEntries ==
    ASSUME NEW E, NEW batch \in Seq(E), \A i \in 1 .. Len(batch) : batch[i].count \in Nat
    PROVE  LET Q == QueryStartLoc(batch)
           IN  /\ Q \in [0 .. Len(batch) -> Nat]
               /\ Q[0] = 0
               /\ \A i \in 0 .. Len(batch) - 1 : Q[i + 1] = Q[i] + batch[i + 1].count
<1> DEFINE n == Len(batch)
           h == [i \in 1 .. n |-> [v \in Nat |-> v + batch[i].count]]
           Solves(f) == f = [i \in 0 .. n |->
                                IF i = 0 THEN 0 ELSE f[i - 1] + Entry(batch, i - 1).count]
<1>1. n \in Nat /\ \A i \in 1 .. n : batch[i].count \in Nat
  OBVIOUS
<1>2. PICK g \in [0 .. n -> Nat] : \A i \in 0 .. n : g[i] = IF i = 0 THEN 0 ELSE h[i][g[i - 1]]
  <2>1. h \in [1 .. n -> [Nat -> Nat]]
    BY <1>1
  <2> HIDE DEF h, n
  <2>2. \E g \in [0 .. n -> Nat] : Recursion(g, n, 0, h)
    BY <1>1, <2>1, RecursionUpTo
  <2> QED BY <2>2 DEF Recursion
<1>3. Solves(g)
  <2>1. ASSUME NEW i \in 0 .. n, i # 0 PROVE g[i] = g[i - 1] + Entry(batch, i - 1).count
    <3>1. i \in 1 .. n /\ i - 1 \in 0 .. n /\ g[i - 1] \in Nat /\ (i - 1) + 1 = i
      BY <1>1, <1>2, <2>1
    <3>2. h[i][g[i - 1]] = g[i - 1] + batch[i].count
      BY <3>1
    <3>3. Entry(batch, i - 1) = batch[i]
      BY <3>1 DEF Entry
    <3> QED BY <1>2, <2>1, <3>2, <3>3
  <2>2. g[0] = 0
    <3> HIDE DEF h, n
    <3>1. 0 \in 0 .. n
      BY <1>1
    <3> QED BY <1>2, <3>1
  <2> HIDE DEF h
  <2> QED BY <1>2, <2>1, <2>2
<1> DEFINE Q == CHOOSE f : Solves(f)
<1>4. QueryStartLoc(batch) = Q
  BY Zenon DEF QueryStartLoc
<1>5. Solves(Q)
  <2> HIDE DEF Solves
  <2> QED BY <1>3
<1> HIDE DEF Q, h
<1>6. /\ Q[0] = 0
      /\ \A i \in 0 .. n - 1 : Q[i + 1] = Q[i] + batch[i + 1].count
  <2>1. \A i \in 0 .. n : Q[i] = IF i = 0 THEN 0 ELSE Q[i - 1] + Entry(batch, i - 1).count
    BY <1>5
  <2>2. Q[0] = 0
    BY <1>1, <2>1
  <2>3. ASSUME NEW i \in 0 .. n - 1 PROVE Q[i + 1] = Q[i] + batch[i + 1].count
    <3>1. i + 1 \in 0 .. n /\ i + 1 # 0 /\ (i + 1) - 1 = i
      BY <1>1
    <3> QED BY <2>1, <3>1 DEF Entry
  <2> QED BY <2>2, <2>3
<1>7. Q = [i \in 0 .. n |-> Q[i]]
  BY <1>5
<1> HIDE DEF Solves, n
<1>8. \A i \in 0 .. n : i \in {k \in 0 .. n : Q[k] \in Nat}
  <2> DEFINE T == {k \in 0 .. n : Q[k] \in Nat}
  <2>1. 0 \in T
    BY <1>1, <1>6
  <2>2. ASSUME NEW i \in 0 .. (n - 1), i \in T PROVE i + 1 \in T
    <3>1. /\ i \in 0 .. n - 1 /\ i + 1 \in 0 .. n /\ i + 1 \in 1 .. n
          /\ Q[i] \in Nat /\ batch[i + 1].count \in Nat
      BY <1>1, <2>2
    <3>2. Q[i + 1] = Q[i] + batch[i + 1].count
      BY <1>6, <3>1
    <3> QED BY <3>1, <3>2
  <2> HIDE DEF T
  <2>3. \A i \in 0 .. n : i \in T
    BY <1>1, <2>1, <2>2, InductionUpTo
  <2> QED BY <2>3 DEF T
<1>9. Q \in [0 .. n -> Nat]
  BY <1>7, <1>8
<1> QED BY <1>4, <1>6, <1>9 DEF n

LEMMA QueryStarts ==
    ASSUME NEW batch \in Seq(ScheduledRequests)
    PROVE  LET Q == QueryStartLoc(batch)
           IN  /\ Q \in [0 .. Len(batch) -> Nat]
               /\ Q[0] = 0
               /\ \A i \in 0 .. Len(batch) - 1 : Q[i + 1] = Q[i] + batch[i + 1].count
<1>1. \A i \in 1 .. Len(batch) : batch[i].count \in Nat
  <2>1. \A i \in 1 .. Len(batch) : batch[i] \in ScheduledRequests
    OBVIOUS
  <2> QED BY <2>1 DEF ScheduledRequests
<1> QED BY <1>1, StartsOfEntries

LEMMA QueryStartsGrow ==
    ASSUME NEW batch \in Batches
    PROVE  LET Q == QueryStartLoc(batch)
           IN  \A i, j \in 0 .. Len(batch) : i < j => Q[i] < Q[j]
<1> DEFINE Q == QueryStartLoc(batch)
           n == Len(batch)
<1>1. /\ batch \in Seq(ScheduledRequests) /\ n \in Nat
      /\ \A i \in 1 .. n : batch[i].count > 0 /\ batch[i].count \in Nat
  <2>1. batch \in Seq(ScheduledRequests) /\ \A i \in 1 .. n : batch[i].count > 0
    BY DEF Batches
  <2>2. \A i \in 1 .. n : batch[i] \in ScheduledRequests
    BY <2>1
  <2> QED BY <2>1, <2>2 DEF ScheduledRequests
<1>2. /\ Q \in [0 .. n -> Nat]
      /\ \A i \in 0 .. n - 1 : Q[i + 1] = Q[i] + batch[i + 1].count
  BY <1>1, QueryStarts
<1> HIDE DEF Q, n
<1>3. \A i \in 0 .. n - 1 : Q[i] < Q[i + 1]
  <2> SUFFICES ASSUME NEW i \in 0 .. n - 1 PROVE Q[i] < Q[i + 1]
    OBVIOUS
  <2>1. i \in 0 .. n /\ i + 1 \in 1 .. n
    BY <1>1
  <2>2. Q[i] \in Nat /\ Q[i + 1] = Q[i] + batch[i + 1].count
    BY <1>2, <2>1
  <2>3. batch[i + 1].count > 0 /\ batch[i + 1].count \in Nat
    BY <1>1, <2>1
  <2> QED BY <2>2, <2>3
<1>4. \A i, j \in 0 .. n : i < j => Q[i] < Q[j]
  <2>1. \A i \in 0 .. n : Q[i] \in Nat
    BY <1>2
  <2> QED BY <1>1, <1>3, <2>1, Growing
<1> QED BY <1>4 DEF Q, n

\* EntryOfToken finds the entry whose tokens a token is among.
LEMMA TokenOfEntry ==
    ASSUME NEW batch \in Batches, NEW i \in 0 .. Len(batch) - 1,
           NEW t \in QueryStartLoc(batch)[i] .. QueryStartLoc(batch)[i + 1] - 1
    PROVE  EntryOfToken(batch, t) = i
<1> DEFINE Q == QueryStartLoc(batch)
           n == Len(batch)
           T == {k \in 0 .. n - 1 : Q[k] <= t}
<1>1. n \in Nat /\ Q \in [0 .. n -> Nat] /\ \A k, j \in 0 .. n : k < j => Q[k] < Q[j]
  <2>1. batch \in Seq(ScheduledRequests)
    BY DEF Batches
  <2> QED BY <2>1, QueryStarts, QueryStartsGrow
<1>2. Q[i] \in Nat /\ Q[i + 1] \in Nat /\ t \in Nat /\ Q[i] <= t /\ t < Q[i + 1]
  BY <1>1
<1> HIDE DEF Q, n
<1>3. i \in T /\ \A k \in T : i >= k
  <2>1. i \in 0 .. n - 1
    BY DEF n
  <2>2. ASSUME NEW k \in T PROVE i >= k
    <3>1. k \in 0 .. n - 1 /\ Q[k] <= t /\ Q[k] \in Nat /\ k \in 0 .. n /\ i + 1 \in 0 .. n
      BY <1>1, <2>1
    <3>2. CASE i + 1 < k
      BY <1>1, <1>2, <3>1, <3>2
    <3>3. CASE i + 1 = k
      BY <1>2, <3>1, <3>3
    <3> QED BY <1>1, <2>1, <3>1, <3>2, <3>3
  <2> QED BY <1>2, <2>1, <2>2
<1>4. Max(T) \in T /\ \A k \in T : Max(T) >= k
  <2> HIDE DEF T
  <2> QED BY <1>3, Zenon DEF Max
<1>5. Max(T) = i
  <2>1. Max(T) \in Nat /\ i \in Nat
    BY <1>1, <1>3, <1>4
  <2> HIDE DEF T
  <2> QED BY <1>3, <1>4, <2>1
<1>6. EntryOfToken(batch, t) = Max(T)
  BY Zenon DEF EntryOfToken, T, Q, n
<1> QED BY <1>5, <1>6

\* Every token is in one entry.
LEMMA EntryOfAnyToken ==
    ASSUME NEW batch \in Batches, NEW t \in 0 .. NumTokens(batch) - 1
    PROVE  \E i \in 0 .. Len(batch) - 1 :
              t \in QueryStartLoc(batch)[i] .. QueryStartLoc(batch)[i + 1] - 1
<1> DEFINE Q == QueryStartLoc(batch)
           n == Len(batch)
           T == {k \in 0 .. n : Q[k] > t}
<1>1. n \in Nat /\ Q \in [0 .. n -> Nat] /\ Q[0] = 0
  <2>1. batch \in Seq(ScheduledRequests)
    BY DEF Batches
  <2> QED BY <2>1, QueryStarts
<1>2. Q[n] \in Nat /\ NumTokens(batch) = Q[n] /\ t \in Nat /\ t < Q[n]
  BY <1>1 DEF NumTokens
<1> HIDE DEF Q, n
<1>3. n \in T /\ T \in SUBSET Nat
  BY <1>1, <1>2
<1>4. PICK k \in T : \A j \in T : k <= j
  <2> HIDE DEF T
  <2> QED BY <1>3, LeastNumber
<1>5. k \in 0 .. n /\ Q[k] > t /\ k # 0
  BY <1>1, <1>2, <1>4
<1>6. k - 1 \in 0 .. n - 1 /\ k - 1 \in 0 .. n /\ (k - 1) + 1 = k /\ k - 1 \notin T
  <2>1. k - 1 \in 0 .. n - 1 /\ k - 1 \in 0 .. n /\ (k - 1) + 1 = k /\ ~ (k <= k - 1)
    BY <1>1, <1>5
  <2> HIDE DEF T
  <2> QED BY <1>4, <2>1
<1>7. Q[k - 1] \in Nat /\ Q[k] \in Nat /\ ~(Q[k - 1] > t)
  BY <1>1, <1>5, <1>6
<1>8. t \in Q[k - 1] .. Q[(k - 1) + 1] - 1
  BY <1>2, <1>5, <1>6, <1>7
<1> QED BY <1>6, <1>8 DEF Q, n

\* What the flattened arrays say of a token.
LEMMA InputToken ==
    ASSUME NEW batch \in Batches, NEW i \in 0 .. Len(batch) - 1,
           NEW p \in 0 .. Entry(batch, i).count - 1
    PROVE  LET e == Entry(batch, i)
               t == QueryStartLoc(batch)[i] + p
           IN  /\ t \in 0 .. NumTokens(batch) - 1
               /\ TokenIds(batch)[t] = <<e.id, e.offset + p>>
               /\ SlotMapping(batch, BlockSize)[t] = SlotOf(e, e.offset + p, BlockSize)
<1> DEFINE e == Entry(batch, i)
           Q == QueryStartLoc(batch)
           n == Len(batch)
           t == Q[i] + p
<1>1. batch \in Seq(ScheduledRequests) /\ n \in Nat
  BY DEF Batches
<1>2. /\ e = batch[i + 1] /\ e.count \in Nat /\ e.offset \in Nat
  BY <1>1, EntryTypes
<1>3. /\ Q \in [0 .. n -> Nat] /\ Q[i + 1] = Q[i] + e.count
      /\ Q[i + 1] <= Q[n]
  <2>1. /\ Q \in [0 .. n -> Nat] /\ Q[i + 1] = Q[i] + e.count
    BY <1>1, <1>2, QueryStarts
  <2>2. i + 1 \in 0 .. n /\ n \in 0 .. n /\ (i + 1 = n \/ i + 1 < n)
    BY <1>1
  <2>3. i + 1 < n => Q[i + 1] < Q[n]
    BY <2>2, QueryStartsGrow
  <2>4. Q[i + 1] \in Nat /\ Q[n] \in Nat
    BY <2>1, <2>2
  <2> HIDE DEF Q, e, n
  <2> QED BY <2>1, <2>2, <2>3, <2>4
<1>4. /\ Q[i] \in Nat /\ Q[n] \in Nat /\ i \in 0 .. n
  BY <1>1, <1>3
<1>5. t \in Q[i] .. Q[i + 1] - 1 /\ t \in 0 .. Q[n] - 1 /\ t - Q[i] = p
  <2> HIDE DEF Q, n, e
  <2>1. p \in 0 .. e.count - 1
    BY DEF e
  <2> QED BY <1>2, <1>3, <1>4, <2>1
<1>6. EntryOfToken(batch, t) = i
  BY <1>5, TokenOfEntry
<1>7. NumTokens(batch) = Q[n]
  BY DEF NumTokens
<1>8. PositionOf(batch, t) = e.offset + p
  <2>1. PositionOf(batch, t) = e.offset + t - Q[i]
    BY <1>6 DEF PositionOf
  <2> HIDE DEF Q, e
  <2> QED BY <1>2, <1>4, <2>1
<1> HIDE DEF t, Q, e
<1>9. TokenIds(batch)[t] = <<e.id, e.offset + p>>
  BY <1>5, <1>6, <1>7, <1>8 DEF TokenIds, e
<1>10. SlotMapping(batch, BlockSize)[t] = SlotOf(e, e.offset + p, BlockSize)
  BY <1>5, <1>6, <1>7, <1>8 DEF SlotMapping, e
<1> QED BY <1>5, <1>7, <1>9, <1>10 DEF t, Q, e

LEMMA AnyInputToken ==
    ASSUME NEW batch \in Batches, NEW t \in 0 .. NumTokens(batch) - 1
    PROVE  \E i \in 0 .. Len(batch) - 1 : \E p \in 0 .. Entry(batch, i).count - 1 :
              t = QueryStartLoc(batch)[i] + p
<1> DEFINE Q == QueryStartLoc(batch)
<1>1. batch \in Seq(ScheduledRequests)
  BY DEF Batches
<1>2. PICK i \in 0 .. Len(batch) - 1 : t \in Q[i] .. Q[i + 1] - 1
  BY EntryOfAnyToken
<1>3. /\ Q[i] \in Nat /\ Q[i + 1] = Q[i] + Entry(batch, i).count /\ Entry(batch, i).count \in Nat
  <2>1. Q \in [0 .. Len(batch) -> Nat] /\ Q[i + 1] = Q[i] + batch[i + 1].count
    BY <1>1, QueryStarts
  <2>2. Entry(batch, i) = batch[i + 1] /\ Entry(batch, i).count \in Nat
    BY <1>1, EntryTypes
  <2>3. Q[i] \in Nat
    BY <1>1, <2>1
  <2> QED BY <2>1, <2>2, <2>3
<1> HIDE DEF Q
<1>4. t - Q[i] \in 0 .. Entry(batch, i).count - 1 /\ t = Q[i] + (t - Q[i])
  BY <1>2, <1>3
<1> QED BY <1>4 DEF Q

-----------------------------------------------------------------------------
(* Slots: a block and a place in it.                                        *)

SlotIn(table, position) ==
    table[position \div BlockSize + 1] * BlockSize + (position % BlockSize)

LEMMA PlaceInBlock ==
    ASSUME NEW p \in Nat
    PROVE  /\ p \div BlockSize \in Nat /\ p % BlockSize \in 0 .. BlockSize - 1
           /\ p = (p \div BlockSize) * BlockSize + (p % BlockSize)
           /\ \A n \in Nat : p < n * BlockSize => p \div BlockSize < n
<1>1. BlockSize \in Nat /\ BlockSize > 0
  BY BlockSizeAssumption
<1>2. /\ p \div BlockSize \in Nat /\ p % BlockSize \in 0 .. BlockSize - 1
      /\ p = (p \div BlockSize) * BlockSize + (p % BlockSize)
  BY <1>1
<1>3. ASSUME NEW n \in Nat, p < n * BlockSize, n <= p \div BlockSize PROVE FALSE
  <2> DEFINE q == p \div BlockSize
  <2>1. q \in Nat /\ q * BlockSize <= p
    BY <1>1, <1>2
  <2>2. n * BlockSize <= q * BlockSize
    <3> HIDE DEF q
    <3> QED BY <1>1, <1>3, <2>1 DEF q
  <2> QED BY <1>1, <1>3, <2>1, <2>2
<1>4. ASSUME NEW n \in Nat, p < n * BlockSize PROVE p \div BlockSize < n
  BY <1>2, <1>3, <1>4
<1> QED BY <1>2, <1>4


LEMMA SlotType ==
    ASSUME NEW table \in Seq(Blocks), NEW p \in Nat, p < Len(table) * BlockSize
    PROVE  /\ p \div BlockSize + 1 \in 1 .. Len(table)
           /\ table[p \div BlockSize + 1] \in Nat
           /\ SlotIn(table, p) \in Slots
<1> DEFINE q == p \div BlockSize
           r == p % BlockSize
           b == table[q + 1]
<1>1. BlockSize \in Nat /\ BlockSize > 0 /\ NumBlocks \in Nat
  BY BlockSizeAssumption, NumBlocksAssumption
<1>2. q \in Nat /\ r \in 0 .. BlockSize - 1 /\ q < Len(table) /\ Len(table) \in Nat
  BY PlaceInBlock
<1> HIDE DEF q, r
<1>3. q + 1 \in 1 .. Len(table)
  BY <1>2
<1>4. b \in Blocks
  BY <1>3
<1>5. b \in Nat /\ b <= NumBlocks - 1
  BY <1>1, <1>4 DEF Blocks
<1> HIDE DEF b
<1>6. b * BlockSize + BlockSize <= NumBlocks * BlockSize
  <2>1. b + 1 <= NumBlocks
    BY <1>1, <1>5
  <2>2. (b + 1) * BlockSize <= NumBlocks * BlockSize
    BY <1>1, <1>5, <2>1
  <2> QED BY <1>1, <1>5, <2>2
<1>7. b * BlockSize \in Nat /\ NumBlocks * BlockSize \in Nat
  BY <1>1, <1>5
<1>8. b * BlockSize + r \in Slots
  BY <1>1, <1>2, <1>6, <1>7 DEF Slots
<1> QED BY <1>3, <1>5, <1>8 DEF SlotIn, q, r, b

\* No slot serves two tokens.
LEMMA SlotsApart ==
    ASSUME KVSafe, NEW id1 \in Ids, NEW id2 \in Ids, NEW p1 \in Nat, NEW p2 \in Nat,
           p1 < Len(allocatedBlocks[id1]) * BlockSize, p2 < Len(allocatedBlocks[id2]) * BlockSize,
           SlotIn(allocatedBlocks[id1], p1) = SlotIn(allocatedBlocks[id2], p2)
    PROVE  id1 = id2 /\ p1 = p2
<1> DEFINE s == allocatedBlocks[id1]
           t == allocatedBlocks[id2]
           i == p1 \div BlockSize + 1
           j == p2 \div BlockSize + 1
<1>1. s \in Seq(Blocks) /\ t \in Seq(Blocks)
  BY DEF KVSafe, KVTypeOK
<1>2. /\ i \in 1 .. Len(s) /\ j \in 1 .. Len(t) /\ s[i] \in Nat /\ t[j] \in Nat
  BY <1>1, SlotType
<1>3. /\ p1 \div BlockSize \in Nat /\ p1 % BlockSize \in 0 .. BlockSize - 1
      /\ p1 = (p1 \div BlockSize) * BlockSize + (p1 % BlockSize)
      /\ p2 \div BlockSize \in Nat /\ p2 % BlockSize \in 0 .. BlockSize - 1
      /\ p2 = (p2 \div BlockSize) * BlockSize + (p2 % BlockSize)
  BY PlaceInBlock
<1>4. s[i] = t[j] /\ p1 % BlockSize = p2 % BlockSize
  <2>1. s[i] * BlockSize + (p1 % BlockSize) = t[j] * BlockSize + (p2 % BlockSize)
    BY DEF SlotIn
  <2> DEFINE b1 == s[i]
             b2 == t[j]
             r1 == p1 % BlockSize
             r2 == p2 % BlockSize
  <2>2. /\ b1 \in Nat /\ b2 \in Nat /\ b1 * BlockSize + r1 = b2 * BlockSize + r2
        /\ r1 \in 0 .. BlockSize - 1 /\ r2 \in 0 .. BlockSize - 1
    BY <1>2, <1>3, <2>1
  <2> HIDE DEF b1, b2, r1, r2
  <2>3. b1 = b2 /\ r1 = r2
    BY <2>2, BlockSizeAssumption, SlotParts
  <2> QED BY <2>3 DEF b1, b2, r1, r2
<1>5. s[i] \in ToSet(s) /\ t[j] \in ToSet(t)
  BY <1>1, <1>2, SequenceElements
<1>6. id1 = id2
  BY <1>4, <1>5 DEF KVSafe, ExclusiveBlocks
<1>7. i = j
  <2>1. IsInjective(s) /\ s = t
    BY <1>6 DEF KVSafe, ExclusiveBlocks
  <2> HIDE DEF s, t, i, j
  <2> QED BY <1>1, <1>2, <1>4, <2>1, SequenceElements
<1>8. p1 \div BlockSize = p2 \div BlockSize
  <2> DEFINE x == p1 \div BlockSize
             y == p2 \div BlockSize
  <2>1. x \in Nat /\ y \in Nat /\ x + 1 = y + 1
    BY <1>3, <1>7
  <2> HIDE DEF x, y
  <2>2. x = y
    BY <2>1
  <2> QED BY <2>2 DEF x, y
<1> QED BY <1>3, <1>4, <1>6, <1>8

-----------------------------------------------------------------------------
(* The scheduler goes its way.                                              *)

LEMMA ExecStepSchedules == [ExecNext]_execVars => [SchedNext]_schedVars
<1>1. ASSUME NEW id \in Ids, NEW promptLen \in PromptLens, NEW outputLen \in OutputLens,
             ExecAddRequest(id, promptLen, outputLen)
      PROVE  SchedNext
  BY <1>1, Zenon DEF ExecAddRequest, SchedNext
<1>2. HostStep => SchedNext
  BY Zenon DEF HostStep, SchedNext, Step
<1>3. ExecuteModel => SchedNext
  BY Zenon DEF ExecuteModel, SchedNext, Step
<1>4. ASSUME NEW stop \in BOOLEAN, ExecUpdateToken(stop) PROVE SchedNext
  BY <1>4, Zenon DEF ExecUpdateToken, SchedNext, Step
<1>5. ExecEndUpdate => SchedNext
  BY Zenon DEF ExecEndUpdate, SchedNext, Step
<1>6. ExecNext => SchedNext
  BY <1>1, <1>2, <1>3, <1>4, <1>5, Zenon DEF ExecNext
<1>7. UNCHANGED execVars => UNCHANGED schedVars
  BY DEF execVars
<1> QED BY <1>6, <1>7, Zenon

\* The device does not change what the scheduler does: everything proved of the
\* scheduler holds with the execution of its steps.
THEOREM ExecImplementsScheduler == ExecSpec => SchedSpec
<1>1. ExecInit => SchedInit
  BY DEF ExecInit
<1> QED BY <1>1, ExecStepSchedules, PTL DEF ExecSpec, SchedSpec

\* The entries of a complete step and the running requests.
LEMMA StepEntries ==
    ASSUME SchedInv, phase = "scheduled"
    PROVE  /\ scheduled \in Batches
           /\ Len(scheduled) = Len(running)
           /\ \A i \in 1 .. Len(scheduled) :
                 /\ scheduled[i].id \in Ids
                 /\ HasStatus(scheduled[i].id, "kRunning")
                 /\ scheduled[i].blocks = allocatedBlocks[scheduled[i].id]
                 /\ scheduled[i].offset + scheduled[i].count =
                       request[scheduled[i].id].numComputed
                 /\ scheduled[i].sample <=> Lacking(scheduled[i].id) = 0
           /\ \A i, j \in 1 .. Len(scheduled) :
                 scheduled[i].id = scheduled[j].id => i = j
           /\ \A id \in Ids : HasStatus(id, "kRunning") =>
                 \E i \in 1 .. Len(scheduled) : scheduled[i].id = id
<1>1. CoreInv /\ LocalTypeOK /\ InSchedule /\ AfterPass1
  BY DEF SchedInv
<1>2. /\ scheduled \in Seq(ScheduledRequests) /\ Len(scheduled) = Len(running)
      /\ running \in Seq(Ids)
      /\ \A i \in 1 .. Len(scheduled) :
            scheduled[i].id = running[i] /\ EntryCurrent(scheduled[i])
  BY <1>1 DEF LocalTypeOK, InSchedule, AfterPass1, CoreInv
<1>3. ASSUME NEW i \in 1 .. Len(scheduled)
      PROVE  /\ scheduled[i].id \in Ids /\ scheduled[i].id \in Live
             /\ HasStatus(scheduled[i].id, "kRunning")
             /\ scheduled[i].blocks = allocatedBlocks[scheduled[i].id]
             /\ scheduled[i].offset + scheduled[i].count =
                   request[scheduled[i].id].numComputed
             /\ scheduled[i].count > 0
             /\ scheduled[i].offset + scheduled[i].count <= Len(scheduled[i].blocks) * BlockSize
             /\ scheduled[i].sample <=> Lacking(scheduled[i].id) = 0
  <2>1. EntryCurrent(scheduled[i]) /\ scheduled[i].id \in Ids
    BY <1>2
  <2>2. scheduled[i].id \in Live
    BY <1>1, <2>1, LiveRequests DEF EntryCurrent, HasStatus, Statuses
  <2>3. /\ request[scheduled[i].id].numTokens \in Nat
        /\ request[scheduled[i].id].numComputed \in Nat
    BY <1>1, <2>1, <2>2, LiveRequests DEF Requests
  <2> QED BY <2>1, <2>2, <2>3 DEF EntryCurrent, Lacking
<1>4. scheduled \in Batches
  BY <1>2, <1>3 DEF Batches
<1>5. ASSUME NEW i \in 1 .. Len(scheduled), NEW j \in 1 .. Len(scheduled),
             scheduled[i].id = scheduled[j].id
      PROVE  i = j
  <2>1. \A k, m \in 1 .. Len(running) : running[k] = running[m] => k = m
    BY <1>1, <1>2, SequenceElements DEF CoreInv, QueuesConsistent
  <2> QED BY <2>1, <1>2, <1>5
<1>6. ASSUME NEW id \in Ids, HasStatus(id, "kRunning")
      PROVE  \E i \in 1 .. Len(scheduled) : scheduled[i].id = id
  <2>1. id \in ToSet(running)
    BY <1>1, <1>6 DEF CoreInv, QueuesConsistent
  <2>2. PICK i \in 1 .. Len(running) : running[i] = id
    BY <2>1, <1>2, SequenceElements
  <2> QED BY <2>2, <1>2
<1> QED BY <1>2, <1>3, <1>4, <1>5, <1>6

\* The positions of a running request are in its table.
LEMMA PositionsCovered ==
    ASSUME CoreInv, NEW id \in Ids, HasStatus(id, "kRunning"),
           NEW p \in 0 .. request[id].numComputed - 1
    PROVE  /\ p \in Nat /\ allocatedBlocks[id] \in Seq(Blocks)
           /\ p < Len(allocatedBlocks[id]) * BlockSize
           /\ request[id].numComputed \in Nat
<1>1. request[id].numComputed \in Nat
  BY LiveRequests DEF HasStatus, Statuses, Requests
<1>2. /\ Len(allocatedBlocks[id]) = NumRequiredBlocks(request[id].numComputed)
      /\ allocatedBlocks[id] \in Seq(Blocks)
  BY DEF CoreInv, BlocksMatchComputed, KVTypeOK
<1>3. request[id].numComputed <= NumRequiredBlocks(request[id].numComputed) * BlockSize
  BY <1>1, RequiredBlocks
<1>4. Len(allocatedBlocks[id]) * BlockSize \in Nat
  BY <1>2, BlockSizeAssumption
<1> QED BY <1>1, <1>2, <1>3, <1>4

-----------------------------------------------------------------------------
(* The keys and values of computed tokens stay where they were written.     *)

\* numComputed counts a token from when it is scheduled on; it is written when
\* the step runs.
Pending(id, p) ==
    /\ phase \in {"pass1", "pass2", "scheduled"}
    /\ \E i \in 1 .. Len(scheduled) : scheduled[i].id = id /\ p >= scheduled[i].offset

CacheHolds ==
    \A id \in Ids : HasStatus(id, "kRunning") =>
        \A p \in 0 .. request[id].numComputed - 1 :
            Pending(id, p) \/ kvCache[SlotIn(allocatedBlocks[id], p)] = {<<id, p>>}

\* The host leaves the cache alone; what it must not do is to move a table, or to
\* count as computed what is neither written nor pending.
StillCovered(id) ==
    HasStatus(id, "kRunning")' =>
        \A p \in 0 .. request'[id].numComputed - 1 :
            \/ Pending(id, p)'
            \/ /\ HasStatus(id, "kRunning") /\ p \in 0 .. request[id].numComputed - 1
               /\ ~ Pending(id, p)
               /\ SlotIn(allocatedBlocks'[id], p) = SlotIn(allocatedBlocks[id], p)

LEMMA CacheKept ==
    ASSUME CacheHolds, UNCHANGED kvCache, \A id \in Ids : StillCovered(id)
    PROVE  CacheHolds'
<1> SUFFICES ASSUME NEW id \in Ids, HasStatus(id, "kRunning")',
                    NEW p \in 0 .. request'[id].numComputed - 1
             PROVE  Pending(id, p)' \/ kvCache'[SlotIn(allocatedBlocks'[id], p)] = {<<id, p>>}
  BY DEF CacheHolds, SlotIn
<1>1. StillCovered(id)
  OBVIOUS
<1> QED BY <1>1 DEF StillCovered, CacheHolds

\* A request that a step leaves as it is.
LEMMA UntouchedCovered ==
    ASSUME NEW id \in Ids,
           HasStatus(id, "kRunning")' => HasStatus(id, "kRunning")
              /\ request'[id].numComputed = request[id].numComputed,
           allocatedBlocks'[id] = allocatedBlocks[id],
           \A p : Pending(id, p) => Pending(id, p)'
    PROVE  StillCovered(id)
<1>1. \A p : SlotIn(allocatedBlocks'[id], p) = SlotIn(allocatedBlocks[id], p)
  OBVIOUS
<1> QED BY <1>1 DEF StillCovered

\* What is pending stays so while schedule() goes on.
LEMMA PendingKept ==
    ASSUME NEW id, NEW p, phase' \in {"pass1", "pass2", "scheduled"}, scheduled' = scheduled,
           Pending(id, p)
    PROVE  Pending(id, p)'
  BY DEF Pending

LEMMA NothingPending ==
    ASSUME phase \notin {"pass1", "pass2", "scheduled"}
    PROVE  \A id, p : ~ Pending(id, p)
  BY DEF Pending

LEMMA PendingWithNewEntry ==
    ASSUME LocalTypeOK, NEW e, phase' \in {"pass1", "pass2", "scheduled"},
           scheduled' = Append(scheduled, e)
    PROVE  /\ \A id, p : Pending(id, p) => Pending(id, p)'
           /\ \A id, p : id = e.id /\ p >= e.offset => Pending(id, p)'
<1>1. /\ Len(scheduled) \in Nat /\ Len(scheduled') = Len(scheduled) + 1
      /\ \A i \in 1 .. Len(scheduled) : scheduled'[i] = scheduled[i]
      /\ scheduled'[Len(scheduled) + 1] = e
  BY DEF LocalTypeOK
<1>2. ASSUME NEW id, NEW p, Pending(id, p) PROVE Pending(id, p)'
  <2>1. PICK i \in 1 .. Len(scheduled) : scheduled[i].id = id /\ p >= scheduled[i].offset
    BY <1>2 DEF Pending
  <2>2. i \in 1 .. Len(scheduled') /\ scheduled'[i] = scheduled[i]
    BY <1>1
  <2> QED BY <2>1, <2>2 DEF Pending
<1>3. ASSUME NEW id, NEW p, id = e.id, p >= e.offset PROVE Pending(id, p)'
  <2>1. Len(scheduled) + 1 \in 1 .. Len(scheduled')
    BY <1>1
  <2> QED BY <1>1, <1>3, <2>1 DEF Pending
<1> QED BY <1>2, <1>3

LEMMA ScheduleRunningKeepsCache ==
    ASSUME SchedInv, ScheduleRunning, NEW id \in Ids
    PROVE  StillCovered(id)
<1> DEFINE c == Current
           n == NumToSchedule(c)
           e == [id |-> c, sample |-> NeedsSampling(request[c], request[c].numComputed + n),
                 offset |-> request[c].numComputed, count |-> n, blocks |-> allocatedBlocks'[c]]
<1>1. /\ CoreInv /\ LocalTypeOK /\ MoreRunning /\ phase = "pass1" /\ phase' = "pass1"
      /\ AllocateSlots(c, CurrentSlots) /\ scheduled' = Append(scheduled, e)
      /\ request' = [request EXCEPT ![c].numComputed = CurrentSlots]
  BY DEF SchedInv, ScheduleRunning, MoreRunning, PushScheduled
<1>2. /\ c \in Ids /\ c \in Live /\ HasStatus(c, "kRunning")
      /\ CurrentSlots \in Nat /\ AllocateContract(c, CurrentSlots)
  BY <1>1, CurrentRequest, CurrentTokens
<1>3. KVSafe
  BY <1>1 DEF CoreInv, KVSafe
<1>4. /\ IsPrefix(allocatedBlocks[c], allocatedBlocks'[c]) /\ KVSafe'
      /\ \A other \in Ids \ {c} : allocatedBlocks'[other] = allocatedBlocks[other]
  BY <1>1, <1>2, <1>3, AllocateSlotsKeepsPool
<1>5. /\ \A j, p : Pending(j, p) => Pending(j, p)'
      /\ \A j, p : j = c /\ p >= request[c].numComputed => Pending(j, p)'
  <2>1. e.id = c /\ e.offset = request[c].numComputed
    OBVIOUS
  <2> HIDE DEF e, c
  <2>2. phase' \in {"pass1", "pass2", "scheduled"}
    BY <1>1
  <2>3. /\ \A j, p : Pending(j, p) => Pending(j, p)'
        /\ \A j, p : j = e.id /\ p >= e.offset => Pending(j, p)'
    BY <1>1, <2>2, PendingWithNewEntry
  <2> QED BY <2>1, <2>3
<1>6. CASE id # c
  <2>1. request'[id] = request[id]
    BY <1>1, <1>6 DEF CoreInv
  <2>2. /\ HasStatus(id, "kRunning")' => HasStatus(id, "kRunning")
        /\ request'[id].numComputed = request[id].numComputed
        /\ allocatedBlocks'[id] = allocatedBlocks[id]
    BY <1>4, <1>6, <2>1 DEF HasStatus
  <2> QED BY <1>5, <2>2, UntouchedCovered
<1>7. CASE id = c
  <2> SUFFICES ASSUME NEW p \in 0 .. request'[id].numComputed - 1, ~ Pending(id, p)'
               PROVE  /\ p \in 0 .. request[id].numComputed - 1
                      /\ ~ Pending(id, p)
                      /\ SlotIn(allocatedBlocks'[id], p) = SlotIn(allocatedBlocks[id], p)
    BY <1>2, <1>7 DEF StillCovered
  <2>1. /\ request'[c].numComputed = CurrentSlots
        /\ request[c].numComputed \in Nat
    BY <1>1, <1>2, LiveRequests DEF CoreInv, Requests
  <2>2. ~ Pending(id, p) /\ ~(p >= request[c].numComputed)
    BY <1>5, <1>7
  <2>3. p \in 0 .. request[c].numComputed - 1
    BY <1>2, <1>7, <2>1, <2>2
  <2>4. /\ p \in Nat /\ allocatedBlocks[c] \in Seq(Blocks)
        /\ p < Len(allocatedBlocks[c]) * BlockSize
    BY <1>1, <1>2, <2>3, PositionsCovered
  <2>5. p \div BlockSize + 1 \in 1 .. Len(allocatedBlocks[c])
    BY <2>4, SlotType
  <2>6. allocatedBlocks'[c] \in Seq(Blocks)
    BY <1>2, <1>4 DEF KVSafe, KVTypeOK
  <2>7. \A i \in 1 .. Len(allocatedBlocks[c]) : allocatedBlocks'[c][i] = allocatedBlocks[c][i]
    BY <1>4, <2>4, <2>6, PrefixElements
  <2> QED BY <1>7, <2>2, <2>3, <2>5, <2>7 DEF SlotIn
<1> QED BY <1>6, <1>7

LEMMA AdmitNextKeepsCache ==
    ASSUME SchedInv, AdmitNext, NEW id \in Ids
    PROVE  StillCovered(id)
<1> DEFINE c == Candidate
           n == NumToAdmit(c)
           r == Admitted(request[c], n)
           e == [id |-> c, sample |-> NeedsSampling(r, 0 + n),
                 offset |-> 0, count |-> n, blocks |-> allocatedBlocks'[c]]
<1>1. /\ CoreInv /\ LocalTypeOK /\ MoreToAdmit /\ phase = "pass2" /\ phase' = "pass2"
      /\ AllocateSlots(c, CandidateSlots) /\ scheduled' = Append(scheduled, e)
      /\ request' = [request EXCEPT ![c] = r]
  BY DEF SchedInv, AdmitNext, MoreToAdmit, PushScheduled
<1>2. \A other \in Ids \ {c} : allocatedBlocks'[other] = allocatedBlocks[other]
  BY <1>1 DEF AllocateSlots, CoreInv, KVTypeOK
<1>3. /\ \A j, p : Pending(j, p) => Pending(j, p)'
      /\ \A j, p : j = c /\ p >= 0 => Pending(j, p)'
  <2>1. e.id = c /\ e.offset = 0
    OBVIOUS
  <2> HIDE DEF e, c
  <2>2. phase' \in {"pass1", "pass2", "scheduled"}
    BY <1>1
  <2>3. /\ \A j, p : Pending(j, p) => Pending(j, p)'
        /\ \A j, p : j = e.id /\ p >= e.offset => Pending(j, p)'
    BY <1>1, <2>2, PendingWithNewEntry
  <2> QED BY <2>1, <2>3
<1>4. CASE id # c
  <2>1. request'[id] = request[id]
    BY <1>1, <1>4 DEF CoreInv
  <2>2. /\ HasStatus(id, "kRunning")' => HasStatus(id, "kRunning")
        /\ request'[id].numComputed = request[id].numComputed
        /\ allocatedBlocks'[id] = allocatedBlocks[id]
    BY <1>2, <1>4, <2>1 DEF HasStatus
  <2> QED BY <1>3, <2>2, UntouchedCovered
<1>5. CASE id = c
  <2>1. \A p \in 0 .. request'[id].numComputed - 1 : Pending(id, p)'
    BY <1>3, <1>5
  <2> QED BY <2>1 DEF StillCovered
<1> QED BY <1>4, <1>5

LEMMA PreemptTailKeepsCache ==
    ASSUME SchedInv, PreemptTail, NEW id \in Ids
    PROVE  StillCovered(id)
<1> DEFINE v == Last(running)
<1>1. /\ CoreInv /\ phase = "pass1" /\ phase' = "pass1" /\ scheduled' = scheduled
      /\ ReleaseBlocks(v) /\ request' = [request EXCEPT ![v] = Suspended(@)]
  BY DEF SchedInv, PreemptTail, MoreRunning
<1>2. v \in Ids /\ v \in Live
  BY PreemptedQueues
<1>3. \A other \in Ids \ {v} :
         allocatedBlocks'[other] = allocatedBlocks[other] /\ request'[other] = request[other]
  BY <1>1 DEF ReleaseBlocks, CoreInv, KVTypeOK
<1>4. request'[v].status # "kRunning"
  <2>1. request'[v] = Suspended(request[v]) /\ request[v] \in Requests
    BY <1>1, <1>2, LiveRequests DEF CoreInv
  <2> QED BY <2>1 DEF Suspended, Requests
<1>5. \A p : Pending(id, p) => Pending(id, p)'
  BY <1>1, PendingKept
<1>6. /\ HasStatus(id, "kRunning")' => HasStatus(id, "kRunning")
         /\ request'[id].numComputed = request[id].numComputed
      /\ id # v => allocatedBlocks'[id] = allocatedBlocks[id]
  BY <1>3, <1>4 DEF HasStatus
<1>7. CASE id = v
  BY <1>4, <1>7 DEF StillCovered, HasStatus
<1>8. CASE id # v
  BY <1>5, <1>6, <1>8, UntouchedCovered
<1> QED BY <1>7, <1>8

LEMMA RemovalKeepsCache ==
    ASSUME SchedInv, NEW gone \in Ids, gone \in Live, RemoveRequest(gone),
           phase \notin {"pass1", "pass2", "scheduled"}, NEW id \in Ids
    PROVE  StillCovered(id)
<1>1. CoreInv
  BY DEF SchedInv
<1>2. /\ \A other \in Ids \ {gone} :
            allocatedBlocks'[other] = allocatedBlocks[other] /\ request'[other] = request[other]
      /\ request'[gone] = NoRequest
  BY <1>1 DEF RemoveRequest, ReleaseHeldBlocks, ReleaseBlocks, kvVars, CoreInv, KVTypeOK
<1>3. \A p : Pending(id, p) => Pending(id, p)'
  BY NothingPending
<1>4. CASE id = gone
  BY <1>2, <1>4 DEF StillCovered, HasStatus, NoRequest
<1>5. CASE id # gone
  <2>1. /\ HasStatus(id, "kRunning")' => HasStatus(id, "kRunning")
           /\ request'[id].numComputed = request[id].numComputed
        /\ allocatedBlocks'[id] = allocatedBlocks[id]
    BY <1>2, <1>5 DEF HasStatus
  <2> QED BY <1>3, <2>1, UntouchedCovered
<1> QED BY <1>4, <1>5

LEMMA UpdateTokenKeepsCache ==
    ASSUME SchedInv, NEW stop \in BOOLEAN, UpdateToken(stop), NEW id \in Ids
    PROVE  StillCovered(id)
<1> DEFINE s == Head(scheduled).id
           r == [request[s] EXCEPT !.numTokens = @ + 1]
<1>1. /\ KeepOrRemove(s, r, FinishReason(r, stop))
      /\ phase \notin {"pass1", "pass2", "scheduled"}
  BY DEF UpdateToken
<1>2. s \in Ids /\ s \in Live
  BY SampledRequest DEF UpdateToken
<1>3. r.numComputed = request[s].numComputed /\ r.status = request[s].status
  BY <1>2, LiveRequests DEF SchedInv, Requests
<1> HIDE DEF s, r
<1>4. CASE RemoveRequest(s)
  BY <1>1, <1>2, <1>4, RemovalKeepsCache
<1>5. CASE request' = [request EXCEPT ![s] = r] /\ UNCHANGED kvVars
  <2>1. request \in [Ids -> Requests \cup {NoRequest}]
    BY DEF SchedInv, CoreInv
  <2>2. request'[id].numComputed = request[id].numComputed
           /\ request'[id].status = request[id].status
    BY <1>2, <1>3, <1>5, <2>1
  <2>3. allocatedBlocks'[id] = allocatedBlocks[id]
    BY <1>5 DEF kvVars
  <2>4. \A p : Pending(id, p) => Pending(id, p)'
    BY <1>1, NothingPending
  <2> QED BY <2>2, <2>3, <2>4, UntouchedCovered DEF HasStatus
<1> QED BY <1>1, <1>4, <1>5 DEF KeepOrRemove

LEMMA AddRequestKeepsCache ==
    ASSUME SchedInv, NEW new \in Ids, NEW promptLen \in PromptLens,
           NEW outputLen \in OutputLens, AddRequest(new, promptLen, outputLen), NEW id \in Ids
    PROVE  StillCovered(id)
<1>1. request \in [Ids -> Requests \cup {NoRequest}]
  BY DEF SchedInv, CoreInv
<1>2. /\ request'[new].status = "kWaiting"
      /\ id # new => request'[id] = request[id]
      /\ allocatedBlocks'[id] = allocatedBlocks[id]
      /\ phase \notin {"pass1", "pass2", "scheduled"}
  BY <1>1 DEF AddRequest, kvVars
<1>3. \A p : Pending(id, p) => Pending(id, p)'
  BY <1>2, NothingPending
<1>4. /\ HasStatus(id, "kRunning")' => HasStatus(id, "kRunning")
         /\ request'[id].numComputed = request[id].numComputed
  BY <1>2 DEF HasStatus
<1> QED BY <1>2, <1>3, <1>4, UntouchedCovered

\* The steps of the engine's loop that only change what is to be done next.
LEMMA LoopKeepsCache ==
    ASSUME \/ BeginSchedule \/ EndPass1 \/ EndPass2 \/ SkipChunk \/ EndUpdate
           \/ UNCHANGED schedVars,
           NEW id \in Ids
    PROVE  StillCovered(id)
<1>1. request' = request /\ allocatedBlocks' = allocatedBlocks
  BY DEF BeginSchedule, EndPass1, EndPass2, SkipChunk, EndUpdate, schedVars, kvVars
<1>2. \/ phase \notin {"pass1", "pass2", "scheduled"}
      \/ /\ phase' \in {"pass1", "pass2", "scheduled"} /\ scheduled' = scheduled
      \/ UNCHANGED <<phase, scheduled>>
  BY DEF BeginSchedule, EndPass1, EndPass2, SkipChunk, EndUpdate, schedVars
<1>3. ASSUME NEW p, Pending(id, p) PROVE Pending(id, p)'
  <2>1. phase \in {"pass1", "pass2", "scheduled"}
    BY <1>3 DEF Pending
  <2> QED BY <1>2, <1>3, <2>1, PendingKept
<1>4. \A p : Pending(id, p) => Pending(id, p)'
  BY <1>3
<1> QED BY <1>1, <1>4, UntouchedCovered DEF HasStatus

-----------------------------------------------------------------------------
(* What a step writes.                                                      *)

\* Every token of a step goes to its slot.
LEMMA TokenToSlot ==
    ASSUME SchedInv, phase = "scheduled", NEW t \in 0 .. NumTokens(scheduled) - 1
    PROVE  \E i \in 1 .. Len(scheduled) : \E p \in Nat :
              /\ scheduled[i].offset <= p /\ p < request[scheduled[i].id].numComputed
              /\ scheduled[i].id \in Ids /\ HasStatus(scheduled[i].id, "kRunning")
              /\ TokenIds(scheduled)[t] = <<scheduled[i].id, p>>
              /\ SlotMapping(scheduled, BlockSize)[t] =
                    SlotIn(allocatedBlocks[scheduled[i].id], p)
<1>1. scheduled \in Batches /\ scheduled \in Seq(ScheduledRequests)
  BY StepEntries DEF Batches
<1>2. PICK i \in 0 .. Len(scheduled) - 1 :
         \E q \in 0 .. Entry(scheduled, i).count - 1 : t = QueryStartLoc(scheduled)[i] + q
  BY <1>1, AnyInputToken
<1>3. PICK q \in 0 .. Entry(scheduled, i).count - 1 : t = QueryStartLoc(scheduled)[i] + q
  BY <1>2
<1> DEFINE e == Entry(scheduled, i)
<1>4. /\ i + 1 \in 1 .. Len(scheduled) /\ e = scheduled[i + 1]
      /\ e.offset \in Nat /\ e.count \in Nat
  BY <1>1, EntryTypes
<1>5. /\ TokenIds(scheduled)[t] = <<e.id, e.offset + q>>
      /\ SlotMapping(scheduled, BlockSize)[t] = SlotOf(e, e.offset + q, BlockSize)
  BY <1>1, <1>3, InputToken
<1>6. /\ e.id \in Ids /\ HasStatus(e.id, "kRunning")
      /\ e.blocks = allocatedBlocks[e.id]
      /\ e.offset + e.count = request[e.id].numComputed
  BY <1>4, StepEntries
<1>7. q \in 0 .. e.count - 1
  OBVIOUS
<1> HIDE DEF e
<1>8. /\ e.offset + q \in Nat /\ e.offset <= e.offset + q
      /\ e.offset + q < request[e.id].numComputed
  BY <1>4, <1>6, <1>7
<1>9. SlotOf(e, e.offset + q, BlockSize) = SlotIn(allocatedBlocks[e.id], e.offset + q)
  BY <1>6 DEF SlotOf, SlotIn
<1> QED BY <1>4, <1>5, <1>6, <1>8, <1>9

\* The slots of a running request after the step.
LEMMA SlotAfterStep ==
    ASSUME SchedInv, phase = "scheduled",
           NEW i \in 1 .. Len(scheduled),
           NEW p \in 0 .. request[scheduled[i].id].numComputed - 1
    PROVE  LET id == scheduled[i].id
               slot == SlotIn(allocatedBlocks[id], p)
               input == PrepareModelInput(scheduled, BlockSize)
           IN  Written(input)[slot] =
                  IF p >= scheduled[i].offset THEN {<<id, p>>} ELSE kvCache[slot]
<1> DEFINE id == scheduled[i].id
           slot == SlotIn(allocatedBlocks[id], p)
           input == PrepareModelInput(scheduled, BlockSize)
           T == 0 .. NumTokens(scheduled) - 1
           writers == {t \in DOMAIN input.slotMapping : input.slotMapping[t] = slot}
<1>1. /\ scheduled \in Batches /\ scheduled \in Seq(ScheduledRequests)
      /\ id \in Ids /\ HasStatus(id, "kRunning")
      /\ scheduled[i].blocks = allocatedBlocks[id]
      /\ scheduled[i].offset + scheduled[i].count = request[id].numComputed
      /\ \A j, k \in 1 .. Len(scheduled) : scheduled[j].id = scheduled[k].id => j = k
  BY StepEntries DEF Batches
<1>2. scheduled[i].offset \in Nat /\ scheduled[i].count \in Nat
  <2>1. scheduled[i] \in ScheduledRequests
    BY <1>1
  <2> QED BY <2>1 DEF ScheduledRequests
<1>3. CoreInv /\ KVSafe
  BY DEF SchedInv, CoreInv, KVSafe
<1>4. /\ p \in Nat /\ allocatedBlocks[id] \in Seq(Blocks)
      /\ p < Len(allocatedBlocks[id]) * BlockSize
      /\ request[id].numComputed \in Nat
  BY <1>1, <1>3, PositionsCovered
<1>5. slot \in Slots
  BY <1>4, SlotType
<1>6. /\ input.slotMapping = SlotMapping(scheduled, BlockSize)
      /\ DOMAIN input.slotMapping = T
      /\ input.tokenIds = TokenIds(scheduled)
  BY DEF PrepareModelInput, SlotMapping
<1>7. ASSUME NEW t \in writers
      PROVE  input.tokenIds[t] = <<id, p>> /\ p >= scheduled[i].offset
  <2>1. t \in T /\ SlotMapping(scheduled, BlockSize)[t] = slot
    BY <1>6
  <2>2. PICK j \in 1 .. Len(scheduled), q \in Nat :
           /\ scheduled[j].offset <= q /\ q < request[scheduled[j].id].numComputed
           /\ scheduled[j].id \in Ids /\ HasStatus(scheduled[j].id, "kRunning")
           /\ TokenIds(scheduled)[t] = <<scheduled[j].id, q>>
           /\ SlotMapping(scheduled, BlockSize)[t] =
                 SlotIn(allocatedBlocks[scheduled[j].id], q)
    BY <2>1, TokenToSlot
  <2>3. q < Len(allocatedBlocks[scheduled[j].id]) * BlockSize
    <3>1. request[scheduled[j].id].numComputed \in Nat
      BY <1>3, <2>2, LiveRequests DEF HasStatus, Statuses, Requests
    <3>2. q \in 0 .. request[scheduled[j].id].numComputed - 1
      BY <2>2, <3>1
    <3> QED BY <1>3, <2>2, <3>2, PositionsCovered
  <2>4. scheduled[j].id = id /\ q = p
    BY <1>1, <1>3, <1>4, <2>1, <2>2, <2>3, SlotsApart
  <2>5. j = i
    BY <1>1, <2>4
  <2> QED BY <1>4, <1>6, <1>2, <2>2, <2>4, <2>5
<1>8. Written(input)[slot] =
         IF writers = {} THEN kvCache[slot] ELSE {input.tokenIds[t] : t \in writers}
  BY <1>5 DEF Written
<1> HIDE DEF writers
<1>9. CASE p >= scheduled[i].offset
  <2> DEFINE q == p - scheduled[i].offset
             t == QueryStartLoc(scheduled)[i - 1] + q
  <2>1. /\ i - 1 \in 0 .. Len(scheduled) - 1 /\ Entry(scheduled, i - 1) = scheduled[i]
        /\ scheduled[i].offset \in Nat /\ scheduled[i].count \in Nat
        /\ scheduled[i].offset + q = p
    <3>1. Entry(scheduled, i - 1) = scheduled[i]
      BY DEF Entry
    <3> QED BY <1>1, <1>4, <1>2, <3>1
  <2>2. q \in 0 .. Entry(scheduled, i - 1).count - 1
    <3>1. /\ p \in 0 .. request[id].numComputed - 1
          /\ scheduled[i].offset + scheduled[i].count = request[id].numComputed
      BY <1>1
    <3>2. /\ p \in Nat /\ request[id].numComputed \in Nat /\ p >= scheduled[i].offset
          /\ scheduled[i].offset \in Nat /\ scheduled[i].count \in Nat
      BY <1>4, <1>9, <2>1
    <3> HIDE DEF id
    <3>3. q \in 0 .. scheduled[i].count - 1
      BY <3>1, <3>2
    <3> HIDE DEF q
    <3> QED BY <2>1, <3>3
  <2> HIDE DEF q
  <2>3. /\ t \in T /\ SlotMapping(scheduled, BlockSize)[t] = SlotOf(scheduled[i], p, BlockSize)
    BY <1>1, <2>1, <2>2, InputToken
  <2>4. SlotOf(scheduled[i], p, BlockSize) = slot
    BY <1>1 DEF SlotOf, SlotIn
  <2>5. t \in writers
    BY <1>6, <2>3, <2>4 DEF writers
  <2> HIDE DEF t
  <2>6. {input.tokenIds[x] : x \in writers} = {<<id, p>>}
    BY <1>7, <2>5
  <2> QED BY <1>8, <1>9, <2>5, <2>6
<1>10. CASE ~ (p >= scheduled[i].offset)
  <2>1. writers = {}
    BY <1>7, <1>10
  <2> QED BY <1>8, <1>10, <2>1
<1> QED BY <1>9, <1>10

-----------------------------------------------------------------------------
(* The block table on the device.                                           *)

LEMMA StrideIsLargest ==
    ASSUME NEW batch \in Seq(ScheduledRequests), batch # <<>>, NEW bound \in Nat,
           \A i \in 1 .. Len(batch) : Len(batch[i].blocks) <= bound
    PROVE  /\ MaxNumBlocks(batch) \in 0 .. bound
           /\ \A i \in 1 .. Len(batch) : Len(batch[i].blocks) <= MaxNumBlocks(batch)
<1> DEFINE T == {Len(batch[i].blocks) : i \in DOMAIN batch}
<1>1. DOMAIN batch = 1 .. Len(batch) /\ 1 \in 1 .. Len(batch)
  OBVIOUS
<1>2. \A i \in 1 .. Len(batch) : Len(batch[i].blocks) \in 0 .. bound
  <2>1. \A i \in 1 .. Len(batch) : batch[i] \in ScheduledRequests
    OBVIOUS
  <2>2. \A i \in 1 .. Len(batch) : Len(batch[i].blocks) \in Nat
    BY <2>1 DEF ScheduledRequests
  <2> QED BY <2>2
<1>3. T \in SUBSET (0 .. bound) /\ T # {}
  BY <1>1, <1>2
<1>4. \A i \in 1 .. Len(batch) : Len(batch[i].blocks) \in T
  BY <1>1
<1> HIDE DEF T
<1>5. \E x \in T : \A y \in T : x >= y
  BY <1>3, LargestUpTo
<1>6. Max(T) \in T /\ \A y \in T : Max(T) >= y
  BY <1>5, Zenon DEF Max
<1>7. MaxNumBlocks(batch) = Max(T)
  BY Zenon DEF MaxNumBlocks, T
<1> QED BY <1>2, <1>3, <1>4, <1>6, <1>7

LEMMA BlockTableEntry ==
    ASSUME NEW batch \in Seq(ScheduledRequests), batch # <<>>, NEW bound \in Nat,
           \A i \in 1 .. Len(batch) : Len(batch[i].blocks) <= bound,
           NEW i \in 0 .. Len(batch) - 1, NEW col \in 0 .. Len(batch[i + 1].blocks) - 1
    PROVE  BlockTable(batch)[i * MaxNumBlocks(batch) + col] = batch[i + 1].blocks[col + 1]
<1> DEFINE stride == MaxNumBlocks(batch)
           len == Len(batch[i + 1].blocks)
           n == Len(batch)
           k == i * stride + col
<1>1. stride \in Nat /\ len <= stride
  BY StrideIsLargest
<1>2. len \in Nat /\ n \in Nat /\ i \in Nat /\ i < n
  <2>1. batch[i + 1] \in ScheduledRequests
    OBVIOUS
  <2> QED BY <2>1 DEF ScheduledRequests
<1>3. BlockTable(batch) =
         [j \in 0 .. n * stride - 1 |->
            IF j % stride < Len(Entry(batch, j \div stride).blocks)
              THEN Entry(batch, j \div stride).blocks[(j % stride) + 1] ELSE 0]
  BY Zenon DEF BlockTable
<1>4. col \in 0 .. len - 1
  OBVIOUS
<1> HIDE DEF stride, len, n
<1>5. stride \in Nat \ {0} /\ col \in 0 .. stride - 1 /\ col \in Nat
  BY <1>1, <1>2, <1>4
<1>6. k \div stride = i /\ k % stride = col
  BY <1>2, <1>5, QuotientAndRest
<1>7. k \in 0 .. n * stride - 1
  <2>1. i + 1 <= n
    BY <1>2
  <2>2. (i + 1) * stride <= n * stride
    BY <1>2, <1>5, <2>1
  <2>3. i * stride \in Nat /\ n * stride \in Nat /\ (i + 1) * stride = i * stride + stride
    BY <1>2, <1>5
  <2> DEFINE here == i * stride
             all == n * stride
  <2>4. here \in Nat /\ all \in Nat /\ here + stride <= all
    BY <2>2, <2>3
  <2> HIDE DEF here, all
  <2>5. here + col \in 0 .. all - 1
    BY <1>5, <2>4
  <2> QED BY <2>5 DEF here, all
<1> HIDE DEF k
<1>8. BlockTable(batch)[k] =
         IF k % stride < Len(Entry(batch, k \div stride).blocks)
           THEN Entry(batch, k \div stride).blocks[(k % stride) + 1] ELSE 0
  BY <1>3, <1>7
<1>9. BlockTable(batch)[k] =
         IF col < Len(Entry(batch, i).blocks) THEN Entry(batch, i).blocks[col + 1] ELSE 0
  BY <1>6, <1>8
<1>10. col < Len(batch[i + 1].blocks)
  BY <1>2, <1>4 DEF len
<1> QED BY <1>9, <1>10 DEF Entry, k, stride

\* No table is longer than the longest request needs.
LEMMA TablesBounded ==
    ASSUME SchedInv, phase = "scheduled", NEW i \in 1 .. Len(scheduled)
    PROVE  /\ LongestTable(MaxModelLen, BlockSize) \in Nat
           /\ Len(scheduled[i].blocks) <= LongestTable(MaxModelLen, BlockSize)
<1> DEFINE id == scheduled[i].id
<1>1. /\ id \in Ids /\ HasStatus(id, "kRunning")
      /\ scheduled[i].blocks = allocatedBlocks[id]
  BY StepEntries
<1>2. CoreInv
  BY DEF SchedInv
<1>3. RequestSane(request[id]) /\ request[id] \in Requests
  BY <1>1, <1>2, LiveRequests DEF HasStatus, Statuses
<1>4. /\ request[id].numComputed \in Nat /\ request[id].numComputed <= MaxModelLen
      /\ MaxModelLen \in Nat
  BY <1>3, MaxModelLenAssumption DEF RequestSane, Requests
<1>5. Len(allocatedBlocks[id]) = NumRequiredBlocks(request[id].numComputed)
  BY <1>1, <1>2 DEF CoreInv, BlocksMatchComputed
<1>6. LongestTable(MaxModelLen, BlockSize) = NumRequiredBlocks(MaxModelLen)
  BY Zenon DEF LongestTable, NumRequiredBlocks
<1>7. /\ NumRequiredBlocks(MaxModelLen) \in Nat
      /\ NumRequiredBlocks(request[id].numComputed) <= NumRequiredBlocks(MaxModelLen)
  BY <1>4, RequiredBlocks
<1> QED BY <1>1, <1>5, <1>6, <1>7

-----------------------------------------------------------------------------
(* Running the step.                                                        *)

LEMMA StepWithoutEntries ==
    ASSUME SchedInv, phase = "scheduled", scheduled = <<>>, NEW id \in Ids
    PROVE  ~ HasStatus(id, "kRunning")
<1>1. Len(scheduled) = 0
  OBVIOUS
<1> QED BY <1>1, StepEntries

LEMMA ExecuteModelKeepsCache ==
    ASSUME SchedInv, CacheHolds, ExecuteModel
    PROVE  CacheHolds'
<1>1. /\ phase = "scheduled" /\ phase' = "update"
      /\ request' = request /\ allocatedBlocks' = allocatedBlocks
      /\ scheduled' = scheduled
      /\ scheduled = <<>> => UNCHANGED <<kvCache, inputs, sampled>>
      /\ scheduled # <<>> => kvCache' = Written(PrepareModelInput(scheduled, BlockSize))
  BY DEF ExecuteModel, RunModel, kvVars
<1> SUFFICES ASSUME NEW id \in Ids, HasStatus(id, "kRunning"),
                    NEW p \in 0 .. request[id].numComputed - 1
             PROVE  kvCache'[SlotIn(allocatedBlocks[id], p)] = {<<id, p>>}
  BY <1>1 DEF CacheHolds, SlotIn, HasStatus
<1>2. PICK i \in 1 .. Len(scheduled) : scheduled[i].id = id
  BY <1>1, StepEntries
<1>3. scheduled # <<>>
  BY <1>1, StepWithoutEntries
<1>4. kvCache'[SlotIn(allocatedBlocks[id], p)] =
         IF p >= scheduled[i].offset
           THEN {<<id, p>>} ELSE kvCache[SlotIn(allocatedBlocks[id], p)]
  BY <1>1, <1>2, <1>3, SlotAfterStep
<1>5. Pending(id, p) => p >= scheduled[i].offset
  <2> SUFFICES ASSUME NEW j \in 1 .. Len(scheduled), scheduled[j].id = id,
                      p >= scheduled[j].offset
               PROVE  p >= scheduled[i].offset
    BY DEF Pending
  <2>1. i = j
    BY <1>1, <1>2, StepEntries
  <2> QED BY <2>1
<1> QED BY <1>4, <1>5 DEF CacheHolds

\* The attention kernel finds the keys of a request's tokens where they are.
LEMMA ExecuteModelReads ==
    ASSUME SchedInv, CacheHolds, ExecuteModel, scheduled # <<>>
    PROVE  ReadsOwnTokens'
<1> DEFINE n == Len(scheduled)
           stride == MaxNumBlocks(scheduled)
<1>1. /\ phase = "scheduled" /\ phase' = "update"
      /\ request' = request /\ allocatedBlocks' = allocatedBlocks
      /\ inputs' = PrepareModelInput(scheduled, BlockSize)
  BY DEF ExecuteModel, RunModel, kvVars
<1>2. CacheHolds'
  BY ExecuteModelKeepsCache
<1>3. /\ inputs'.seqLens = SeqLens(scheduled)
      /\ inputs'.tokenIds = TokenIds(scheduled)
      /\ inputs'.queryStartLoc = QueryStartLoc(scheduled)
      /\ inputs'.blockTable = BlockTable(scheduled)
      /\ inputs'.blockTableStride = stride
  BY <1>1 DEF PrepareModelInput
<1>4. DOMAIN inputs'.seqLens = 0 .. n - 1
  BY <1>3 DEF SeqLens
<1>5. ASSUME NEW r \in 0 .. n - 1, NEW key \in 0 .. inputs'.seqLens[r] - 1
      PROVE  kvCache'[SlotOfKey(inputs', r, key, BlockSize)] =
                {<<inputs'.tokenIds[inputs'.queryStartLoc[r]][1], key>>}
  <2> DEFINE e == scheduled[r + 1]
             id == e.id
             col == key \div BlockSize
  <2>1. /\ scheduled \in Batches /\ scheduled \in Seq(ScheduledRequests)
        /\ r + 1 \in 1 .. n
    BY <1>1, StepEntries DEF Batches
  <2>2. /\ id \in Ids /\ HasStatus(id, "kRunning")
        /\ e.blocks = allocatedBlocks[id]
        /\ e.offset + e.count = request[id].numComputed
    BY <1>1, <2>1, StepEntries
  <2>3. Entry(scheduled, r) = e /\ e.count \in Nat /\ e.offset \in Nat
    BY <2>1, EntryTypes
  <2>4. inputs'.seqLens[r] = request[id].numComputed
    BY <1>3, <2>2, <2>3 DEF SeqLens
  <2>5. /\ key \in Nat /\ allocatedBlocks[id] \in Seq(Blocks)
        /\ key < Len(allocatedBlocks[id]) * BlockSize
        /\ key \in 0 .. request[id].numComputed - 1
    <3>1. CoreInv /\ key \in 0 .. request[id].numComputed - 1
      BY <2>4 DEF SchedInv
    <3> QED BY <2>2, <3>1, PositionsCovered
  <2>6. col + 1 \in 1 .. Len(allocatedBlocks[id]) /\ col \in Nat
    BY <2>5, SlotType, PlaceInBlock
  <2>7. BlockTable(scheduled)[r * stride + col] = allocatedBlocks[id][col + 1]
    <3>1. \A i \in 1 .. n : Len(scheduled[i].blocks) <= LongestTable(MaxModelLen, BlockSize)
      BY <1>1, TablesBounded
    <3>2. LongestTable(MaxModelLen, BlockSize) \in Nat
      BY <1>1, <2>1, TablesBounded
    <3>3. col \in 0 .. Len(e.blocks) - 1
      <4>1. Len(allocatedBlocks[id]) \in Nat
        BY <2>5
      <4> HIDE DEF col, id, e
      <4> QED BY <2>2, <2>6, <4>1
    <3> HIDE DEF col
    <3>4. BlockTable(scheduled)[r * stride + col] = e.blocks[col + 1]
      BY <2>1, <3>1, <3>2, <3>3, BlockTableEntry
    <3> QED BY <2>2, <3>4
  <2>8. SlotOfKey(inputs', r, key, BlockSize) = SlotIn(allocatedBlocks[id], key)
    BY <1>3, <2>7, Zenon DEF SlotOfKey, SlotIn
  <2>9. TokenIds(scheduled)[QueryStartLoc(scheduled)[r]][1] = id
    <3>1. e.count > 0
      BY <2>1 DEF Batches
    <3>2. 0 \in 0 .. Entry(scheduled, r).count - 1
      BY <2>3, <3>1
    <3>3. TokenIds(scheduled)[QueryStartLoc(scheduled)[r] + 0] = <<e.id, e.offset + 0>>
      BY <2>1, <2>3, <3>2, InputToken
    <3>4. QueryStartLoc(scheduled)[r] \in Nat
      BY <2>1, QueryStarts
    <3>5. QueryStartLoc(scheduled)[r] + 0 = QueryStartLoc(scheduled)[r]
      BY <3>4
    <3> QED BY <3>3, <3>5
  <2>10. kvCache'[SlotIn(allocatedBlocks[id], key)] = {<<id, key>>}
    BY <1>1, <1>2, <2>2, <2>5 DEF CacheHolds, SlotIn, HasStatus, Pending
  <2> QED BY <1>3, <2>8, <2>9, <2>10
<1> QED BY <1>4, <1>5 DEF ReadsOwnTokens, StepRequests, StepId, SlotOfKey

LEMMA CacheStep ==
    ASSUME SchedInv, CacheHolds, [ExecNext]_execVars
    PROVE  CacheHolds'
<1>1. ASSUME NEW id \in Ids, NEW promptLen \in PromptLens, NEW outputLen \in OutputLens,
             ExecAddRequest(id, promptLen, outputLen)
      PROVE  CacheHolds'
  BY <1>1, AddRequestKeepsCache, CacheKept DEF ExecAddRequest
<1>2. ASSUME NEW id \in Ids, AbortRequest(id), UNCHANGED kvCache PROVE CacheHolds'
  <2>1. /\ id \in Live /\ RemoveRequest(id) /\ phase \notin {"pass1", "pass2", "scheduled"}
    BY <1>2 DEF AbortRequest, Live
  <2> QED BY <1>2, <2>1, RemovalKeepsCache, CacheKept
<1>3. CASE HostStep
  <2>1. UNCHANGED kvCache
    BY <1>3 DEF HostStep
  <2>2. CASE BeginSchedule \/ EndPass1 \/ EndPass2 \/ SkipChunk
    BY <2>1, <2>2, LoopKeepsCache, CacheKept
  <2>3. CASE ScheduleRunning
    BY <2>1, <2>3, ScheduleRunningKeepsCache, CacheKept
  <2>4. CASE PreemptTail
    BY <2>1, <2>4, PreemptTailKeepsCache, CacheKept
  <2>5. CASE AdmitNext
    BY <2>1, <2>5, AdmitNextKeepsCache, CacheKept
  <2> QED BY <1>2, <1>3, <2>1, <2>2, <2>3, <2>4, <2>5 DEF HostStep
<1>4. CASE ExecuteModel
  BY <1>4, ExecuteModelKeepsCache
<1>5. ASSUME NEW stop \in BOOLEAN, ExecUpdateToken(stop) PROVE CacheHolds'
  BY <1>5, UpdateTokenKeepsCache, CacheKept DEF ExecUpdateToken
<1>6. CASE ExecEndUpdate
  BY <1>6, LoopKeepsCache, CacheKept DEF ExecEndUpdate
<1>7. CASE UNCHANGED execVars
  BY <1>7, LoopKeepsCache, CacheKept DEF execVars
<1> QED BY <1>1, <1>3, <1>4, <1>5, <1>6, <1>7 DEF ExecNext

LEMMA ReadsStep ==
    ASSUME SchedInv, CacheHolds, ReadsOwnTokens, [ExecNext]_execVars
    PROVE  ReadsOwnTokens'
<1>1. ASSUME UNCHANGED <<kvCache, inputs>> PROVE ReadsOwnTokens'
  BY <1>1 DEF ReadsOwnTokens, StepRequests, StepId, SlotOfKey
<1>2. ASSUME inputs' = NoInput PROVE ReadsOwnTokens'
  BY <1>2 DEF ReadsOwnTokens, StepRequests, NoInput
<1>3. CASE ExecuteModel
  <2>1. CASE scheduled = <<>>
    BY <1>1, <1>3, <2>1 DEF ExecuteModel
  <2>2. CASE scheduled # <<>>
    BY <1>3, <2>2, ExecuteModelReads
  <2> QED BY <2>1, <2>2
<1>4. HostStep \/ UNCHANGED execVars => UNCHANGED <<kvCache, inputs>>
  BY DEF HostStep, execVars
<1>5. ASSUME NEW id \in Ids, NEW promptLen \in PromptLens, NEW outputLen \in OutputLens,
             ExecAddRequest(id, promptLen, outputLen)
      PROVE  UNCHANGED <<kvCache, inputs>>
  BY <1>5 DEF ExecAddRequest
<1>6. ASSUME NEW stop \in BOOLEAN, ExecUpdateToken(stop) PROVE UNCHANGED <<kvCache, inputs>>
  BY <1>6 DEF ExecUpdateToken
<1>7. ExecEndUpdate => inputs' = NoInput
  BY DEF ExecEndUpdate
<1> QED BY <1>1, <1>2, <1>3, <1>4, <1>5, <1>6, <1>7 DEF ExecNext

\* No running request's keys are lost between the step that computed them and the
\* steps that need them, whatever was preempted, removed or admitted meanwhile.
THEOREM ExecCacheHolds == ExecSpec => []CacheHolds
<1>1. ExecInit => CacheHolds
  BY DEF ExecInit, SchedInit, CacheHolds, HasStatus, NoRequest
<1>2. SchedInv /\ CacheHolds /\ [ExecNext]_execVars => CacheHolds'
  BY CacheStep
<1> QED BY <1>1, <1>2, ExecImplementsScheduler, SchedInvariant, PTL DEF ExecSpec

\* In every step, the attention kernel reads for each request the keys of that
\* request's tokens, in order (model_input.cpp, paged_attention.cu).
THEOREM ExecReadsOwnTokens == ExecSpec => []ReadsOwnTokens
<1>1. ExecInit => ReadsOwnTokens
  BY DEF ExecInit, ReadsOwnTokens, StepRequests, NoInput
<1>2. SchedInv /\ CacheHolds /\ ReadsOwnTokens /\ [ExecNext]_execVars => ReadsOwnTokens'
  BY ReadsStep
<1> QED BY <1>1, <1>2, ExecCacheHolds, ExecImplementsScheduler, SchedInvariant, PTL
     DEF ExecSpec

-----------------------------------------------------------------------------
(* The entries that ask for a sample.                                       *)

LEMMA SamplingFunction ==
    ASSUME NEW batch \in Seq(ScheduledRequests)
    PROVE  \E U \in [0 .. Len(batch) -> Seq(Nat)] :
              /\ U[0] = <<>>
              /\ \A i \in 0 .. Len(batch) - 1 :
                    U[i + 1] = IF batch[i + 1].sample THEN Append(U[i], i) ELSE U[i]
              /\ SamplingRequestIndices(batch) = U[Len(batch)]
<1> DEFINE n == Len(batch)
           h == [i \in 1 .. n |-> [v \in Seq(Nat) |->
                    IF batch[i].sample THEN Append(v, i - 1) ELSE v]]
           Solves(f) == f = [i \in 0 .. n |->
                                IF i = 0 THEN <<>>
                                ELSE IF Entry(batch, i - 1).sample
                                       THEN Append(f[i - 1], i - 1) ELSE f[i - 1]]
<1>1. n \in Nat /\ <<>> \in Seq(Nat)
  OBVIOUS
<1>2. PICK g \in [0 .. n -> Seq(Nat)] :
         \A i \in 0 .. n : g[i] = IF i = 0 THEN <<>> ELSE h[i][g[i - 1]]
  <2>1. h \in [1 .. n -> [Seq(Nat) -> Seq(Nat)]]
    <3>1. ASSUME NEW i \in 1 .. n, NEW v \in Seq(Nat)
          PROVE  (IF batch[i].sample THEN Append(v, i - 1) ELSE v) \in Seq(Nat)
      <4>1. i - 1 \in Nat
        BY <1>1
      <4> QED BY <4>1
    <3> QED BY <3>1
  <2> HIDE DEF h, n
  <2>2. \E g \in [0 .. n -> Seq(Nat)] : Recursion(g, n, <<>>, h)
    BY <1>1, <2>1, RecursionUpTo
  <2> QED BY <2>2 DEF Recursion
<1>3. Solves(g)
  <2>1. ASSUME NEW i \in 0 .. n, i # 0
        PROVE  g[i] = IF Entry(batch, i - 1).sample
                        THEN Append(g[i - 1], i - 1) ELSE g[i - 1]
    <3>1. i \in 1 .. n /\ i - 1 \in 0 .. n /\ g[i - 1] \in Seq(Nat) /\ (i - 1) + 1 = i
      <4> HIDE DEF n
      <4>1. i \in 1 .. n /\ i - 1 \in 0 .. n /\ (i - 1) + 1 = i
        BY <1>1, <2>1
      <4> QED BY <4>1
    <3>2. h[i][g[i - 1]] = IF batch[i].sample THEN Append(g[i - 1], i - 1) ELSE g[i - 1]
      BY <3>1
    <3>3. Entry(batch, i - 1) = batch[i]
      BY <3>1 DEF Entry
    <3> HIDE DEF h
    <3> QED BY <1>2, <2>1, <3>2, <3>3
  <2>2. g[0] = <<>>
    <3> HIDE DEF h, n
    <3>1. 0 \in 0 .. n
      BY <1>1
    <3> QED BY <1>2, <3>1
  <2> HIDE DEF h
  <2> QED BY <1>2, <2>1, <2>2
<1> DEFINE U == CHOOSE f : Solves(f)
<1>4. SamplingRequestIndices(batch) = U[n]
  BY Zenon DEF SamplingRequestIndices
<1>5. Solves(U)
  <2> HIDE DEF Solves
  <2> QED BY <1>3
<1> HIDE DEF U, h
<1>6. /\ U[0] = <<>>
      /\ \A i \in 0 .. n - 1 : U[i + 1] = IF batch[i + 1].sample THEN Append(U[i], i) ELSE U[i]
  <2>1. \A i \in 0 .. n : U[i] = IF i = 0 THEN <<>>
                                ELSE IF Entry(batch, i - 1).sample
                                       THEN Append(U[i - 1], i - 1) ELSE U[i - 1]
    BY <1>5
  <2>2. U[0] = <<>>
    BY <1>1, <2>1
  <2>3. ASSUME NEW i \in 0 .. n - 1
        PROVE  U[i + 1] = IF batch[i + 1].sample THEN Append(U[i], i) ELSE U[i]
    <3>1. i + 1 \in 0 .. n /\ i + 1 # 0 /\ (i + 1) - 1 = i
      BY <1>1
    <3> QED BY <2>1, <3>1 DEF Entry
  <2> QED BY <2>2, <2>3
<1>7. U = [i \in 0 .. n |-> U[i]]
  BY <1>5
<1> HIDE DEF Solves, n
<1>8. \A i \in 0 .. n : i \in {k \in 0 .. n : U[k] \in Seq(Nat)}
  <2> DEFINE T == {k \in 0 .. n : U[k] \in Seq(Nat)}
  <2>1. 0 \in T
    <3>1. U[0] \in Seq(Nat)
      BY <1>1, <1>6, Zenon
    <3>2. 0 \in 0 .. n
      BY <1>1
    <3> QED BY <3>1, <3>2
  <2>2. ASSUME NEW i \in 0 .. (n - 1), i \in T PROVE i + 1 \in T
    <3>1. /\ i \in 0 .. n - 1 /\ i + 1 \in 0 .. n /\ i \in Nat /\ U[i] \in Seq(Nat)
          /\ U[i + 1] = IF batch[i + 1].sample THEN Append(U[i], i) ELSE U[i]
      BY <1>1, <1>6, <2>2
    <3>2. Append(U[i], i) \in Seq(Nat)
      BY <3>1
    <3> QED BY <3>1, <3>2
  <2> HIDE DEF T
  <2>3. \A i \in 0 .. n : i \in T
    BY <1>1, <2>1, <2>2, InductionUpTo
  <2> QED BY <2>3 DEF T
<1>9. U \in [0 .. n -> Seq(Nat)]
  BY <1>7, <1>8
<1> QED BY <1>4, <1>6, <1>9 DEF n

LEMMA SamplingIndices ==
    ASSUME NEW batch \in Seq(ScheduledRequests)
    PROVE  LET S == SamplingRequestIndices(batch)
           IN  /\ S \in Seq(Nat) /\ Len(S) <= Len(batch)
               /\ \A k \in 1 .. Len(S) :
                     S[k] \in 0 .. Len(batch) - 1 /\ batch[S[k] + 1].sample
<1> DEFINE n == Len(batch)
<1>1. PICK U \in [0 .. n -> Seq(Nat)] :
         /\ U[0] = <<>>
         /\ \A i \in 0 .. n - 1 :
               U[i + 1] = IF batch[i + 1].sample THEN Append(U[i], i) ELSE U[i]
         /\ SamplingRequestIndices(batch) = U[n]
  BY SamplingFunction
<1>2. n \in Nat
  OBVIOUS
<1> HIDE DEF n
<1> DEFINE Good(m) == /\ Len(U[m]) <= m
                      /\ \A k \in 1 .. Len(U[m]) : U[m][k] \in 0 .. m - 1 /\ batch[U[m][k] + 1].sample
           T == {m \in 0 .. n : Good(m)}
<1>3. 0 \in T
  BY <1>1, <1>2
<1>4. ASSUME NEW m \in 0 .. (n - 1), m \in T PROVE m + 1 \in T
  <2>1. /\ m \in 0 .. n /\ m + 1 \in 0 .. n /\ m \in Nat /\ U[m] \in Seq(Nat)
        /\ U[m + 1] = IF batch[m + 1].sample THEN Append(U[m], m) ELSE U[m]
        /\ Good(m)
    BY <1>1, <1>2, <1>4
  <2>2. CASE batch[m + 1].sample
    <3>1. /\ Len(U[m + 1]) = Len(U[m]) + 1 /\ Len(U[m]) \in Nat
          /\ U[m + 1][Len(U[m]) + 1] = m
          /\ \A k \in 1 .. Len(U[m]) : U[m + 1][k] = U[m][k]
      BY <2>1, <2>2
    <3>2. ASSUME NEW k \in 1 .. Len(U[m + 1])
          PROVE  U[m + 1][k] \in 0 .. (m + 1) - 1 /\ batch[U[m + 1][k] + 1].sample
      <4>1. k = Len(U[m]) + 1 \/ k \in 1 .. Len(U[m])
        BY <3>1
      <4>2. CASE k = Len(U[m]) + 1
        BY <2>1, <2>2, <3>1, <4>2
      <4>3. CASE k \in 1 .. Len(U[m])
        <5>1. U[m + 1][k] = U[m][k] /\ U[m][k] \in 0 .. m - 1 /\ batch[U[m][k] + 1].sample
          BY <2>1, <3>1, <4>3
        <5>2. U[m][k] \in 0 .. (m + 1) - 1
          BY <2>1, <5>1
        <5> QED BY <5>1, <5>2
      <4> QED BY <4>1, <4>2, <4>3
    <3>3. Len(U[m + 1]) <= m + 1
      BY <2>1, <3>1
    <3> QED BY <2>1, <3>2, <3>3
  <2>3. CASE ~ batch[m + 1].sample
    <3>1. U[m + 1] = U[m] /\ Len(U[m]) \in Nat
      BY <2>1, <2>3
    <3>2. ASSUME NEW k \in 1 .. Len(U[m])
          PROVE  U[m][k] \in 0 .. (m + 1) - 1 /\ batch[U[m][k] + 1].sample
      <4>1. U[m][k] \in 0 .. m - 1 /\ batch[U[m][k] + 1].sample
        BY <2>1
      <4> QED BY <2>1, <4>1
    <3>3. Len(U[m]) <= m + 1
      BY <2>1, <3>1
    <3>4. Good(m + 1)
      BY <3>1, <3>2, <3>3
    <3> QED BY <2>1, <3>4
  <2> QED BY <2>2, <2>3
<1> HIDE DEF T
<1>5. n \in T
  <2>1. \A m \in 0 .. n : m \in T
    BY <1>2, <1>3, <1>4, InductionUpTo
  <2> QED BY <1>2, <2>1
<1>6. Good(n) /\ U[n] \in Seq(Nat)
  BY <1>1, <1>2, <1>5 DEF T
<1> QED BY <1>1, <1>6 DEF n

\* The entries after the first that ask for a sample, with it and without it.
LEMMA SamplingTail ==
    ASSUME NEW batch \in Seq(ScheduledRequests), batch # <<>>
    PROVE  LET S == SamplingRequestIndices(batch)
               R == SamplingRequestIndices(Tail(batch))
               d == IF batch[1].sample THEN 1 ELSE 0
           IN  /\ Len(S) = Len(R) + d
               /\ batch[1].sample => S[1] = 0
               /\ \A k \in 1 .. Len(R) : S[k + d] = R[k] + 1
<1> DEFINE t == Tail(batch)
           n == Len(t)
           d == IF batch[1].sample THEN 1 ELSE 0
<1>1. /\ t \in Seq(ScheduledRequests) /\ Len(batch) = n + 1 /\ n \in Nat
      /\ \A i \in 1 .. n : t[i] = batch[i + 1]
  OBVIOUS
<1>2. PICK U \in [0 .. Len(batch) -> Seq(Nat)] :
         /\ U[0] = <<>>
         /\ \A i \in 0 .. Len(batch) - 1 :
               U[i + 1] = IF batch[i + 1].sample THEN Append(U[i], i) ELSE U[i]
         /\ SamplingRequestIndices(batch) = U[Len(batch)]
  BY SamplingFunction
<1>3. PICK V \in [0 .. n -> Seq(Nat)] :
         /\ V[0] = <<>>
         /\ \A i \in 0 .. n - 1 : V[i + 1] = IF t[i + 1].sample THEN Append(V[i], i) ELSE V[i]
         /\ SamplingRequestIndices(t) = V[n]
  BY <1>1, SamplingFunction
<1>4. d \in Nat
  OBVIOUS
<1> HIDE DEF n, t
<1> DEFINE Shifted(m) == /\ Len(U[m + 1]) = Len(V[m]) + d
                         /\ batch[1].sample => U[m + 1][1] = 0
                         /\ \A k \in 1 .. Len(V[m]) : U[m + 1][k + d] = V[m][k] + 1
           T == {m \in 0 .. n : Shifted(m)}
<1>5. 0 \in T
  <2>1. U[0 + 1] = IF batch[1].sample THEN Append(<<>>, 0) ELSE <<>>
    <3>1. 0 \in 0 .. Len(batch) - 1
      BY <1>1
    <3>2. U[0 + 1] = IF batch[0 + 1].sample THEN Append(U[0], 0) ELSE U[0]
      BY <1>2, <3>1
    <3> QED BY <1>2, <3>2
  <2>2. V[0] = <<>> /\ 0 \in 0 .. n
    BY <1>1, <1>3
  <2>3. Shifted(0)
    <3>1. CASE batch[1].sample
      BY <2>1, <2>2, <3>1
    <3>2. CASE ~ batch[1].sample
      BY <2>1, <2>2, <3>2
    <3> QED BY <3>1, <3>2
  <2> QED BY <2>2, <2>3
<1>6. ASSUME NEW m \in 0 .. (n - 1), m \in T PROVE m + 1 \in T
  <2> DEFINE u == U[m + 1]
             v == V[m]
  <2>1. /\ m \in Nat /\ m + 1 \in Nat /\ m + 1 \in 0 .. n /\ m \in 0 .. n /\ m \in 0 .. n - 1
        /\ m + 1 \in 0 .. Len(batch) - 1 /\ m + 1 \in 0 .. Len(batch) /\ m + 1 \in 1 .. n
    BY <1>1, <1>6
  <2>2. /\ u \in Seq(Nat) /\ v \in Seq(Nat)
        /\ t[m + 1] = batch[(m + 1) + 1]
        /\ U[(m + 1) + 1] = IF batch[(m + 1) + 1].sample THEN Append(u, m + 1) ELSE u
        /\ V[m + 1] = IF t[m + 1].sample THEN Append(v, m) ELSE v
    BY <1>1, <1>2, <1>3, <2>1
  <2>3. /\ Len(u) = Len(v) + d
        /\ batch[1].sample => u[1] = 0
        /\ \A k \in 1 .. Len(v) : u[k + d] = v[k] + 1
    BY <1>6
  <2> HIDE DEF u, v, T, d
  <2>4. CASE t[m + 1].sample
    <3>1. /\ U[(m + 1) + 1] = Append(u, m + 1) /\ V[m + 1] = Append(v, m)
      BY <2>2, <2>4
    <3>2. /\ Len(Append(u, m + 1)) = Len(u) + 1 /\ Append(u, m + 1)[Len(u) + 1] = m + 1
          /\ \A k \in 1 .. Len(u) : Append(u, m + 1)[k] = u[k]
          /\ Len(Append(v, m)) = Len(v) + 1 /\ Append(v, m)[Len(v) + 1] = m
          /\ \A k \in 1 .. Len(v) : Append(v, m)[k] = v[k]
          /\ Len(u) \in Nat /\ Len(v) \in Nat
      BY <2>1, <2>2
    <3>3. Len(Append(u, m + 1)) = Len(Append(v, m)) + d
      BY <1>4, <2>3, <3>2
    <3>4. batch[1].sample => Append(u, m + 1)[1] = 0
      <4>1. batch[1].sample => 1 \in 1 .. Len(u)
        BY <2>3, <3>2 DEF d
      <4> QED BY <2>3, <3>2, <4>1
    <3>5. ASSUME NEW k \in 1 .. Len(Append(v, m))
          PROVE  Append(u, m + 1)[k + d] = Append(v, m)[k] + 1
      <4>1. CASE k = Len(v) + 1
        <5>1. k + d = Len(u) + 1
          BY <1>4, <2>3, <3>2, <4>1
        <5> QED BY <3>2, <4>1, <5>1
      <4>2. CASE k # Len(v) + 1
        <5>1. k \in 1 .. Len(v) /\ k + d \in 1 .. Len(u)
          BY <1>4, <2>3, <3>2, <4>2
        <5> QED BY <2>3, <3>2, <5>1
      <4> QED BY <4>1, <4>2
    <3>6. Shifted(m + 1)
      BY <3>1, <3>3, <3>4, <3>5
    <3> QED BY <2>1, <3>6 DEF T
  <2>5. CASE ~ t[m + 1].sample
    <3>1. U[(m + 1) + 1] = u /\ V[m + 1] = v
      BY <2>2, <2>5
    <3>2. Shifted(m + 1)
      BY <2>3, <3>1
    <3> QED BY <2>1, <3>2 DEF T
  <2> QED BY <2>4, <2>5
<1> HIDE DEF T
<1>7. n \in T
  <2>1. \A m \in 0 .. n : m \in T
    BY <1>1, <1>5, <1>6, InductionUpTo
  <2> QED BY <1>1, <2>1
<1>8. Shifted(n)
  BY <1>7 DEF T
<1> HIDE DEF d
<1>9. /\ Len(SamplingRequestIndices(batch)) = Len(SamplingRequestIndices(t)) + d
      /\ batch[1].sample => SamplingRequestIndices(batch)[1] = 0
      /\ \A k \in 1 .. Len(SamplingRequestIndices(t)) :
            SamplingRequestIndices(batch)[k + d] = SamplingRequestIndices(t)[k] + 1
  BY <1>1, <1>2, <1>3, <1>8
<1> QED BY <1>9 DEF t, d

-----------------------------------------------------------------------------
(* The samples that finish() returned and update() has not applied yet.     *)

\* One for each entry left that asked for it, in order.
SamplesMatch(samples, batch) ==
    LET S == SamplingRequestIndices(batch)
    IN  /\ Len(samples) = Len(S)
        /\ \A k \in 1 .. Len(S) : samples[k].id = batch[S[k] + 1].id

SamplesCurrent(samples) ==
    \A k \in 1 .. Len(samples) :
        /\ samples[k].id \in Live
        /\ samples[k].from = <<samples[k].id, request[samples[k].id].numTokens - 1>>

Samples == [id : Ids, from : Ids \X Int]

SampledInv ==
    /\ sampled \in Seq(Samples)
    /\ phase # "update" => sampled = <<>>
    /\ SamplesCurrent(sampled)
    /\ phase = "update" => SamplesMatch(sampled, scheduled)

LEMMA SampledInvImplies ==
    ASSUME SchedInv, SampledInv
    PROVE  SamplesFromLastToken
<1> DEFINE S == SamplingRequestIndices(scheduled)
<1>1. /\ sampled \in Seq(Samples) /\ SamplesCurrent(sampled)
      /\ scheduled \in Seq(ScheduledRequests)
  BY DEF SampledInv, SchedInv, LocalTypeOK
<1>2. DOMAIN sampled = 1 .. Len(sampled)
  BY <1>1
<1>3. S \in Seq(Nat) /\ DOMAIN S = 1 .. Len(S)
  <2>1. S \in Seq(Nat)
    BY <1>1, SamplingIndices
  <2> HIDE DEF S
  <2> QED BY <2>1
<1>4. ASSUME phase = "update"
      PROVE  [k \in DOMAIN sampled |-> sampled[k].id] =
                [k \in DOMAIN S |-> Entry(scheduled, S[k]).id]
  <2>1. /\ Len(sampled) = Len(S)
        /\ \A k \in 1 .. Len(S) : sampled[k].id = scheduled[S[k] + 1].id
    BY <1>4 DEF SampledInv, SamplesMatch
  <2> HIDE DEF S
  <2> QED BY <1>2, <1>3, <2>1 DEF Entry
<1> QED BY <1>1, <1>2, <1>4 DEF SamplesFromLastToken, SamplesCurrent

LEMMA NoEntriesNoSamples ==
    ASSUME NEW samples \in Seq(Samples)
    PROVE  SamplesMatch(samples, <<>>) <=> samples = <<>>
<1>1. /\ <<>> \in Seq(ScheduledRequests) /\ Len(<<>>) = 0
      /\ Len(SamplingRequestIndices(<<>>)) <= 0
      /\ SamplingRequestIndices(<<>>) \in Seq(Nat)
  <2>1. <<>> \in Seq(ScheduledRequests) /\ Len(<<>>) = 0
    OBVIOUS
  <2> QED BY <2>1, SamplingIndices
<1>2. Len(SamplingRequestIndices(<<>>)) = 0
  BY <1>1
<1>3. Len(samples) = 0 <=> samples = <<>>
  OBVIOUS
<1> QED BY <1>2, <1>3 DEF SamplesMatch

\* finish() returns the samples of the step.
LEMMA ExecuteModelSamples ==
    ASSUME SchedInv, phase = "scheduled"
    PROVE  LET samples == Sampled(PrepareModelInput(scheduled, BlockSize))
           IN  /\ samples \in Seq(Samples)
               /\ SamplesCurrent(samples) /\ SamplesMatch(samples, scheduled)
<1> DEFINE S == SamplingRequestIndices(scheduled)
           input == PrepareModelInput(scheduled, BlockSize)
           samples == Sampled(input)
<1>1. scheduled \in Batches /\ scheduled \in Seq(ScheduledRequests)
  BY StepEntries DEF Batches
<1>2. /\ S \in Seq(Nat)
      /\ \A k \in 1 .. Len(S) : S[k] \in 0 .. Len(scheduled) - 1 /\ scheduled[S[k] + 1].sample
  BY <1>1, SamplingIndices
<1>3. /\ input.logitsIndices = [k \in DOMAIN S |-> LastTokenOf(scheduled, S[k])]
      /\ input.samplingRequests = S
      /\ input.tokenIds = TokenIds(scheduled)
  BY DEF PrepareModelInput, LogitsIndices
<1>4. samples = [k \in DOMAIN input.logitsIndices |->
                    [id   |-> scheduled[input.samplingRequests[k] + 1].id,
                     from |-> input.tokenIds[input.logitsIndices[k]]]]
  BY Zenon DEF Sampled
<1> HIDE DEF input, samples, S
<1>5. DOMAIN S = 1 .. Len(S) /\ Len(S) \in Nat
  BY <1>2
<1>6. samples = [k \in 1 .. Len(S) |->
                    [id   |-> scheduled[S[k] + 1].id,
                     from |-> TokenIds(scheduled)[LastTokenOf(scheduled, S[k])]]]
  BY <1>3, <1>4, <1>5
<1>7. ASSUME NEW k \in 1 .. Len(S)
      PROVE  LET id == scheduled[S[k] + 1].id
             IN  /\ id \in Ids /\ id \in Live
                 /\ request[id].numTokens \in Nat
                 /\ TokenIds(scheduled)[LastTokenOf(scheduled, S[k])] =
                       <<id, request[id].numTokens - 1>>
  <2> DEFINE i == S[k]
             e == Entry(scheduled, i)
  <2>1. i \in 0 .. Len(scheduled) - 1
    BY <1>2
  <2>2. /\ i + 1 \in 1 .. Len(scheduled) /\ e = scheduled[i + 1] /\ e.id \in Ids
        /\ e.offset \in Nat /\ e.count \in Nat
    BY <1>1, <2>1, EntryTypes
  <2>3. /\ e.sample /\ e.count > 0 /\ HasStatus(e.id, "kRunning")
        /\ e.offset + e.count = request[e.id].numComputed
        /\ Lacking(e.id) = 0
    <3>1. e.sample
      BY <1>2, <2>2
    <3>2. e.count > 0
      BY <1>1, <2>2 DEF Batches
    <3> HIDE DEF e
    <3>3. /\ HasStatus(e.id, "kRunning") /\ (e.sample <=> Lacking(e.id) = 0)
          /\ e.offset + e.count = request[e.id].numComputed
      BY <2>2, StepEntries
    <3> QED BY <3>1, <3>2, <3>3
  <2>4. e.id \in Live /\ request[e.id].numTokens \in Nat /\ request[e.id].numComputed \in Nat
    BY <2>2, <2>3, LiveRequests DEF SchedInv, HasStatus, Statuses, Requests
  <2>5. request[e.id].numTokens = e.offset + e.count
    BY <2>3, <2>4 DEF Lacking
  <2>6. /\ QueryStartLoc(scheduled)[i] \in Nat
        /\ QueryStartLoc(scheduled)[i + 1] = QueryStartLoc(scheduled)[i] + e.count
    BY <1>1, <2>1, <2>2, QueryStarts
  <2> HIDE DEF i, e
  <2>7. LastTokenOf(scheduled, i) = QueryStartLoc(scheduled)[i] + (e.count - 1)
    BY <2>2, <2>6 DEF LastTokenOf
  <2>8. e.count - 1 \in 0 .. Entry(scheduled, i).count - 1
    BY <2>2, <2>3 DEF e
  <2>9. TokenIds(scheduled)[QueryStartLoc(scheduled)[i] + (e.count - 1)] =
           <<e.id, e.offset + (e.count - 1)>>
    BY <1>1, <2>1, <2>8, InputToken DEF e
  <2>10. e.offset + (e.count - 1) = request[e.id].numTokens - 1
    BY <2>2, <2>5
  <2> QED BY <2>2, <2>4, <2>7, <2>9, <2>10 DEF i
<1>8. samples \in Seq(Samples) /\ Len(samples) = Len(S)
  <2>1. ASSUME NEW k \in 1 .. Len(S)
        PROVE  [id   |-> scheduled[S[k] + 1].id,
                from |-> TokenIds(scheduled)[LastTokenOf(scheduled, S[k])]] \in Samples
    <3> DEFINE id == scheduled[S[k] + 1].id
               from == TokenIds(scheduled)[LastTokenOf(scheduled, S[k])]
    <3>1. id \in Ids /\ request[id].numTokens - 1 \in Int
      BY <1>7
    <3>2. from = <<id, request[id].numTokens - 1>>
      BY <1>7
    <3> HIDE DEF id, from
    <3>3. [id |-> id, from |-> from] \in Samples
      BY <3>1, <3>2 DEF Samples
    <3> QED BY <3>3 DEF id, from
  <2>2. samples \in [1 .. Len(S) -> Samples]
    BY <1>6, <2>1
  <2> QED BY <1>5, <2>2
<1>9. \A k \in 1 .. Len(S) :
         /\ samples[k].id = scheduled[S[k] + 1].id
         /\ samples[k].from = TokenIds(scheduled)[LastTokenOf(scheduled, S[k])]
  BY <1>6
<1>10. SamplesMatch(samples, scheduled)
  BY <1>8, <1>9 DEF SamplesMatch, S
<1>11. SamplesCurrent(samples)
  BY <1>7, <1>8, <1>9 DEF SamplesCurrent
<1> QED BY <1>8, <1>10, <1>11 DEF samples, input

LEMMA UpdateTokenSamples ==
    ASSUME SchedInv, SampledInv, NEW stop \in BOOLEAN, ExecUpdateToken(stop)
    PROVE  SampledInv'
<1> DEFINE s == Head(scheduled).id
           S == SamplingRequestIndices(scheduled)
           R == SamplingRequestIndices(Tail(scheduled))
<1>1. /\ phase = "update" /\ phase' = "update" /\ scheduled # <<>>
      /\ Head(scheduled).sample /\ scheduled' = Tail(scheduled)
      /\ sampled' = Tail(sampled) /\ UpdateToken(stop)
  BY DEF ExecUpdateToken, UpdateToken
<1>2. /\ scheduled \in Seq(ScheduledRequests) /\ Tail(scheduled) \in Seq(ScheduledRequests)
      /\ scheduled[1] = Head(scheduled) /\ Len(Tail(scheduled)) = Len(scheduled) - 1
      /\ Len(scheduled) \in Nat /\ Len(scheduled) > 0
      /\ \A i \in 1 .. Len(scheduled) - 1 : Tail(scheduled)[i] = scheduled[i + 1]
  BY <1>1 DEF SchedInv, LocalTypeOK
<1>3. /\ Len(S) = Len(R) + 1 /\ \A k \in 1 .. Len(R) : S[k + 1] = R[k] + 1
  BY <1>1, <1>2, SamplingTail
<1>4. /\ Len(R) \in Nat
      /\ \A k \in 1 .. Len(R) : R[k] \in 0 .. Len(Tail(scheduled)) - 1
  <2>1. R \in Seq(Nat) /\ \A k \in 1 .. Len(R) : R[k] \in 0 .. Len(Tail(scheduled)) - 1
    BY <1>2, SamplingIndices
  <2> HIDE DEF R
  <2> QED BY <2>1
<1>5. /\ sampled \in Seq(Samples) /\ Len(sampled) = Len(S) /\ SamplesCurrent(sampled)
      /\ \A k \in 1 .. Len(S) : sampled[k].id = scheduled[S[k] + 1].id
  BY <1>1 DEF SampledInv, SamplesMatch
<1> HIDE DEF S, R
<1>6. /\ sampled' \in Seq(Samples) /\ Len(sampled') = Len(R)
      /\ \A k \in 1 .. Len(R) : k + 1 \in 1 .. Len(S) /\ sampled'[k] = sampled[k + 1]
  <2>1. sampled # <<>>
    BY <1>3, <1>4, <1>5
  <2>2. /\ Tail(sampled) \in Seq(Samples) /\ Len(Tail(sampled)) = Len(sampled) - 1
        /\ \A k \in 1 .. Len(sampled) - 1 : Tail(sampled)[k] = sampled[k + 1]
    BY <1>5, <2>1
  <2> QED BY <1>1, <1>3, <1>4, <1>5, <2>2
<1>7. ASSUME NEW k \in 1 .. Len(R)
      PROVE  LET id == sampled'[k].id
             IN  /\ id = Tail(scheduled)[R[k] + 1].id
                 /\ id \in Ids \ {s}
                 /\ id \in Live
                 /\ sampled'[k].from = <<id, request[id].numTokens - 1>>
  <2>1. /\ sampled'[k] = sampled[k + 1] /\ k + 1 \in 1 .. Len(S) /\ k + 1 \in 1 .. Len(sampled)
    BY <1>5, <1>6
  <2>2. /\ R[k] + 1 \in 1 .. Len(scheduled) - 1 /\ R[k] + 2 \in 1 .. Len(scheduled)
        /\ R[k] + 2 # 1 /\ S[k + 1] + 1 = R[k] + 2 /\ (R[k] + 1) + 1 = R[k] + 2
        /\ 1 \in 1 .. Len(scheduled)
    BY <1>2, <1>3, <1>4
  <2>3. sampled'[k].id = scheduled[R[k] + 2].id
    BY <1>5, <2>1, <2>2
  <2>4. Tail(scheduled)[R[k] + 1] = scheduled[R[k] + 2]
    BY <1>2, <2>2
  <2>5. scheduled[R[k] + 2].id # s
    <3>1. \A i, j \in 1 .. Len(scheduled) : scheduled[i].id = scheduled[j].id => i = j
      BY <1>1 DEF SchedInv, InUpdate
    <3> QED BY <1>2, <2>2, <3>1
  <2>6. sampled[k + 1].id \in Live /\ sampled[k + 1].id \in Ids
    BY <1>5, <2>1 DEF SamplesCurrent, Live
  <2> QED BY <1>5, <2>1, <2>3, <2>4, <2>5, <2>6 DEF SamplesCurrent
<1>8. \A id \in Ids \ {s} : request'[id] = request[id]
  BY <1>1, UpdateTokenCore
<1>9. SamplesMatch(sampled', Tail(scheduled))
  BY <1>6, <1>7 DEF SamplesMatch, R
<1>10. ASSUME NEW k \in 1 .. Len(sampled')
       PROVE  /\ sampled'[k].id \in Live'
              /\ sampled'[k].from = <<sampled'[k].id, request'[sampled'[k].id].numTokens - 1>>
  <2> DEFINE id == sampled'[k].id
  <2>1. /\ id \in Ids \ {s} /\ id \in Live
        /\ sampled'[k].from = <<id, request[id].numTokens - 1>>
    BY <1>6, <1>7
  <2> HIDE DEF s
  <2>2. request'[id] = request[id]
    BY <1>8, <2>1
  <2> QED BY <2>1, <2>2 DEF Live
<1> QED BY <1>1, <1>6, <1>9, <1>10 DEF SampledInv, SamplesCurrent, SamplesMatch

LEMMA SkipChunkSamples ==
    ASSUME SchedInv, SampledInv, SkipChunk, UNCHANGED sampled
    PROVE  SampledInv'
<1> DEFINE S == SamplingRequestIndices(scheduled)
           R == SamplingRequestIndices(Tail(scheduled))
<1>1. /\ phase = "update" /\ phase' = "update" /\ scheduled # <<>>
      /\ ~ Head(scheduled).sample /\ scheduled' = Tail(scheduled)
      /\ request' = request /\ sampled' = sampled
  BY DEF SkipChunk
<1>2. /\ scheduled \in Seq(ScheduledRequests) /\ Tail(scheduled) \in Seq(ScheduledRequests)
      /\ scheduled[1] = Head(scheduled) /\ Len(Tail(scheduled)) = Len(scheduled) - 1
      /\ Len(scheduled) \in Nat /\ Len(scheduled) > 0
      /\ \A i \in 1 .. Len(scheduled) - 1 : Tail(scheduled)[i] = scheduled[i + 1]
  BY <1>1 DEF SchedInv, LocalTypeOK
<1>3. Len(S) = Len(R) + 0 /\ \A k \in 1 .. Len(R) : S[k + 0] = R[k] + 1
  BY <1>1, <1>2, SamplingTail
<1>4. /\ Len(R) \in Nat
      /\ \A k \in 1 .. Len(R) : R[k] \in 0 .. Len(Tail(scheduled)) - 1
  <2>1. R \in Seq(Nat) /\ \A k \in 1 .. Len(R) : R[k] \in 0 .. Len(Tail(scheduled)) - 1
    BY <1>2, SamplingIndices
  <2> HIDE DEF R
  <2> QED BY <2>1
<1>5. /\ Len(sampled) = Len(S)
      /\ \A k \in 1 .. Len(S) : sampled[k].id = scheduled[S[k] + 1].id
  BY <1>1 DEF SampledInv, SamplesMatch
<1> HIDE DEF S, R
<1>6. ASSUME NEW k \in 1 .. Len(R) PROVE sampled[k].id = Tail(scheduled)[R[k] + 1].id
  <2>1. k + 0 = k /\ k \in 1 .. Len(S) /\ S[k] = R[k] + 1
    BY <1>3, <1>4
  <2>2. R[k] + 1 \in 1 .. Len(scheduled) - 1
    BY <1>2, <1>4
  <2> QED BY <1>2, <1>5, <2>1, <2>2
<1>7. SamplesMatch(sampled, Tail(scheduled))
  BY <1>3, <1>4, <1>5, <1>6 DEF SamplesMatch, R
<1> QED BY <1>1, <1>7 DEF SampledInv, SamplesCurrent, SamplesMatch, Live

LEMMA SampledStep ==
    ASSUME SchedInv, SampledInv, [ExecNext]_execVars
    PROVE  SampledInv'
<1>1. ASSUME UNCHANGED sampled, phase # "update", phase' # "update" PROVE SampledInv'
  BY <1>1 DEF SampledInv, SamplesCurrent
<1>2. ASSUME NEW id \in Ids, NEW promptLen \in PromptLens, NEW outputLen \in OutputLens,
             ExecAddRequest(id, promptLen, outputLen)
      PROVE  SampledInv'
  BY <1>1, <1>2 DEF ExecAddRequest, AddRequest
<1>3. CASE HostStep
  <2>1. UNCHANGED sampled
    BY <1>3 DEF HostStep
  <2>2. CASE \/ BeginSchedule \/ ScheduleRunning \/ PreemptTail \/ EndPass1
             \/ AdmitNext \/ EndPass2 \/ \E id \in Ids : AbortRequest(id)
    <3>1. phase # "update" /\ phase' # "update"
      BY <2>2 DEF BeginSchedule, ScheduleRunning, PreemptTail, EndPass1, AdmitNext,
                  EndPass2, AbortRequest, MoreRunning, MoreToAdmit
    <3> QED BY <1>1, <2>1, <3>1
  <2>3. CASE SkipChunk
    BY <2>1, <2>3, SkipChunkSamples
  <2> QED BY <1>3, <2>2, <2>3 DEF HostStep
<1>4. CASE ExecuteModel
  <2>1. /\ phase = "scheduled" /\ phase' = "update"
        /\ request' = request /\ scheduled' = scheduled
    BY <1>4 DEF ExecuteModel, RunModel
  <2>2. CASE scheduled = <<>>
    <3>1. sampled = <<>> /\ sampled' = <<>> /\ <<>> \in Seq(Samples)
      BY <1>4, <2>1, <2>2 DEF ExecuteModel, SampledInv
    <3>2. SamplesMatch(<<>>, <<>>)
      BY <3>1, NoEntriesNoSamples
    <3> QED BY <2>1, <2>2, <3>1, <3>2 DEF SampledInv, SamplesCurrent, SamplesMatch
  <2>3. CASE scheduled # <<>>
    <3> DEFINE samples == Sampled(PrepareModelInput(scheduled, BlockSize))
    <3>1. sampled' = samples
      BY <1>4, <2>3 DEF ExecuteModel
    <3>2. /\ samples \in Seq(Samples)
          /\ SamplesCurrent(samples) /\ SamplesMatch(samples, scheduled)
      BY <2>1, ExecuteModelSamples
    <3> HIDE DEF samples
    <3> QED BY <2>1, <3>1, <3>2 DEF SampledInv, SamplesCurrent, SamplesMatch, Live
  <2> QED BY <2>2, <2>3
<1>5. ASSUME NEW stop \in BOOLEAN, ExecUpdateToken(stop) PROVE SampledInv'
  BY <1>5, UpdateTokenSamples
<1>6. CASE ExecEndUpdate
  <2>1. /\ phase = "update" /\ scheduled = <<>> /\ phase' = "idle" /\ sampled' = sampled
    BY <1>6 DEF ExecEndUpdate, EndUpdate
  <2>2. sampled \in Seq(Samples) /\ SamplesMatch(sampled, <<>>)
    BY <2>1 DEF SampledInv
  <2>3. sampled' = <<>>
    BY <2>1, <2>2, NoEntriesNoSamples
  <2> QED BY <2>1, <2>3 DEF SampledInv, SamplesCurrent
<1>7. CASE UNCHANGED execVars
  <2>1. UNCHANGED <<phase, request, scheduled, sampled>>
    BY <1>7 DEF execVars, schedVars
  <2> QED BY <2>1 DEF SampledInv, SamplesCurrent, SamplesMatch, Live
<1> QED BY <1>2, <1>3, <1>4, <1>5, <1>6, <1>7 DEF ExecNext

\* Every sampled token comes from the logits of its request's last token, and
\* update() gives it to that request (sampler.cu, model_runner.cpp, scheduler.cpp).
THEOREM ExecSamplesFromLastToken == ExecSpec => []SamplesFromLastToken
<1>1. ExecInit => SampledInv
  <2> SUFFICES ASSUME ExecInit PROVE SampledInv
    OBVIOUS
  <2>1. sampled = <<>> /\ phase = "idle"
    BY DEF ExecInit, SchedInit
  <2> QED BY <2>1 DEF SampledInv, SamplesCurrent
<1>2. SchedInv /\ SampledInv /\ [ExecNext]_execVars => SampledInv'
  BY SampledStep
<1>3. SchedInv /\ SampledInv => SamplesFromLastToken
  BY SampledInvImplies
<1> QED BY <1>1, <1>2, <1>3, ExecImplementsScheduler, SchedInvariant, PTL DEF ExecSpec

-----------------------------------------------------------------------------
(* How many tokens a step has.                                              *)

LEMMA NumTokensAppend ==
    ASSUME NEW batch \in Seq(ScheduledRequests), NEW e \in ScheduledRequests
    PROVE  NumTokens(Append(batch, e)) = NumTokens(batch) + e.count
<1> DEFINE more == Append(batch, e)
           n == Len(batch)
           Q == QueryStartLoc(batch)
           R == QueryStartLoc(more)
           T == {i \in 0 .. n : R[i] = Q[i]}
<1>1. /\ more \in Seq(ScheduledRequests) /\ Len(more) = n + 1 /\ n \in Nat
      /\ more[n + 1] = e /\ \A i \in 1 .. n : more[i] = batch[i]
  OBVIOUS
<1> HIDE DEF more, n
<1>2. /\ Q \in [0 .. n -> Nat] /\ Q[0] = 0
      /\ \A i \in 0 .. n - 1 : Q[i + 1] = Q[i] + batch[i + 1].count
  BY QueryStarts DEF n
<1>3. /\ R[0] = 0
      /\ \A i \in 0 .. (n + 1) - 1 : R[i + 1] = R[i] + more[i + 1].count
  BY <1>1, QueryStarts
<1> HIDE DEF Q, R
<1>4. 0 \in T
  BY <1>1, <1>2, <1>3
<1>5. ASSUME NEW i \in 0 .. (n - 1), i \in T PROVE i + 1 \in T
  <2>1. i \in 0 .. n - 1 /\ i \in 0 .. (n + 1) - 1 /\ i + 1 \in 1 .. n /\ i + 1 \in 0 .. n
    BY <1>1
  <2>2. R[i] = Q[i] /\ more[i + 1] = batch[i + 1]
    BY <1>1, <1>5, <2>1
  <2> QED BY <1>2, <1>3, <2>1, <2>2
<1> HIDE DEF T
<1>6. n \in T
  <2>1. \A i \in 0 .. n : i \in T
    BY <1>1, <1>4, <1>5, InductionUpTo
  <2> QED BY <1>1, <2>1
<1>7. R[n] = Q[n]
  BY <1>6 DEF T
<1>8. R[n + 1] = Q[n] + e.count
  <2>1. n \in 0 .. (n + 1) - 1
    BY <1>1
  <2> QED BY <1>1, <1>3, <1>7, <2>1
<1>9. NumTokens(more) = R[n + 1] /\ NumTokens(batch) = Q[n]
  BY <1>1, Zenon DEF NumTokens, R, Q, n
<1> QED BY <1>8, <1>9 DEF more

LEMMA NumTokensType ==
    ASSUME NEW batch \in Seq(ScheduledRequests)
    PROVE  NumTokens(batch) \in Nat /\ (batch = <<>> => NumTokens(batch) = 0)
<1>1. /\ QueryStartLoc(batch) \in [0 .. Len(batch) -> Nat] /\ QueryStartLoc(batch)[0] = 0
      /\ Len(batch) \in Nat
  BY QueryStarts
<1>2. batch = <<>> => Len(batch) = 0
  OBVIOUS
<1> QED BY <1>1, <1>2 DEF NumTokens

\* A step has at least a token for each entry.
LEMMA TokensForEveryEntry ==
    ASSUME NEW batch \in Batches
    PROVE  Len(batch) <= NumTokens(batch)
<1> DEFINE Q == QueryStartLoc(batch)
           n == Len(batch)
           T == {i \in 0 .. n : i <= Q[i]}
<1>1. /\ n \in Nat /\ Q \in [0 .. n -> Nat] /\ Q[0] = 0
      /\ \A i, j \in 0 .. n : i < j => Q[i] < Q[j]
  <2>1. batch \in Seq(ScheduledRequests)
    BY DEF Batches
  <2> QED BY <2>1, QueryStarts, QueryStartsGrow
<1> HIDE DEF Q, n
<1>2. 0 \in T
  BY <1>1
<1>3. ASSUME NEW i \in 0 .. (n - 1), i \in T PROVE i + 1 \in T
  <2>1. /\ i \in 0 .. n /\ i + 1 \in 0 .. n /\ i < i + 1 /\ i <= Q[i]
        /\ Q[i] \in Nat /\ Q[i + 1] \in Nat
    BY <1>1, <1>3
  <2>2. Q[i] < Q[i + 1]
    BY <1>1, <2>1
  <2> QED BY <2>1, <2>2
<1> HIDE DEF T
<1>4. n \in T
  <2>1. \A i \in 0 .. n : i \in T
    BY <1>1, <1>2, <1>3, InductionUpTo
  <2> QED BY <1>1, <2>1
<1> QED BY <1>4 DEF T, Q, n, NumTokens

\* While schedule() runs, the budget is what the entries made so far leave of it.
BudgetSpent ==
    phase \in {"pass1", "pass2", "scheduled"} =>
        tokenBudget + NumTokens(scheduled) = MaxNumScheduledTokens

LEMMA BudgetKeptByEntry ==
    ASSUME SchedInv, BudgetSpent, NEW e \in ScheduledRequests,
           phase \in {"pass1", "pass2"}, scheduled' = Append(scheduled, e),
           tokenBudget' = tokenBudget - e.count
    PROVE  BudgetSpent'
<1>1. /\ scheduled \in Seq(ScheduledRequests) /\ tokenBudget \in Nat
      /\ e.count \in Nat
  BY DEF SchedInv, LocalTypeOK, ScheduledRequests
<1>2. NumTokens(Append(scheduled, e)) = NumTokens(scheduled) + e.count
  BY <1>1, NumTokensAppend
<1>3. NumTokens(scheduled) \in Nat
  BY <1>1, NumTokensType
<1>4. tokenBudget + NumTokens(scheduled) = MaxNumScheduledTokens
  BY DEF BudgetSpent
<1>5. tokenBudget' + NumTokens(scheduled)' = MaxNumScheduledTokens
  <2>1. NumTokens(scheduled)' = NumTokens(Append(scheduled, e))
    BY DEF NumTokens, QueryStartLoc, Entry
  <2> QED BY <1>1, <1>2, <1>3, <1>4, <2>1
<1> QED BY <1>5 DEF BudgetSpent

LEMMA BudgetStep ==
    ASSUME SchedInv, SchedInv', BudgetSpent, [ExecNext]_execVars
    PROVE  BudgetSpent'
<1>1. ASSUME phase' \notin {"pass1", "pass2", "scheduled"} PROVE BudgetSpent'
  BY <1>1 DEF BudgetSpent
<1>2. ASSUME phase \in {"pass1", "pass2", "scheduled"}, UNCHANGED <<tokenBudget, scheduled>>
      PROVE  BudgetSpent'
  BY <1>2 DEF BudgetSpent, NumTokens, QueryStartLoc, Entry
<1>3. ASSUME NEW e, scheduled' = Append(scheduled, e) PROVE e \in ScheduledRequests
  <2>1. scheduled' \in Seq(ScheduledRequests) /\ scheduled \in Seq(ScheduledRequests)
    BY DEF SchedInv, LocalTypeOK
  <2>2. /\ Len(scheduled') = Len(scheduled) + 1 /\ scheduled'[Len(scheduled) + 1] = e
        /\ Len(scheduled) \in Nat
    BY <1>3, <2>1
  <2> QED BY <2>1, <2>2
<1>4. CASE ScheduleRunning
  <2> DEFINE c == Current
             n == NumToSchedule(c)
             e == [id |-> c, sample |-> NeedsSampling(request[c], request[c].numComputed + n),
                   offset |-> request[c].numComputed, count |-> n, blocks |-> allocatedBlocks'[c]]
  <2>1. /\ scheduled' = Append(scheduled, e) /\ tokenBudget' = tokenBudget - e.count
        /\ phase = "pass1"
    BY <1>4 DEF ScheduleRunning, PushScheduled, MoreRunning
  <2> HIDE DEF e
  <2>2. e \in ScheduledRequests
    BY <1>3, <2>1
  <2> QED BY <2>1, <2>2, BudgetKeptByEntry
<1>5. CASE AdmitNext
  <2> DEFINE c == Candidate
             n == NumToAdmit(c)
             e == [id |-> c, sample |-> NeedsSampling(Admitted(request[c], n), 0 + n),
                   offset |-> 0, count |-> n, blocks |-> allocatedBlocks'[c]]
  <2>1. /\ scheduled' = Append(scheduled, e) /\ tokenBudget' = tokenBudget - e.count
        /\ phase = "pass2"
    BY <1>5 DEF AdmitNext, PushScheduled, MoreToAdmit
  <2> HIDE DEF e
  <2>2. e \in ScheduledRequests
    BY <1>3, <2>1
  <2> QED BY <2>1, <2>2, BudgetKeptByEntry
<1>6. CASE BeginSchedule
  <2>1. scheduled = <<>> /\ scheduled' = <<>> /\ tokenBudget' = MaxNumScheduledTokens
    BY <1>6 DEF BeginSchedule, SchedInv, InIdle
  <2>2. NumTokens(scheduled)' = 0
    <3>1. scheduled' \in Seq(ScheduledRequests)
      BY DEF SchedInv, LocalTypeOK
    <3>2. NumTokens(scheduled') = 0
      BY <2>1, <3>1, NumTokensType
    <3> QED BY <3>2 DEF NumTokens, QueryStartLoc, Entry
  <2> QED BY <2>1, <2>2, TokenBudgetAssumption DEF BudgetSpent
<1>7. CASE PreemptTail \/ EndPass1 \/ EndPass2
  <2>1. phase \in {"pass1", "pass2", "scheduled"} /\ UNCHANGED <<tokenBudget, scheduled>>
    BY <1>7 DEF PreemptTail, EndPass1, EndPass2, MoreRunning, localVars
  <2> QED BY <1>2, <2>1
<1>8. ASSUME \/ SkipChunk \/ RunModel \/ EndUpdate
             \/ \E id \in Ids : AbortRequest(id)
             \/ \E stop \in BOOLEAN : UpdateToken(stop)
             \/ \E id \in Ids, promptLen \in PromptLens, outputLen \in OutputLens :
                   AddRequest(id, promptLen, outputLen)
      PROVE  BudgetSpent'
  <2>1. phase' \notin {"pass1", "pass2", "scheduled"}
    BY <1>8 DEF SkipChunk, RunModel, EndUpdate, AbortRequest, UpdateToken, AddRequest
  <2> QED BY <1>1, <2>1
<1>9. CASE UNCHANGED schedVars
  <2>1. UNCHANGED <<phase, tokenBudget, scheduled>>
    BY <1>9 DEF schedVars, localVars
  <2> QED BY <2>1 DEF BudgetSpent, NumTokens, QueryStartLoc, Entry
<1>10. [SchedNext]_schedVars
  BY ExecStepSchedules
<1> QED BY <1>4, <1>5, <1>6, <1>7, <1>8, <1>9, <1>10 DEF SchedNext, Step

-----------------------------------------------------------------------------
(* The buffer of a step.                                                    *)

LEMMA AlignUpGrows ==
    ASSUME NEW x \in Nat, NEW y \in Nat, x <= y
    PROVE  AlignUp(x) \in Nat /\ x <= AlignUp(x) /\ AlignUp(x) <= AlignUp(y)
<1> DEFINE A == Alignment
           q == (x + A - 1) \div A
           r == (y + A - 1) \div A
<1>1. A \in Nat /\ A > 0
  BY AlignmentAssumption
<1>2. /\ q \in Nat /\ r \in Nat /\ x <= q * A /\ q <= r
  BY <1>1
<1>3. AlignUp(x) = q * A /\ AlignUp(y) = r * A
  BY Zenon DEF AlignUp
<1> HIDE DEF q, r, A
<1>4. q * A <= r * A /\ q * A \in Nat
  BY <1>1, <1>2
<1> QED BY <1>2, <1>3, <1>4

LEMMA PackedFunction ==
    ASSUME NEW sizes \in Seq(Nat)
    PROVE  \E P \in [0 .. Len(sizes) -> Nat] :
              /\ P[0] = 0
              /\ \A i \in 0 .. Len(sizes) - 1 :
                    P[i + 1] = IF sizes[i + 1] = 0 THEN P[i]
                               ELSE AlignUp(P[i]) + sizes[i + 1]
              /\ PackedSize(sizes) = P[Len(sizes)]
<1> DEFINE n == Len(sizes)
           h == [i \in 1 .. n |-> [v \in Nat |->
                    IF sizes[i] = 0 THEN v ELSE AlignUp(v) + sizes[i]]]
           Solves(f) == f = [i \in 0 .. n |->
                                IF i = 0 THEN 0
                                ELSE IF sizes[i] = 0 THEN f[i - 1]
                                ELSE AlignUp(f[i - 1]) + sizes[i]]
<1>1. n \in Nat /\ \A i \in 1 .. n : sizes[i] \in Nat
  OBVIOUS
<1>2. PICK g \in [0 .. n -> Nat] :
         \A i \in 0 .. n : g[i] = IF i = 0 THEN 0 ELSE h[i][g[i - 1]]
  <2>1. h \in [1 .. n -> [Nat -> Nat]]
    <3>1. ASSUME NEW i \in 1 .. n, NEW v \in Nat
          PROVE  (IF sizes[i] = 0 THEN v ELSE AlignUp(v) + sizes[i]) \in Nat
      <4>1. AlignUp(v) \in Nat /\ sizes[i] \in Nat
        BY <1>1, AlignUpGrows
      <4> QED BY <4>1
    <3> QED BY <3>1
  <2> HIDE DEF h, n
  <2>2. \E g \in [0 .. n -> Nat] : Recursion(g, n, 0, h)
    BY <1>1, <2>1, RecursionUpTo
  <2> QED BY <2>2 DEF Recursion
<1>3. Solves(g)
  <2>1. ASSUME NEW i \in 0 .. n, i # 0
        PROVE  g[i] = IF sizes[i] = 0 THEN g[i - 1] ELSE AlignUp(g[i - 1]) + sizes[i]
    <3>1. i \in 1 .. n /\ g[i - 1] \in Nat
      <4> HIDE DEF n
      <4>1. i \in 1 .. n /\ i - 1 \in 0 .. n
        BY <1>1, <2>1
      <4> QED BY <4>1
    <3>2. h[i][g[i - 1]] = IF sizes[i] = 0 THEN g[i - 1] ELSE AlignUp(g[i - 1]) + sizes[i]
      BY <3>1
    <3> HIDE DEF h
    <3> QED BY <1>2, <2>1, <3>2
  <2>2. g[0] = 0
    <3> HIDE DEF h, n
    <3>1. 0 \in 0 .. n
      BY <1>1
    <3> QED BY <1>2, <3>1
  <2> HIDE DEF h
  <2> QED BY <1>2, <2>1, <2>2
<1> DEFINE P == CHOOSE f : Solves(f)
<1>4. PackedSize(sizes) = P[n]
  BY Zenon DEF PackedSize
<1>5. Solves(P)
  <2> HIDE DEF Solves
  <2> QED BY <1>3
<1> HIDE DEF P, h
<1>6. \A i \in 0 .. n : P[i] = IF i = 0 THEN 0
                               ELSE IF sizes[i] = 0 THEN P[i - 1]
                               ELSE AlignUp(P[i - 1]) + sizes[i]
  BY <1>5
<1>7. P = [i \in 0 .. n |-> P[i]]
  BY <1>5
<1> HIDE DEF Solves, n
<1>8. P[0] = 0
  <2>1. 0 \in 0 .. n
    BY <1>1
  <2> QED BY <1>6, <2>1
<1>9. ASSUME NEW i \in 0 .. n - 1
      PROVE  P[i + 1] = IF sizes[i + 1] = 0 THEN P[i] ELSE AlignUp(P[i]) + sizes[i + 1]
  <2>1. i + 1 \in 0 .. n /\ i + 1 # 0 /\ (i + 1) - 1 = i
    BY <1>1
  <2> QED BY <1>6, <2>1
<1>10. \A i \in 0 .. n : i \in {k \in 0 .. n : P[k] \in Nat}
  <2> DEFINE T == {k \in 0 .. n : P[k] \in Nat}
  <2>1. 0 \in T
    BY <1>1, <1>8
  <2>2. ASSUME NEW i \in 0 .. (n - 1), i \in T PROVE i + 1 \in T
    <3>1. /\ i \in 0 .. n - 1 /\ i + 1 \in 0 .. n /\ i + 1 \in 1 .. n /\ P[i] \in Nat
      BY <1>1, <2>2
    <3>2. sizes[i + 1] \in Nat
      BY <1>1, <3>1
    <3>3. AlignUp(P[i]) \in Nat
      <4>1. P[i] <= P[i]
        BY <3>1
      <4> QED BY <3>1, <4>1, AlignUpGrows
    <3> QED BY <1>9, <3>1, <3>2, <3>3
  <2> HIDE DEF T
  <2>3. \A i \in 0 .. n : i \in T
    BY <1>1, <2>1, <2>2, InductionUpTo
  <2> QED BY <2>3 DEF T
<1>11. P \in [0 .. n -> Nat]
  BY <1>7, <1>10
<1> QED BY <1>4, <1>8, <1>9, <1>11 DEF n

\* Arrays that are no longer take no more place, aligned or left out.
LEMMA PackedSizeGrows ==
    ASSUME NEW small \in Seq(Nat), NEW large \in Seq(Nat), Len(small) = Len(large),
           \A i \in 1 .. Len(small) : small[i] <= large[i]
    PROVE  PackedSize(small) <= PackedSize(large)
<1> DEFINE n == Len(small)
<1>1. PICK P \in [0 .. n -> Nat] :
         /\ P[0] = 0
         /\ \A i \in 0 .. n - 1 :
               P[i + 1] = IF small[i + 1] = 0 THEN P[i] ELSE AlignUp(P[i]) + small[i + 1]
         /\ PackedSize(small) = P[n]
  BY PackedFunction
<1>2. PICK R \in [0 .. n -> Nat] :
         /\ R[0] = 0
         /\ \A i \in 0 .. n - 1 :
               R[i + 1] = IF large[i + 1] = 0 THEN R[i] ELSE AlignUp(R[i]) + large[i + 1]
         /\ PackedSize(large) = R[n]
  BY PackedFunction
<1>3. n \in Nat /\ \A i \in 1 .. n : small[i] \in Nat /\ large[i] \in Nat /\ small[i] <= large[i]
  OBVIOUS
<1> DEFINE T == {i \in 0 .. n : P[i] <= R[i]}
<1> HIDE DEF n
<1>4. 0 \in T
  BY <1>1, <1>2, <1>3
<1>5. ASSUME NEW i \in 0 .. (n - 1), i \in T PROVE i + 1 \in T
  <2>1. /\ i \in 0 .. n - 1 /\ i \in 0 .. n /\ i + 1 \in 0 .. n /\ i + 1 \in 1 .. n
        /\ P[i] \in Nat /\ R[i] \in Nat /\ P[i] <= R[i]
    BY <1>3, <1>5
  <2>2. /\ AlignUp(P[i]) \in Nat /\ AlignUp(P[i]) <= AlignUp(R[i])
        /\ AlignUp(R[i]) \in Nat /\ R[i] <= AlignUp(R[i])
    BY <2>1, AlignUpGrows
  <2>3. /\ small[i + 1] \in Nat /\ large[i + 1] \in Nat /\ small[i + 1] <= large[i + 1]
    BY <1>3, <2>1
  <2>4. /\ P[i + 1] = IF small[i + 1] = 0 THEN P[i] ELSE AlignUp(P[i]) + small[i + 1]
        /\ R[i + 1] = IF large[i + 1] = 0 THEN R[i] ELSE AlignUp(R[i]) + large[i + 1]
    BY <1>1, <1>2, <2>1
  <2>5. P[i + 1] <= R[i + 1]
    <3> DEFINE x == small[i + 1]
               y == large[i + 1]
               a == AlignUp(P[i])
               b == AlignUp(R[i])
               p == P[i]
               r == R[i]
    <3>1. /\ x \in Nat /\ y \in Nat /\ x <= y /\ a \in Nat /\ b \in Nat /\ a <= b
          /\ p \in Nat /\ r \in Nat /\ p <= r /\ r <= b
      BY <2>1, <2>2, <2>3
    <3>2. /\ P[i + 1] = IF x = 0 THEN p ELSE a + x
          /\ R[i + 1] = IF y = 0 THEN r ELSE b + y
      BY <2>4
    <3> HIDE DEF x, y, a, b, p, r
    <3>3. (IF x = 0 THEN p ELSE a + x) <= (IF y = 0 THEN r ELSE b + y)
      BY <3>1
    <3> QED BY <3>2, <3>3
  <2> QED BY <2>1, <2>5
<1> HIDE DEF T
<1>6. n \in T
  <2>1. \A i \in 0 .. n : i \in T
    BY <1>3, <1>4, <1>5, InductionUpTo
  <2> QED BY <1>3, <2>1
<1> QED BY <1>1, <1>2, <1>6 DEF T

\* The arrays of a step, against what create() reserved for each.
LEMMA ExecuteModelFits ==
    ASSUME SchedInv, BudgetSpent, ExecuteModel, scheduled # <<>>
    PROVE  UploadFits'
<1> DEFINE n == Len(scheduled)
           tokens == NumTokens(scheduled)
           stride == MaxNumBlocks(scheduled)
           longest == LongestTable(MaxModelLen, BlockSize)
           S == SamplingRequestIndices(scheduled)
           m == Len(S)
           used == <<tokens, tokens, tokens, n + 1, n, n * stride, m, m * SampleParamsSize>>
           kept == <<MaxNumScheduledTokens, MaxNumScheduledTokens, MaxNumScheduledTokens,
                     MaxNumSeqs + 1, MaxNumSeqs, MaxNumSeqs * longest, MaxNumSeqs,
                     MaxNumSeqs * SampleParamsSize>>
<1>1. /\ phase = "scheduled" /\ inputs' = PrepareModelInput(scheduled, BlockSize)
  BY DEF ExecuteModel, RunModel
<1>2. /\ scheduled \in Batches /\ scheduled \in Seq(ScheduledRequests)
      /\ n = Len(running) /\ n \in Nat
  BY <1>1, StepEntries DEF Batches
<1>3. tokens \in Nat /\ tokens <= MaxNumScheduledTokens /\ n <= tokens
  <2>1. tokens \in Nat /\ n <= tokens
    BY <1>2, NumTokensType, TokensForEveryEntry
  <2>2. tokenBudget + tokens = MaxNumScheduledTokens /\ tokenBudget \in Nat
    BY <1>1 DEF BudgetSpent, SchedInv, LocalTypeOK
  <2> HIDE DEF tokens, n
  <2> QED BY <2>1, <2>2, TokenBudgetAssumption
<1>4. n <= MaxNumSeqs
  BY <1>2 DEF SchedInv, RunningBounded
<1>5. stride \in Nat /\ stride <= longest /\ longest \in Nat
  <2>1. /\ longest \in Nat
        /\ \A i \in 1 .. n : Len(scheduled[i].blocks) <= longest
    <3>1. 1 \in 1 .. n
      BY <1>2
    <3> QED BY <1>1, <3>1, TablesBounded
  <2> HIDE DEF longest, stride
  <2>2. MaxNumBlocks(scheduled) \in 0 .. longest
    BY <1>2, <2>1, StrideIsLargest
  <2> QED BY <2>1, <2>2 DEF stride
<1>6. S \in Seq(Nat) /\ m \in Nat /\ m <= n
  <2>1. S \in Seq(Nat) /\ m <= n
    BY <1>2, SamplingIndices
  <2> HIDE DEF S
  <2> QED BY <2>1
<1>7. /\ inputs'.seqLens = SeqLens(scheduled)
      /\ inputs'.queryStartLoc = QueryStartLoc(scheduled)
      /\ inputs'.blockTableStride = stride
      /\ inputs'.logitsIndices = LogitsIndices(scheduled)
  BY <1>1 DEF PrepareModelInput
<1>8. DOMAIN inputs'.seqLens = 0 .. n - 1 /\ Cardinality(0 .. n - 1) = n
  <2>1. DOMAIN inputs'.seqLens = 0 .. n - 1
    BY <1>7 DEF SeqLens
  <2>2. n > 0
    BY <1>2
  <2> HIDE DEF n
  <2>3. Cardinality(0 .. n - 1) = n
    <3> DEFINE top == n - 1
    <3>1. 0 \in Int /\ top \in Int /\ ~(0 > top) /\ top - 0 + 1 = n
      BY <1>2, <2>2
    <3> HIDE DEF top
    <3>2. Cardinality(0 .. top) = IF 0 > top THEN 0 ELSE top - 0 + 1
      BY <3>1, FS_Interval
    <3>3. Cardinality(0 .. top) = n
      BY <3>1, <3>2
    <3> QED BY <3>3 DEF top
  <2> QED BY <2>1, <2>3
<1>9. inputs'.queryStartLoc[n] = tokens
  BY <1>7 DEF NumTokens
<1>10. Len(inputs'.logitsIndices) = m
  <2>1. LogitsIndices(scheduled) = [k \in DOMAIN S |-> LastTokenOf(scheduled, S[k])]
    BY Zenon DEF LogitsIndices
  <2> HIDE DEF S
  <2>2. DOMAIN S = 1 .. m
    BY <1>6
  <2>3. LogitsIndices(scheduled) \in [1 .. m -> {LastTokenOf(scheduled, S[k]) : k \in 1 .. m}]
    BY <2>1, <2>2
  <2> HIDE DEF m
  <2>4. Len(LogitsIndices(scheduled)) = m
    BY <1>6, <2>3
  <2> QED BY <1>7, <2>4
<1>11. Uploaded(inputs', n) = used
  BY <1>7, <1>9, <1>10 DEF Uploaded
<1>12. Reserved(MaxNumScheduledTokens, MaxNumSeqs, MaxModelLen, BlockSize) = kept
  BY Zenon DEF Reserved
<1>13. /\ MaxNumSeqs \in Nat /\ MaxNumScheduledTokens \in Nat
       /\ n * stride \in Nat /\ MaxNumSeqs * longest \in Nat
       /\ n * stride <= MaxNumSeqs * longest
  <2> HIDE DEF n, stride, longest
  <2>1. MaxNumSeqs \in Nat /\ MaxNumScheduledTokens \in Nat
    BY MaxNumSeqsAssumption, TokenBudgetAssumption
  <2>2. n * stride <= n * longest /\ n * longest <= MaxNumSeqs * longest
    BY <1>2, <1>4, <1>5, <2>1
  <2>3. n * stride \in Nat /\ n * longest \in Nat /\ MaxNumSeqs * longest \in Nat
    BY <1>2, <1>5, <2>1
  <2> DEFINE a == n * stride
             b == n * longest
             c == MaxNumSeqs * longest
  <2>4. a <= b /\ b <= c /\ a \in Nat /\ b \in Nat /\ c \in Nat
    BY <2>2, <2>3
  <2> HIDE DEF a, b, c
  <2>5. a <= c
    BY <2>4
  <2> QED BY <2>1, <2>3, <2>5 DEF a, c
<1>14. /\ used \in Seq(Nat) /\ kept \in Seq(Nat) /\ Len(used) = 8 /\ Len(kept) = 8
       /\ DOMAIN kept = 1 .. 8
       /\ \A i \in 1 .. 8 : used[i] <= kept[i]
  <2> DEFINE area == n * stride
             most == MaxNumSeqs * longest
  <2>1. area \in Nat /\ most \in Nat /\ area <= most
    BY <1>13
  <2> HIDE DEF n, tokens, m, area, most
  <2>2. /\ m * SampleParamsSize \in Nat /\ MaxNumSeqs * SampleParamsSize \in Nat
        /\ m * SampleParamsSize <= MaxNumSeqs * SampleParamsSize
    BY <1>2, <1>4, <1>6, <1>13 DEF SampleParamsSize
  <2>3. /\ tokens <= MaxNumScheduledTokens /\ n + 1 <= MaxNumSeqs + 1 /\ n <= MaxNumSeqs
        /\ area <= most /\ m <= MaxNumSeqs
        /\ n + 1 \in Nat /\ MaxNumSeqs + 1 \in Nat
    BY <1>2, <1>3, <1>4, <1>6, <1>13, <2>1
  <2>4. /\ used = <<tokens, tokens, tokens, n + 1, n, area, m, m * SampleParamsSize>>
        /\ kept = <<MaxNumScheduledTokens, MaxNumScheduledTokens, MaxNumScheduledTokens,
                    MaxNumSeqs + 1, MaxNumSeqs, most, MaxNumSeqs,
                    MaxNumSeqs * SampleParamsSize>>
    BY DEF area, most
  <2> DEFINE p == m * SampleParamsSize
             q == MaxNumSeqs * SampleParamsSize
             n1 == n + 1
             s1 == MaxNumSeqs + 1
  <2>5. /\ p \in Nat /\ q \in Nat /\ p <= q /\ n1 <= s1 /\ n1 \in Nat /\ s1 \in Nat
    BY <2>2, <2>3
  <2>6. /\ used = <<tokens, tokens, tokens, n1, n, area, m, p>>
        /\ kept = <<MaxNumScheduledTokens, MaxNumScheduledTokens, MaxNumScheduledTokens,
                    s1, MaxNumSeqs, most, MaxNumSeqs, q>>
    BY <2>4
  <2> HIDE DEF p, q, n1, s1, used, kept
  <2>7. used \in Seq(Nat) /\ kept \in Seq(Nat) /\ Len(used) = 8 /\ Len(kept) = 8
    BY <1>2, <1>3, <1>6, <1>13, <2>1, <2>5, <2>6
  <2>8. ASSUME NEW i \in 1 .. 8 PROVE used[i] <= kept[i]
    <3>1. i = 1 \/ i = 2 \/ i = 3 \/ i = 4 \/ i = 5 \/ i = 6 \/ i = 7 \/ i = 8
      OBVIOUS
    <3> QED BY <2>3, <2>5, <2>6, <3>1
  <2> QED BY <2>7, <2>8
<1> HIDE DEF used, kept, n, tokens
<1>15. PackedSize(used) <= PackedSize(kept)
  BY <1>14, PackedSizeGrows
<1>16. SampledOverTokenIds(inputs', n)
  <2>1. m <= tokens
    BY <1>2, <1>3, <1>6
  <2> QED BY <1>9, <1>10, <2>1 DEF SampledOverTokenIds
<1> HIDE DEF m
<1>17. StepRequests' = 0 .. n - 1 /\ Cardinality(StepRequests') = n
  BY <1>8 DEF StepRequests
<1>18. /\ PackedSize(Uploaded(inputs', n)) <=
             PackedSize(Reserved(MaxNumScheduledTokens, MaxNumSeqs, MaxModelLen, BlockSize))
       /\ \A array \in DOMAIN Reserved(MaxNumScheduledTokens, MaxNumSeqs, MaxModelLen, BlockSize) :
             Uploaded(inputs', n)[array] <=
                Reserved(MaxNumScheduledTokens, MaxNumSeqs, MaxModelLen, BlockSize)[array]
  BY <1>11, <1>12, <1>14, <1>15
<1> QED BY <1>16, <1>17, <1>18, Zenon DEF UploadFits

LEMMA FitsStep ==
    ASSUME SchedInv, BudgetSpent, UploadFits, [ExecNext]_execVars
    PROVE  UploadFits'
<1>1. ASSUME UNCHANGED inputs PROVE UploadFits'
  BY <1>1 DEF UploadFits, StepRequests, Uploaded, SampledOverTokenIds
<1>2. ASSUME inputs' = NoInput PROVE UploadFits'
  <2>1. StepRequests' = {}
    BY <1>2 DEF StepRequests, NoInput
  <2> QED BY <2>1 DEF UploadFits
<1>3. CASE ExecuteModel
  <2>1. CASE scheduled = <<>>
    BY <1>1, <1>3, <2>1 DEF ExecuteModel
  <2>2. CASE scheduled # <<>>
    BY <1>3, <2>2, ExecuteModelFits
  <2> QED BY <2>1, <2>2
<1>4. HostStep \/ UNCHANGED execVars => UNCHANGED inputs
  BY DEF HostStep, execVars
<1>5. ASSUME NEW id \in Ids, NEW promptLen \in PromptLens, NEW outputLen \in OutputLens,
             ExecAddRequest(id, promptLen, outputLen)
      PROVE  UNCHANGED inputs
  BY <1>5 DEF ExecAddRequest
<1>6. ASSUME NEW stop \in BOOLEAN, ExecUpdateToken(stop) PROVE UNCHANGED inputs
  BY <1>6 DEF ExecUpdateToken
<1>7. ExecEndUpdate => inputs' = NoInput
  BY DEF ExecEndUpdate
<1> QED BY <1>1, <1>2, <1>3, <1>4, <1>5, <1>6, <1>7 DEF ExecNext

\* No step has more tokens, requests or block table entries than create() sized
\* the batch buffer, the activations and the logits for (batch_buffer.cpp,
\* workspace.cpp), and the sampled tokens overwrite nothing still needed.
THEOREM ExecUploadFits == ExecSpec => []UploadFits
<1>1. ExecInit => BudgetSpent
  BY DEF ExecInit, SchedInit, BudgetSpent
<1>2. ExecInit => UploadFits
  <2> SUFFICES ASSUME ExecInit PROVE UploadFits
    OBVIOUS
  <2>1. StepRequests = {}
    BY DEF ExecInit, StepRequests, NoInput
  <2> QED BY <2>1 DEF UploadFits
<1>3. SchedInv /\ SchedInv' /\ BudgetSpent /\ [ExecNext]_execVars => BudgetSpent'
  BY BudgetStep
<1>4. SchedInv /\ BudgetSpent /\ UploadFits /\ [ExecNext]_execVars => UploadFits'
  BY FitsStep
<1> QED BY <1>1, <1>2, <1>3, <1>4, ExecImplementsScheduler, SchedInvariant, PTL
     DEF ExecSpec

-----------------------------------------------------------------------------
(* The attention grid: the tiles of a request start after those of the      *)
(* request before, so the binary search finds the owner of a tile, and the  *)
(* rows of a tile are masked to what each of them may see.                  *)

\* What the kernel is given for n requests: each has tokens to compute, after
\* those that are in its cache.
Batched(input, n) ==
    /\ n \in Nat \ {0}
    /\ DOMAIN input.seqLens = 0 .. n - 1
    /\ \A r \in 0 .. n : input.queryStartLoc[r] \in Nat
    /\ input.queryStartLoc[0] = 0
    /\ \A r \in 0 .. n - 1 :
          /\ input.seqLens[r] \in Nat
          /\ QueryLen(input, r) \in 1 .. input.seqLens[r]

LEMMA Sizes ==
    /\ GroupSize \in Nat /\ GroupSize > 0 /\ WarpRows \in Nat /\ WarpRows > 0
    /\ TileRows \in Nat /\ TileRows > 0 /\ TileKeys \in Nat /\ TileKeys > 0
BY GroupSizeAssumption, WarpRowsAssumption, TileRowsAssumption, TileKeysAssumption

LEMMA CountOfRequests ==
    ASSUME NEW input, NEW n, Batched(input, n)
    PROVE  NumSeqs(input) = n
<1>1. Cardinality(0 .. n - 1) = n
  <2>1. n \in Nat /\ n - 1 \in Int /\ 0 \in Int
    BY DEF Batched
  <2>2. Cardinality(0 .. n - 1) = IF 0 > n - 1 THEN 0 ELSE (n - 1) - 0 + 1
    BY <2>1, FS_Interval
  <2> QED BY <2>1, <2>2
<1> QED BY <1>1 DEF NumSeqs, Batched

\* The grid has a tile for all the rows of a request before the first tile of
\* the next one.
LEMMA TilesOfRequest ==
    ASSUME NEW input, NEW n, Batched(input, n), NEW r \in 0 .. n - 1
    PROVE  /\ FirstTile(input, r) \in Nat /\ FirstTile(input, r + 1) \in Nat
           /\ QueryLen(input, r) * GroupSize \in Nat
           /\ FirstTile(input, r) + (QueryLen(input, r) * GroupSize) \div TileRows + 1
                 <= FirstTile(input, r + 1)
<1> DEFINE p == input.queryStartLoc[r]
           q == input.queryStartLoc[r + 1]
           len == QueryLen(input, r)
           a == p * GroupSize
           b == len * GroupSize
           c == q * GroupSize
<1>1. p \in Nat /\ q \in Nat /\ r \in Nat /\ len \in Nat /\ q = p + len
  <2>1. r \in 0 .. n /\ r + 1 \in 0 .. n
    BY DEF Batched
  <2>2. p \in Nat /\ q \in Nat
    BY <2>1 DEF Batched
  <2>3. len \in Nat /\ len = q - p
    BY DEF Batched, QueryLen
  <2> HIDE DEF p, q, len
  <2> QED BY <2>2, <2>3
<1>2. FirstTile(input, r) = a \div TileRows + r
  BY DEF FirstTile
<1>3. FirstTile(input, r + 1) = c \div TileRows + (r + 1)
  BY DEF FirstTile
<1> HIDE DEF p, q, len
<1>4. a \in Nat /\ b \in Nat /\ c = a + b
  BY <1>1, Sizes
<1> HIDE DEF a, b, c
<1>5. (a \div TileRows) + (b \div TileRows) <= (a + b) \div TileRows
  BY <1>4, Sizes, QuotientOfSum
<1>6. a \div TileRows \in Nat /\ b \div TileRows \in Nat /\ (a + b) \div TileRows \in Nat
  <2>1. a \in Nat /\ b \in Nat /\ a + b \in Nat /\ TileRows \in Nat \ {0}
    BY <1>4, Sizes
  <2> QED BY <2>1, Quotient
<1>7. b = QueryLen(input, r) * GroupSize
  BY DEF b, len
<1> DEFINE x == a \div TileRows
           y == b \div TileRows
           z == (a + b) \div TileRows
<1> HIDE DEF x, y, z
<1>8. x + r \in Nat /\ z + (r + 1) \in Nat /\ x + r + y + 1 <= z + (r + 1)
  <2>1. x \in Nat /\ y \in Nat /\ z \in Nat /\ x + y <= z
    BY <1>5, <1>6 DEF x, y, z
  <2> QED BY <2>1, <1>1
<1> QED BY <1>2, <1>3, <1>4, <1>7, <1>8 DEF x, y, z

LEMMA TilesGrow ==
    ASSUME NEW input, NEW n, Batched(input, n)
    PROVE  /\ \A r \in 0 .. n : FirstTile(input, r) \in Nat
           /\ FirstTile(input, 0) = 0
           /\ \A i, j \in 0 .. n : i < j => FirstTile(input, i) < FirstTile(input, j)
           /\ NumTiles(input) = FirstTile(input, n)
<1> DEFINE f == [r \in 0 .. n |-> FirstTile(input, r)]
<1>1. n \in Nat \ {0}
  BY DEF Batched
<1>2. \A r \in 0 .. n - 1 : /\ FirstTile(input, r) \in Nat /\ FirstTile(input, r + 1) \in Nat
                            /\ FirstTile(input, r) < FirstTile(input, r + 1)
  <2> SUFFICES ASSUME NEW r \in 0 .. n - 1
               PROVE  /\ FirstTile(input, r) \in Nat /\ FirstTile(input, r + 1) \in Nat
                      /\ FirstTile(input, r) < FirstTile(input, r + 1)
    OBVIOUS
  <2> DEFINE y == (QueryLen(input, r) * GroupSize) \div TileRows
  <2>1. /\ FirstTile(input, r) \in Nat /\ FirstTile(input, r + 1) \in Nat
        /\ QueryLen(input, r) * GroupSize \in Nat
        /\ FirstTile(input, r) + y + 1 <= FirstTile(input, r + 1)
    BY TilesOfRequest
  <2>2. y \in Nat
    <3>1. TileRows \in Nat \ {0}
      BY Sizes
    <3> QED BY <2>1, <3>1, Quotient
  <2> HIDE DEF y
  <2> QED BY <2>1, <2>2
<1>3. \A r \in 0 .. n : FirstTile(input, r) \in Nat
  <2> SUFFICES ASSUME NEW r \in 0 .. n PROVE FirstTile(input, r) \in Nat
    OBVIOUS
  <2>1. CASE r = n
    <3>1. n - 1 \in 0 .. n - 1 /\ (n - 1) + 1 = r
      BY <1>1, <2>1
    <3> QED BY <1>2, <3>1
  <2>2. CASE r # n
    <3>1. r \in 0 .. n - 1
      BY <1>1, <2>2
    <3> QED BY <1>2, <3>1
  <2> QED BY <2>1, <2>2
<1>4. \A i, j \in 0 .. n : i < j => f[i] < f[j]
  <2>1. \A i \in 0 .. n : f[i] \in Nat
    BY <1>3
  <2>2. \A i \in 0 .. n - 1 : f[i] < f[i + 1]
    <3>1. \A i \in 0 .. n - 1 : i \in 0 .. n /\ i + 1 \in 0 .. n
      BY <1>1
    <3> QED BY <1>2, <3>1
  <2>3. n \in Nat
    BY <1>1
  <2> HIDE DEF f
  <2> QED BY <2>1, <2>2, <2>3, Growing
<1>5. \A i, j \in 0 .. n : i < j => FirstTile(input, i) < FirstTile(input, j)
  BY <1>4
<1>6. FirstTile(input, 0) = 0
  <2>1. input.queryStartLoc[0] = 0
    BY DEF Batched
  <2>2. 0 * GroupSize = 0 /\ 0 \div TileRows = 0
    BY Sizes
  <2> QED BY <2>1, <2>2 DEF FirstTile
<1>7. NumTiles(input) = FirstTile(input, n)
  BY CountOfRequests DEF NumTiles, FirstTile
<1> QED BY <1>3, <1>5, <1>6, <1>7

\* A tile belongs to one request: the last that starts no later.
OwnsTile(input, r, tile) ==
    FirstTile(input, r) <= tile /\ tile < FirstTile(input, r + 1)

LEMMA OwnerOfTile ==
    ASSUME NEW input, NEW n, Batched(input, n), NEW tile \in Nat,
           NEW r \in 0 .. n - 1, OwnsTile(input, r, tile),
           NEW i \in 0 .. n - 1, OwnsTile(input, i, tile)
    PROVE  r = i
<1>1. n \in Nat /\ r \in 0 .. n /\ i \in 0 .. n /\ r + 1 \in 0 .. n /\ i + 1 \in 0 .. n
  BY DEF Batched
<1>2. ASSUME NEW j \in 0 .. n - 1, NEW k \in 0 .. n - 1, j < k,
             OwnsTile(input, j, tile), OwnsTile(input, k, tile)
      PROVE  FALSE
  <2>1. j + 1 \in 0 .. n /\ k \in 0 .. n /\ (j + 1 = k \/ j + 1 < k)
    BY <1>1, <1>2
  <2>2. FirstTile(input, j + 1) <= FirstTile(input, k)
    <3>1. FirstTile(input, j + 1) \in Nat /\ FirstTile(input, k) \in Nat
      BY <2>1, TilesGrow
    <3>2. j + 1 < k => FirstTile(input, j + 1) < FirstTile(input, k)
      BY <2>1, TilesGrow
    <3> QED BY <2>1, <3>1, <3>2
  <2>3. FirstTile(input, j + 1) \in Nat /\ FirstTile(input, k) \in Nat
    BY <2>1, TilesGrow
  <2>4. tile < FirstTile(input, j + 1) /\ FirstTile(input, k) <= tile
    BY <1>2 DEF OwnsTile
  <2> QED BY <2>2, <2>3, <2>4
<1>3. ~(r < i) /\ ~(i < r)
  BY <1>2
<1> QED BY <1>1, <1>3

\* The last of some requests that starts no later than a tile.
LastStarted(input, lo, hi, tile) ==
    CHOOSE r \in lo .. hi - 1 :
        /\ r = lo \/ FirstTile(input, r) <= tile
        /\ \A i \in r + 1 .. hi - 1 : FirstTile(input, i) > tile

LEMMA LastStartedExists ==
    ASSUME NEW input, NEW n, Batched(input, n), NEW tile \in Nat,
           NEW lo \in 0 .. n, NEW hi \in 0 .. n, lo < hi
    PROVE  LET r == LastStarted(input, lo, hi, tile)
           IN  /\ r \in lo .. hi - 1
               /\ r = lo \/ FirstTile(input, r) <= tile
               /\ \A i \in r + 1 .. hi - 1 : FirstTile(input, i) > tile
<1> DEFINE T == {r \in lo .. hi - 1 : r = lo \/ FirstTile(input, r) <= tile}
<1>1. T \in SUBSET (0 .. n) /\ T # {} /\ n \in Nat
  <2>1. lo \in T /\ n \in Nat
    BY DEF Batched
  <2> QED BY <2>1
<1>2. PICK r \in T : \A i \in T : r >= i
  <2> HIDE DEF T
  <2> QED BY <1>1, LargestUpTo
<1>3. /\ r \in lo .. hi - 1
      /\ r = lo \/ FirstTile(input, r) <= tile
  BY <1>2
<1>4. ASSUME NEW i \in r + 1 .. hi - 1 PROVE FirstTile(input, i) > tile
  <2>1. i \in lo .. hi - 1 /\ i \in 0 .. n /\ r \in Nat /\ i \in Nat /\ r < i
    BY <1>1, <1>3
  <2>3. i \notin T
    <3> HIDE DEF T
    <3> QED BY <1>2, <2>1
  <2>2. FirstTile(input, i) \in Nat
    BY <2>1, TilesGrow
  <2> QED BY <2>1, <2>2, <2>3
<1> HIDE DEF T
<1> QED BY <1>3, <1>4 DEF LastStarted

LEMMA Middle ==
    ASSUME NEW lo \in Nat, NEW hi \in Nat, lo + 1 < hi
    PROVE  /\ (lo + hi) \div 2 \in Nat
           /\ lo < (lo + hi) \div 2 /\ (lo + hi) \div 2 < hi
OBVIOUS

\* The binary search finds the owner of every tile.
LEMMA SearchFinds ==
    ASSUME NEW input, NEW n, Batched(input, n), NEW tile \in 0 .. NumTiles(input) - 1
    PROVE  /\ SearchRequest(input, tile) \in 0 .. n - 1
           /\ OwnsTile(input, SearchRequest(input, tile), tile)
<1> DEFINE Solves(search) ==
               search = [range \in (0 .. NumSeqs(input)) \X (0 .. NumSeqs(input)) |->
                   LET lo  == range[1]
                       hi  == range[2]
                       mid == (lo + hi) \div 2
                   IN  IF lo + 1 >= hi THEN lo
                       ELSE IF FirstTile(input, mid) <= tile THEN search[<<mid, hi>>]
                       ELSE search[<<lo, mid>>]]
           g == [range \in (0 .. n) \X (0 .. n) |->
                   IF range[1] + 1 >= range[2] THEN range[1]
                   ELSE LastStarted(input, range[1], range[2], tile)]
<1>1. NumSeqs(input) = n /\ n \in Nat \ {0}
  BY CountOfRequests DEF Batched
<1>2. /\ tile \in Nat /\ tile < FirstTile(input, n)
      /\ \A r \in 0 .. n : FirstTile(input, r) \in Nat
      /\ \A i, j \in 0 .. n : i < j => FirstTile(input, i) < FirstTile(input, j)
      /\ FirstTile(input, 0) = 0
  <2>1. /\ NumTiles(input) = FirstTile(input, n)
        /\ \A r \in 0 .. n : FirstTile(input, r) \in Nat
        /\ \A i, j \in 0 .. n : i < j => FirstTile(input, i) < FirstTile(input, j)
        /\ FirstTile(input, 0) = 0
    BY TilesGrow
  <2>2. FirstTile(input, n) \in Nat
    BY <1>1, <2>1
  <2> QED BY <2>1, <2>2
<1>3. ASSUME NEW lo \in 0 .. n, NEW hi \in 0 .. n, ~(lo + 1 >= hi),
             NEW mid, mid = (lo + hi) \div 2
      PROVE  /\ mid \in 0 .. n
             /\ LastStarted(input, lo, hi, tile) =
                   IF FirstTile(input, mid) <= tile
                   THEN IF mid + 1 >= hi THEN mid ELSE LastStarted(input, mid, hi, tile)
                   ELSE IF lo + 1 >= mid THEN lo ELSE LastStarted(input, lo, mid, tile)
  <2>1. mid \in 0 .. n /\ lo < mid /\ mid < hi /\ lo \in Nat /\ hi \in Nat /\ mid \in Nat
    BY <1>1, <1>3, Middle
  <2> DEFINE r == LastStarted(input, lo, hi, tile)
             a == LastStarted(input, mid, hi, tile)
             b == LastStarted(input, lo, mid, tile)
             Is(k, l, h) == /\ k \in l .. h - 1
                            /\ k = l \/ FirstTile(input, k) <= tile
                            /\ \A i \in k + 1 .. h - 1 : FirstTile(input, i) > tile
  <2>2. Is(r, lo, hi) /\ Is(a, mid, hi) /\ Is(b, lo, mid)
    BY <1>2, <2>1, LastStartedExists
  <2>3. ASSUME NEW x, NEW y, Is(x, lo, hi), Is(y, lo, hi) PROVE x = y
    <3>1. ASSUME NEW u, NEW v, Is(u, lo, hi), Is(v, lo, hi), u < v PROVE FALSE
      <4>4. u \in lo .. hi - 1 /\ v \in lo .. hi - 1
        BY <3>1
      <4>1. v \in u + 1 .. hi - 1 /\ v # lo /\ v \in 0 .. n
        BY <1>1, <2>1, <3>1, <4>4
      <4>2. FirstTile(input, v) > tile /\ FirstTile(input, v) <= tile
        BY <3>1, <4>1
      <4>3. FirstTile(input, v) \in Nat
        BY <1>2, <4>1
      <4> QED BY <1>2, <4>2, <4>3
    <3>2. ~(x < y) /\ ~(y < x)
      <4> HIDE DEF Is
      <4> QED BY <2>3, <3>1
    <3>3. x \in lo .. hi - 1 /\ y \in lo .. hi - 1
      BY <2>3
    <3> QED BY <2>1, <3>2, <3>3
  <2>4. ASSUME FirstTile(input, mid) <= tile
        PROVE  r = IF mid + 1 >= hi THEN mid ELSE a
    <3>1. Is(a, lo, hi)
      BY <2>1, <2>2, <2>4
    <3>2. mid + 1 >= hi => a = mid
      BY <2>1, <2>2
    <3>3. r = a
      BY <2>2, <2>3, <3>1
    <3> QED BY <3>2, <3>3
  <2>5. ASSUME ~(FirstTile(input, mid) <= tile)
        PROVE  r = IF lo + 1 >= mid THEN lo ELSE b
    <3>1. \A i \in mid .. hi - 1 : FirstTile(input, i) > tile
      <4> SUFFICES ASSUME NEW i \in mid .. hi - 1 PROVE FirstTile(input, i) > tile
        OBVIOUS
      <4>1. i \in 0 .. n /\ (i = mid \/ mid < i)
        BY <1>1, <2>1
      <4>2. FirstTile(input, i) \in Nat /\ FirstTile(input, mid) \in Nat
        BY <1>2, <2>1, <4>1
      <4>3. mid < i => FirstTile(input, mid) < FirstTile(input, i)
        BY <1>2, <2>1, <4>1
      <4> QED BY <1>2, <2>5, <4>1, <4>2, <4>3
    <3>2. Is(b, lo, hi)
      <4>1. b \in lo .. hi - 1 /\ (b = lo \/ FirstTile(input, b) <= tile)
        BY <2>1, <2>2
      <4>2. ASSUME NEW i \in b + 1 .. hi - 1 PROVE FirstTile(input, i) > tile
        <5>1. i \in b + 1 .. mid - 1 \/ i \in mid .. hi - 1
          BY <2>1, <4>1
        <5> QED BY <2>2, <3>1, <5>1
      <4> QED BY <4>1, <4>2
    <3>3. lo + 1 >= mid => b = lo
      BY <2>1, <2>2
    <3>4. r = b
      BY <2>2, <2>3, <3>2
    <3> QED BY <3>3, <3>4
  <2> HIDE DEF r, a, b, Is
  <2> QED BY <2>1, <2>4, <2>5 DEF r, a, b
<1>4. Solves(g)
  <2>1. ASSUME NEW lo \in 0 .. n, NEW hi \in 0 .. n, NEW mid, mid = (lo + hi) \div 2
        PROVE  g[<<lo, hi>>] = IF lo + 1 >= hi THEN lo
                               ELSE IF FirstTile(input, mid) <= tile THEN g[<<mid, hi>>]
                               ELSE g[<<lo, mid>>]
    <3>1. g[<<lo, hi>>] = IF lo + 1 >= hi THEN lo ELSE LastStarted(input, lo, hi, tile)
      OBVIOUS
    <3>2. CASE lo + 1 >= hi
      BY <3>1, <3>2
    <3>3. CASE ~(lo + 1 >= hi)
      <4>1. /\ mid \in 0 .. n
            /\ LastStarted(input, lo, hi, tile) =
                     IF FirstTile(input, mid) <= tile
                     THEN IF mid + 1 >= hi THEN mid ELSE LastStarted(input, mid, hi, tile)
                     ELSE IF lo + 1 >= mid THEN lo ELSE LastStarted(input, lo, mid, tile)
        BY <1>3, <2>1, <3>3
      <4>2. /\ g[<<mid, hi>>] = IF mid + 1 >= hi THEN mid ELSE LastStarted(input, mid, hi, tile)
            /\ g[<<lo, mid>>] = IF lo + 1 >= mid THEN lo ELSE LastStarted(input, lo, mid, tile)
        BY <4>1
      <4> HIDE DEF g
      <4> QED BY <3>1, <3>3, <4>1, <4>2
    <3> QED BY <3>2, <3>3
  <2>2. g = [range \in (0 .. n) \X (0 .. n) |-> g[range]]
    OBVIOUS
  <2> HIDE DEF g
  <2>3. ASSUME NEW range \in (0 .. n) \X (0 .. n)
        PROVE  g[range] =
                  LET lo  == range[1]
                      hi  == range[2]
                      mid == (lo + hi) \div 2
                  IN  IF lo + 1 >= hi THEN lo
                      ELSE IF FirstTile(input, mid) <= tile THEN g[<<mid, hi>>]
                      ELSE g[<<lo, mid>>]
    <3>1. range[1] \in 0 .. n /\ range[2] \in 0 .. n /\ range = <<range[1], range[2]>>
      OBVIOUS
    <3> QED BY <2>1, <3>1
  <2> QED BY <1>1, <2>2, <2>3
<1> DEFINE search == CHOOSE f : Solves(f)
<1>5. SearchRequest(input, tile) = search[<<0, n>>]
  BY <1>1, Zenon DEF SearchRequest
<1>6. Solves(search)
  <2> HIDE DEF Solves, g
  <2> QED BY <1>4
<1>7. ASSUME NEW lo \in 0 .. n, NEW hi \in 0 .. n, NEW mid, mid = (lo + hi) \div 2
      PROVE  search[<<lo, hi>>] =
                IF lo + 1 >= hi THEN lo
                ELSE IF FirstTile(input, mid) <= tile THEN search[<<mid, hi>>]
                ELSE search[<<lo, mid>>]
  <2> HIDE DEF search
  <2> QED BY <1>1, <1>6, <1>7
<1> HIDE DEF search, Solves, g
\* What the search keeps: the owner lies between lo and hi.
<1> DEFINE Finds(lo, hi) == /\ search[<<lo, hi>>] \in 0 .. n - 1
                            /\ OwnsTile(input, search[<<lo, hi>>], tile)
           T == {d \in 0 .. n : \A lo, hi \in 0 .. n :
                    /\ lo < hi /\ hi - lo <= d
                    /\ FirstTile(input, lo) <= tile /\ tile < FirstTile(input, hi)
                    => Finds(lo, hi)}
<1>8. 0 \in T
  BY <1>1
<1>9. ASSUME NEW d \in 0 .. (n - 1), d \in T PROVE d + 1 \in T
  <2> SUFFICES ASSUME NEW lo \in 0 .. n, NEW hi \in 0 .. n, lo < hi, hi - lo <= d + 1,
                      FirstTile(input, lo) <= tile, tile < FirstTile(input, hi)
               PROVE  Finds(lo, hi)
    BY <1>1
  <2>1. PICK mid : mid = (lo + hi) \div 2
    OBVIOUS
  <2>2. CASE lo + 1 >= hi
    <3>1. hi = lo + 1 /\ lo \in 0 .. n - 1
      BY <1>1, <2>2
    <3>2. search[<<lo, hi>>] = lo
      BY <1>7, <2>1, <2>2
    <3> QED BY <3>1, <3>2 DEF OwnsTile
  <2>3. CASE ~(lo + 1 >= hi)
    <3>1. lo < mid /\ mid < hi /\ mid \in 0 .. n /\ lo \in Nat /\ hi \in Nat /\ mid \in Nat
      BY <1>1, <2>1, <2>3, Middle
    <3>2. search[<<lo, hi>>] = IF FirstTile(input, mid) <= tile THEN search[<<mid, hi>>]
                               ELSE search[<<lo, mid>>]
      BY <1>7, <2>1, <2>3
    <3>3. FirstTile(input, mid) \in Nat
      BY <1>2, <3>1
    <3>4. d \in Nat /\ hi - mid <= d /\ mid - lo <= d
      BY <3>1
    <3>5. FirstTile(input, mid) <= tile => Finds(mid, hi)
      <4> HIDE DEF Finds
      <4> QED BY <1>9, <3>1, <3>4
    <3>6. ~(FirstTile(input, mid) <= tile) => Finds(lo, mid)
      <4>1. ~(FirstTile(input, mid) <= tile) => tile < FirstTile(input, mid)
        BY <1>2, <3>3
      <4> HIDE DEF Finds
      <4> QED BY <1>9, <3>1, <3>4, <4>1
    <3> QED BY <3>2, <3>5, <3>6
  <2> QED BY <2>2, <2>3
<1> HIDE DEF T, Finds
<1>10. \A d \in 0 .. n : d \in T
  BY <1>1, <1>8, <1>9, InductionUpTo
<1>11. Finds(0, n)
  <2>1. n \in T /\ 0 \in 0 .. n /\ n \in 0 .. n /\ 0 < n /\ n - 0 <= n
    BY <1>1, <1>10
  <2>2. FirstTile(input, 0) <= tile
    BY <1>2
  <2> QED BY <1>2, <2>1, <2>2 DEF T
<1> QED BY <1>5, <1>11 DEF Finds

\* The tile of a request that has a given row.
LEMMA RowInTile ==
    ASSUME NEW input, NEW n, Batched(input, n), NEW r \in 0 .. n - 1,
           NEW row \in 0 .. QueryLen(input, r) * GroupSize - 1
    PROVE  LET tile == FirstTile(input, r) + row \div TileRows
           IN  /\ tile \in 0 .. NumTiles(input) - 1
               /\ SearchRequest(input, tile) = r
               /\ row \in RowsOfTile(input, tile)
<1> DEFINE k == row \div TileRows
           b == QueryLen(input, r) * GroupSize
           first == FirstTile(input, r)
           next == FirstTile(input, r + 1)
           tile == first + k
<1>1. first \in Nat /\ next \in Nat /\ b \in Nat /\ first + (b \div TileRows) + 1 <= next
  BY TilesOfRequest
<1>2. row \in Nat /\ row < b
  BY <1>1
<1>3. TileRows \in Nat \ {0}
  BY Sizes
<1>4. k \in Nat /\ k <= b \div TileRows /\ b \div TileRows \in Nat
      /\ k * TileRows \in Nat /\ k * TileRows <= row /\ row < k * TileRows + TileRows
  <2> HIDE DEF b
  <2>1. k \in Nat /\ k * TileRows \in Nat /\ k * TileRows <= row /\ row < k * TileRows + TileRows
    BY <1>2, <1>3, Quotient
  <2>2. b \div TileRows \in Nat
    BY <1>1, <1>3, Quotient
  <2>3. k <= b \div TileRows
    <3>1. b \in Nat /\ row \in Nat /\ row <= b
      BY <1>1, <1>2
    <3> QED BY <1>3, <3>1, QuotientGrows
  <2> QED BY <2>1, <2>2, <2>3
<1>5. tile \in Nat /\ tile < next /\ first <= tile
  <2> HIDE DEF first, next, b, k
  <2> QED BY <1>1, <1>4
<1>6. tile \in 0 .. NumTiles(input) - 1
  <2>1. n \in Nat /\ r + 1 \in 0 .. n /\ n \in 0 .. n /\ (r + 1 = n \/ r + 1 < n)
    BY DEF Batched
  <2>2. NumTiles(input) = FirstTile(input, n) /\ FirstTile(input, n) \in Nat
    BY <2>1, TilesGrow
  <2>3. r + 1 < n => next < FirstTile(input, n)
    BY <2>1, TilesGrow
  <2> HIDE DEF first, next, tile
  <2>4. r + 1 = n => next = FirstTile(input, n)
    BY DEF next
  <2> QED BY <1>1, <1>5, <2>1, <2>2, <2>3, <2>4
<1> HIDE DEF first, next, k
<1>7. SearchRequest(input, tile) = r
  <2>1. OwnsTile(input, r, tile)
    BY <1>5 DEF OwnsTile, first, next
  <2> HIDE DEF tile
  <2>2. /\ SearchRequest(input, tile) \in 0 .. n - 1
        /\ OwnsTile(input, SearchRequest(input, tile), tile)
    BY <1>6, SearchFinds
  <2> QED BY <1>5, <2>1, <2>2, OwnerOfTile
<1>8. FirstRow(input, tile) = k * TileRows
  <2>1. tile - first = k
    BY <1>1, <1>4
  <2> QED BY <1>7, <2>1 DEF FirstRow, first
<1>9. row \in RowsOfTile(input, tile)
  <2>1. row \in k * TileRows .. k * TileRows + TileRows - 1
    BY <1>2, <1>3, <1>4
  <2>2. row < QueryLen(input, SearchRequest(input, tile)) * GroupSize
    BY <1>2, <1>7
  <2> HIDE DEF tile, b
  <2> QED BY <1>8, <2>1, <2>2 DEF RowsOfTile
<1> QED BY <1>6, <1>7, <1>9 DEF tile, first, k

\* What is known of a row of a tile.
LEMMA RowOfTile ==
    ASSUME NEW input, NEW n, Batched(input, n), NEW tile \in 0 .. NumTiles(input) - 1,
           NEW row \in RowsOfTile(input, tile)
    PROVE  LET r == SearchRequest(input, tile)
               first == FirstRow(input, tile)
           IN  /\ r \in 0 .. n - 1 /\ FirstTile(input, r) <= tile
               /\ first \in Nat /\ row \in Nat
               /\ row \in first .. first + TileRows - 1
               /\ row < QueryLen(input, r) * GroupSize
               /\ row \div TileRows = tile - FirstTile(input, r)
<1> DEFINE r == SearchRequest(input, tile)
           k == tile - FirstTile(input, r)
           first == FirstRow(input, tile)
<1>1. r \in 0 .. n - 1 /\ OwnsTile(input, r, tile)
  BY SearchFinds
<1> HIDE DEF r
<1>2. FirstTile(input, r) \in Nat
  BY <1>1, TilesOfRequest
<1>3. tile \in Nat /\ FirstTile(input, r) <= tile
  BY <1>1 DEF OwnsTile
<1>4. k \in Nat
  BY <1>2, <1>3
<1>5. first = k * TileRows
  BY DEF FirstRow, r
<1> HIDE DEF k
<1>6. TileRows \in Nat \ {0}
  BY Sizes
<1>7. first \in Nat
  BY <1>4, <1>5, <1>6
<1> HIDE DEF first
<1>8. row \in first .. first + TileRows - 1 /\ row < QueryLen(input, r) * GroupSize
  BY DEF RowsOfTile, first, r
<1>9. row \in Nat /\ row - first \in 0 .. TileRows - 1 /\ row = k * TileRows + (row - first)
  BY <1>5, <1>6, <1>7, <1>8
<1>10. row \div TileRows = k
  <2> DEFINE m == row - first
  <2>1. m \in 0 .. TileRows - 1 /\ row = k * TileRows + m
    BY <1>9
  <2> HIDE DEF m
  <2>2. (k * TileRows + m) \div TileRows = k
    BY <1>4, <1>6, <2>1, QuotientAndRest
  <2> QED BY <2>1, <2>2
<1> QED BY <1>1, <1>3, <1>7, <1>8, <1>9, <1>10 DEF r, k, first

LEMMA RowsCovered ==
    ASSUME NEW input, NEW n, Batched(input, n)
    PROVE  TilesCoverRows(input)
<1> SUFFICES ASSUME NEW r \in 0 .. n - 1,
                    NEW row \in 0 .. QueryLen(input, r) * GroupSize - 1
             PROVE  Cardinality({tile \in 0 .. NumTiles(input) - 1 :
                        /\ SearchRequest(input, tile) = r
                        /\ row \in RowsOfTile(input, tile)}) = 1
  BY DEF TilesCoverRows, Batched
<1> DEFINE t == FirstTile(input, r) + row \div TileRows
           S == {tile \in 0 .. NumTiles(input) - 1 :
                    SearchRequest(input, tile) = r /\ row \in RowsOfTile(input, tile)}
<1>1. t \in S
  BY RowInTile
<1>2. ASSUME NEW tile \in S PROVE tile = t
  <2>1. row \div TileRows = tile - FirstTile(input, r)
    BY <1>2, RowOfTile
  <2>2. FirstTile(input, r) \in Nat /\ tile \in Nat
    BY TilesOfRequest
  <2> QED BY <2>1, <2>2
<1> HIDE DEF t
<1>3. S = {t}
  BY <1>1, <1>2
<1> HIDE DEF S
<1>4. Cardinality(S) = 1
  BY <1>3, FS_Singleton
<1> QED BY <1>4 DEF S

LEMMA RowsCausal ==
    ASSUME NEW input, NEW n, Batched(input, n)
    PROVE  RowsSeeTheirPast(input)
<1> SUFFICES ASSUME NEW tile \in 0 .. NumTiles(input) - 1,
                    NEW row \in RowsOfTile(input, tile)
             PROVE  AttendedKeys(input, tile, row) =
                        0 .. PrefixLen(input, SearchRequest(input, tile)) + row \div GroupSize
  BY DEF RowsSeeTheirPast
<1> DEFINE r == SearchRequest(input, tile)
           first == FirstRow(input, tile)
           prefix == PrefixLen(input, r)
           position == prefix + row \div GroupSize
           len == KeyLen(input, tile)
           warp == FirstRowOfWarp(input, tile, row)
           StepOf(key) == (key \div TileKeys) * TileKeys
<1>1. /\ r \in 0 .. n - 1 /\ first \in Nat /\ row \in Nat
      /\ row \in first .. first + TileRows - 1
      /\ row < QueryLen(input, r) * GroupSize
  BY RowOfTile
<1> HIDE DEF r, first
<1>2. /\ GroupSize \in Nat \ {0} /\ TileKeys \in Nat \ {0} /\ WarpRows \in Nat \ {0}
      /\ TileRows \in Nat \ {0}
  BY Sizes
<1>3. /\ QueryLen(input, r) \in Nat /\ input.seqLens[r] \in Nat /\ prefix \in Nat
      /\ prefix + QueryLen(input, r) = input.seqLens[r]
  BY <1>1 DEF Batched, PrefixLen
<1>4. row \div GroupSize \in Nat /\ row \div GroupSize < QueryLen(input, r)
  BY <1>1, <1>2, <1>3, Quotient, QuotientBelow
<1>5. /\ (first + TileRows - 1) \div GroupSize \in Nat
      /\ row \div GroupSize <= (first + TileRows - 1) \div GroupSize
  <2>1. first + TileRows - 1 \in Nat /\ row <= first + TileRows - 1
    BY <1>1, <1>2
  <2> QED BY <1>1, <1>2, <2>1, Quotient, QuotientGrows
<1>6. warp \in Nat /\ warp <= row
  <2>1. row - first \in Nat
    BY <1>1
  <2>2. (row - first) % WarpRows \in Nat /\ (row - first) % WarpRows <= row - first
    <3> DEFINE m == row - first
    <3> HIDE DEF m
    <3>1. m \in Nat
      BY <2>1 DEF m
    <3>2. /\ m % WarpRows \in Nat /\ (m \div WarpRows) * WarpRows \in Nat
          /\ m = (m \div WarpRows) * WarpRows + (m % WarpRows)
      <4>1. WarpRows \in Nat \ {0}
        BY <1>2
      <4>2. /\ m % WarpRows \in 0 .. WarpRows - 1 /\ (m \div WarpRows) * WarpRows \in Nat
            /\ m = (m \div WarpRows) * WarpRows + (m % WarpRows)
        BY <4>1, <3>1, Quotient
      <4>3. \A x \in 0 .. WarpRows - 1 : x \in Nat
        BY <4>1
      <4> QED BY <4>2, <4>3
    <3> DEFINE q == (m \div WarpRows) * WarpRows
    <3> HIDE DEF q
    <3>3. m % WarpRows \in Nat /\ q \in Nat /\ m = q + (m % WarpRows)
      BY <3>2 DEF q
    <3>4. m % WarpRows <= m
      BY <3>1, <3>3
    <3> QED BY <3>2, <3>4 DEF m
  <2>3. warp = row - ((row - first) % WarpRows)
    BY DEF FirstRowOfWarp, first
  <2> HIDE DEF warp
  <2> QED BY <1>1, <2>2, <2>3
<1>7. warp \div GroupSize \in Nat /\ warp \div GroupSize <= row \div GroupSize
  <2> HIDE DEF warp
  <2> QED BY <1>1, <1>2, <1>6, Quotient, QuotientGrows
<1>8. len \in Nat /\ position \in Nat /\ position < len
  <2> DEFINE seen == prefix + (first + TileRows - 1) \div GroupSize + 1
  <2>1. len = IF seen < input.seqLens[r] THEN seen ELSE input.seqLens[r]
    BY DEF KeyLen, r, first
  <2>2. position < seen /\ position < input.seqLens[r] /\ seen \in Nat /\ position \in Nat
    <3> DEFINE x == row \div GroupSize
               y == (first + TileRows - 1) \div GroupSize
    <3> HIDE DEF x, y, prefix
    <3>1. x \in Nat /\ y \in Nat /\ x <= y /\ x < QueryLen(input, r)
      BY <1>4, <1>5 DEF x, y
    <3> QED BY <1>3, <3>1 DEF x, y
  <2> HIDE DEF seen, len, position
  <2> QED BY <1>3, <2>1, <2>2
<1> HIDE DEF warp, len, position, prefix
<1>9. \A key \in Nat : StepOf(key) \in Nat /\ StepOf(key) <= key /\ key < StepOf(key) + TileKeys
  BY <1>2, Quotient
<1> HIDE DEF StepOf
<1>10. AttendedKeys(input, tile, row) =
          {key \in 0 .. StepOf(len - 1) + TileKeys - 1 :
              NeedsMask(input, tile, row, StepOf(key)) => key <= position /\ key < len}
  BY DEF AttendedKeys, StepOf, len, position, prefix, r
<1>11. ASSUME NEW key \in Nat, ~ NeedsMask(input, tile, row, StepOf(key)) PROVE key <= position
  <2>1. ~(prefix + warp \div GroupSize < StepOf(key) + TileKeys)
    BY <1>11 DEF NeedsMask, prefix, warp, r
  <2> DEFINE x == row \div GroupSize
             y == warp \div GroupSize
  <2> HIDE DEF x, y
  <2>2. x \in Nat /\ y \in Nat /\ y <= x
    BY <1>4, <1>7 DEF x, y
  <2>3. ~(prefix + y < StepOf(key) + TileKeys) /\ position = prefix + x
    BY <2>1 DEF x, y, position
  <2> QED BY <1>2, <1>3, <1>9, <2>2, <2>3
<1>12. len - 1 \in Nat /\ len - 1 < StepOf(len - 1) + TileKeys /\ StepOf(len - 1) \in Nat
  <2>1. len - 1 \in Nat
    BY <1>8
  <2> QED BY <1>9, <2>1
<1>13. AttendedKeys(input, tile, row) = 0 .. position
  <2>1. ASSUME NEW key \in AttendedKeys(input, tile, row) PROVE key \in 0 .. position
    <3>1. /\ key \in 0 .. StepOf(len - 1) + TileKeys - 1
          /\ NeedsMask(input, tile, row, StepOf(key)) => key <= position
      BY <1>10, <2>1
    <3>2. key \in Nat
      BY <1>2, <1>12, <3>1
    <3>3. key <= position
      BY <1>11, <3>1, <3>2
    <3> QED BY <1>8, <3>2, <3>3
  <2>2. ASSUME NEW key \in 0 .. position PROVE key \in AttendedKeys(input, tile, row)
    <3>1. key \in Nat /\ key <= position /\ key < len
      BY <1>8
    <3>2. key \in 0 .. StepOf(len - 1) + TileKeys - 1
      BY <1>2, <1>8, <1>12, <3>1
    <3> QED BY <1>10, <3>1, <3>2
  <2> QED BY <2>1, <2>2
<1> QED BY <1>13 DEF position, prefix, r

\* What a step gives the kernel is such an input.
LEMMA PreparedRequests ==
    ASSUME NEW E, NEW batch \in Seq(E), batch # <<>>, NEW blockSize,
           \A i \in 1 .. Len(batch) : batch[i].offset \in Nat /\ batch[i].count \in Nat \ {0}
    PROVE  Batched(PrepareModelInput(batch, blockSize), Len(batch))
<1> DEFINE n == Len(batch)
           Q == QueryStartLoc(batch)
           input == PrepareModelInput(batch, blockSize)
<1>1. n \in Nat \ {0}
  OBVIOUS
<1>2. /\ Q \in [0 .. n -> Nat] /\ Q[0] = 0
      /\ \A i \in 0 .. n - 1 : Q[i + 1] = Q[i] + batch[i + 1].count
  BY StartsOfEntries
<1>3. input.queryStartLoc = Q /\ input.seqLens = SeqLens(batch)
  BY DEF PrepareModelInput
<1> HIDE DEF input, Q, n
<1>4. DOMAIN input.seqLens = 0 .. n - 1
  BY <1>3 DEF SeqLens, n
<1>5. ASSUME NEW r \in 0 .. n - 1
      PROVE  input.seqLens[r] \in Nat /\ QueryLen(input, r) \in 1 .. input.seqLens[r]
  <2>1. r + 1 \in 1 .. n /\ r \in 0 .. n
    BY <1>1
  <2>2. batch[r + 1].offset \in Nat /\ batch[r + 1].count \in Nat \ {0}
    BY <2>1 DEF n
  <2>3. input.seqLens[r] = batch[r + 1].offset + batch[r + 1].count
    BY <1>3 DEF SeqLens, Entry, n
  <2>4. Q[r] \in Nat /\ Q[r + 1] = Q[r] + batch[r + 1].count
    BY <1>2, <2>1
  <2>5. QueryLen(input, r) = Q[r + 1] - Q[r]
    BY <1>3 DEF QueryLen
  <2> QED BY <2>2, <2>3, <2>4, <2>5
<1>6. \A r \in 0 .. n : input.queryStartLoc[r] \in Nat
  BY <1>2, <1>3
<1> QED BY <1>1, <1>2, <1>3, <1>4, <1>5, <1>6 DEF Batched, n, input

\* A step's attention: every row of every query token is computed by one tile,
\* and sees the keys up to its own position and no other.
AttendsCausally ==
    StepRequests # {} => TilesCoverRows(inputs) /\ RowsSeeTheirPast(inputs)

LEMMA CausalStep ==
    ASSUME SchedInv, AttendsCausally, [ExecNext]_execVars PROVE AttendsCausally'
<1>1. CASE ExecuteModel /\ scheduled # <<>>
  <2>1. phase = "scheduled" /\ inputs' = PrepareModelInput(scheduled, BlockSize)
    BY <1>1 DEF ExecuteModel, RunModel
  <2>2. scheduled \in Batches /\ scheduled \in Seq(ScheduledRequests)
    BY <2>1, StepEntries DEF Batches
  <2>3. \A i \in 1 .. Len(scheduled) :
            scheduled[i].offset \in Nat /\ scheduled[i].count \in Nat \ {0}
    <3>1. \A i \in 1 .. Len(scheduled) : scheduled[i] \in ScheduledRequests
      BY <2>2
    <3>2. \A i \in 1 .. Len(scheduled) : scheduled[i].count > 0
      BY <2>2 DEF Batches
    <3> QED BY <3>1, <3>2 DEF ScheduledRequests
  <2>4. Batched(inputs', Len(scheduled))
    BY <1>1, <2>1, <2>2, <2>3, PreparedRequests
  <2> QED BY <2>4, RowsCovered, RowsCausal DEF AttendsCausally
<1>2. CASE UNCHANGED inputs
  BY <1>2 DEF AttendsCausally, StepRequests
<1>3. CASE inputs' = NoInput
  BY <1>3 DEF AttendsCausally, StepRequests, NoInput
<1>4. (ExecuteModel /\ scheduled # <<>>) \/ UNCHANGED inputs \/ inputs' = NoInput
  BY DEF ExecNext, execVars, ExecAddRequest, HostStep, ExecuteModel, ExecUpdateToken, ExecEndUpdate
<1> QED BY <1>1, <1>2, <1>3, <1>4

\* The attention of every step that the scheduler can put together is causal,
\* however it mixes prompts, chunks and single tokens (paged_attention.cu:175-196,
\* 225-273, 400).
THEOREM ExecAttendsCausally == ExecSpec => []AttendsCausally
<1>1. ExecInit => AttendsCausally
  BY DEF ExecInit, AttendsCausally, StepRequests, NoInput
<1>2. ExecSpec => []SchedInv
  BY ExecImplementsScheduler, SchedInvariant
<1> QED BY <1>1, <1>2, CausalStep, PTL DEF ExecSpec
=============================================================================
