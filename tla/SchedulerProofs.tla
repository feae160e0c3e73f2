-------------------------- MODULE SchedulerProofs --------------------------
(***************************************************************************)
(* First the block pool by itself: it keeps every block in exactly one     *)
(* place, with any caller that keeps its contract, for any number of ids   *)
(* and blocks and any block size.  The lemmas about its two operations are *)
(* cited by what comes next: SchedInv is inductive, one lemma per action   *)
(* of the scheduler's step.  After it, what follows from it: the           *)
(* invariants of SchedulerProperties, and that the scheduler refines a     *)
(* first-come-first-served queue and the contract of the block pool.       *)
(***************************************************************************)
EXTENDS SchedulerInvariant, SequenceLemmas, SequenceTheorems

KVSafe == KVTypeOK /\ ExclusiveBlocks /\ NoLeakedBlock

\* The rounding up of allocate_slots: never negative, at least one block for
\* at least one token, no less for more tokens, and within the pool as long as
\* the tokens are within its slots.
LEMMA RequiredBlocks ==
    ASSUME NEW m \in Nat, NEW n \in Nat, m <= n
    PROVE  /\ NumRequiredBlocks(n) \in Nat
           /\ NumRequiredBlocks(0) = 0
           /\ n > 0 => NumRequiredBlocks(n) > 0
           /\ NumRequiredBlocks(m) <= NumRequiredBlocks(n)
           /\ n <= NumBlocks * BlockSize => NumRequiredBlocks(n) <= NumBlocks
           /\ n <= NumRequiredBlocks(n) * BlockSize
  BY BlockSizeAssumption, NumBlocksAssumption DEF NumRequiredBlocks
\* A successful allocate_slots within its contract keeps the pool whole.
LEMMA AllocateSlotsKeepsPool ==
    ASSUME KVSafe, NEW id \in Ids, NEW slots \in Nat,
           AllocateContract(id, slots), AllocateSlots(id, slots)
    PROVE  /\ KVSafe'
           /\ Len(allocatedBlocks'[id]) = NumRequiredBlocks(slots)
           /\ IsPrefix(allocatedBlocks[id], allocatedBlocks'[id])
           /\ \A other \in Ids \ {id} :
                 allocatedBlocks'[other] = allocatedBlocks[other]
<1> DEFINE k    == NumBlocksToAllocate(id, slots)
           kept == Len(freeBlocks) - k
           old  == allocatedBlocks[id]
           left == SubSeq(freeBlocks, 1, kept)
           got  == SubSeq(freeBlocks, kept + 1, Len(freeBlocks))
<1>1. /\ freeBlocks \in Seq(Blocks) /\ allocatedBlocks \in [Ids -> Seq(Blocks)]
      /\ old \in Seq(Blocks)
  BY DEF KVSafe, KVTypeOK
<1>2. NumRequiredBlocks(slots) \in Nat /\ Len(old) \in Nat /\ Len(freeBlocks) \in Nat
  BY <1>1, RequiredBlocks
<1>3. k = NumRequiredBlocks(slots) - Len(old) /\ k >= 0 /\ k <= Len(freeBlocks)
  BY DEF NumBlocksToAllocate, AllocateContract, AllocateSlots, CanAllocate
<1>4. k \in Nat /\ kept \in 0 .. Len(freeBlocks)
  BY <1>2, <1>3
<1>5. /\ allocatedBlocks' = [allocatedBlocks EXCEPT ![id] = old \o got]
      /\ freeBlocks' = left
  BY DEF AllocateSlots
<1>6. /\ left \in Seq(Blocks) /\ got \in Seq(Blocks) /\ Len(got) = k
      /\ ToSet(left) \cup ToSet(got) = ToSet(freeBlocks)
      /\ IsInjective(freeBlocks) =>
            /\ IsInjective(left)
            /\ IsInjective(got)
            /\ ToSet(left) \cap ToSet(got) = {}
  <2>1. Len(freeBlocks) - kept = k
    BY <1>2, <1>4
  <2> HIDE DEF kept
  <2> QED BY <1>1, <1>4, <2>1, CutSequence
<1> HIDE DEF k, kept, left, got, old
<1>7. /\ old \o got \in Seq(Blocks)
      /\ Len(old \o got) = Len(old) + Len(got)
      /\ ToSet(old \o got) = ToSet(old) \cup ToSet(got)
      /\ (/\ IsInjective(old)
          /\ IsInjective(got)
          /\ ToSet(old) \cap ToSet(got) = {}) => IsInjective(old \o got)
  BY <1>1, <1>6, JoinSequences
<1>8. /\ allocatedBlocks'[id] = old \o got
      /\ \A other \in Ids \ {id} :
            allocatedBlocks'[other] = allocatedBlocks[other]
      /\ DOMAIN allocatedBlocks' = Ids
  BY <1>1, <1>5
<1>9. KVTypeOK'
  BY <1>1, <1>5, <1>6, <1>7 DEF KVTypeOK
<1>10. ExclusiveBlocks'
  <2>1. /\ IsInjective(freeBlocks) /\ IsInjective(old)
        /\ ToSet(old) \cap ToSet(freeBlocks) = {}
        /\ \A other \in Ids :
              /\ IsInjective(allocatedBlocks[other])
              /\ ToSet(allocatedBlocks[other]) \cap ToSet(freeBlocks) = {}
        /\ \A other \in Ids \ {id} :
              ToSet(allocatedBlocks[other]) \cap ToSet(old) = {}
    BY DEF KVSafe, ExclusiveBlocks, old
  <2>2. IsInjective(left) /\ IsInjective(got) /\ ToSet(left) \cap ToSet(got) = {}
    BY <2>1, <1>6
  <2>3. IsInjective(old \o got)
    BY <2>1, <2>2, <1>6, <1>7
  <2>4. ToSet(old \o got) \cap ToSet(left) = {}
    BY <2>1, <2>2, <1>6, <1>7
  <2>5. ASSUME NEW other \in Ids \ {id}
        PROVE  /\ ToSet(allocatedBlocks[other]) \cap ToSet(left) = {}
               /\ ToSet(allocatedBlocks[other]) \cap ToSet(old \o got) = {}
    BY <2>1, <1>6, <1>7
  <2>6. \A a \in Ids :
           /\ IsInjective(allocatedBlocks'[a])
           /\ ToSet(allocatedBlocks'[a]) \cap ToSet(freeBlocks') = {}
    BY <2>1, <2>3, <2>4, <2>5, <1>5, <1>8
  <2>7. \A a, b \in Ids : a # b =>
           ToSet(allocatedBlocks'[a]) \cap ToSet(allocatedBlocks'[b]) = {}
    <3> SUFFICES ASSUME NEW a \in Ids, NEW b \in Ids, a # b
                 PROVE  ToSet(allocatedBlocks'[a]) \cap ToSet(allocatedBlocks'[b]) = {}
      OBVIOUS
    <3>1. CASE a = id
      BY <3>1, <2>5, <1>8
    <3>2. CASE b = id
      BY <3>2, <2>5, <1>8
    <3>3. CASE a # id /\ b # id
      BY <3>3, <1>8 DEF KVSafe, ExclusiveBlocks
    <3> QED BY <3>1, <3>2, <3>3
  <2>8. IsInjective(freeBlocks')
    BY <2>2, <1>5
  <2> QED BY <2>6, <2>7, <2>8 DEF ExclusiveBlocks
<1>11. NoLeakedBlock'
  <2> SUFFICES ASSUME NEW b \in Blocks, b \notin ToSet(freeBlocks')
               PROVE  \E a \in Ids : b \in ToSet(allocatedBlocks'[a])
    BY DEF NoLeakedBlock, Blocks
  <2>1. CASE b \in ToSet(freeBlocks)
    <3>1. b \in ToSet(got)
      BY <2>1, <1>5, <1>6
    <3> QED BY <3>1, <1>7, <1>8
  <2>2. CASE b \notin ToSet(freeBlocks)
    <3>1. PICK a \in Ids : b \in ToSet(allocatedBlocks[a])
      BY <2>2 DEF KVSafe, NoLeakedBlock
    <3>2. CASE a = id
      <4>1. b \in ToSet(old)
        BY <3>1, <3>2 DEF old
      <4> QED BY <4>1, <1>7, <1>8
    <3>3. CASE a # id
      BY <3>1, <3>3, <1>8
    <3> QED BY <3>2, <3>3
  <2> QED BY <2>1, <2>2
<1>12. Len(old \o got) = NumRequiredBlocks(slots)
  BY <1>2, <1>3, <1>6, <1>7
<1>13. IsPrefix(old, old \o got)
  <2>1. Len(old) <= Len(old \o got)
    BY <1>2, <1>4, <1>6, <1>7
  <2>2. SubSeq(old \o got, 1, Len(old)) = SubSeq(old, 1, Len(old))
    BY <1>1, <1>6
  <2> QED BY <2>1, <2>2 DEF IsPrefix
<1> QED BY <1>8, <1>9, <1>10, <1>11, <1>12, <1>13 DEF KVSafe, old
\* release_blocks keeps the pool whole and empties one table.
LEMMA ReleaseBlocksKeepsPool ==
    ASSUME KVSafe, NEW id \in Ids, ReleaseBlocks(id)
    PROVE  /\ KVSafe'
           /\ allocatedBlocks'[id] = <<>>
           /\ \A other \in Ids \ {id} :
                 allocatedBlocks'[other] = allocatedBlocks[other]
<1> DEFINE old == allocatedBlocks[id]
<1>1. /\ freeBlocks \in Seq(Blocks) /\ allocatedBlocks \in [Ids -> Seq(Blocks)]
      /\ old \in Seq(Blocks)
  BY DEF KVSafe, KVTypeOK
<1>2. /\ allocatedBlocks' = [allocatedBlocks EXCEPT ![id] = <<>>]
      /\ freeBlocks' = freeBlocks \o old
  BY DEF ReleaseBlocks
<1>3. /\ allocatedBlocks'[id] = <<>>
      /\ \A other \in Ids \ {id} :
            allocatedBlocks'[other] = allocatedBlocks[other]
  BY <1>1, <1>2
<1>4. ToSet(<<>>) = {} /\ IsInjective(<<>>)
  BY DEF ToSet, IsInjective
<1> HIDE DEF old
<1>5. /\ freeBlocks \o old \in Seq(Blocks)
      /\ ToSet(freeBlocks \o old) = ToSet(freeBlocks) \cup ToSet(old)
      /\ (/\ IsInjective(freeBlocks)
          /\ IsInjective(old)
          /\ ToSet(freeBlocks) \cap ToSet(old) = {})
            => IsInjective(freeBlocks \o old)
  BY <1>1, JoinSequences
<1>6. KVTypeOK'
  BY <1>1, <1>2, <1>5 DEF KVTypeOK
<1>7. ExclusiveBlocks'
  <2>1. /\ IsInjective(freeBlocks) /\ IsInjective(old)
        /\ ToSet(freeBlocks) \cap ToSet(old) = {}
        /\ \A other \in Ids \ {id} :
              /\ IsInjective(allocatedBlocks[other])
              /\ ToSet(allocatedBlocks[other]) \cap ToSet(freeBlocks) = {}
              /\ ToSet(allocatedBlocks[other]) \cap ToSet(old) = {}
    BY DEF KVSafe, ExclusiveBlocks, old
  <2>2. IsInjective(freeBlocks')
    BY <2>1, <1>2, <1>5
  <2>3. \A a \in Ids :
           /\ IsInjective(allocatedBlocks'[a])
           /\ ToSet(allocatedBlocks'[a]) \cap ToSet(freeBlocks') = {}
    BY <2>1, <1>2, <1>3, <1>4, <1>5
  <2>4. \A a, b \in Ids : a # b =>
           ToSet(allocatedBlocks'[a]) \cap ToSet(allocatedBlocks'[b]) = {}
    <3> SUFFICES ASSUME NEW a \in Ids, NEW b \in Ids, a # b
                 PROVE  ToSet(allocatedBlocks'[a]) \cap ToSet(allocatedBlocks'[b]) = {}
      OBVIOUS
    <3>1. CASE a = id \/ b = id
      BY <3>1, <1>3, <1>4
    <3>2. CASE a # id /\ b # id
      BY <3>2, <1>3 DEF KVSafe, ExclusiveBlocks
    <3> QED BY <3>1, <3>2
  <2> QED BY <2>2, <2>3, <2>4 DEF ExclusiveBlocks
<1>8. NoLeakedBlock'
  <2> SUFFICES ASSUME NEW b \in Blocks, b \notin ToSet(freeBlocks')
               PROVE  \E a \in Ids : b \in ToSet(allocatedBlocks'[a])
    BY DEF NoLeakedBlock, Blocks
  <2>1. b \notin ToSet(freeBlocks) /\ b \notin ToSet(old)
    BY <1>2, <1>5
  <2>2. PICK a \in Ids : b \in ToSet(allocatedBlocks[a])
    BY <2>1 DEF KVSafe, NoLeakedBlock
  <2>3. a # id
    BY <2>1, <2>2 DEF old
  <2> QED BY <2>2, <2>3, <1>3
<1> QED BY <1>3, <1>6, <1>7, <1>8 DEF KVSafe

\* When only one request holds blocks, it can get as many as the pool has.
LEMMA OnlyHolderHasRoom ==
    ASSUME KVSafe, NEW id \in Ids,
           \A other \in Ids \ {id} : allocatedBlocks[other] = <<>>
    PROVE  NumBlocks <= Len(freeBlocks) + Len(allocatedBlocks[id])
<1> DEFINE all == freeBlocks \o allocatedBlocks[id]
           n   == Len(all)
<1>1. freeBlocks \in Seq(Blocks) /\ allocatedBlocks[id] \in Seq(Blocks)
  BY DEF KVSafe, KVTypeOK
<1>2. /\ all \in Seq(Blocks)
      /\ n = Len(freeBlocks) + Len(allocatedBlocks[id])
      /\ ToSet(all) = ToSet(freeBlocks) \cup ToSet(allocatedBlocks[id])
  BY <1>1, JoinSequences
<1>3. ASSUME NEW b \in Blocks PROVE b \in ToSet(all)
  <2>1. b \in ToSet(freeBlocks) \/ \E a \in Ids : b \in ToSet(allocatedBlocks[a])
    BY DEF KVSafe, NoLeakedBlock
  <2>2. ToSet(<<>>) = {}
    BY DEF ToSet
  <2> QED BY <2>1, <2>2, <1>2
<1> HIDE DEF all
<1>4. n \in Nat /\ all \in [1 .. n -> Blocks]
  BY <1>2
<1>5. \A b \in Blocks : \E i \in 1 .. n : all[i] = b
  BY <1>2, <1>3, SequenceElements
<1>6. all \in Surjection(1 .. n, Blocks)
  BY <1>4, <1>5 DEF Surjection
<1>7. Cardinality(Blocks) <= n
  BY <1>4, <1>6, FS_SurjCardinalityBound DEF ExistsSurjection
<1>8. Cardinality(Blocks) = NumBlocks
  <2>1. 0 \in Int /\ NumBlocks - 1 \in Int
    BY NumBlocksAssumption
  <2>2. Cardinality(0 .. (NumBlocks - 1)) =
           IF 0 > NumBlocks - 1 THEN 0 ELSE (NumBlocks - 1) - 0 + 1
    BY <2>1, FS_Interval
  <2> QED BY <2>2, NumBlocksAssumption DEF Blocks
<1> QED BY <1>2, <1>7, <1>8

LEMMA KVInitSafe == KVInit => KVSafe
<1> SUFFICES ASSUME KVInit PROVE KVSafe
  OBVIOUS
<1>1. /\ DOMAIN freeBlocks = 1 .. NumBlocks
      /\ \A i \in 1 .. NumBlocks : freeBlocks[i] = i - 1
      /\ allocatedBlocks = [id \in Ids |-> <<>>]
      /\ NumBlocks \in Nat
  BY NumBlocksAssumption DEF KVInit
<1>2. KVTypeOK
  BY NumBlocksAssumption DEF KVInit, KVTypeOK, Blocks
<1>3. ExclusiveBlocks
  <2>1. IsInjective(freeBlocks)
    BY <1>1 DEF IsInjective
  <2>2. ToSet(<<>>) = {} /\ IsInjective(<<>>)
    BY DEF ToSet, IsInjective
  <2> QED BY <2>1, <2>2, <1>1 DEF ExclusiveBlocks
<1>4. NoLeakedBlock
  <2>1. ASSUME NEW b \in Blocks PROVE b \in ToSet(freeBlocks)
    <3>1. b + 1 \in 1 .. NumBlocks /\ freeBlocks[b + 1] = b
      BY <1>1 DEF Blocks
    <3> QED BY <3>1, <1>1 DEF ToSet
  <2> QED BY <2>1 DEF NoLeakedBlock
<1> QED BY <1>2, <1>3, <1>4 DEF KVSafe

\* One operation of a caller that keeps the contract keeps the pool whole and
\* extends or drops one table.
LEMMA KVNextSafe ==
    ASSUME KVSafe, KVNext
    PROVE  /\ KVSafe'
           /\ \A id \in Ids : TableGrowsOrGoes(id)
           /\ \A id1, id2 \in Ids :
                 (/\ allocatedBlocks'[id1] # allocatedBlocks[id1]
                  /\ allocatedBlocks'[id2] # allocatedBlocks[id2]) => id1 = id2
<1>1. PICK id \in Ids : Allocate(id) \/ Release(id)
  BY DEF KVNext
<1>2. ASSUME NEW other \in Ids PROVE IsPrefix(allocatedBlocks[other], allocatedBlocks[other])
  BY DEF KVSafe, KVTypeOK, IsPrefix
<1>3. CASE Allocate(id)
  <2>1. PICK slots \in 1 .. (NumBlocks * BlockSize) :
           AllocateContract(id, slots) /\ AllocateSlots(id, slots)
    BY <1>3 DEF Allocate
  <2>2. slots \in Nat
    BY NumBlocksAssumption, BlockSizeAssumption
  <2>3. /\ KVSafe'
        /\ IsPrefix(allocatedBlocks[id], allocatedBlocks'[id])
        /\ \A other \in Ids \ {id} :
              allocatedBlocks'[other] = allocatedBlocks[other]
    BY <2>1, <2>2, AllocateSlotsKeepsPool
  <2> QED BY <2>3, <1>2 DEF TableGrowsOrGoes
<1>4. CASE Release(id)
  <2>1. ReleaseBlocks(id)
    BY <1>4 DEF Release
  <2>2. /\ KVSafe'
        /\ allocatedBlocks'[id] = <<>>
        /\ \A other \in Ids \ {id} :
              allocatedBlocks'[other] = allocatedBlocks[other]
    BY <2>1, ReleaseBlocksKeepsPool
  <2> QED BY <2>2, <1>2 DEF TableGrowsOrGoes
<1> QED BY <1>1, <1>3, <1>4

LEMMA KVStepSafe == KVSafe /\ [KVNext]_kvVars => KVSafe'
<1> SUFFICES ASSUME KVSafe, [KVNext]_kvVars PROVE KVSafe'
  OBVIOUS
<1>1. CASE KVNext
  BY <1>1, KVNextSafe
<1>2. CASE UNCHANGED kvVars
  BY <1>2 DEF kvVars, KVSafe, KVTypeOK, ExclusiveBlocks, NoLeakedBlock
<1> QED BY <1>1, <1>2

\* The free list and the block tables keep their types: a block index never
\* leaves the pool, whatever allocate_slots and release_blocks are called with.
THEOREM KVTypeCorrect == KVSpec => []KVTypeOK
<1>1. KVSafe => KVTypeOK
  BY DEF KVSafe
<1> QED BY <1>1, KVInitSafe, KVStepSafe, PTL DEF KVSpec

\* No block is ever held twice: not by two requests, not by a request and the
\* free list.
THEOREM KVExclusive == KVSpec => []ExclusiveBlocks
<1>1. KVSafe => ExclusiveBlocks
  BY DEF KVSafe
<1> QED BY <1>1, KVInitSafe, KVStepSafe, PTL DEF KVSpec

\* No sequence of allocations and releases loses a block.
THEOREM KVNoLeak == KVSpec => []NoLeakedBlock
<1>1. KVSafe => NoLeakedBlock
  BY DEF KVSafe
<1> QED BY <1>1, KVInitSafe, KVStepSafe, PTL DEF KVSpec

\* A block table grows at its end or is given back whole, one table at a time.
THEOREM KVTablesStable == KVSpec => TablesStable
<1> DEFINE Stable ==
       /\ \A id \in Ids : TableGrowsOrGoes(id)
       /\ \A id1, id2 \in Ids :
             (/\ allocatedBlocks'[id1] # allocatedBlocks[id1]
              /\ allocatedBlocks'[id2] # allocatedBlocks[id2]) => id1 = id2
<1>1. KVSafe /\ [KVNext]_kvVars => [Stable]_kvVars
  <2> SUFFICES ASSUME KVSafe, KVNext PROVE Stable
    BY DEF kvVars
  <2> QED BY KVNextSafe
<1> QED BY <1>1, KVInitSafe, KVStepSafe, PTL DEF KVSpec, TablesStable

-----------------------------------------------------------------------------
(* The scheduler.                                                           *)

CoreVars == <<kvVars, queueVars, request>>

LEMMA CoreUnchanged == CoreInv /\ UNCHANGED CoreVars => CoreInv'
  BY DEF CoreInv, CoreVars, kvVars, queueVars, KVTypeOK, ExclusiveBlocks,
         NoLeakedBlock, QueuesConsistent, HasStatus, BlocksMatchComputed,
         NumRequiredBlocks, RequestsSane, Live

LEMMA InitInv == SchedInit => SchedInv
<1> SUFFICES ASSUME SchedInit PROVE SchedInv
  OBVIOUS
<1>1. KVSafe
  BY KVInitSafe DEF SchedInit
<1>2. ToSet(<<>>) = {} /\ IsInjective(<<>>)
  BY DEF ToSet, IsInjective
<1>3. \A id \in Ids : request[id] = NoRequest /\ allocatedBlocks[id] = <<>>
  BY DEF SchedInit, KVInit
<1>4. CoreInv
  <2>1. Live = {}
    BY <1>3 DEF Live
  <2>2. QueuesConsistent
    BY <1>2, <1>3 DEF QueuesConsistent, HasStatus, NoRequest, SchedInit
  <2>3. BlocksMatchComputed
    BY <1>3 DEF BlocksMatchComputed, HasStatus, NoRequest
  <2> QED BY <1>1, <2>1, <2>2, <2>3
       DEF CoreInv, KVSafe, SchedInit, RequestsSane
<1>5. LocalTypeOK
  BY DEF LocalTypeOK, SchedInit, Phases
<1>6. RunningBounded
  BY MaxNumSeqsAssumption, TokenBudgetAssumption DEF RunningBounded, SchedInit
<1>7. /\ InIdle /\ InSchedule /\ InPass1 /\ AfterPass1 /\ InUpdate
      /\ OutputsFresh
  BY DEF SchedInit, InIdle, InSchedule, InPass1, AfterPass1, InUpdate,
         OutputsFresh, OneOutputPerStep, TailLacksMore
<1> QED BY <1>4, <1>5, <1>6, <1>7 DEF SchedInv

\* What the types and the status fields say of a live request.
LEMMA LiveRequests ==
    ASSUME CoreInv, NEW id \in Ids
    PROVE  /\ id \in Live <=> request[id] \in Requests
           /\ id \in Live <=> request[id].status \in Statuses
           /\ id \in Live => RequestSane(request[id])
           /\ id \notin Live => request[id] = NoRequest
           /\ id \in Live <=>
                 \/ id \in ToSet(running)
                 \/ id \in ToSet(preempted)
                 \/ id \in ToSet(waiting)
<1>1. request[id] \in Requests \cup {NoRequest}
  BY DEF CoreInv
<1>2. NoRequest \notin Requests /\ NoRequest.status \notin Statuses
  BY DEF NoRequest, Requests, Statuses
<1>3. \A r \in Requests : r.status \in Statuses
  BY DEF Requests
<1>4. id \in Live <=> request[id] \in Requests
  BY <1>1, <1>2 DEF Live
<1>5. id \in Live <=> request[id].status \in Statuses
  BY <1>1, <1>2, <1>3, <1>4
<1>6. id \in Live => RequestSane(request[id])
  BY DEF CoreInv, RequestsSane
<1>7. id \in Live <=>
         \/ id \in ToSet(running)
         \/ id \in ToSet(preempted)
         \/ id \in ToSet(waiting)
  BY <1>5 DEF CoreInv, QueuesConsistent, HasStatus, Statuses
<1> QED BY <1>1, <1>4, <1>5, <1>6, <1>7 DEF Live

\* The request pass 1 is looking at.
LEMMA CurrentRequest ==
    ASSUME CoreInv, LocalTypeOK, MoreRunning
    PROVE  /\ Current \in Ids /\ Current \in Live
           /\ HasStatus(Current, "kRunning")
           /\ Len(scheduled) + 1 \in 1 .. Len(running)
<1>1. Len(scheduled) + 1 \in 1 .. Len(running)
  BY DEF MoreRunning, LocalTypeOK, CoreInv
<1>2. Current \in Ids /\ Current \in ToSet(running)
  BY <1>1, SequenceElements DEF Current, CoreInv
<1>3. HasStatus(Current, "kRunning")
  BY <1>2 DEF CoreInv, QueuesConsistent
<1> QED BY <1>1, <1>2, <1>3, LiveRequests

\* The request pass 2 is looking at.
LEMMA CandidateRequest ==
    ASSUME CoreInv, LocalTypeOK, MoreToAdmit
    PROVE  /\ Candidate \in Ids /\ Candidate \in Live
           /\ ~ HasStatus(Candidate, "kRunning")
           /\ allocatedBlocks[Candidate] = <<>>
           /\ request[Candidate].numComputed = 0
           /\ CandidateSlots = NumToAdmit(Candidate)
           /\ NumToAdmit(Candidate) \in 1 .. tokenBudget
           /\ NumToAdmit(Candidate) <= request[Candidate].numTokens
           /\ NumToAdmit(Candidate) < request[Candidate].numTokens =>
                 NumToAdmit(Candidate) = tokenBudget
<1>1. /\ preempted \in Seq(Ids) /\ waiting \in Seq(Ids)
      /\ preempted # <<>> \/ waiting # <<>>
  BY DEF CoreInv, MoreToAdmit
<1>2. \A s \in Seq(Ids) : s # <<>> => Head(s) \in Ids /\ Head(s) \in ToSet(s)
  <2> SUFFICES ASSUME NEW s \in Seq(Ids), s # <<>>
               PROVE  Head(s) \in Ids /\ Head(s) \in ToSet(s)
    OBVIOUS
  <2>1. 1 \in 1 .. Len(s) /\ Head(s) = s[1]
    OBVIOUS
  <2> QED BY <2>1, SequenceElements
<1>3. /\ Candidate \in Ids
      /\ Candidate \in ToSet(preempted) \/ Candidate \in ToSet(waiting)
  BY <1>1, <1>2 DEF Candidate
<1>4. ~ HasStatus(Candidate, "kRunning")
  BY <1>3 DEF CoreInv, QueuesConsistent, HasStatus
<1>5. Candidate \in Live /\ RequestSane(request[Candidate])
  BY <1>3, LiveRequests
<1>6. Len(allocatedBlocks[Candidate]) = 0 /\ allocatedBlocks[Candidate] \in Seq(Blocks)
  BY <1>3, <1>4 DEF CoreInv, BlocksMatchComputed, KVTypeOK
<1>7. allocatedBlocks[Candidate] = <<>>
  BY <1>6
<1>8. /\ request[Candidate].numComputed = 0
      /\ request[Candidate].numTokens \in Nat
      /\ request[Candidate].numTokens > 0
  BY <1>4, <1>5 DEF RequestSane, HasStatus, Requests
<1>9. tokenBudget \in Nat /\ tokenBudget > 0
  BY DEF LocalTypeOK, MoreToAdmit, StepHasRoom
<1>10. /\ NumToAdmit(Candidate) \in 1 .. tokenBudget
       /\ NumToAdmit(Candidate) <= request[Candidate].numTokens
       /\ NumToAdmit(Candidate) < request[Candidate].numTokens =>
             NumToAdmit(Candidate) = tokenBudget
  BY <1>8, <1>9 DEF NumToAdmit, Smaller
<1>11. CandidateSlots = NumToAdmit(Candidate)
  BY <1>8, <1>10 DEF CandidateSlots
<1> QED BY <1>3, <1>4, <1>5, <1>7, <1>8, <1>10, <1>11

LEMMA CandidateFitsEmptyPool ==
    ASSUME CoreInv, LocalTypeOK, MoreToAdmit, running = <<>>
    PROVE  CanAllocate(Candidate, CandidateSlots)
<1>1. /\ Candidate \in Ids /\ Candidate \in Live
      /\ allocatedBlocks[Candidate] = <<>>
      /\ CandidateSlots \in Nat
      /\ CandidateSlots <= request[Candidate].numTokens
  BY CandidateRequest
<1>2. /\ request[Candidate].numTokens \in Nat
      /\ request[Candidate].numTokens < MaxModelLen
  BY <1>1, LiveRequests DEF RequestSane, Requests
<1>3. CandidateSlots <= NumBlocks * BlockSize /\ NumBlocks * BlockSize \in Nat
  BY <1>1, <1>2, PoolAssumption, MaxModelLenAssumption, NumBlocksAssumption,
     BlockSizeAssumption
<1>4. NumRequiredBlocks(CandidateSlots) \in Nat /\ NumRequiredBlocks(CandidateSlots) <= NumBlocks
  BY <1>1, <1>3, RequiredBlocks
<1>5. \A other \in Ids \ {Candidate} : allocatedBlocks[other] = <<>>
  <2> SUFFICES ASSUME NEW other \in Ids PROVE allocatedBlocks[other] = <<>>
    OBVIOUS
  <2>1. ~ HasStatus(other, "kRunning")
    BY DEF CoreInv, QueuesConsistent, ToSet
  <2>2. Len(allocatedBlocks[other]) = 0 /\ allocatedBlocks[other] \in Seq(Blocks)
    BY <2>1 DEF CoreInv, BlocksMatchComputed, KVTypeOK
  <2> QED BY <2>2
<1>6. NumBlocks <= Len(freeBlocks) + Len(allocatedBlocks[Candidate])
  BY <1>1, <1>5, OnlyHolderHasRoom DEF CoreInv, KVSafe
<1>7. Len(freeBlocks) \in Nat /\ Len(allocatedBlocks[Candidate]) = 0
  BY <1>1 DEF CoreInv, KVTypeOK
<1> QED BY <1>4, <1>6, <1>7, NumBlocksAssumption DEF CanAllocate, NumBlocksToAllocate

LEMMA BeginScheduleInv == SchedInv /\ BeginSchedule => SchedInv'
<1> SUFFICES ASSUME SchedInv, BeginSchedule PROVE SchedInv'
  OBVIOUS
<1>1. CoreInv /\ CoreInv'
  BY CoreUnchanged DEF BeginSchedule, CoreVars, SchedInv
<1>2. LocalTypeOK'
  BY <1>1, TokenBudgetAssumption
     DEF BeginSchedule, SchedInv, LocalTypeOK, Phases, CoreInv
<1>3. RunningBounded'
  BY DEF BeginSchedule, SchedInv, RunningBounded, queueVars
<1>4. scheduled = <<>> /\ scheduled' = <<>> /\ TailLacksMore(1)
  BY DEF BeginSchedule, SchedInv, InIdle
<1>5. TailLacksMore(1)'
  BY <1>4 DEF TailLacksMore, Lacking, BeginSchedule, queueVars
<1>6. InPass1'
  <2>1. Len(running') <= Len(scheduled') + tokenBudget'
    BY <1>1, <1>4, TokenBudgetAssumption
       DEF BeginSchedule, SchedInv, RunningBounded, queueVars, CoreInv
  <2>2. TailLacksMore(Len(scheduled) + 1)'
    BY <1>4, <1>5
  <2>3. NobodyPreempted'
    BY DEF BeginSchedule, NobodyPreempted, queueVars
  <2> QED BY <2>1, <2>2, <2>3 DEF InPass1
<1>7. InSchedule'
  BY <1>1, <1>4, TokenBudgetAssumption
     DEF InSchedule, BeginSchedule, CoreInv, queueVars
<1>8. InIdle' /\ AfterPass1' /\ InUpdate'
  BY DEF BeginSchedule, InIdle, AfterPass1, InUpdate
<1>9. OutputsFresh'
  BY <1>4 DEF BeginSchedule, SchedInv, OutputsFresh, OneOutputPerStep, Live
<1> QED BY <1>1, <1>2, <1>3, <1>6, <1>7, <1>8, <1>9 DEF SchedInv

\* The entries survive a step that changes only the phase among the phases of
\* schedule().
LEMMA SamePhaseGroup ==
    ASSUME InSchedule, phase \in {"pass1", "pass2"},
           UNCHANGED <<CoreVars, localVars, scheduled>>
    PROVE  InSchedule'
<1>1. \A i \in 1 .. Len(scheduled) :
         EntryCurrent(scheduled[i]) => EntryCurrent(scheduled[i])'
  BY DEF EntryCurrent, HasStatus, CoreVars, kvVars
<1> QED BY <1>1 DEF InSchedule, CoreVars, localVars, queueVars

LEMMA EndPass1Inv == SchedInv /\ EndPass1 => SchedInv'
<1> SUFFICES ASSUME SchedInv, EndPass1 PROVE SchedInv'
  OBVIOUS
<1>1. CoreInv /\ CoreInv'
  BY CoreUnchanged DEF EndPass1, CoreVars, SchedInv
<1>2. LocalTypeOK /\ LocalTypeOK'
  BY DEF EndPass1, SchedInv, LocalTypeOK, Phases, localVars
<1>3. RunningBounded /\ RunningBounded'
  BY DEF EndPass1, SchedInv, RunningBounded, queueVars
<1>4. /\ phase = "pass1" /\ phase' \in {"pass2", "scheduled"}
      /\ phase' = "scheduled" => ~ NobodyPreempted
      /\ UNCHANGED <<CoreVars, localVars, scheduled, outputs>>
  BY DEF EndPass1, CoreVars
<1>5. InSchedule /\ InPass1
  BY DEF SchedInv
<1>6. InSchedule'
  BY <1>4, <1>5, SamePhaseGroup
<1>7. Len(scheduled) = Len(running)
  <2>1. Len(scheduled) \in Nat /\ Len(running) \in Nat /\ tokenBudget \in Nat
    BY <1>1, <1>2 DEF CoreInv, LocalTypeOK
  <2> QED BY <2>1, <1>3, <1>4, <1>5, MaxNumSeqsAssumption
       DEF EndPass1, MoreRunning, StepHasRoom, InSchedule, InPass1, RunningBounded
<1>8. AfterPass1'
  <2>1. ~ NobodyPreempted => scheduled # <<>>
    BY <1>1, <1>4, <1>5, <1>7 DEF InPass1, CoreInv
  <2> QED BY <2>1, <1>4, <1>7 DEF AfterPass1, CoreVars, queueVars
<1>9. InIdle' /\ InPass1' /\ InUpdate'
  BY <1>4 DEF InIdle, InPass1, InUpdate
<1>10. OutputsFresh'
  BY <1>4 DEF SchedInv, OutputsFresh, OneOutputPerStep, Live, CoreVars
<1> QED BY <1>1, <1>2, <1>3, <1>6, <1>8, <1>9, <1>10 DEF SchedInv

LEMMA EndPass2Inv == SchedInv /\ EndPass2 => SchedInv'
<1> SUFFICES ASSUME SchedInv, EndPass2 PROVE SchedInv'
  OBVIOUS
<1>1. CoreInv /\ CoreInv'
  BY CoreUnchanged DEF EndPass2, CoreVars, SchedInv
<1>2. LocalTypeOK /\ LocalTypeOK'
  BY DEF EndPass2, SchedInv, LocalTypeOK, Phases, localVars
<1>3. RunningBounded'
  BY DEF EndPass2, SchedInv, RunningBounded, queueVars
<1>4. /\ phase = "pass2" /\ phase' = "scheduled"
      /\ UNCHANGED <<CoreVars, localVars, scheduled, outputs>>
  BY DEF EndPass2, CoreVars
<1>5. InSchedule /\ AfterPass1
  BY DEF SchedInv
<1>6. InSchedule'
  BY <1>4, <1>5, SamePhaseGroup
<1>7. ASSUME Live # {}, scheduled = <<>>
      PROVE  FALSE
  <2>1. Len(scheduled) = 0 /\ Len(running) = 0
    BY <1>4, <1>5, <1>7 DEF AfterPass1
  <2>2. running = <<>>
    BY <2>1, <1>1 DEF CoreInv
  <2>3. PICK id \in Ids : id \in Live
    BY <1>7 DEF Live
  <2>4. preempted # <<>> \/ waiting # <<>>
    <3>1. ToSet(<<>>) = {}
      BY DEF ToSet
    <3> QED BY <3>1, <2>2, <2>3, <1>1, LiveRequests
  <2>5. MoreToAdmit
    BY <2>1, <2>4, <1>4, <1>5, <1>7, MaxNumSeqsAssumption, TokenBudgetAssumption
       DEF MoreToAdmit, StepHasRoom, InSchedule
  <2>6. CanAllocate(Candidate, CandidateSlots)
    BY <2>2, <2>5, <1>1, <1>2, CandidateFitsEmptyPool
  <2> QED BY <2>5, <2>6 DEF EndPass2
<1>8. AfterPass1'
  <2>1. Len(scheduled) = Len(running)
    BY <1>4, <1>5 DEF AfterPass1
  <2> QED BY <2>1, <1>4, <1>7 DEF AfterPass1, CoreVars, queueVars, Live
<1>9. InIdle' /\ InPass1' /\ InUpdate'
  BY <1>4 DEF InIdle, InPass1, InUpdate
<1>10. OutputsFresh'
  BY <1>4 DEF SchedInv, OutputsFresh, OneOutputPerStep, Live, CoreVars
<1> QED BY <1>1, <1>2, <1>3, <1>6, <1>8, <1>9, <1>10 DEF SchedInv

LEMMA RunModelInv == SchedInv /\ RunModel => SchedInv'
<1> SUFFICES ASSUME SchedInv, RunModel PROVE SchedInv'
  OBVIOUS
<1>1. CoreInv /\ CoreInv'
  BY CoreUnchanged DEF RunModel, CoreVars, SchedInv
<1>2. LocalTypeOK /\ LocalTypeOK'
  BY DEF RunModel, SchedInv, LocalTypeOK, Phases
<1>3. RunningBounded'
  BY DEF RunModel, SchedInv, RunningBounded, queueVars
<1>4. /\ phase = "scheduled" /\ phase' = "update"
      /\ UNCHANGED <<CoreVars, scheduled, outputs>>
  BY DEF RunModel, CoreVars
<1>5. /\ Len(scheduled) = Len(running) /\ Len(running) \in Nat
      /\ \A i \in 1 .. Len(running) :
            /\ scheduled[i].id = running[i]
            /\ EntryCurrent(scheduled[i])
            /\ ~ scheduled[i].sample => i = Len(running)
  BY <1>1, <1>4 DEF SchedInv, AfterPass1, InSchedule, CoreInv
<1>6. \A i, j \in 1 .. Len(running) : running[i] = running[j] => i = j
  BY <1>1, SequenceElements DEF CoreInv, QueuesConsistent
<1>7. ASSUME NEW i \in 1 .. Len(running)
      PROVE  /\ HasStatus(running[i], "kRunning")
             /\ scheduled[i].sample <=> Lacking(running[i]) = 0
             /\ i < Len(running) => Lacking(running[i]) <= 1
  <2>1. running[i] \in Ids /\ HasStatus(running[i], "kRunning")
    BY <1>1, <1>5 DEF EntryCurrent, CoreInv
  <2>2. running[i] \in Live
    BY <2>1, <1>1, LiveRequests DEF HasStatus, Statuses
  <2>3. /\ request[running[i]].numTokens \in Nat
        /\ request[running[i]].numComputed \in Nat
    BY <2>1, <2>2, <1>1, LiveRequests DEF Requests
  <2> QED BY <2>1, <2>3, <1>5 DEF EntryCurrent, Lacking
<1>9. InUpdate'
  <2>1. UNCHANGED <<request, running, scheduled>>
    BY <1>4 DEF CoreVars, queueVars
  <2>2. \A i \in 1 .. Len(scheduled) :
           /\ HasStatus(scheduled[i].id, "kRunning")
           /\ scheduled[i].sample <=> Lacking(scheduled[i].id) = 0
    BY <1>5, <1>7
  <2>3. \A i, j \in 1 .. Len(scheduled) :
           scheduled[i].id = scheduled[j].id => i = j
    BY <1>5, <1>6
  <2>4. \A k \in 1 .. Len(running) :
           /\ k < Len(running) => Lacking(running[k]) <= 1
           /\ Lacking(running[k]) = 0 =>
                 \E i \in 1 .. Len(scheduled) : scheduled[i].id = running[k]
    BY <1>5, <1>7
  <2> QED BY <2>1, <2>2, <2>3, <2>4 DEF InUpdate, HasStatus, Lacking
<1>10. InIdle' /\ InSchedule' /\ InPass1' /\ AfterPass1'
  BY <1>4 DEF InIdle, InSchedule, InPass1, AfterPass1
<1>11. OutputsFresh'
  <2>1. outputs = <<>>
    BY <1>4 DEF SchedInv, OutputsFresh
  <2> QED BY <2>1, <1>4 DEF OutputsFresh, OneOutputPerStep
<1> QED BY <1>1, <1>2, <1>3, <1>9, <1>10, <1>11 DEF SchedInv

\* Taking the first of the entries that are left.
LEMMA TailOfScheduled ==
    ASSUME LocalTypeOK, scheduled # <<>>, scheduled' = Tail(scheduled)
    PROVE  /\ scheduled' \in Seq(ScheduledRequests)
           /\ Len(scheduled) \in Nat /\ 1 \in 1 .. Len(scheduled)
           /\ Head(scheduled) = scheduled[1]
           /\ Head(scheduled) \in ScheduledRequests
           /\ Len(scheduled') = Len(scheduled) - 1
           /\ \A i \in 1 .. Len(scheduled') :
                 i + 1 \in 1 .. Len(scheduled) /\ scheduled'[i] = scheduled[i + 1]
           /\ \A i \in 1 .. Len(scheduled) :
                 i # 1 => /\ i - 1 \in 1 .. Len(scheduled')
                          /\ scheduled'[i - 1] = scheduled[i]
<1>1. scheduled \in Seq(ScheduledRequests)
  BY DEF LocalTypeOK
<1>2. /\ Tail(scheduled) \in Seq(ScheduledRequests)
      /\ Len(scheduled) \in Nat /\ Len(scheduled) > 0
      /\ Len(Tail(scheduled)) = Len(scheduled) - 1
      /\ Head(scheduled) = scheduled[1]
      /\ Head(scheduled) \in ScheduledRequests
      /\ \A i \in 1 .. (Len(scheduled) - 1) : Tail(scheduled)[i] = scheduled[i + 1]
  BY <1>1
<1>3. \A i \in 1 .. Len(scheduled) :
         i # 1 => /\ i - 1 \in 1 .. (Len(scheduled) - 1)
                  /\ Tail(scheduled)[i - 1] = scheduled[i]
  <2> SUFFICES ASSUME NEW i \in 1 .. Len(scheduled), i # 1
               PROVE  /\ i - 1 \in 1 .. (Len(scheduled) - 1)
                      /\ Tail(scheduled)[i - 1] = scheduled[i]
    OBVIOUS
  <2>1. i - 1 \in 1 .. (Len(scheduled) - 1) /\ (i - 1) + 1 = i
    BY <1>2
  <2> QED BY <2>1, <1>2
<1> QED BY <1>2, <1>3

LEMMA SkipChunkInv == SchedInv /\ SkipChunk => SchedInv'
<1> SUFFICES ASSUME SchedInv, SkipChunk PROVE SchedInv'
  OBVIOUS
<1>1. CoreInv /\ CoreInv'
  BY CoreUnchanged DEF SkipChunk, CoreVars, SchedInv
<1>2. /\ phase = "update" /\ phase' = "update"
      /\ scheduled # <<>> /\ scheduled' = Tail(scheduled)
      /\ ~ Head(scheduled).sample
      /\ UNCHANGED <<CoreVars, localVars, outputs, request, running>>
  BY DEF SkipChunk, CoreVars, queueVars
<1>3. /\ scheduled' \in Seq(ScheduledRequests)
      /\ Len(scheduled) \in Nat /\ 1 \in 1 .. Len(scheduled)
      /\ Head(scheduled) = scheduled[1]
      /\ Len(scheduled') = Len(scheduled) - 1
      /\ \A i \in 1 .. Len(scheduled') :
            i + 1 \in 1 .. Len(scheduled) /\ scheduled'[i] = scheduled[i + 1]
      /\ \A i \in 1 .. Len(scheduled) :
            i # 1 => /\ i - 1 \in 1 .. Len(scheduled')
                     /\ scheduled'[i - 1] = scheduled[i]
  BY <1>2, TailOfScheduled DEF SchedInv
<1>4. LocalTypeOK'
  BY <1>2, <1>3 DEF SchedInv, LocalTypeOK, Phases, localVars
<1>5. RunningBounded'
  BY <1>2 DEF SchedInv, RunningBounded
<1>6. InUpdate
  BY DEF SchedInv
<1>7. InUpdate'
  <2>1. \A i \in 1 .. Len(scheduled') :
           /\ HasStatus(scheduled'[i].id, "kRunning")
           /\ scheduled'[i].sample <=> Lacking(scheduled'[i].id) = 0
    BY <1>2, <1>3, <1>6 DEF InUpdate
  <2>2. ASSUME NEW i \in 1 .. Len(scheduled'), NEW j \in 1 .. Len(scheduled'),
               scheduled'[i].id = scheduled'[j].id
        PROVE  i = j
    <3>1. i + 1 = j + 1
      BY <2>2, <1>2, <1>3, <1>6 DEF InUpdate
    <3> QED BY <3>1, <1>3
  <2>3. ASSUME NEW k \in 1 .. Len(running), Lacking(running[k]) = 0
        PROVE  \E i \in 1 .. Len(scheduled') : scheduled'[i].id = running[k]
    <3>1. PICK i \in 1 .. Len(scheduled) : scheduled[i].id = running[k]
      BY <2>3, <1>2, <1>6 DEF InUpdate
    <3>2. i # 1
      BY <3>1, <2>3, <1>2, <1>3, <1>6 DEF InUpdate
    <3> QED BY <3>1, <3>2, <1>3
  <2> QED BY <2>1, <2>2, <2>3, <1>2, <1>6 DEF InUpdate, HasStatus, Lacking
<1>8. InIdle' /\ InSchedule' /\ InPass1' /\ AfterPass1'
  BY <1>2 DEF InIdle, InSchedule, InPass1, AfterPass1
<1>9. OutputsFresh'
  BY <1>2, <1>3 DEF SchedInv, OutputsFresh, OneOutputPerStep, Live
<1> QED BY <1>1, <1>4, <1>5, <1>7, <1>8, <1>9 DEF SchedInv

LEMMA EndUpdateInv == SchedInv /\ EndUpdate => SchedInv'
<1> SUFFICES ASSUME SchedInv, EndUpdate PROVE SchedInv'
  OBVIOUS
<1>1. CoreInv /\ CoreInv'
  BY CoreUnchanged DEF EndUpdate, CoreVars, SchedInv
<1>2. /\ phase = "update" /\ phase' = "idle"
      /\ scheduled = <<>> /\ scheduled' = <<>> /\ outputs' = <<>>
      /\ UNCHANGED <<CoreVars, localVars, request, running>>
  BY DEF EndUpdate, CoreVars, queueVars
<1>3. LocalTypeOK'
  BY <1>2 DEF SchedInv, LocalTypeOK, Phases, localVars
<1>4. RunningBounded'
  BY <1>2 DEF SchedInv, RunningBounded
<1>5. TailLacksMore(1)
  <2> SUFFICES ASSUME NEW k \in 1 .. Len(running)
               PROVE  /\ Lacking(running[k]) >= 1
                      /\ k < Len(running) => Lacking(running[k]) = 1
    BY DEF TailLacksMore
  <2>1. /\ k < Len(running) => Lacking(running[k]) <= 1
        /\ Lacking(running[k]) # 0
    BY <1>2 DEF SchedInv, InUpdate
  <2>2. running[k] \in Ids /\ running[k] \in ToSet(running)
    BY <1>1, SequenceElements DEF CoreInv
  <2>3. running[k] \in Live
    BY <2>2, <1>1, LiveRequests
  <2>4. /\ request[running[k]] \in Requests
        /\ request[running[k]].numComputed <= request[running[k]].numTokens
    BY <2>2, <2>3, <1>1, LiveRequests DEF RequestSane
  <2>5. Lacking(running[k]) \in Nat
    BY <2>4 DEF Lacking, Requests
  <2> QED BY <2>1, <2>5
<1>6. InIdle'
  BY <1>2, <1>5 DEF InIdle, TailLacksMore, Lacking
<1>7. InSchedule' /\ InPass1' /\ AfterPass1' /\ InUpdate'
  BY <1>2 DEF InSchedule, InPass1, AfterPass1, InUpdate
<1>8. OutputsFresh'
  BY <1>2 DEF OutputsFresh, OneOutputPerStep
<1> QED BY <1>1, <1>3, <1>4, <1>6, <1>7, <1>8 DEF SchedInv

LEMMA AddRequestInv ==
    ASSUME SchedInv, NEW id \in Ids, NEW promptLen \in PromptLens,
           NEW outputLen \in OutputLens, AddRequest(id, promptLen, outputLen)
    PROVE  SchedInv'
<1> DEFINE r == [status |-> "kWaiting", numPrompt |-> promptLen,
                 numPrefill |-> promptLen, numComputed |-> 0,
                 numTokens |-> promptLen, maxOutput |-> outputLen]
<1>1. CoreInv /\ LocalTypeOK
  BY DEF SchedInv
<1>2. /\ phase = "idle" /\ phase' = "idle"
      /\ request[id] = NoRequest
      /\ request' = [request EXCEPT ![id] = r]
      /\ waiting' = Append(waiting, id)
      /\ UNCHANGED <<kvVars, freeBlocks, allocatedBlocks, running, preempted,
                     localVars, scheduled, outputs>>
  BY DEF AddRequest, kvVars
<1>3. r \in Requests /\ RequestSane(r) /\ r # NoRequest
  <2>1. promptLen \in Nat /\ 0 < promptLen /\ promptLen < MaxModelLen
    BY PromptLensAssumption, MaxModelLenAssumption
  <2>2. outputLen \in Nat
    BY OutputLensAssumption
  <2>3. r \in Requests
    BY <2>1, <2>2 DEF Requests, Statuses
  <2> QED BY <2>1, <2>3 DEF RequestSane, NoRequest
<1> HIDE DEF r
<1>4. r.status = "kWaiting"
  BY DEF r
<1>5. /\ request \in [Ids -> Requests \cup {NoRequest}]
      /\ request' \in [Ids -> Requests \cup {NoRequest}]
      /\ request'[id] = r
      /\ \A other \in Ids \ {id} : request'[other] = request[other]
  BY <1>1, <1>2, <1>3 DEF CoreInv
<1>6. /\ ~ HasStatus(id, "kRunning") /\ ~ HasStatus(id, "kPreempted")
      /\ ~ HasStatus(id, "kWaiting")
      /\ id \notin ToSet(waiting) /\ id \notin ToSet(running)
      /\ id \notin ToSet(preempted)
  BY <1>1, <1>2 DEF HasStatus, NoRequest, CoreInv, QueuesConsistent
<1>7. /\ waiting' \in Seq(Ids)
      /\ ToSet(waiting') = ToSet(waiting) \cup {id}
      /\ IsInjective(waiting')
  BY <1>1, <1>2, <1>6, AppendNode DEF CoreInv, QueuesConsistent
<1>8. QueuesConsistent'
  <2>1. \A other \in Ids \ {id} :
           /\ HasStatus(other, "kRunning")' <=> HasStatus(other, "kRunning")
           /\ HasStatus(other, "kPreempted")' <=> HasStatus(other, "kPreempted")
           /\ HasStatus(other, "kWaiting")' <=> HasStatus(other, "kWaiting")
    BY <1>5 DEF HasStatus
  <2>2. /\ HasStatus(id, "kWaiting")' /\ ~ HasStatus(id, "kRunning")'
        /\ ~ HasStatus(id, "kPreempted")'
    BY <1>4, <1>5 DEF HasStatus
  <2> QED BY <2>1, <2>2, <1>1, <1>2, <1>6, <1>7 DEF CoreInv, QueuesConsistent
<1>9. BlocksMatchComputed'
  <2> SUFFICES ASSUME NEW other \in Ids
               PROVE  Len(allocatedBlocks'[other]) =
                        IF request'[other].status = "kRunning"
                          THEN NumRequiredBlocks(request'[other].numComputed)
                          ELSE 0
    BY DEF BlocksMatchComputed, HasStatus, NumRequiredBlocks
  <2>1. CASE other = id
    BY <2>1, <1>1, <1>2, <1>4, <1>5, <1>6 DEF CoreInv, BlocksMatchComputed
  <2>2. CASE other # id
    BY <2>2, <1>1, <1>2, <1>5 DEF CoreInv, BlocksMatchComputed, HasStatus
  <2> QED BY <2>1, <2>2
<1>10. RequestsSane'
  <2> SUFFICES ASSUME NEW other \in Ids, request'[other] # NoRequest
               PROVE  RequestSane(request'[other])
    BY DEF RequestsSane, Live, RequestSane, PrefillOrDecode
  <2> QED BY <1>1, <1>3, <1>5 DEF CoreInv, RequestsSane, Live
<1>11. CoreInv'
  BY <1>1, <1>2, <1>5, <1>7, <1>8, <1>9, <1>10
     DEF CoreInv, KVTypeOK, ExclusiveBlocks, NoLeakedBlock
<1>12. InIdle'
  <2>1. scheduled = <<>> /\ TailLacksMore(1)
    BY <1>2 DEF SchedInv, InIdle
  <2>2. \A i \in 1 .. Len(running) : request'[running[i]] = request[running[i]]
    <3> SUFFICES ASSUME NEW i \in 1 .. Len(running)
                 PROVE  request'[running[i]] = request[running[i]]
      OBVIOUS
    <3>1. running[i] \in Ids /\ running[i] \in ToSet(running)
      BY <1>1, SequenceElements DEF CoreInv
    <3> QED BY <3>1, <1>5, <1>6
  <2> QED BY <2>1, <2>2, <1>2 DEF InIdle, TailLacksMore, Lacking
<1>13. /\ LocalTypeOK' /\ RunningBounded' /\ InSchedule' /\ InPass1'
       /\ AfterPass1' /\ InUpdate'
  BY <1>2 DEF SchedInv, LocalTypeOK, localVars, RunningBounded, InSchedule,
              InPass1, AfterPass1, InUpdate
<1>14. OutputsFresh'
  <2>1. outputs' = <<>>
    BY <1>2 DEF SchedInv, OutputsFresh
  <2> QED BY <2>1 DEF OutputsFresh, OneOutputPerStep
<1> QED BY <1>11, <1>12, <1>13, <1>14 DEF SchedInv

\* The node of an id is erased from the list that holds it.
LEMMA EraseId ==
    ASSUME NEW list \in Seq(Ids), IsInjective(list), NEW id \in ToSet(list)
    PROVE  \E k \in 1 .. Len(list) :
              /\ list[k] = id
              /\ Erase(list, id) = RemoveAt(list, k)
              /\ Erase(list, id) \in Seq(Ids)
              /\ Len(Erase(list, id)) = Len(list) - 1
              /\ \A i \in 1 .. (Len(list) - 1) :
                    Erase(list, id)[i] = IF i < k THEN list[i] ELSE list[i + 1]
              /\ IsInjective(Erase(list, id))
              /\ ToSet(Erase(list, id)) = ToSet(list) \ {id}
<1> DEFINE k == CHOOSE i \in DOMAIN list : list[i] = id
<1>1. DOMAIN list = 1 .. Len(list)
  OBVIOUS
<1>2. \E i \in DOMAIN list : list[i] = id
  BY <1>1, SequenceElements
<1>3. k \in 1 .. Len(list) /\ list[k] = id
  BY <1>1, <1>2
<1>4. Erase(list, id) = RemoveAt(list, k)
  BY DEF Erase
<1> HIDE DEF k
<1>5. /\ RemoveAt(list, k) \in Seq(Ids)
      /\ Len(RemoveAt(list, k)) = Len(list) - 1
      /\ \A i \in 1 .. (Len(list) - 1) :
            RemoveAt(list, k)[i] = IF i < k THEN list[i] ELSE list[i + 1]
      /\ IsInjective(RemoveAt(list, k))
      /\ ToSet(RemoveAt(list, k)) = ToSet(list) \ {list[k]}
  BY <1>3, EraseNode
<1>6. /\ Erase(list, id) \in Seq(Ids)
      /\ Len(Erase(list, id)) = Len(list) - 1
      /\ \A i \in 1 .. (Len(list) - 1) :
            Erase(list, id)[i] = IF i < k THEN list[i] ELSE list[i + 1]
      /\ IsInjective(Erase(list, id))
      /\ ToSet(Erase(list, id)) = ToSet(list) \ {id}
  BY <1>3, <1>4, <1>5
<1> QED BY <1>3, <1>4, <1>6, Zenon

\* What is left of a queue when one request is taken out of it.
ErasedFrom(new, old, id) ==
    \E k \in 1 .. Len(old) :
        /\ old[k] = id
        /\ new = RemoveAt(old, k)
        /\ Len(new) = Len(old) - 1
        /\ \A i \in 1 .. (Len(old) - 1) :
              new[i] = IF i < k THEN old[i] ELSE old[i + 1]

\* remove_request takes the request out of its one queue, gives its blocks back
\* and leaves every other request alone.
LEMMA RemoveRequestCore ==
    ASSUME CoreInv, NEW id \in Ids, id \in Live, RemoveRequest(id)
    PROVE  /\ CoreInv'
           /\ Live' = Live \ {id}
           /\ \A other \in Ids \ {id} : request'[other] = request[other]
           /\ IF HasStatus(id, "kRunning")
                THEN /\ ErasedFrom(running', running, id)
                     /\ UNCHANGED <<preempted, waiting>>
                ELSE /\ UNCHANGED running
                     /\ IF HasStatus(id, "kPreempted")
                          THEN ErasedFrom(preempted', preempted, id) /\ UNCHANGED waiting
                          ELSE ErasedFrom(waiting', waiting, id) /\ UNCHANGED preempted
<1>1. /\ request \in [Ids -> Requests \cup {NoRequest}]
      /\ request' = [request EXCEPT ![id] = NoRequest]
      /\ ReleaseHeldBlocks(id)
      /\ running' = IF HasStatus(id, "kRunning") THEN Erase(running, id) ELSE running
      /\ preempted' = IF HasStatus(id, "kPreempted") THEN Erase(preempted, id) ELSE preempted
      /\ waiting' = IF HasStatus(id, "kWaiting") THEN Erase(waiting, id) ELSE waiting
  BY DEF RemoveRequest, EraseFromQueue, CoreInv
<1>2. /\ request' \in [Ids -> Requests \cup {NoRequest}]
      /\ request'[id] = NoRequest
      /\ \A other \in Ids \ {id} : request'[other] = request[other]
  BY <1>1
<1>3. /\ running \in Seq(Ids) /\ preempted \in Seq(Ids) /\ waiting \in Seq(Ids)
      /\ IsInjective(running) /\ IsInjective(preempted) /\ IsInjective(waiting)
      /\ \A other \in Ids :
            /\ other \in ToSet(running)   <=> HasStatus(other, "kRunning")
            /\ other \in ToSet(preempted) <=> HasStatus(other, "kPreempted")
            /\ other \in ToSet(waiting)   <=> HasStatus(other, "kWaiting")
  BY DEF CoreInv, QueuesConsistent
<1>4. ASSUME NEW list \in Seq(Ids), IsInjective(list), id \in ToSet(list)
      PROVE  /\ ErasedFrom(Erase(list, id), list, id)
             /\ Erase(list, id) \in Seq(Ids)
             /\ IsInjective(Erase(list, id))
             /\ ToSet(Erase(list, id)) = ToSet(list) \ {id}
  BY <1>4, EraseId, Zenon DEF ErasedFrom
<1>5. /\ running' \in Seq(Ids) /\ IsInjective(running')
      /\ ToSet(running') = ToSet(running) \ {id}
      /\ IF HasStatus(id, "kRunning")
           THEN ErasedFrom(running', running, id) ELSE running' = running
  BY <1>1, <1>3, <1>4
<1>6. /\ preempted' \in Seq(Ids) /\ IsInjective(preempted')
      /\ ToSet(preempted') = ToSet(preempted) \ {id}
      /\ IF HasStatus(id, "kPreempted")
           THEN ErasedFrom(preempted', preempted, id) ELSE preempted' = preempted
  BY <1>1, <1>3, <1>4
<1>7. /\ waiting' \in Seq(Ids) /\ IsInjective(waiting')
      /\ ToSet(waiting') = ToSet(waiting) \ {id}
      /\ IF HasStatus(id, "kWaiting")
           THEN ErasedFrom(waiting', waiting, id) ELSE waiting' = waiting
  BY <1>1, <1>3, <1>4
<1>8. /\ ~ HasStatus(id, "kRunning")' /\ ~ HasStatus(id, "kPreempted")'
      /\ ~ HasStatus(id, "kWaiting")'
  BY <1>2 DEF HasStatus, NoRequest
<1>9. \A other \in Ids \ {id} :
         /\ HasStatus(other, "kRunning")' <=> HasStatus(other, "kRunning")
         /\ HasStatus(other, "kPreempted")' <=> HasStatus(other, "kPreempted")
         /\ HasStatus(other, "kWaiting")' <=> HasStatus(other, "kWaiting")
  BY <1>2 DEF HasStatus
<1>10. QueuesConsistent'
  BY <1>3, <1>5, <1>6, <1>7, <1>8, <1>9 DEF QueuesConsistent
<1>11. /\ KVSafe'
       /\ allocatedBlocks'[id] = <<>>
       /\ \A other \in Ids \ {id} :
             allocatedBlocks'[other] = allocatedBlocks[other]
  <2>1. KVSafe
    BY DEF CoreInv, KVSafe
  <2>2. CASE HasStatus(id, "kRunning")
    <3>1. ReleaseBlocks(id)
      BY <2>2, <1>1 DEF ReleaseHeldBlocks
    <3> QED BY <2>1, <3>1, ReleaseBlocksKeepsPool
  <2>3. CASE ~ HasStatus(id, "kRunning")
    <3>1. UNCHANGED kvVars
      BY <2>3, <1>1 DEF ReleaseHeldBlocks
    <3>2. KVSafe'
      BY <2>1, <3>1, KVStepSafe
    <3>3. Len(allocatedBlocks[id]) = 0 /\ allocatedBlocks[id] \in Seq(Blocks)
      BY <2>3 DEF CoreInv, BlocksMatchComputed, KVTypeOK
    <3>4. allocatedBlocks[id] = <<>>
      BY <3>3
    <3> QED BY <3>1, <3>2, <3>4 DEF kvVars
  <2> QED BY <2>2, <2>3
<1>12. BlocksMatchComputed'
  <2> SUFFICES ASSUME NEW other \in Ids
               PROVE  Len(allocatedBlocks'[other]) =
                        IF request'[other].status = "kRunning"
                          THEN NumRequiredBlocks(request'[other].numComputed)
                          ELSE 0
    BY DEF BlocksMatchComputed, HasStatus, NumRequiredBlocks
  <2>1. CASE other = id
    BY <2>1, <1>2, <1>11 DEF NoRequest
  <2>2. CASE other # id
    BY <2>2, <1>2, <1>11 DEF CoreInv, BlocksMatchComputed, HasStatus
  <2> QED BY <2>1, <2>2
<1>13. Live' = Live \ {id}
  BY <1>2 DEF Live
<1>14. RequestsSane'
  <2> SUFFICES ASSUME NEW other \in Ids, request'[other] # NoRequest
               PROVE  RequestSane(request'[other])
    BY DEF RequestsSane, Live, RequestSane, PrefillOrDecode
  <2> QED BY <1>2 DEF CoreInv, RequestsSane, Live
<1>15. CoreInv'
  BY <1>2, <1>5, <1>6, <1>7, <1>10, <1>11, <1>12, <1>14 DEF CoreInv, KVSafe
<1>16. HasStatus(id, "kRunning") \/ HasStatus(id, "kPreempted") \/ HasStatus(id, "kWaiting")
  BY LiveRequests DEF HasStatus, Statuses
<1> QED BY <1>2, <1>5, <1>6, <1>7, <1>13, <1>15, <1>16 DEF HasStatus

LEMMA AbortRequestInv ==
    ASSUME SchedInv, NEW id \in Ids, AbortRequest(id)
    PROVE  SchedInv'
<1>1. CoreInv /\ LocalTypeOK
  BY DEF SchedInv
<1>2. /\ phase = "idle" /\ phase' = "idle" /\ id \in Live
      /\ RemoveRequest(id)
      /\ UNCHANGED <<localVars, scheduled, outputs>>
  BY DEF AbortRequest, Live
<1>3. /\ CoreInv'
      /\ \A other \in Ids \ {id} : request'[other] = request[other]
      /\ \/ ErasedFrom(running', running, id)
         \/ running' = running /\ ~ HasStatus(id, "kRunning")
  BY <1>1, <1>2, RemoveRequestCore
<1>4. /\ running \in Seq(Ids) /\ Len(running) \in Nat
      /\ \A i \in 1 .. Len(running) : running[i] \in Ids
  BY <1>1 DEF CoreInv
<1>5. scheduled = <<>> /\ TailLacksMore(1) /\ RunningBounded
  BY <1>2 DEF SchedInv, InIdle
<1>6. TailLacksMore(1)' /\ RunningBounded'
  <2>1. CASE ErasedFrom(running', running, id)
    <3>1. PICK k \in 1 .. Len(running) :
             /\ running[k] = id
             /\ Len(running') = Len(running) - 1
             /\ \A i \in 1 .. (Len(running) - 1) :
                   running'[i] = IF i < k THEN running[i] ELSE running[i + 1]
      BY <2>1 DEF ErasedFrom
    <3>2. \A i, j \in 1 .. Len(running) : running[i] = running[j] => i = j
      BY <1>1, SequenceElements DEF CoreInv, QueuesConsistent
    <3>3. ASSUME NEW i \in 1 .. (Len(running) - 1)
          PROVE  \E j \in 1 .. Len(running) :
                    /\ running'[i] = running[j] /\ running[j] # id
                    /\ i < Len(running) - 1 => j < Len(running)
      <4>1. CASE i < k
        <5>1. i \in 1 .. Len(running) /\ running'[i] = running[i] /\ running[i] # id
          BY <4>1, <3>1, <3>2, <1>4
        <5> QED BY <5>1, <1>4
      <4>2. CASE i >= k
        <5>1. i + 1 \in 1 .. Len(running) /\ running'[i] = running[i + 1] /\ running[i + 1] # id
          BY <4>2, <3>1, <3>2, <1>4
        <5> QED BY <5>1, <1>4
      <4> QED BY <4>1, <4>2, <1>4
    <3>4. ASSUME NEW i \in 1 .. Len(running')
          PROVE  /\ Lacking(running[i])' >= 1
                 /\ i < Len(running') => Lacking(running[i])' = 1
      <4>1. i \in 1 .. (Len(running) - 1)
        BY <3>1
      <4>2. PICK j \in 1 .. Len(running) :
               /\ running'[i] = running[j] /\ running[j] # id
               /\ i < Len(running) - 1 => j < Len(running)
        BY <4>1, <3>3
      <4>3. request'[running'[i]] = request[running[j]]
        BY <4>2, <1>3, <1>4
      <4> QED BY <4>2, <4>3, <3>1, <1>5 DEF TailLacksMore, Lacking
    <3> QED BY <3>1, <3>4, <1>4, <1>5, MaxNumSeqsAssumption, TokenBudgetAssumption
         DEF TailLacksMore, RunningBounded
  <2>2. CASE running' = running /\ ~ HasStatus(id, "kRunning")
    <3>1. \A i \in 1 .. Len(running) : running[i] # id
      <4>1. id \notin ToSet(running)
        BY <2>2, <1>1 DEF CoreInv, QueuesConsistent
      <4> QED BY <4>1, <1>4, SequenceElements
    <3> QED BY <2>2, <3>1, <1>3, <1>4, <1>5 DEF TailLacksMore, RunningBounded, Lacking
  <2> QED BY <2>1, <2>2, <1>3
<1>7. InIdle'
  BY <1>2, <1>5, <1>6 DEF InIdle
<1>8. LocalTypeOK' /\ InSchedule' /\ InPass1' /\ AfterPass1' /\ InUpdate'
  BY <1>1, <1>2 DEF LocalTypeOK, localVars, InSchedule, InPass1, AfterPass1, InUpdate
<1>9. OutputsFresh'
  <2>1. outputs' = <<>>
    BY <1>2 DEF SchedInv, OutputsFresh
  <2> QED BY <2>1 DEF OutputsFresh, OneOutputPerStep
<1> QED BY <1>3, <1>6, <1>7, <1>8, <1>9 DEF SchedInv

\* How many tokens pass 1 schedules for the request it is looking at: all it
\* lacks, or what is left of the budget; more than one for the youngest only.
LEMMA CurrentTokens ==
    ASSUME SchedInv, MoreRunning
    PROVE  /\ RequestSane(request[Current]) /\ request[Current].numComputed > 0
           /\ PrefillOrDecode(request[Current])
           /\ NumToSchedule(Current) \in 1 .. tokenBudget
           /\ NumToSchedule(Current) <= Lacking(Current)
           /\ NumToSchedule(Current) < Lacking(Current) =>
                 NumToSchedule(Current) = tokenBudget
           /\ Len(scheduled) + 1 < Len(running) => Lacking(Current) = 1
           /\ CurrentSlots \in Nat
           /\ CurrentSlots = request[Current].numComputed + NumToSchedule(Current)
           /\ CurrentSlots <= request[Current].numTokens
           /\ AllocateContract(Current, CurrentSlots)
<1> DEFINE c == Current
           k == Len(scheduled) + 1
<1>1. CoreInv /\ LocalTypeOK /\ phase = "pass1"
  BY DEF SchedInv, MoreRunning
<1>2. /\ c \in Ids /\ c \in Live /\ HasStatus(c, "kRunning")
      /\ k \in 1 .. Len(running) /\ c = running[k]
  BY <1>1, CurrentRequest DEF Current
<1>3. /\ RequestSane(request[c]) /\ request[c] \in Requests
      /\ request[c].numComputed > 0 /\ PrefillOrDecode(request[c])
  BY <1>1, <1>2, LiveRequests DEF RequestSane, HasStatus
<1>4. /\ request[c].numComputed \in Nat /\ request[c].numTokens \in Nat
      /\ tokenBudget \in Nat /\ tokenBudget > 0
  BY <1>1, <1>3 DEF Requests, LocalTypeOK, MoreRunning, StepHasRoom
<1>5. Lacking(c) >= 1 /\ (k < Len(running) => Lacking(c) = 1)
  <2>1. TailLacksMore(k)
    BY <1>1 DEF SchedInv, InPass1
  <2>2. k \in k .. Len(running)
    BY <1>2
  <2> QED BY <2>1, <2>2, <1>2 DEF TailLacksMore
<1>6. /\ NumToSchedule(c) \in 1 .. tokenBudget
      /\ NumToSchedule(c) <= Lacking(c)
      /\ NumToSchedule(c) < Lacking(c) => NumToSchedule(c) = tokenBudget
  BY <1>4, <1>5 DEF NumToSchedule, Smaller, Lacking
<1>7. /\ CurrentSlots = request[c].numComputed + NumToSchedule(c)
      /\ CurrentSlots \in Nat /\ CurrentSlots > 0
      /\ CurrentSlots <= request[c].numTokens
      /\ request[c].numComputed <= CurrentSlots
  <2> HIDE DEF c
  <2>1. CurrentSlots = request[c].numComputed + NumToSchedule(c)
    BY DEF CurrentSlots, c
  <2> QED BY <2>1, <1>4, <1>6 DEF Lacking
<1>8. AllocateContract(c, CurrentSlots)
  <2>1. Len(allocatedBlocks[c]) = NumRequiredBlocks(request[c].numComputed)
    BY <1>1, <1>2 DEF CoreInv, BlocksMatchComputed
  <2>2. /\ NumRequiredBlocks(request[c].numComputed) \in Nat
        /\ NumRequiredBlocks(CurrentSlots) \in Nat
        /\ NumRequiredBlocks(request[c].numComputed) <= NumRequiredBlocks(CurrentSlots)
    BY <1>4, <1>7, RequiredBlocks
  <2> QED BY <2>1, <2>2, <1>7 DEF AllocateContract, NumBlocksToAllocate
<1> QED BY <1>3, <1>5, <1>6, <1>7, <1>8

LEMMA ScheduleRunningInv == SchedInv /\ ScheduleRunning => SchedInv'
<1> SUFFICES ASSUME SchedInv, ScheduleRunning PROVE SchedInv'
  OBVIOUS
<1> DEFINE c == Current
           k == Len(scheduled) + 1
           n == NumToSchedule(c)
           r == request[c]
           slots == CurrentSlots
           e == [id |-> c, sample |-> NeedsSampling(r, r.numComputed + n),
                 offset |-> r.numComputed, count |-> n, blocks |-> allocatedBlocks'[c]]
<1>1. CoreInv /\ LocalTypeOK /\ MoreRunning /\ phase = "pass1" /\ phase' = "pass1"
  BY DEF SchedInv, ScheduleRunning, MoreRunning
<1>2. /\ AllocateSlots(c, slots)
      /\ scheduled' = Append(scheduled, e)
      /\ tokenBudget' = tokenBudget - n
      /\ request' = [request EXCEPT ![c].numComputed = slots]
      /\ UNCHANGED <<running, preempted, waiting, preemptedBefore, outputs>>
  BY DEF ScheduleRunning, PushScheduled, queueVars
<1>3. /\ c \in Ids /\ c \in Live /\ HasStatus(c, "kRunning")
      /\ k \in 1 .. Len(running) /\ c = running[k]
  BY <1>1, CurrentRequest DEF Current
<1>4. /\ RequestSane(r) /\ r \in Requests /\ r.numComputed > 0 /\ PrefillOrDecode(r)
      /\ r.status = "kRunning"
      /\ n \in 1 .. tokenBudget /\ n <= Lacking(c)
      /\ n < Lacking(c) => n = tokenBudget
      /\ k < Len(running) => Lacking(c) = 1
      /\ slots \in Nat /\ slots = r.numComputed + n /\ slots <= r.numTokens
      /\ AllocateContract(c, slots)
  BY <1>1, <1>3, CurrentTokens DEF RequestSane, HasStatus
<1>5. /\ KVSafe' /\ allocatedBlocks' \in [Ids -> Seq(Blocks)]
      /\ Len(allocatedBlocks'[c]) = NumRequiredBlocks(slots)
      /\ \A other \in Ids \ {c} : allocatedBlocks'[other] = allocatedBlocks[other]
  <2>1. KVSafe
    BY <1>1 DEF CoreInv, KVSafe
  <2> QED BY <2>1, <1>2, <1>3, <1>4, AllocateSlotsKeepsPool DEF KVSafe, KVTypeOK
<1>6. /\ r.numComputed \in Nat /\ r.numTokens \in Nat /\ r.numPrefill \in Nat
      /\ tokenBudget \in Nat /\ tokenBudget > 0 /\ n \in Nat /\ n > 0
      /\ Lacking(c) = r.numTokens - r.numComputed
      /\ Len(scheduled) \in Nat /\ Len(running) \in Nat
  <2>1. r.numComputed \in Nat /\ r.numTokens \in Nat /\ r.numPrefill \in Nat
    BY <1>4 DEF Requests
  <2>2. tokenBudget \in Nat /\ tokenBudget > 0 /\ n \in Nat /\ n > 0
    BY <1>1, <1>4 DEF LocalTypeOK, MoreRunning, StepHasRoom
  <2>3. Lacking(c) = r.numTokens - r.numComputed
    BY DEF Lacking
  <2>4. Len(scheduled) \in Nat /\ Len(running) \in Nat
    BY <1>1 DEF LocalTypeOK, CoreInv
  <2> HIDE DEF c, k, n, r, slots, e
  <2> QED BY <2>1, <2>2, <2>3, <2>4
<1>7. /\ request' \in [Ids -> Requests \cup {NoRequest}]
      /\ request'[c] = [r EXCEPT !.numComputed = slots]
      /\ request'[c] \in Requests
      /\ \A other \in Ids \ {c} : request'[other] = request[other]
  BY <1>1, <1>2, <1>3, <1>4 DEF CoreInv, Requests
<1>8. /\ request'[c].numComputed = slots /\ request'[c].numTokens = r.numTokens
      /\ request'[c].numPrefill = r.numPrefill /\ request'[c].status = "kRunning"
  BY <1>4, <1>7 DEF Requests
<1>9. /\ running \in Seq(Ids)
      /\ \A i \in 1 .. Len(running) : running[i] \in Ids /\ (running[i] = c <=> i = k)
  <2>1. \A i, j \in 1 .. Len(running) : running[i] = running[j] => i = j
    BY <1>1, SequenceElements DEF CoreInv, QueuesConsistent
  <2> QED BY <2>1, <1>1, <1>3 DEF CoreInv
<1> HIDE DEF c, k, n, r, slots
<1>10. QueuesConsistent'
  <2>1. \A other \in Ids : request'[other].status = request[other].status
    BY <1>4, <1>7, <1>8 DEF r
  <2> QED BY <2>1, <1>1, <1>2 DEF CoreInv, QueuesConsistent, HasStatus
<1>11. BlocksMatchComputed'
  <2> SUFFICES ASSUME NEW other \in Ids
               PROVE  Len(allocatedBlocks'[other]) =
                        IF request'[other].status = "kRunning"
                          THEN NumRequiredBlocks(request'[other].numComputed)
                          ELSE 0
    BY DEF BlocksMatchComputed, HasStatus, NumRequiredBlocks
  <2>1. CASE other = c
    BY <2>1, <1>5, <1>8
  <2>2. CASE other # c
    BY <2>2, <1>1, <1>5, <1>7 DEF CoreInv, BlocksMatchComputed, HasStatus
  <2> QED BY <2>1, <2>2
<1>12. RequestSane(request'[c])
  <2>1. PrefillOrDecode(request'[c])
    BY <1>4, <1>6, <1>8 DEF PrefillOrDecode
  <2> QED BY <2>1, <1>4, <1>6, <1>7, <1>8 DEF RequestSane
<1>13. RequestsSane'
  <2> SUFFICES ASSUME NEW other \in Ids, request'[other] # NoRequest
               PROVE  RequestSane(request'[other])
    BY DEF RequestsSane, Live, RequestSane, PrefillOrDecode
  <2> QED BY <1>1, <1>7, <1>12 DEF CoreInv, RequestsSane, Live
<1>14. CoreInv'
  BY <1>1, <1>2, <1>5, <1>7, <1>10, <1>11, <1>13 DEF CoreInv, KVSafe
<1>15. /\ e \in ScheduledRequests /\ e.id = c /\ e.count = n
       /\ e.offset + e.count = slots
       /\ e.sample <=> slots >= r.numPrefill
       /\ e.blocks = allocatedBlocks'[c]
  <2>1. NeedsSampling(r, r.numComputed + n) \in BOOLEAN
    BY DEF NeedsSampling
  <2> QED BY <2>1, <1>3, <1>4, <1>5, <1>6 DEF ScheduledRequests, NeedsSampling
<1> HIDE DEF e
<1>16. /\ scheduled' \in Seq(ScheduledRequests)
       /\ Len(scheduled') = k /\ scheduled'[k] = e /\ scheduled' # <<>>
       /\ \A i \in 1 .. k : i # k => i \in 1 .. Len(scheduled) /\ scheduled'[i] = scheduled[i]
  <2>1. /\ scheduled' \in Seq(ScheduledRequests)
        /\ Len(scheduled') = Len(scheduled) + 1
        /\ scheduled'[Len(scheduled) + 1] = e
        /\ \A i \in 1 .. Len(scheduled) : scheduled'[i] = scheduled[i]
    BY <1>1, <1>2, <1>15, AppendNode DEF LocalTypeOK
  <2> QED BY <2>1, <1>6 DEF k
<1>17. LocalTypeOK'
  BY <1>1, <1>2, <1>4, <1>6, <1>16 DEF LocalTypeOK
<1>18. RunningBounded'
  BY <1>2 DEF SchedInv, RunningBounded
<1>19. /\ Lacking(c) > 1 => (slots >= r.numPrefill => slots = r.numTokens)
       /\ slots = r.numTokens => slots >= r.numPrefill
       /\ Lacking(c) = 1 => slots = r.numTokens
  BY <1>4, <1>6 DEF PrefillOrDecode
<1>20. /\ e.sample <=> slots = r.numTokens
       /\ ~ e.sample => k = Len(running) /\ tokenBudget' = 0
  BY <1>2, <1>3, <1>4, <1>6, <1>15, <1>19
<1>21. slots <= Len(e.blocks) * BlockSize
  BY <1>4, <1>5, <1>15, RequiredBlocks
<1>22. InSchedule'
  <2>1. InSchedule
    BY DEF SchedInv
  <2>2. ASSUME NEW i \in 1 .. k
        PROVE  /\ scheduled'[i].id = running[i]
               /\ EntryCurrent(scheduled[i])'
               /\ ~ scheduled'[i].sample => i = Len(running) /\ tokenBudget' = 0
    <3>1. CASE i = k
      <4>1. scheduled'[i] = e
        BY <3>1, <1>16
      <4>2. EntryCurrent(scheduled[i])'
        BY <4>1, <1>6, <1>8, <1>15, <1>20, <1>21 DEF EntryCurrent, HasStatus
      <4> QED BY <3>1, <4>1, <4>2, <1>3, <1>15, <1>20
    <3>2. CASE i # k
      <4>1. /\ scheduled'[i] = scheduled[i] /\ i \in 1 .. Len(scheduled)
            /\ i \in 1 .. Len(running) /\ i < Len(running) /\ running[i] # c
        BY <3>2, <1>3, <1>6, <1>9, <1>16
      <4>2. /\ scheduled[i].id = running[i] /\ EntryCurrent(scheduled[i])
            /\ scheduled[i].sample
        BY <2>1, <4>1, <1>1 DEF InSchedule
      <4>3. running[i] \in Ids \ {c}
        BY <4>1, <1>9
      <4>4. EntryCurrent(scheduled[i])'
        BY <4>1, <4>2, <4>3, <1>5, <1>7 DEF EntryCurrent, HasStatus
      <4> QED BY <4>1, <4>2, <4>4
    <3> QED BY <3>1, <3>2
  <2>3. tokenBudget' + Len(scheduled') <= MaxNumScheduledTokens
    BY <2>1, <1>1, <1>2, <1>4, <1>6, <1>16, TokenBudgetAssumption DEF InSchedule, k
  <2>4. Len(scheduled') <= Len(running')
    BY <1>2, <1>3, <1>16
  <2> QED BY <2>2, <2>3, <2>4, <1>2, <1>16 DEF InSchedule
<1>23. InPass1'
  <2>1. Len(running) <= Len(scheduled) + tokenBudget /\ TailLacksMore(k)
    BY <1>1 DEF SchedInv, InPass1, k
  <2>2. Len(running') <= Len(scheduled') + tokenBudget'
    <3>1. k < Len(running) => n = 1
      BY <1>4, <1>6
    <3>2. k = Len(scheduled) + 1 /\ k \in Nat /\ tokenBudget - n \in Nat
      BY <1>4, <1>6 DEF k
    <3> QED BY <2>1, <3>1, <3>2, <1>2, <1>3, <1>6, <1>16
  <2>3. ASSUME NEW i \in (k + 1) .. Len(running)
        PROVE  /\ request'[running[i]] = request[running[i]]
               /\ i \in k .. Len(running)
    <3>1. i \in 1 .. Len(running) /\ i # k /\ i \in k .. Len(running)
      BY <1>3
    <3> QED BY <3>1, <1>7, <1>9
  <2>4. TailLacksMore(Len(scheduled) + 1)'
    <3> SUFFICES ASSUME NEW i \in (Len(scheduled') + 1) .. Len(running')
                 PROVE  /\ Lacking(running[i])' >= 1
                        /\ i < Len(running') => Lacking(running[i])' = 1
      BY DEF TailLacksMore
    <3>1. i \in (k + 1) .. Len(running) /\ running' = running
      BY <1>2, <1>16
    <3> QED BY <2>1, <2>3, <3>1 DEF TailLacksMore, Lacking
  <2>5. running' # <<>>
    BY <1>2, <1>3
  <2> QED BY <2>2, <2>4, <2>5 DEF InPass1
<1>24. InIdle' /\ AfterPass1' /\ InUpdate'
  BY <1>1, <1>16 DEF InIdle, AfterPass1, InUpdate
<1>25. OutputsFresh'
  <2>1. outputs' = <<>>
    BY <1>1, <1>2 DEF SchedInv, OutputsFresh
  <2> QED BY <2>1 DEF OutputsFresh, OneOutputPerStep
<1> QED BY <1>14, <1>17, <1>18, <1>22, <1>23, <1>24, <1>25 DEF SchedInv

\* The pool always has room for the only running request: the allocation of
\* the oldest can only fail while others hold blocks.
LEMMA OldestFits ==
    ASSUME SchedInv, MoreRunning, ~ CanAllocate(Current, CurrentSlots)
    PROVE  Len(running) > 1
<1> SUFFICES ASSUME ~ (Len(running) > 1) PROVE FALSE
  OBVIOUS
<1>1. CoreInv /\ LocalTypeOK
  BY DEF SchedInv
<1>2. /\ Current \in Ids /\ Current = running[Len(scheduled) + 1]
      /\ Len(scheduled) + 1 \in 1 .. Len(running)
  BY <1>1, CurrentRequest DEF Current
<1>3. /\ CurrentSlots \in Nat /\ CurrentSlots <= request[Current].numTokens
      /\ RequestSane(request[Current])
  BY CurrentTokens
<1>4. /\ request[Current].numTokens \in Nat
      /\ request[Current].numTokens < MaxModelLen
  BY <1>3 DEF RequestSane, Requests
<1>5. CurrentSlots <= NumBlocks * BlockSize /\ NumBlocks * BlockSize \in Nat
  BY <1>3, <1>4, PoolAssumption, MaxModelLenAssumption, NumBlocksAssumption,
     BlockSizeAssumption
<1>6. NumRequiredBlocks(CurrentSlots) \in Nat /\ NumRequiredBlocks(CurrentSlots) <= NumBlocks
  BY <1>3, <1>5, RequiredBlocks
<1>7. \A other \in Ids \ {Current} : allocatedBlocks[other] = <<>>
  <2> SUFFICES ASSUME NEW other \in Ids \ {Current} PROVE allocatedBlocks[other] = <<>>
    OBVIOUS
  <2>1. running \in Seq(Ids) /\ Len(running) = 1 /\ Len(scheduled) + 1 = 1
    <3>1. running \in Seq(Ids) /\ Len(running) \in Nat /\ Len(scheduled) \in Nat
      BY <1>1 DEF CoreInv, LocalTypeOK
    <3> QED BY <3>1, <1>2
  <2>2. other \notin ToSet(running)
    BY <2>1, <1>2, SequenceElements
  <2>3. ~ HasStatus(other, "kRunning")
    BY <2>2, <1>1 DEF CoreInv, QueuesConsistent
  <2>4. Len(allocatedBlocks[other]) = 0 /\ allocatedBlocks[other] \in Seq(Blocks)
    BY <2>3, <1>1 DEF CoreInv, BlocksMatchComputed, KVTypeOK
  <2> QED BY <2>4
<1>8. NumBlocks <= Len(freeBlocks) + Len(allocatedBlocks[Current])
  BY <1>1, <1>2, <1>7, OnlyHolderHasRoom DEF CoreInv, KVSafe
<1>9. Len(freeBlocks) \in Nat /\ Len(allocatedBlocks[Current]) \in Nat
  BY <1>1, <1>2 DEF CoreInv, KVTypeOK
<1> QED BY <1>6, <1>8, <1>9, NumBlocksAssumption DEF CanAllocate, NumBlocksToAllocate

\* What a preemption does to the queues.
LEMMA PreemptedQueues ==
    ASSUME SchedInv, PreemptTail
    PROVE  LET v == Last(running) IN
           /\ Len(running) > 1 /\ Len(running) \in Nat
           /\ Len(scheduled) < Len(running) /\ Len(scheduled) \in Nat
           /\ v \in Ids /\ v = running[Len(running)] /\ HasStatus(v, "kRunning")
           /\ v \in Live /\ v \notin ToSet(preempted)
           /\ running' \in Seq(Ids) /\ preempted' \in Seq(Ids)
           /\ Len(running') = Len(running) - 1
           /\ \A i \in 1 .. (Len(running) - 1) :
                 running'[i] = running[i] /\ running[i] \in Ids \ {v}
           /\ IsInjective(running') /\ IsInjective(preempted')
           /\ ToSet(running') = ToSet(running) \ {v}
           /\ ToSet(preempted') = ToSet(preempted) \cup {v}
<1> DEFINE v == Last(running)
<1>1. CoreInv /\ LocalTypeOK /\ MoreRunning
  BY DEF SchedInv, PreemptTail
<1>2. /\ running \in Seq(Ids) /\ preempted \in Seq(Ids)
      /\ IsInjective(running) /\ IsInjective(preempted)
      /\ running' = Front(running) /\ preempted' = <<v>> \o preempted
  BY <1>1 DEF CoreInv, QueuesConsistent, PreemptTail, PreemptedAtFront
<1>3. Len(running) > 1 /\ Len(running) \in Nat /\ running # <<>>
  <2>1. Len(running) > 1
    BY <1>1, OldestFits DEF PreemptTail
  <2> QED BY <2>1, <1>2
<1>4. Len(scheduled) < Len(running) /\ Len(scheduled) \in Nat
  BY <1>1 DEF MoreRunning, LocalTypeOK
<1>5. /\ Front(running) \in Seq(Ids)
      /\ Len(Front(running)) = Len(running) - 1
      /\ \A i \in 1 .. (Len(running) - 1) : Front(running)[i] = running[i]
      /\ v \in ToSet(running) /\ v = running[Len(running)]
      /\ IsInjective(Front(running)) /\ ToSet(Front(running)) = ToSet(running) \ {v}
  BY <1>2, <1>3, DropLast
<1>6. v \in Ids /\ \A i \in 1 .. (Len(running) - 1) : running[i] \in Ids \ {v}
  <2>1. \A i, j \in 1 .. Len(running) : running[i] = running[j] => i = j
    BY <1>2, SequenceElements
  <2>2. \A i \in 1 .. Len(running) : running[i] \in Ids
    BY <1>2
  <2>3. Len(running) \in 1 .. Len(running)
    BY <1>3
  <2> HIDE DEF v
  <2> QED BY <2>1, <2>2, <2>3, <1>3, <1>5
<1> HIDE DEF v
<1>7. HasStatus(v, "kRunning") /\ v \notin ToSet(preempted) /\ v \in Live
  <2>1. HasStatus(v, "kRunning") /\ ~ HasStatus(v, "kPreempted")
    BY <1>1, <1>5, <1>6 DEF CoreInv, QueuesConsistent, HasStatus
  <2> QED BY <2>1, <1>1, <1>5, <1>6, LiveRequests DEF CoreInv, QueuesConsistent
<1>8. /\ <<v>> \o preempted \in Seq(Ids)
      /\ ToSet(<<v>> \o preempted) = ToSet(preempted) \cup {v}
      /\ IsInjective(<<v>> \o preempted)
  BY <1>2, <1>6, <1>7, PrependNode
<1> QED BY <1>2, <1>3, <1>4, <1>5, <1>6, <1>7, <1>8 DEF v

LEMMA PreemptTailInv == SchedInv /\ PreemptTail => SchedInv'
<1> SUFFICES ASSUME SchedInv, PreemptTail PROVE SchedInv'
  OBVIOUS
<1> DEFINE v == Last(running)
           m == Len(running)
<1>1. CoreInv /\ LocalTypeOK /\ phase = "pass1" /\ phase' = "pass1"
  BY DEF SchedInv, PreemptTail, MoreRunning
<1>2. /\ ReleaseBlocks(v)
      /\ request' = [request EXCEPT ![v] = Suspended(request[v])]
      /\ UNCHANGED <<waiting, localVars, scheduled, outputs>>
  BY DEF PreemptTail
<1>3. /\ m > 1 /\ m \in Nat /\ Len(scheduled) < m /\ Len(scheduled) \in Nat
      /\ v \in Ids /\ HasStatus(v, "kRunning") /\ v \in Live
      /\ running' \in Seq(Ids) /\ preempted' \in Seq(Ids)
      /\ Len(running') = m - 1
      /\ \A i \in 1 .. (m - 1) : running'[i] = running[i] /\ running[i] \in Ids \ {v}
      /\ IsInjective(running') /\ IsInjective(preempted')
      /\ ToSet(running') = ToSet(running) \ {v}
      /\ ToSet(preempted') = ToSet(preempted) \cup {v}
  BY PreemptedQueues
<1>4. /\ KVSafe' /\ allocatedBlocks'[v] = <<>>
      /\ \A other \in Ids \ {v} : allocatedBlocks'[other] = allocatedBlocks[other]
  <2>1. KVSafe
    BY <1>1 DEF CoreInv, KVSafe
  <2> QED BY <2>1, <1>2, <1>3, ReleaseBlocksKeepsPool
<1>5. RequestSane(request[v]) /\ request[v] \in Requests
  BY <1>1, <1>3, LiveRequests
<1>6. /\ Suspended(request[v]) \in Requests /\ RequestSane(Suspended(request[v]))
      /\ Suspended(request[v]).status = "kPreempted"
  <2>1. /\ Suspended(request[v]) \in Requests
        /\ Suspended(request[v]).status = "kPreempted"
        /\ Suspended(request[v]).numComputed = 0
        /\ Suspended(request[v]).numTokens = request[v].numTokens
    BY <1>5 DEF Suspended, Requests, Statuses
  <2> QED BY <2>1, <1>5 DEF RequestSane, Requests
<1>7. /\ request' \in [Ids -> Requests \cup {NoRequest}]
      /\ request'[v] = Suspended(request[v])
      /\ \A other \in Ids \ {v} : request'[other] = request[other]
  BY <1>1, <1>2, <1>3, <1>6 DEF CoreInv
<1> HIDE DEF v, m
<1>8. QueuesConsistent'
  <2>1. \A other \in Ids \ {v} :
           /\ HasStatus(other, "kRunning")' <=> HasStatus(other, "kRunning")
           /\ HasStatus(other, "kPreempted")' <=> HasStatus(other, "kPreempted")
           /\ HasStatus(other, "kWaiting")' <=> HasStatus(other, "kWaiting")
    BY <1>7 DEF HasStatus
  <2>2. /\ request'[v].status = "kPreempted" /\ v \notin ToSet(waiting)
    BY <1>1, <1>3, <1>6, <1>7 DEF CoreInv, QueuesConsistent, HasStatus
  <2>3. ASSUME NEW other \in Ids
        PROVE  /\ other \in ToSet(running')   <=> HasStatus(other, "kRunning")'
               /\ other \in ToSet(preempted') <=> HasStatus(other, "kPreempted")'
               /\ other \in ToSet(waiting)    <=> HasStatus(other, "kWaiting")'
    <3>1. CASE other = v
      BY <3>1, <2>2, <1>3 DEF HasStatus
    <3>2. CASE other # v
      BY <3>2, <2>1, <1>1, <1>3 DEF CoreInv, QueuesConsistent
    <3> QED BY <3>1, <3>2
  <2> QED BY <2>3, <1>1, <1>2, <1>3 DEF CoreInv, QueuesConsistent
<1>9. BlocksMatchComputed'
  <2> SUFFICES ASSUME NEW other \in Ids
               PROVE  Len(allocatedBlocks'[other]) =
                        IF request'[other].status = "kRunning"
                          THEN NumRequiredBlocks(request'[other].numComputed)
                          ELSE 0
    BY DEF BlocksMatchComputed, HasStatus, NumRequiredBlocks
  <2>1. CASE other = v
    BY <2>1, <1>4, <1>6, <1>7
  <2>2. CASE other # v
    BY <2>2, <1>1, <1>4, <1>7 DEF CoreInv, BlocksMatchComputed, HasStatus
  <2> QED BY <2>1, <2>2
<1>10. RequestsSane'
  <2> SUFFICES ASSUME NEW other \in Ids, request'[other] # NoRequest
               PROVE  RequestSane(request'[other])
    BY DEF RequestsSane, Live, RequestSane, PrefillOrDecode
  <2> QED BY <1>1, <1>6, <1>7 DEF CoreInv, RequestsSane, Live
<1>11. CoreInv'
  BY <1>1, <1>2, <1>3, <1>4, <1>7, <1>8, <1>9, <1>10 DEF CoreInv, KVSafe
<1>12. LocalTypeOK'
  BY <1>1, <1>2 DEF LocalTypeOK, localVars
<1>13. RunningBounded'
  BY <1>3, MaxNumSeqsAssumption, TokenBudgetAssumption DEF SchedInv, RunningBounded, m
<1>14. InSchedule'
  <2>1. InSchedule
    BY DEF SchedInv
  <2>2. ASSUME NEW i \in 1 .. Len(scheduled)
        PROVE  /\ scheduled[i].id = running'[i]
               /\ EntryCurrent(scheduled[i])'
               /\ scheduled[i].sample
    <3>1. i \in 1 .. (m - 1) /\ i # m /\ running'[i] = running[i] /\ running[i] \in Ids \ {v}
      BY <1>3
    <3>2. scheduled[i].id = running[i] /\ EntryCurrent(scheduled[i]) /\ scheduled[i].sample
      BY <2>1, <3>1, <1>1 DEF InSchedule, m
    <3>3. EntryCurrent(scheduled[i])'
      BY <3>1, <3>2, <1>2, <1>4, <1>7 DEF EntryCurrent, HasStatus
    <3> QED BY <3>1, <3>2, <3>3
  <2>3. /\ tokenBudget' + Len(scheduled') <= MaxNumScheduledTokens
        /\ scheduled' = <<>> => tokenBudget' = MaxNumScheduledTokens
        /\ Len(scheduled') <= Len(running')
    BY <2>1, <1>1, <1>2, <1>3 DEF InSchedule, localVars
  <2> QED BY <2>2, <2>3, <1>2 DEF InSchedule, localVars
<1>15. InPass1'
  <2>1. Len(running) <= Len(scheduled) + tokenBudget /\ TailLacksMore(Len(scheduled) + 1)
    BY <1>1 DEF SchedInv, InPass1
  <2>2. Len(running') <= Len(scheduled') + tokenBudget'
    BY <2>1, <1>1, <1>2, <1>3 DEF localVars, LocalTypeOK, m
  <2>3. TailLacksMore(Len(scheduled) + 1)'
    <3> SUFFICES ASSUME NEW i \in (Len(scheduled') + 1) .. Len(running')
                 PROVE  /\ Lacking(running[i])' >= 1
                        /\ i < Len(running') => Lacking(running[i])' = 1
      BY DEF TailLacksMore
    <3>1. /\ i \in (Len(scheduled) + 1) .. Len(running) /\ i < Len(running)
          /\ i \in 1 .. (m - 1)
      BY <1>2, <1>3 DEF m
    <3>2. request'[running'[i]] = request[running[i]]
      BY <3>1, <1>3, <1>7
    <3> QED BY <2>1, <3>1, <3>2 DEF TailLacksMore, Lacking
  <2>4. running' # <<>>
    BY <1>3
  <2> QED BY <2>2, <2>3, <2>4 DEF InPass1
<1>16. InIdle' /\ AfterPass1' /\ InUpdate'
  BY <1>1 DEF InIdle, AfterPass1, InUpdate
<1>17. OutputsFresh'
  <2>1. outputs' = <<>>
    BY <1>1, <1>2 DEF SchedInv, OutputsFresh
  <2> QED BY <2>1 DEF OutputsFresh, OneOutputPerStep
<1> QED BY <1>11, <1>12, <1>13, <1>14, <1>15, <1>16, <1>17 DEF SchedInv

\* What an admission does to the queues.
LEMMA AdmittedQueues ==
    ASSUME SchedInv, AdmitNext
    PROVE  LET c == Candidate IN
           /\ running' \in Seq(Ids) /\ preempted' \in Seq(Ids) /\ waiting' \in Seq(Ids)
           /\ Len(running) \in Nat /\ Len(running') = Len(running) + 1
           /\ running'[Len(running) + 1] = c
           /\ \A i \in 1 .. Len(running) :
                 running'[i] = running[i] /\ running[i] \in Ids \ {c}
           /\ IsInjective(running') /\ IsInjective(preempted') /\ IsInjective(waiting')
           /\ ToSet(running') = ToSet(running) \cup {c}
           /\ ToSet(preempted') = ToSet(preempted) \ {c}
           /\ ToSet(waiting') = ToSet(waiting) \ {c}
<1> DEFINE c == Candidate
<1>1. CoreInv /\ LocalTypeOK /\ MoreToAdmit
  BY DEF SchedInv, AdmitNext
<1>2. /\ running \in Seq(Ids) /\ preempted \in Seq(Ids) /\ waiting \in Seq(Ids)
      /\ IsInjective(running) /\ IsInjective(preempted) /\ IsInjective(waiting)
      /\ \A other \in Ids :
            /\ other \in ToSet(running)   <=> HasStatus(other, "kRunning")
            /\ other \in ToSet(preempted) <=> HasStatus(other, "kPreempted")
            /\ other \in ToSet(waiting)   <=> HasStatus(other, "kWaiting")
  BY <1>1 DEF CoreInv, QueuesConsistent
<1>3. /\ running' = Append(running, c)
      /\ preempted' = IF preempted # <<>> THEN Tail(preempted) ELSE preempted
      /\ waiting' = IF preempted # <<>> THEN waiting ELSE Tail(waiting)
  BY DEF AdmitNext
<1>4. c \in Ids /\ c \notin ToSet(running)
  BY <1>1, <1>2, CandidateRequest
<1>5. c = IF preempted # <<>> THEN Head(preempted) ELSE Head(waiting)
  BY DEF Candidate
<1> HIDE DEF c
<1>6. /\ Append(running, c) \in Seq(Ids)
      /\ Len(Append(running, c)) = Len(running) + 1
      /\ Append(running, c)[Len(running) + 1] = c
      /\ \A i \in 1 .. Len(running) : Append(running, c)[i] = running[i]
      /\ ToSet(Append(running, c)) = ToSet(running) \cup {c}
      /\ IsInjective(Append(running, c))
  BY <1>2, <1>4, AppendNode
<1>7. \A i \in 1 .. Len(running) : running[i] \in Ids \ {c}
  BY <1>2, <1>4, SequenceElements
<1>8. \A s \in Seq(Ids) : s # <<>> /\ IsInjective(s) =>
         /\ Tail(s) \in Seq(Ids) /\ IsInjective(Tail(s))
         /\ Head(s) \in ToSet(s) /\ ToSet(Tail(s)) = ToSet(s) \ {Head(s)}
  BY DropFirst
<1>9. CASE preempted # <<>>
  <2>1. c \in ToSet(preempted) /\ ToSet(Tail(preempted)) = ToSet(preempted) \ {c}
    BY <1>2, <1>5, <1>8, <1>9
  <2>2. c \notin ToSet(waiting)
    BY <2>1, <1>2, <1>4 DEF HasStatus
  <2> QED BY <2>1, <2>2, <1>2, <1>3, <1>6, <1>7, <1>8, <1>9 DEF c
<1>10. CASE preempted = <<>>
  <2>1. waiting # <<>>
    BY <1>1, <1>10 DEF MoreToAdmit
  <2>2. c \in ToSet(waiting) /\ ToSet(Tail(waiting)) = ToSet(waiting) \ {c}
    BY <2>1, <1>2, <1>5, <1>8, <1>10
  <2>3. c \notin ToSet(preempted)
    BY <2>2, <1>2, <1>4 DEF HasStatus
  <2> QED BY <2>1, <2>2, <2>3, <1>2, <1>3, <1>6, <1>7, <1>8, <1>10 DEF c
<1> QED BY <1>9, <1>10

LEMMA AdmitNextInv == SchedInv /\ AdmitNext => SchedInv'
<1> SUFFICES ASSUME SchedInv, AdmitNext PROVE SchedInv'
  OBVIOUS
<1> DEFINE c == Candidate
           m == Len(running)
           n == NumToAdmit(c)
           r == Admitted(request[c], n)
           e == [id |-> c, sample |-> NeedsSampling(r, 0 + n),
                 offset |-> 0, count |-> n, blocks |-> allocatedBlocks'[c]]
<1>1. CoreInv /\ LocalTypeOK /\ MoreToAdmit /\ phase = "pass2" /\ phase' = "pass2"
  BY DEF SchedInv, AdmitNext, MoreToAdmit
<1>2. /\ AllocateSlots(c, CandidateSlots)
      /\ scheduled' = Append(scheduled, e)
      /\ tokenBudget' = tokenBudget - n
      /\ request' = [request EXCEPT ![c] = r]
      /\ UNCHANGED <<preemptedBefore, outputs>>
  BY DEF AdmitNext, PushScheduled
<1>3. /\ c \in Ids /\ c \in Live
      /\ allocatedBlocks[c] = <<>>
      /\ CandidateSlots = n
      /\ n \in 1 .. tokenBudget
      /\ n <= request[c].numTokens
      /\ n < request[c].numTokens => n = tokenBudget
  BY <1>1, CandidateRequest
<1>4. /\ running' \in Seq(Ids) /\ preempted' \in Seq(Ids) /\ waiting' \in Seq(Ids)
      /\ m \in Nat /\ Len(running') = m + 1 /\ running'[m + 1] = c
      /\ \A i \in 1 .. m : running'[i] = running[i] /\ running[i] \in Ids \ {c}
      /\ IsInjective(running') /\ IsInjective(preempted') /\ IsInjective(waiting')
      /\ ToSet(running') = ToSet(running) \cup {c}
      /\ ToSet(preempted') = ToSet(preempted) \ {c}
      /\ ToSet(waiting') = ToSet(waiting) \ {c}
  BY AdmittedQueues
<1>5. /\ RequestSane(request[c]) /\ request[c] \in Requests
      /\ request[c].numTokens \in Nat /\ request[c].numTokens < MaxModelLen
      /\ tokenBudget \in Nat /\ n \in Nat /\ n > 0
  <2>1. RequestSane(request[c]) /\ request[c] \in Requests
    BY <1>1, <1>3, LiveRequests
  <2> QED BY <2>1, <1>1, <1>3 DEF RequestSane, Requests, LocalTypeOK
<1>6. /\ KVSafe' /\ allocatedBlocks' \in [Ids -> Seq(Blocks)]
      /\ Len(allocatedBlocks'[c]) = NumRequiredBlocks(n)
      /\ \A other \in Ids \ {c} : allocatedBlocks'[other] = allocatedBlocks[other]
  <2>1. KVSafe
    BY <1>1 DEF CoreInv, KVSafe
  <2>2. AllocateContract(c, CandidateSlots)
    <3>1. NumRequiredBlocks(n) \in Nat
      BY <1>5, RequiredBlocks
    <3> QED BY <3>1, <1>3, <1>5 DEF AllocateContract, NumBlocksToAllocate
  <2> QED BY <2>1, <2>2, <1>2, <1>3, <1>5, AllocateSlotsKeepsPool DEF KVSafe, KVTypeOK
<1>7. /\ r \in Requests /\ r.status = "kRunning" /\ r.numComputed = n
      /\ r.numTokens = request[c].numTokens /\ r.numPrefill = r.numTokens
  BY <1>5 DEF Admitted, Requests, Statuses
<1>8. /\ request' \in [Ids -> Requests \cup {NoRequest}]
      /\ request'[c] = r
      /\ \A other \in Ids \ {c} : request'[other] = request[other]
  BY <1>1, <1>2, <1>3, <1>7 DEF CoreInv
<1>9. /\ e \in ScheduledRequests /\ e.id = c /\ e.count = n
      /\ e.offset + e.count = n
      /\ e.sample <=> n = r.numTokens
      /\ e.blocks = allocatedBlocks'[c]
  <2> HIDE DEF c, r, n
  <2> DEFINE sample == NeedsSampling(r, 0 + n)
  <2>1. sample \in BOOLEAN
    BY DEF NeedsSampling
  <2>2. sample <=> n = r.numTokens
    BY <1>3, <1>5, <1>7 DEF NeedsSampling
  <2>3. allocatedBlocks'[c] \in Seq(Blocks)
    BY <1>3, <1>6
  <2> HIDE DEF sample
  <2> QED BY <2>1, <2>2, <2>3, <1>3, <1>5 DEF ScheduledRequests, sample
<1> HIDE DEF c, m, n, r, e
<1>10. QueuesConsistent'
  <2>1. \A other \in Ids \ {c} :
           /\ HasStatus(other, "kRunning")' <=> HasStatus(other, "kRunning")
           /\ HasStatus(other, "kPreempted")' <=> HasStatus(other, "kPreempted")
           /\ HasStatus(other, "kWaiting")' <=> HasStatus(other, "kWaiting")
    BY <1>8 DEF HasStatus
  <2>2. ASSUME NEW other \in Ids
        PROVE  /\ other \in ToSet(running')   <=> HasStatus(other, "kRunning")'
               /\ other \in ToSet(preempted') <=> HasStatus(other, "kPreempted")'
               /\ other \in ToSet(waiting')   <=> HasStatus(other, "kWaiting")'
    <3>1. CASE other = c
      BY <3>1, <1>4, <1>7, <1>8 DEF HasStatus
    <3>2. CASE other # c
      BY <3>2, <2>1, <1>1, <1>4 DEF CoreInv, QueuesConsistent
    <3> QED BY <3>1, <3>2
  <2> QED BY <2>2, <1>4 DEF QueuesConsistent
<1>11. BlocksMatchComputed'
  <2> SUFFICES ASSUME NEW other \in Ids
               PROVE  Len(allocatedBlocks'[other]) =
                        IF request'[other].status = "kRunning"
                          THEN NumRequiredBlocks(request'[other].numComputed)
                          ELSE 0
    BY DEF BlocksMatchComputed, HasStatus, NumRequiredBlocks
  <2>1. CASE other = c
    BY <2>1, <1>6, <1>7, <1>8
  <2>2. CASE other # c
    BY <2>2, <1>1, <1>6, <1>8 DEF CoreInv, BlocksMatchComputed, HasStatus
  <2> QED BY <2>1, <2>2
<1>12. RequestSane(r)
  <2>1. PrefillOrDecode(r)
    BY <1>7 DEF PrefillOrDecode
  <2> QED BY <2>1, <1>3, <1>5, <1>7 DEF RequestSane
<1>13. RequestsSane'
  <2> SUFFICES ASSUME NEW other \in Ids, request'[other] # NoRequest
               PROVE  RequestSane(request'[other])
    BY DEF RequestsSane, Live, RequestSane, PrefillOrDecode
  <2> QED BY <1>1, <1>8, <1>12 DEF CoreInv, RequestsSane, Live
<1>14. CoreInv'
  BY <1>4, <1>6, <1>8, <1>10, <1>11, <1>13 DEF CoreInv, KVSafe
<1>15. /\ Len(scheduled) = m /\ InSchedule
       /\ \A i \in 1 .. m : scheduled[i].sample
       /\ m + 1 <= MaxNumSeqs /\ tokenBudget + m <= MaxNumScheduledTokens
  <2>1. Len(scheduled) = m /\ InSchedule
    BY <1>1 DEF SchedInv, AfterPass1, m
  <2>2. /\ tokenBudget > 0 /\ m < MaxNumSeqs
    BY <2>1, <1>1 DEF MoreToAdmit, StepHasRoom
  <2> QED BY <2>1, <2>2, <1>1, <1>4, MaxNumSeqsAssumption DEF InSchedule
<1>16. /\ scheduled' \in Seq(ScheduledRequests)
       /\ Len(scheduled') = m + 1 /\ scheduled'[m + 1] = e /\ scheduled' # <<>>
       /\ \A i \in 1 .. m : scheduled'[i] = scheduled[i]
  BY <1>1, <1>2, <1>4, <1>9, <1>15, AppendNode DEF LocalTypeOK
<1>17. LocalTypeOK'
  BY <1>1, <1>2, <1>3, <1>5, <1>16 DEF LocalTypeOK
<1>18. RunningBounded'
  BY <1>3, <1>4, <1>5, <1>15, MaxNumSeqsAssumption, TokenBudgetAssumption
     DEF RunningBounded
<1>19. InSchedule'
  <2>1. ASSUME NEW i \in 1 .. (m + 1)
        PROVE  /\ scheduled'[i].id = running'[i]
               /\ EntryCurrent(scheduled[i])'
               /\ ~ scheduled'[i].sample => i = m + 1 /\ tokenBudget' = 0
    <3>1. CASE i = m + 1
      <4>1. n <= Len(e.blocks) * BlockSize
        BY <1>5, <1>6, <1>9, RequiredBlocks
      <4>2. scheduled'[i] = e
        BY <3>1, <1>16
      <4>3. EntryCurrent(scheduled[i])'
        BY <4>1, <4>2, <1>5, <1>7, <1>8, <1>9 DEF EntryCurrent, HasStatus
      <4>4. ~ e.sample => tokenBudget' = 0
        BY <1>2, <1>3, <1>5, <1>7, <1>9
      <4> QED BY <3>1, <4>2, <4>3, <4>4, <1>4, <1>9
    <3>2. CASE i # m + 1
      <4>1. /\ i \in 1 .. m /\ scheduled'[i] = scheduled[i]
            /\ running'[i] = running[i] /\ running[i] \in Ids \ {c}
        BY <3>2, <1>4, <1>16
      <4>2. scheduled[i].id = running[i] /\ EntryCurrent(scheduled[i]) /\ scheduled[i].sample
        BY <4>1, <1>1, <1>15 DEF InSchedule
      <4>3. EntryCurrent(scheduled[i])'
        BY <4>1, <4>2, <1>6, <1>8 DEF EntryCurrent, HasStatus
      <4> QED BY <4>1, <4>2, <4>3
    <3> QED BY <3>1, <3>2
  <2>2. tokenBudget' + Len(scheduled') <= MaxNumScheduledTokens
    BY <1>2, <1>4, <1>5, <1>15, <1>16, TokenBudgetAssumption
  <2> QED BY <2>1, <2>2, <1>4, <1>16 DEF InSchedule
<1>20. InIdle' /\ InPass1' /\ InUpdate' /\ AfterPass1'
  BY <1>1, <1>4, <1>16 DEF InIdle, InPass1, InUpdate, AfterPass1
<1>21. OutputsFresh'
  <2>1. outputs' = <<>>
    BY <1>1, <1>2 DEF SchedInv, OutputsFresh
  <2> QED BY <2>1 DEF OutputsFresh, OneOutputPerStep
<1> QED BY <1>14, <1>17, <1>18, <1>19, <1>20, <1>21 DEF SchedInv

\* The request whose token update() applies.
LEMMA SampledRequest ==
    ASSUME SchedInv, phase = "update", scheduled # <<>>, Head(scheduled).sample
    PROVE  LET id == Head(scheduled).id
               r  == [request[id] EXCEPT !.numTokens = @ + 1]
           IN
           /\ id \in Ids /\ id \in Live /\ HasStatus(id, "kRunning")
           /\ RequestSane(request[id]) /\ r \in Requests
           /\ r.status = "kRunning" /\ r.numComputed = request[id].numComputed
           /\ r.numTokens = request[id].numTokens + 1
           /\ r.numTokens = r.numComputed + 1
           /\ r.numTokens < MaxModelLen => RequestSane(r)
<1> DEFINE id == Head(scheduled).id
           r  == [request[id] EXCEPT !.numTokens = @ + 1]
<1>1. CoreInv /\ LocalTypeOK /\ InUpdate
  BY DEF SchedInv
<1>2. /\ Head(scheduled) = scheduled[1] /\ 1 \in 1 .. Len(scheduled)
      /\ Head(scheduled) \in ScheduledRequests
  BY <1>1 DEF LocalTypeOK
<1>3. id \in Ids
  BY <1>2 DEF ScheduledRequests
<1>4. HasStatus(id, "kRunning") /\ Lacking(id) = 0
  BY <1>1, <1>2 DEF InUpdate
<1>5. id \in Live /\ RequestSane(request[id])
  BY <1>1, <1>3, <1>4, LiveRequests DEF HasStatus, Statuses
<1> HIDE DEF id
<1>6. /\ request[id] \in Requests /\ request[id].status = "kRunning"
      /\ request[id].numTokens \in Nat /\ request[id].numComputed \in Nat
      /\ request[id].numPrefill \in Nat
      /\ request[id].numTokens = request[id].numComputed
      /\ request[id].numComputed > 0 /\ PrefillOrDecode(request[id])
  BY <1>4, <1>5 DEF RequestSane, Requests, HasStatus, Lacking
<1>7. /\ r \in Requests /\ r.status = "kRunning"
      /\ r.numComputed = request[id].numComputed
      /\ r.numPrefill = request[id].numPrefill
      /\ r.numTokens = request[id].numTokens + 1
  BY <1>6 DEF Requests
<1> HIDE DEF r
<1>8. r.numTokens < MaxModelLen => RequestSane(r)
  <2>1. PrefillOrDecode(r)
    BY <1>6, <1>7 DEF PrefillOrDecode
  <2> QED BY <2>1, <1>6, <1>7 DEF RequestSane
<1> QED BY <1>3, <1>4, <1>5, <1>6, <1>7, <1>8 DEF id, r

\* What applying a token does to the requests.
LEMMA UpdateTokenCore ==
    ASSUME SchedInv, NEW stop \in BOOLEAN, UpdateToken(stop)
    PROVE  LET id     == Head(scheduled).id
               reason == FinishReason([request[id] EXCEPT !.numTokens = @ + 1], stop)
           IN
           /\ CoreInv'
           /\ reason \in FinishReasons
           /\ reason = "kRunning" <=> id \in Live'
           /\ Live' \cup {id} = Live
           /\ \A other \in Ids \ {id} : request'[other] = request[other]
           /\ id \in Live' => request'[id].numTokens - request'[id].numComputed = 1
           /\ Len(running') <= Len(running)
           /\ \A k \in 1 .. Len(running') : \E j \in 1 .. Len(running) :
                 /\ running'[k] = running[j]
                 /\ k < Len(running') => j < Len(running)
                 /\ running[j] = id => id \in Live'
<1> DEFINE id     == Head(scheduled).id
           r      == [request[id] EXCEPT !.numTokens = @ + 1]
           reason == FinishReason(r, stop)
<1>1. CoreInv /\ phase = "update" /\ scheduled # <<>> /\ Head(scheduled).sample
  BY DEF SchedInv, UpdateToken
<1>2. KeepOrRemove(id, r, reason)
  BY DEF UpdateToken
<1>3. /\ id \in Ids /\ id \in Live /\ HasStatus(id, "kRunning")
      /\ RequestSane(request[id]) /\ r \in Requests
      /\ r.status = "kRunning" /\ r.numComputed = request[id].numComputed
      /\ r.numTokens = r.numComputed + 1
      /\ r.numTokens < MaxModelLen => RequestSane(r)
  BY <1>1, SampledRequest
<1>4. reason \in FinishReasons
  BY DEF FinishReason, FinishReasons
<1>5. /\ running \in Seq(Ids) /\ Len(running) \in Nat
      /\ \A i, j \in 1 .. Len(running) : running[i] = running[j] => i = j
  BY <1>1, SequenceElements DEF CoreInv, QueuesConsistent
<1> HIDE DEF id
<1>6. CASE reason = "kRunning"
  <2>1. request' = [request EXCEPT ![id] = r] /\ UNCHANGED <<kvVars, queueVars>>
    BY <1>2, <1>6 DEF KeepOrRemove
  <2>2. RequestSane(r)
    <3>1. ~ (r.numTokens >= MaxModelLen)
      BY <1>6 DEF FinishReason
    <3>2. r.numTokens < MaxModelLen
      BY <3>1, <1>3, MaxModelLenAssumption DEF Requests
    <3> QED BY <3>2, <1>3
  <2> HIDE DEF r
  <2>3. /\ request' \in [Ids -> Requests \cup {NoRequest}]
        /\ request'[id] = r /\ id \in Live'
        /\ \A other \in Ids \ {id} : request'[other] = request[other]
    <3>1. NoRequest \notin Requests
      BY DEF NoRequest, Requests, Statuses
    <3> QED BY <2>1, <3>1, <1>1, <1>3 DEF CoreInv, Live
  <2>4. Live' = Live
    BY <2>3, <1>3 DEF Live
  <2>5. /\ \A other \in Ids : request'[other].status = request[other].status
        /\ \A other \in Ids : request'[other].numComputed = request[other].numComputed
    BY <2>3, <1>3 DEF HasStatus
  <2>6. QueuesConsistent' /\ BlocksMatchComputed'
    BY <2>1, <2>5, <1>1
       DEF CoreInv, QueuesConsistent, BlocksMatchComputed, HasStatus,
           NumRequiredBlocks, queueVars, kvVars
  <2>7. RequestsSane'
    <3> SUFFICES ASSUME NEW other \in Ids, request'[other] # NoRequest
                 PROVE  RequestSane(request'[other])
      BY DEF RequestsSane, Live, RequestSane, PrefillOrDecode
    <3> QED BY <2>2, <2>3, <1>1 DEF CoreInv, RequestsSane, Live
  <2>8. CoreInv'
    BY <2>1, <2>3, <2>6, <2>7, <1>1
       DEF CoreInv, queueVars, kvVars, KVTypeOK, ExclusiveBlocks, NoLeakedBlock
  <2>9. request'[id].numTokens - request'[id].numComputed = 1
    BY <2>3, <1>3 DEF Requests
  <2>10. running' = running
    BY <2>1 DEF queueVars
  <2> QED BY <2>3, <2>4, <2>8, <2>9, <2>10, <1>3, <1>4, <1>5, <1>6 DEF id, r
<1>7. CASE reason # "kRunning"
  <2>1. RemoveRequest(id)
    BY <1>2, <1>7 DEF KeepOrRemove
  <2>2. /\ CoreInv'
        /\ Live' = Live \ {id}
        /\ \A other \in Ids \ {id} : request'[other] = request[other]
        /\ ErasedFrom(running', running, id)
    BY <2>1, <1>1, <1>3, RemoveRequestCore
  <2>3. PICK k0 \in 1 .. Len(running) :
           /\ running[k0] = id
           /\ Len(running') = Len(running) - 1
           /\ \A i \in 1 .. (Len(running) - 1) :
                 running'[i] = IF i < k0 THEN running[i] ELSE running[i + 1]
    BY <2>2 DEF ErasedFrom
  <2>4. ASSUME NEW k \in 1 .. Len(running')
        PROVE  \E j \in 1 .. Len(running) :
                  /\ running'[k] = running[j]
                  /\ k < Len(running') => j < Len(running)
                  /\ running[j] # id
    <3>1. CASE k < k0
      <4>1. k \in 1 .. Len(running) /\ running'[k] = running[k] /\ running[k] # id
        BY <3>1, <2>3, <1>5
      <4> QED BY <4>1, <2>3, <1>5
    <3>2. CASE k >= k0
      <4>1. k + 1 \in 1 .. Len(running) /\ running'[k] = running[k + 1] /\ running[k + 1] # id
        BY <3>2, <2>3, <1>5
      <4> QED BY <4>1, <2>3, <1>5
    <3> QED BY <3>1, <3>2, <2>3, <1>5
  <2> HIDE DEF r, reason
  <2>5. Len(running') <= Len(running)
    BY <2>3, <1>5
  <2> QED BY <2>2, <2>4, <2>5, <1>3, <1>4, <1>7 DEF id, r, reason
<1> QED BY <1>6, <1>7

LEMMA UpdateTokenInv ==
    ASSUME SchedInv, NEW stop \in BOOLEAN, UpdateToken(stop)
    PROVE  SchedInv'
<1> DEFINE id     == Head(scheduled).id
           reason == FinishReason([request[id] EXCEPT !.numTokens = @ + 1], stop)
           o      == [id |-> id, reason |-> reason]
<1>1. /\ CoreInv /\ LocalTypeOK /\ InUpdate /\ OutputsFresh /\ RunningBounded
      /\ phase = "update" /\ phase' = "update"
      /\ scheduled # <<>> /\ scheduled' = Tail(scheduled)
      /\ outputs' = Append(outputs, o)
      /\ UNCHANGED localVars
  BY DEF SchedInv, UpdateToken
<1>2. /\ CoreInv'
      /\ reason \in FinishReasons
      /\ reason = "kRunning" <=> id \in Live'
      /\ Live' \cup {id} = Live
      /\ \A other \in Ids \ {id} : request'[other] = request[other]
      /\ id \in Live' => request'[id].numTokens - request'[id].numComputed = 1
      /\ Len(running') <= Len(running)
      /\ \A k \in 1 .. Len(running') : \E j \in 1 .. Len(running) :
            /\ running'[k] = running[j]
            /\ k < Len(running') => j < Len(running)
            /\ running[j] = id => id \in Live'
  BY UpdateTokenCore
<1>3. /\ scheduled' \in Seq(ScheduledRequests)
      /\ Len(scheduled) \in Nat /\ 1 \in 1 .. Len(scheduled)
      /\ id = scheduled[1].id /\ id \in Ids
      /\ Len(scheduled') = Len(scheduled) - 1
      /\ \A i \in 1 .. Len(scheduled') :
            i + 1 \in 1 .. Len(scheduled) /\ scheduled'[i] = scheduled[i + 1]
      /\ \A i \in 1 .. Len(scheduled) :
            i # 1 => /\ i - 1 \in 1 .. Len(scheduled')
                     /\ scheduled'[i - 1] = scheduled[i]
  BY <1>1, TailOfScheduled DEF ScheduledRequests
<1>4. /\ outputs' \in Seq([id : Ids, reason : FinishReasons])
      /\ Len(outputs) \in Nat /\ Len(outputs') = Len(outputs) + 1
      /\ outputs'[Len(outputs) + 1] = o
      /\ \A i \in 1 .. Len(outputs) : outputs'[i] = outputs[i]
      /\ \A i \in 1 .. Len(outputs) : outputs[i].id \in Ids
  <2> DEFINE S == [id : Ids, reason : FinishReasons]
  <2>1. o \in S /\ \A x \in S : x.id \in Ids
    BY <1>2, <1>3
  <2>2. outputs \in Seq(S)
    BY <1>1 DEF LocalTypeOK
  <2> HIDE DEF o, S
  <2>3. /\ Append(outputs, o) \in Seq(S)
        /\ Len(Append(outputs, o)) = Len(outputs) + 1
        /\ Append(outputs, o)[Len(outputs) + 1] = o
        /\ \A i \in 1 .. Len(outputs) : Append(outputs, o)[i] = outputs[i]
    BY <2>1, <2>2, AppendNode
  <2>4. Len(outputs) \in Nat /\ \A i \in 1 .. Len(outputs) : outputs[i] \in S
    BY <2>2
  <2> QED BY <2>1, <2>3, <2>4, <1>1 DEF S
<1>5. o.id = id /\ o.reason = reason
  OBVIOUS
<1> HIDE DEF id, reason, o
<1>6. LocalTypeOK'
  BY <1>1, <1>3, <1>4 DEF LocalTypeOK, localVars
<1>7. RunningBounded'
  <2>1. Len(running) \in Nat /\ Len(running') \in Nat
    BY <1>1, <1>2 DEF CoreInv
  <2> QED BY <2>1, <1>1, <1>2, MaxNumSeqsAssumption, TokenBudgetAssumption
       DEF RunningBounded
\* The entries left are of other requests.
<1>8. ASSUME NEW i \in 1 .. Len(scheduled')
      PROVE  /\ i + 1 \in 1 .. Len(scheduled) /\ scheduled'[i] = scheduled[i + 1]
             /\ scheduled'[i].id \in Ids \ {id}
             /\ request'[scheduled'[i].id] = request[scheduled'[i].id]
  <2>1. i + 1 \in 1 .. Len(scheduled) /\ scheduled'[i] = scheduled[i + 1] /\ i + 1 # 1
    BY <1>3
  <2>2. scheduled[i + 1].id # id
    BY <2>1, <1>1, <1>3 DEF InUpdate
  <2>3. scheduled'[i].id \in Ids
    <3>1. scheduled'[i] \in ScheduledRequests
      BY <1>3
    <3> QED BY <3>1 DEF ScheduledRequests
  <2> QED BY <2>1, <2>2, <2>3, <1>2
<1>9. InUpdate'
  <2>1. \A i \in 1 .. Len(scheduled') :
           /\ HasStatus(scheduled'[i].id, "kRunning")
           /\ scheduled'[i].sample <=> Lacking(scheduled'[i].id) = 0
    BY <1>8, <1>1 DEF InUpdate
  <2>2. \A i \in 1 .. Len(scheduled') :
           /\ HasStatus(scheduled[i].id, "kRunning")'
           /\ scheduled'[i].sample <=> Lacking(scheduled[i].id)' = 0
    BY <2>1, <1>8 DEF HasStatus, Lacking
  <2>3. ASSUME NEW i \in 1 .. Len(scheduled'), NEW j \in 1 .. Len(scheduled'),
               scheduled'[i].id = scheduled'[j].id
        PROVE  i = j
    <3>1. i + 1 = j + 1
      BY <2>3, <1>1, <1>8 DEF InUpdate
    <3> QED BY <3>1, <1>3
  <2>4. ASSUME NEW k \in 1 .. Len(running')
        PROVE  /\ k < Len(running') => Lacking(running[k])' <= 1
               /\ Lacking(running[k])' = 0 =>
                     \E i \in 1 .. Len(scheduled') : scheduled'[i].id = running'[k]
    <3>1. PICK j \in 1 .. Len(running) :
             /\ running'[k] = running[j]
             /\ k < Len(running') => j < Len(running)
             /\ running[j] = id => id \in Live'
      BY <1>2
    <3>2. CASE running[j] = id
      <4>1. Lacking(running[k])' = 1
        BY <3>1, <3>2, <1>2 DEF Lacking
      <4> QED BY <4>1
    <3>3. CASE running[j] # id
      <4>1. running[j] \in Ids
        BY <1>1 DEF CoreInv
      <4>2. Lacking(running[k])' = Lacking(running[j])
        BY <3>1, <3>3, <4>1, <1>2 DEF Lacking
      <4>3. ASSUME Lacking(running[j]) = 0
            PROVE  \E i \in 1 .. Len(scheduled') : scheduled'[i].id = running'[k]
        <5>1. PICK i \in 1 .. Len(scheduled) : scheduled[i].id = running[j]
          BY <4>3, <1>1 DEF InUpdate
        <5>2. i # 1
          BY <5>1, <3>3, <1>3
        <5> QED BY <5>1, <5>2, <3>1, <1>3
      <4> QED BY <4>2, <4>3, <3>1, <1>1 DEF InUpdate
    <3> QED BY <3>2, <3>3
  <2> QED BY <2>2, <2>3, <2>4 DEF InUpdate
<1>10. OutputsFresh'
  <2>1. \A i \in 1 .. Len(outputs) : outputs[i].id \in Ids \ {id}
    BY <1>1, <1>3, <1>4 DEF OutputsFresh
  <2>2. ASSUME NEW i \in 1 .. Len(outputs')
        PROVE  \/ i = Len(outputs) + 1 /\ outputs'[i] = o
               \/ i \in 1 .. Len(outputs) /\ outputs'[i] = outputs[i]
    BY <1>4
  <2>3. ASSUME NEW i \in 1 .. Len(outputs'), NEW j \in 1 .. Len(scheduled')
        PROVE  outputs'[i].id # scheduled'[j].id
    <3>1. CASE outputs'[i] = o
      BY <3>1, <1>5, <1>8
    <3>2. CASE i \in 1 .. Len(outputs) /\ outputs'[i] = outputs[i]
      BY <3>2, <1>1, <1>8 DEF OutputsFresh
    <3> QED BY <2>2, <3>1, <3>2
  <2>4. ASSUME NEW i \in 1 .. Len(outputs'), NEW j \in 1 .. Len(outputs'),
               outputs'[i].id = outputs'[j].id
        PROVE  i = j
    <3>1. DOMAIN outputs = 1 .. Len(outputs)
      BY <1>1 DEF LocalTypeOK
    <3> QED BY <3>1, <2>1, <2>2, <2>4, <1>1, <1>5 DEF OutputsFresh, OneOutputPerStep
  <2>5. ASSUME NEW i \in 1 .. Len(outputs')
        PROVE  outputs'[i].reason = "kRunning" <=> outputs'[i].id \in Live'
    <3>1. CASE outputs'[i] = o
      BY <3>1, <1>2, <1>5
    <3>2. CASE i \in 1 .. Len(outputs) /\ outputs'[i] = outputs[i]
      <4>1. DOMAIN outputs = 1 .. Len(outputs)
        BY <1>1 DEF LocalTypeOK
      <4>2. outputs[i].reason = "kRunning" <=> outputs[i].id \in Live
        BY <4>1, <3>2, <1>1 DEF OutputsFresh, OneOutputPerStep
      <4> QED BY <4>2, <3>2, <2>1, <1>2
    <3> QED BY <2>2, <3>1, <3>2
  <2>6. DOMAIN outputs' = 1 .. Len(outputs')
    BY <1>4
  <2> QED BY <2>3, <2>4, <2>5, <2>6, <1>1 DEF OutputsFresh, OneOutputPerStep
<1>11. InIdle' /\ InSchedule' /\ InPass1' /\ AfterPass1'
  BY <1>1 DEF InIdle, InSchedule, InPass1, AfterPass1
<1> QED BY <1>2, <1>6, <1>7, <1>9, <1>10, <1>11 DEF SchedInv

\* Every step of the engine, and every arrival and abort between two of them,
\* keeps the invariant.
LEMMA SchedStep == SchedInv /\ [SchedNext]_schedVars => SchedInv'
<1> SUFFICES ASSUME SchedInv, [SchedNext]_schedVars PROVE SchedInv'
  OBVIOUS
<1>1. ASSUME NEW id \in Ids, NEW promptLen \in PromptLens,
             NEW outputLen \in OutputLens, AddRequest(id, promptLen, outputLen)
      PROVE  SchedInv'
  BY <1>1, AddRequestInv
<1>2. ASSUME NEW id \in Ids, AbortRequest(id) PROVE SchedInv'
  BY <1>2, AbortRequestInv
<1>3. ASSUME NEW stop \in BOOLEAN, UpdateToken(stop) PROVE SchedInv'
  BY <1>3, UpdateTokenInv
<1>4. CASE Step
  BY <1>3, <1>4, BeginScheduleInv, ScheduleRunningInv, PreemptTailInv,
     EndPass1Inv, AdmitNextInv, EndPass2Inv, RunModelInv, SkipChunkInv,
     EndUpdateInv DEF Step
<1>5. CASE UNCHANGED schedVars
  <2>1. CoreInv'
    BY <1>5, CoreUnchanged DEF SchedInv, schedVars, CoreVars
  <2>2. /\ LocalTypeOK' /\ RunningBounded' /\ InIdle' /\ InSchedule' /\ InPass1'
        /\ AfterPass1' /\ InUpdate' /\ OutputsFresh'
    BY <1>5
       DEF SchedInv, schedVars, kvVars, queueVars, localVars, LocalTypeOK,
           RunningBounded, InIdle, InSchedule, InPass1, AfterPass1, InUpdate,
           OutputsFresh, OneOutputPerStep, TailLacksMore, Lacking,
           NobodyPreempted, EntryCurrent, HasStatus, Live
  <2> QED BY <2>1, <2>2 DEF SchedInv
<1> QED BY <1>1, <1>2, <1>4, <1>5 DEF SchedNext

\* SchedInv holds in every state of every behaviour.
THEOREM SchedInvariant == SchedSpec => []SchedInv
<1>1. SchedInit => SchedInv
  BY InitInv
<1>2. SchedInv /\ [SchedNext]_schedVars => SchedInv'
  BY SchedStep
<1> QED BY <1>1, <1>2, PTL DEF SchedSpec

\* The scheduler's state has its type.
THEOREM SchedTypeCorrect == SchedSpec => []SchedTypeOK
<1>1. SchedInv => SchedTypeOK
  BY DEF SchedInv, CoreInv, LocalTypeOK, SchedTypeOK
<1> QED BY <1>1, SchedInvariant, PTL

\* id_to_request_, the three lists and the status fields of the requests agree
\* in every state (scheduler.cpp: add_request, schedule, update, remove_request).
THEOREM SchedQueuesConsistent == SchedSpec => []QueuesConsistent
<1>1. SchedInv => QueuesConsistent
  BY DEF SchedInv, CoreInv
<1> QED BY <1>1, SchedInvariant, PTL

\* A request holds the blocks its computed tokens need while it runs, and none
\* otherwise: release_blocks' .at() never throws.
THEOREM SchedBlocksMatch == SchedSpec => []BlocksMatchComputed
<1>1. SchedInv => BlocksMatchComputed
  BY DEF SchedInv, CoreInv
<1> QED BY <1>1, SchedInvariant, PTL

\* The blocks of the scheduler's pool are each in one place: the pool's own
\* guarantees hold of it as the scheduler uses it.
THEOREM SchedBlocksExclusive == SchedSpec => [](ExclusiveBlocks /\ NoLeakedBlock)
<1>1. SchedInv => ExclusiveBlocks /\ NoLeakedBlock
  BY DEF SchedInv, CoreInv
<1> QED BY <1>1, SchedInvariant, PTL

\* The assertions of schedule() and of allocate_slots never fail.
THEOREM SchedAllocatesWithinContract == SchedSpec => []AllocatesWithinContract
<1>1. ASSUME SchedInv PROVE AllocatesWithinContract
  <2>1. ASSUME MoreRunning
        PROVE  NumToSchedule(Current) > 0 /\ AllocateContract(Current, CurrentSlots)
    <3>1. NumToSchedule(Current) \in 1 .. tokenBudget /\ AllocateContract(Current, CurrentSlots)
      BY <1>1, <2>1, CurrentTokens
    <3> QED BY <3>1
  <2>2. ASSUME MoreToAdmit
        PROVE  NumToAdmit(Candidate) > 0 /\ AllocateContract(Candidate, CandidateSlots)
    <3>1. /\ allocatedBlocks[Candidate] = <<>>
          /\ CandidateSlots = NumToAdmit(Candidate)
          /\ NumToAdmit(Candidate) \in 1 .. tokenBudget
      BY <1>1, <2>2, CandidateRequest DEF SchedInv
    <3>2. NumRequiredBlocks(CandidateSlots) \in Nat /\ CandidateSlots > 0
      BY <3>1, RequiredBlocks
    <3> QED BY <3>1, <3>2 DEF AllocateContract, NumBlocksToAllocate
  <2> QED BY <2>1, <2>2 DEF AllocatesWithinContract
<1>2. SchedInv => AllocatesWithinContract
  BY <1>1
<1> QED BY <1>2, SchedInvariant, PTL

\* The entries of a step describe the requests as they are when the model runs,
\* whatever was preempted after an entry was made.
THEOREM SchedScheduledCurrent == SchedSpec => []ScheduledCurrent
<1>1. ASSUME SchedInv PROVE ScheduledCurrent
  <2>1. DOMAIN scheduled = 1 .. Len(scheduled)
    BY <1>1 DEF SchedInv, LocalTypeOK
  <2> QED BY <2>1, <1>1 DEF SchedInv, InSchedule, ScheduledCurrent
<1>2. SchedInv => ScheduledCurrent
  BY <1>1
<1> QED BY <1>2, SchedInvariant, PTL

\* A step has an entry for every running request, in order.
THEOREM SchedAllRunningScheduled == SchedSpec => []AllRunningScheduled
<1>1. ASSUME SchedInv PROVE AllRunningScheduled
  <2>1. DOMAIN scheduled = 1 .. Len(scheduled)
    BY <1>1 DEF SchedInv, LocalTypeOK
  <2> QED BY <2>1, <1>1 DEF SchedInv, InSchedule, AfterPass1, AllRunningScheduled
<1>2. SchedInv => AllRunningScheduled
  BY <1>1
<1> QED BY <1>2, SchedInvariant, PTL

\* Between two steps only the youngest running request is in its prefill.
THEOREM SchedChunkOnlyAtTail == SchedSpec => []ChunkOnlyAtTail
<1>1. ASSUME SchedInv PROVE ChunkOnlyAtTail
  <2> SUFFICES ASSUME phase = "idle", NEW i \in DOMAIN running
               PROVE  /\ request[running[i]].numComputed < request[running[i]].numTokens
                      /\ i < Len(running) =>
                            request[running[i]].numComputed + 1 =
                            request[running[i]].numTokens
    BY DEF ChunkOnlyAtTail
  <2>1. i \in 1 .. Len(running) /\ running[i] \in Ids /\ running[i] \in ToSet(running)
    <3>1. running \in Seq(Ids) /\ i \in 1 .. Len(running)
      BY <1>1 DEF SchedInv, CoreInv
    <3> QED BY <3>1, SequenceElements
  <2>2. request[running[i]] \in Requests
    BY <2>1, <1>1, LiveRequests DEF SchedInv
  <2>3. /\ request[running[i]].numTokens - request[running[i]].numComputed >= 1
        /\ i < Len(running) =>
              request[running[i]].numTokens - request[running[i]].numComputed = 1
    BY <2>1, <1>1 DEF SchedInv, InIdle, TailLacksMore, Lacking
  <2> QED BY <2>2, <2>3 DEF Requests
<1>2. SchedInv => ChunkOnlyAtTail
  BY <1>1
<1> QED BY <1>2, SchedInvariant, PTL

\* A step of an engine that has requests advances the oldest of them, for any
\* pool that can hold one request of the maximal length.
THEOREM SchedOldestScheduled == SchedSpec => []OldestScheduled
<1>1. ASSUME SchedInv PROVE OldestScheduled
  <2> SUFFICES ASSUME phase = "scheduled", Live # {}
               PROVE  scheduled # <<>> /\ scheduled[1].id = Head(ServiceOrder)
    BY DEF OldestScheduled
  <2>1. scheduled # <<>> /\ Len(scheduled) = Len(running)
    BY <1>1 DEF SchedInv, AfterPass1
  <2>2. /\ running \in Seq(Ids) /\ preempted \in Seq(Ids) /\ waiting \in Seq(Ids)
        /\ scheduled \in Seq(ScheduledRequests)
    BY <1>1 DEF SchedInv, CoreInv, LocalTypeOK
  <2>3. 1 \in 1 .. Len(scheduled) /\ 1 \in 1 .. Len(running)
    BY <2>1, <2>2
  <2>4. scheduled[1].id = running[1]
    BY <2>3, <1>1 DEF SchedInv, InSchedule
  <2>5. Head(ServiceOrder) = running[1]
    BY <2>2, <2>3 DEF ServiceOrder
  <2> QED BY <2>1, <2>4, <2>5
<1>2. SchedInv => OldestScheduled
  BY <1>1
<1> QED BY <1>2, SchedInvariant, PTL

\* A step answers each request at most once, and a request is gone exactly when
\* its answer says so.
THEOREM SchedOneOutputPerStep == SchedSpec => []OneOutputPerStep
<1>1. SchedInv => OneOutputPerStep
  BY DEF SchedInv, OutputsFresh
<1> QED BY <1>1, SchedInvariant, PTL

-----------------------------------------------------------------------------
(* Refinements: of the queues, and of the pool.                              *)

\* Erasing from the first of two lists erases from the line they form.
LEMMA EraseInFirst ==
    ASSUME NEW S, NEW s \in Seq(S), NEW t \in Seq(S), NEW k \in 1 .. Len(s)
    PROVE  RemoveAt(s, k) \o t = RemoveAt(s \o t, k)
<1> DEFINE a == RemoveAt(s, k) \o t
           b == RemoveAt(s \o t, k)
           m == Len(s)
           n == Len(t)
<1>1. /\ RemoveAt(s, k) \in Seq(S) /\ Len(RemoveAt(s, k)) = m - 1
      /\ \A i \in 1 .. (m - 1) : RemoveAt(s, k)[i] = IF i < k THEN s[i] ELSE s[i + 1]
  BY EraseNode
<1>2. /\ s \o t \in Seq(S) /\ Len(s \o t) = m + n /\ m \in Nat /\ n \in Nat
      /\ \A i \in 1 .. (m + n) : (s \o t)[i] = IF i <= m THEN s[i] ELSE t[i - m]
  BY ConcatProperties, LenProperties
<1>3. k \in 1 .. Len(s \o t)
  BY <1>2
<1>4. /\ b \in Seq(S) /\ Len(b) = m + n - 1
      /\ \A i \in 1 .. (m + n - 1) :
            b[i] = IF i < k THEN (s \o t)[i] ELSE (s \o t)[i + 1]
  <2> DEFINE u == s \o t
  <2>1. /\ u \in Seq(S) /\ k \in 1 .. Len(u) /\ Len(u) = m + n
        /\ m \in Nat /\ n \in Nat
    BY <1>2, <1>3
  <2> HIDE DEF u, m, n
  <2>2. /\ RemoveAt(u, k) \in Seq(S) /\ Len(RemoveAt(u, k)) = Len(u) - 1
        /\ \A i \in 1 .. (Len(u) - 1) :
              RemoveAt(u, k)[i] = IF i < k THEN u[i] ELSE u[i + 1]
    BY <2>1, EraseNode
  <2>3. Len(u) - 1 = m + n - 1
    BY <2>1
  <2> QED BY <2>2, <2>3, Zenon DEF u
<1>5. /\ a \in Seq(S) /\ Len(a) = m - 1 + n
      /\ \A i \in 1 .. (m - 1 + n) :
            a[i] = IF i <= m - 1 THEN RemoveAt(s, k)[i] ELSE t[i - (m - 1)]
  <2> HIDE DEF m, n
  <2> DEFINE r == RemoveAt(s, k)
  <2>1. r \in Seq(S) /\ Len(r) = m - 1
    BY <1>1
  <2> HIDE DEF r
  <2>2. /\ r \o t \in Seq(S)
        /\ Len(r \o t) = Len(r) + Len(t)
        /\ \A i \in 1 .. (Len(r) + Len(t)) :
              (r \o t)[i] = IF i <= Len(r) THEN r[i] ELSE t[i - Len(r)]
    BY <2>1, ConcatProperties
  <2> QED BY <2>1, <2>2 DEF r, n
<1> HIDE DEF a, b, m, n
<1>6. ASSUME NEW i \in 1 .. Len(a) PROVE a[i] = b[i]
  <2>1. i \in 1 .. (m + n - 1) /\ i \in 1 .. (m - 1 + n) /\ i + 1 \in 1 .. (m + n)
    BY <1>2, <1>5
  <2>2. CASE i < k
    <3>1. i <= m - 1 /\ i \in 1 .. (m - 1) /\ i <= m /\ i \in 1 .. (m + n)
      BY <2>1, <2>2, <1>2 DEF m
    <3> QED BY <3>1, <2>1, <2>2, <1>1, <1>2, <1>4, <1>5
  <2>3. CASE i >= k /\ i <= m - 1
    <3>1. i \in 1 .. (m - 1) /\ i + 1 <= m /\ ~ (i < k)
      BY <2>1, <2>3, <1>2
    <3> QED BY <3>1, <2>1, <2>3, <1>1, <1>2, <1>4, <1>5
  <2>4. CASE i > m - 1
    <3>1. ~ (i <= m - 1) /\ ~ (i + 1 <= m) /\ ~ (i < k) /\ (i + 1) - m = i - (m - 1)
      BY <2>1, <2>4, <1>2 DEF m
    <3> QED BY <3>1, <2>1, <1>2, <1>4, <1>5
  <2> QED BY <2>2, <2>3, <2>4, <2>1, <1>2
<1>7. a = b
  <2>1. Len(a) = Len(b)
    BY <1>2, <1>4, <1>5
  <2> QED BY <2>1, <1>4, <1>5, <1>6, SeqEqual
<1> QED BY <1>7 DEF a, b

\* The same for the second of two lists.
LEMMA EraseInSecond ==
    ASSUME NEW S, NEW s \in Seq(S), NEW t \in Seq(S), NEW k \in 1 .. Len(t)
    PROVE  /\ s \o RemoveAt(t, k) = RemoveAt(s \o t, Len(s) + k)
           /\ Len(s) + k \in 1 .. Len(s \o t)
<1> DEFINE r == RemoveAt(t, k)
           a == s \o r
           b == RemoveAt(s \o t, Len(s) + k)
           m == Len(s)
           n == Len(t)
<1>1. /\ r \in Seq(S) /\ Len(r) = n - 1
      /\ \A i \in 1 .. (n - 1) : r[i] = IF i < k THEN t[i] ELSE t[i + 1]
  BY EraseNode
<1>2. /\ s \o t \in Seq(S) /\ Len(s \o t) = m + n /\ m \in Nat /\ n \in Nat
      /\ \A i \in 1 .. (m + n) : (s \o t)[i] = IF i <= m THEN s[i] ELSE t[i - m]
  BY ConcatProperties, LenProperties
<1>3. Len(s) + k \in 1 .. Len(s \o t)
  BY <1>2
<1>4. /\ b \in Seq(S) /\ Len(b) = m + n - 1
      /\ \A i \in 1 .. (m + n - 1) :
            b[i] = IF i < m + k THEN (s \o t)[i] ELSE (s \o t)[i + 1]
  <2> DEFINE u == s \o t
             j == m + k
  <2>1. /\ u \in Seq(S) /\ j \in 1 .. Len(u) /\ Len(u) = m + n
        /\ m \in Nat /\ n \in Nat
    BY <1>2, <1>3
  <2> HIDE DEF u, m, n, j
  <2>2. /\ RemoveAt(u, j) \in Seq(S) /\ Len(RemoveAt(u, j)) = Len(u) - 1
        /\ \A i \in 1 .. (Len(u) - 1) :
              RemoveAt(u, j)[i] = IF i < j THEN u[i] ELSE u[i + 1]
    BY <2>1, EraseNode
  <2>3. Len(u) - 1 = m + n - 1
    BY <2>1
  <2> QED BY <2>2, <2>3, Zenon DEF u, j, m
<1> HIDE DEF r
<1>5. /\ a \in Seq(S) /\ Len(a) = m + (n - 1)
      /\ \A i \in 1 .. (m + (n - 1)) : a[i] = IF i <= m THEN s[i] ELSE r[i - m]
  <2> HIDE DEF n
  <2>1. /\ s \o r \in Seq(S)
        /\ Len(s \o r) = Len(s) + Len(r)
        /\ \A i \in 1 .. (Len(s) + Len(r)) :
              (s \o r)[i] = IF i <= Len(s) THEN s[i] ELSE r[i - Len(s)]
    BY <1>1, ConcatProperties
  <2> QED BY <2>1, <1>1
<1> HIDE DEF a, b, m, n
<1>6. ASSUME NEW i \in 1 .. Len(a) PROVE a[i] = b[i]
  <2>1. i \in 1 .. (m + n - 1) /\ i \in 1 .. (m + (n - 1)) /\ i + 1 \in 1 .. (m + n)
        /\ i \in 1 .. (m + n)
    BY <1>2, <1>5
  <2>2. CASE i <= m
    <3>1. i < m + k
      BY <2>1, <2>2, <1>2
    <3> QED BY <3>1, <2>1, <2>2, <1>2, <1>4, <1>5
  <2>3. CASE i > m /\ i < m + k
    <3>1. ~ (i <= m) /\ i - m \in 1 .. (n - 1) /\ i - m < k
      BY <2>1, <2>3, <1>2
    <3> QED BY <3>1, <2>1, <2>3, <1>1, <1>2, <1>4, <1>5
  <2>4. CASE i >= m + k
    <3>1. /\ ~ (i <= m) /\ ~ (i + 1 <= m) /\ ~ (i < m + k)
          /\ i - m \in 1 .. (n - 1) /\ ~ (i - m < k) /\ (i + 1) - m = (i - m) + 1
      BY <2>1, <2>4, <1>2
    <3> QED BY <3>1, <2>1, <1>1, <1>2, <1>4, <1>5
  <2> QED BY <2>2, <2>3, <2>4, <2>1, <1>2
<1>7. a = b
  <2>1. Len(a) = Len(b)
    BY <1>2, <1>4, <1>5
  <2> QED BY <2>1, <1>4, <1>5, <1>6, SeqEqual
<1> QED BY <1>3, <1>7 DEF a, b, r

\* Moving the boundary between two lists leaves the line they form as it is.
LEMMA MoveForward ==
    ASSUME NEW S, NEW s \in Seq(S), NEW t \in Seq(S), t # <<>>
    PROVE  Append(s, Head(t)) \o Tail(t) = s \o t
<1>1. /\ Append(s, Head(t)) \o Tail(t) \in Seq(S) /\ s \o t \in Seq(S)
      /\ Len(Append(s, Head(t)) \o Tail(t)) = Len(s \o t)
      /\ \A i \in 1 .. Len(s \o t) : (Append(s, Head(t)) \o Tail(t))[i] = (s \o t)[i]
  OBVIOUS
<1> QED BY <1>1, SeqEqual

LEMMA MoveBack ==
    ASSUME NEW S, NEW s \in Seq(S), NEW t \in Seq(S), s # <<>>
    PROVE  Front(s) \o (<<Last(s)>> \o t) = s \o t
<1> DEFINE f == Front(s)
           l == Last(s)
           n == Len(s)
<1>1. /\ f \in Seq(S) /\ Len(f) = n - 1
      /\ \A i \in 1 .. (n - 1) : f[i] = s[i]
      /\ l = s[n] /\ n \in Nat /\ n > 0
  <2>1. /\ f \in Seq(S) /\ Len(f) = n - 1
        /\ \A i \in 1 .. (n - 1) : f[i] = s[i]
        /\ l = s[n]
    BY DropLast
  <2> QED BY <2>1
<1>2. l \in S
  BY <1>1
<1> HIDE DEF f, l
<1>3. /\ f \o (<<l>> \o t) \in Seq(S) /\ s \o t \in Seq(S)
      /\ Len(f \o (<<l>> \o t)) = Len(s \o t)
  <2> HIDE DEF n
  <2>1. /\ <<l>> \o t \in Seq(S) /\ Len(<<l>> \o t) = 1 + Len(t) /\ Len(t) \in Nat
    BY <1>2
  <2>2. /\ f \o (<<l>> \o t) \in Seq(S)
        /\ Len(f \o (<<l>> \o t)) = Len(f) + Len(<<l>> \o t)
    BY <2>1, <1>1, ConcatProperties
  <2>3. s \o t \in Seq(S) /\ Len(s \o t) = n + Len(t)
    BY ConcatProperties DEF n
  <2>4. (n - 1) + (1 + Len(t)) = n + Len(t)
    BY <2>1, <1>1
  <2> QED BY <2>1, <2>2, <2>3, <2>4, <1>1, Zenon
<1>4. \A i \in 1 .. Len(s \o t) : (f \o (<<l>> \o t))[i] = (s \o t)[i]
  BY <1>1, <1>2
<1>5. f \o (<<l>> \o t) = s \o t
  BY <1>3, <1>4, SeqEqual
<1> QED BY <1>5 DEF f, l

\* remove_request takes the request out of the line, and shortens the served
\* part of the line exactly when the request was running.
LEMMA RemovedLeaves ==
    ASSUME CoreInv, NEW id \in Ids, id \in Live, RemoveRequest(id)
    PROVE  \E i \in DOMAIN ServiceOrder : FCFS!Leave(i)
<1> DEFINE rp == running \o preempted
<1>1. /\ running \in Seq(Ids) /\ preempted \in Seq(Ids) /\ waiting \in Seq(Ids)
      /\ Len(running) \in Nat
  BY DEF CoreInv
<1>2. /\ rp \in Seq(Ids) /\ Len(rp) = Len(running) + Len(preempted)
      /\ rp \o waiting \in Seq(Ids)
      /\ Len(rp \o waiting) = Len(rp) + Len(waiting)
      /\ Len(rp) \in Nat /\ Len(preempted) \in Nat /\ Len(waiting) \in Nat
  BY <1>1, ConcatProperties, LenProperties
<1>3. /\ DOMAIN (rp \o waiting) = 1 .. Len(rp \o waiting)
      /\ ServiceOrder = rp \o waiting
  BY <1>2, LenProperties DEF ServiceOrder
<1>4. IF HasStatus(id, "kRunning")
        THEN /\ ErasedFrom(running', running, id)
             /\ UNCHANGED <<preempted, waiting>>
        ELSE /\ UNCHANGED running
             /\ IF HasStatus(id, "kPreempted")
                  THEN ErasedFrom(preempted', preempted, id) /\ UNCHANGED waiting
                  ELSE ErasedFrom(waiting', waiting, id) /\ UNCHANGED preempted
  BY RemoveRequestCore
<1>5. ASSUME NEW i \in 1 .. Len(rp \o waiting),
             ServiceOrder' = RemoveAt(rp \o waiting, i),
             Len(running') = IF i <= Len(running) THEN Len(running) - 1 ELSE Len(running)
      PROVE  \E j \in DOMAIN ServiceOrder : FCFS!Leave(j)
  <2>1. FCFS!Leave(i)
    BY <1>3, <1>5 DEF FCFS!Leave, FCFS!RemoveAt, RemoveAt
  <2> QED BY <2>1, <1>3
<1>6. CASE HasStatus(id, "kRunning")
  <2>1. PICK k \in 1 .. Len(running) :
           running' = RemoveAt(running, k) /\ Len(running') = Len(running) - 1
    BY <1>4, <1>6 DEF ErasedFrom
  <2>2. RemoveAt(running, k) \o preempted = RemoveAt(rp, k)
    BY <1>1, EraseInFirst
  <2>3. k \in 1 .. Len(rp) /\ k \in 1 .. Len(rp \o waiting) /\ k <= Len(running)
    BY <1>1, <1>2
  <2>4. RemoveAt(rp, k) \o waiting = RemoveAt(rp \o waiting, k)
    <3> HIDE DEF rp
    <3> QED BY <1>1, <1>2, <2>3, EraseInFirst
  <2>5. ServiceOrder' = RemoveAt(rp \o waiting, k)
    BY <2>1, <2>2, <2>4, <1>4, <1>6 DEF ServiceOrder
  <2> QED BY <2>1, <2>3, <2>5, <1>5
<1>7. CASE ~ HasStatus(id, "kRunning") /\ HasStatus(id, "kPreempted")
  <2>1. PICK k \in 1 .. Len(preempted) : preempted' = RemoveAt(preempted, k)
    BY <1>4, <1>7 DEF ErasedFrom
  <2> DEFINE j == Len(running) + k
  <2>2. running \o RemoveAt(preempted, k) = RemoveAt(rp, j)
    BY <1>1, EraseInSecond
  <2>3. j \in 1 .. Len(rp) /\ j \in 1 .. Len(rp \o waiting) /\ ~ (j <= Len(running))
    BY <1>1, <1>2
  <2>4. RemoveAt(rp, j) \o waiting = RemoveAt(rp \o waiting, j)
    <3> HIDE DEF rp, j
    <3> QED BY <1>1, <1>2, <2>3, EraseInFirst
  <2>5. ServiceOrder' = RemoveAt(rp \o waiting, j)
    BY <2>1, <2>2, <2>4, <1>4, <1>7 DEF ServiceOrder
  <2> HIDE DEF j
  <2> QED BY <2>3, <2>5, <1>4, <1>5, <1>7
<1>8. CASE ~ HasStatus(id, "kRunning") /\ ~ HasStatus(id, "kPreempted")
  <2>1. PICK k \in 1 .. Len(waiting) : waiting' = RemoveAt(waiting, k)
    BY <1>4, <1>8 DEF ErasedFrom
  <2> DEFINE j == Len(rp) + k
  <2>2. j \in 1 .. Len(rp \o waiting) /\ ~ (j <= Len(running))
    BY <1>1, <1>2
  <2>3. rp \o RemoveAt(waiting, k) = RemoveAt(rp \o waiting, j)
    <3> HIDE DEF rp
    <3> QED BY <1>1, <1>2, EraseInSecond
  <2>4. ServiceOrder' = RemoveAt(rp \o waiting, j)
    BY <2>1, <2>3, <1>4, <1>8 DEF ServiceOrder
  <2> HIDE DEF j
  <2> QED BY <2>2, <2>4, <1>4, <1>5, <1>8
<1> QED BY <1>6, <1>7, <1>8

LEMMA AddRequestArrives ==
    ASSUME CoreInv, NEW id \in Ids, NEW promptLen \in PromptLens,
           NEW outputLen \in OutputLens, AddRequest(id, promptLen, outputLen)
    PROVE  FCFS!Arrive(id)
<1> DEFINE rp == running \o preempted
<1>1. /\ running \in Seq(Ids) /\ preempted \in Seq(Ids) /\ waiting \in Seq(Ids)
      /\ waiting' = Append(waiting, id) /\ running' = running /\ preempted' = preempted
      /\ request[id] = NoRequest
  BY DEF CoreInv, AddRequest
<1>2. /\ id \notin ToSet(running) /\ id \notin ToSet(preempted)
      /\ id \notin ToSet(waiting)
  BY <1>1 DEF CoreInv, QueuesConsistent, HasStatus, NoRequest
<1>3. rp \in Seq(Ids) /\ ToSet(rp) = ToSet(running) \cup ToSet(preempted)
  BY <1>1, JoinSequences
<1>4. rp \o waiting \in Seq(Ids) /\ ToSet(rp \o waiting) = ToSet(rp) \cup ToSet(waiting)
  <2> HIDE DEF rp
  <2> QED BY <1>1, <1>3, JoinSequences
<1>5. ~ Contains(rp \o waiting, id)
  <2> DEFINE all == rp \o waiting
  <2>1. all \in Seq(Ids) /\ id \notin ToSet(all)
    BY <1>2, <1>3, <1>4
  <2> HIDE DEF all
  <2>2. ~ Contains(all, id)
    BY <2>1, SequenceElements DEF Contains
  <2> QED BY <2>2 DEF all
<1>6. rp \o Append(waiting, id) = Append(rp \o waiting, id)
  <2> HIDE DEF rp
  <2>1. /\ Append(waiting, id) = waiting \o <<id>>
        /\ Append(rp \o waiting, id) = (rp \o waiting) \o <<id>>
    BY <1>1, <1>4, AppendIsConcat
  <2>2. <<id>> \in Seq(Ids)
    OBVIOUS
  <2> QED BY <2>1, <2>2, <1>1, <1>3, ConcatAssociative
<1> QED BY <1>1, <1>5, <1>6
     DEF FCFS!Arrive, FCFS!Contains, Contains, ServiceOrder

LEMMA AdmitNextAdmits ==
    ASSUME SchedInv, AdmitNext
    PROVE  FCFS!Admit
<1> DEFINE rp == running \o preempted
<1>1. CoreInv /\ LocalTypeOK /\ MoreToAdmit /\ phase = "pass2"
  BY DEF SchedInv, AdmitNext, MoreToAdmit
<1>2. /\ running \in Seq(Ids) /\ preempted \in Seq(Ids) /\ waiting \in Seq(Ids)
      /\ preempted # <<>> \/ waiting # <<>>
      /\ running' = Append(running, Candidate)
      /\ preempted' = IF preempted # <<>> THEN Tail(preempted) ELSE preempted
      /\ waiting' = IF preempted # <<>> THEN waiting ELSE Tail(waiting)
  BY <1>1 DEF CoreInv, AdmitNext, MoreToAdmit
<1>3. Len(running) \in Nat /\ Len(running') = Len(running) + 1
  BY AdmittedQueues
<1>4. Len(running) < MaxNumSeqs
  BY <1>1 DEF SchedInv, AfterPass1, MoreToAdmit, StepHasRoom
<1>5. ServiceOrder' = ServiceOrder
  <2>1. CASE preempted # <<>>
    <3>1. Append(running, Head(preempted)) \o Tail(preempted) = running \o preempted
      BY <2>1, <1>2, MoveForward
    <3> QED BY <3>1, <2>1, <1>2 DEF ServiceOrder, Candidate
  <2>2. CASE preempted = <<>>
    <3>1. Append(running, Head(waiting)) \o Tail(waiting) = running \o waiting
      BY <2>2, <1>2, MoveForward
    <3>2. running \o <<>> = running
      BY <1>2, ConcatEmptySeq
    <3>3. Append(running, Head(waiting)) \in Seq(Ids)
      BY <2>2, <1>2
    <3>4. Append(running, Head(waiting)) \o <<>> = Append(running, Head(waiting))
      BY <3>3, ConcatEmptySeq
    <3> QED BY <3>1, <3>2, <3>4, <2>2, <1>2 DEF ServiceOrder, Candidate
  <2> QED BY <2>1, <2>2
<1>6. Len(running) < Len(ServiceOrder)
  <2>1. /\ rp \in Seq(Ids) /\ Len(rp) = Len(running) + Len(preempted)
        /\ Len(rp \o waiting) = Len(rp) + Len(waiting)
    BY <1>2, ConcatProperties
  <2>2. /\ Len(preempted) \in Nat /\ Len(waiting) \in Nat
        /\ Len(preempted) > 0 \/ Len(waiting) > 0
    BY <1>2, EmptySeq, LenProperties
  <2>3. ServiceOrder = rp \o waiting
    BY DEF ServiceOrder
  <2> HIDE DEF rp
  <2> QED BY <2>1, <2>2, <2>3, <1>3
<1> QED BY <1>3, <1>4, <1>5, <1>6 DEF FCFS!Admit

LEMMA PreemptTailSuspends ==
    ASSUME SchedInv, PreemptTail
    PROVE  FCFS!Suspend
<1>1. Len(running) > 1 /\ Len(running') = Len(running) - 1
  BY PreemptedQueues
<1>2. /\ running \in Seq(Ids) /\ preempted \in Seq(Ids) /\ running # <<>>
      /\ running' = Front(running) /\ preempted' = <<Last(running)>> \o preempted
      /\ waiting' = waiting
  BY <1>1 DEF SchedInv, CoreInv, PreemptTail, PreemptedAtFront
<1>3. Front(running) \o (<<Last(running)>> \o preempted) = running \o preempted
  BY <1>2, MoveBack
<1> QED BY <1>1, <1>2, <1>3 DEF FCFS!Suspend, ServiceOrder

LEMMA FCFSStep ==
    ASSUME SchedInv, [SchedNext]_schedVars
    PROVE  [FCFS!QueueNext]_(FCFS!queueVars)
<1>1. CoreInv
  BY DEF SchedInv
<1>2. ASSUME UNCHANGED queueVars PROVE UNCHANGED FCFS!queueVars
  BY <1>2 DEF queueVars, FCFS!queueVars, ServiceOrder
<1>3. ASSUME NEW id \in Ids, NEW promptLen \in PromptLens,
             NEW outputLen \in OutputLens, AddRequest(id, promptLen, outputLen)
      PROVE  FCFS!QueueNext
  BY <1>1, <1>3, AddRequestArrives DEF FCFS!QueueNext
<1>4. ASSUME NEW id \in Ids, AbortRequest(id) PROVE FCFS!QueueNext
  BY <1>1, <1>4, RemovedLeaves DEF FCFS!QueueNext, AbortRequest, Live
<1>5. ASSUME NEW stop \in BOOLEAN, UpdateToken(stop)
      PROVE  [FCFS!QueueNext]_(FCFS!queueVars)
  <2> DEFINE id == Head(scheduled).id
             r  == [request[id] EXCEPT !.numTokens = @ + 1]
  <2>1. KeepOrRemove(id, r, FinishReason(r, stop))
    BY <1>5 DEF UpdateToken
  <2>2. id \in Ids /\ id \in Live
    BY <1>5, SampledRequest DEF UpdateToken
  <2> HIDE DEF id, r
  <2>3. UNCHANGED queueVars \/ RemoveRequest(id)
    BY <2>1 DEF KeepOrRemove
  <2> QED BY <2>2, <2>3, <1>1, <1>2, RemovedLeaves DEF FCFS!QueueNext
<1>6. ASSUME BeginSchedule \/ ScheduleRunning \/ EndPass1 \/ EndPass2 \/ RunModel
             \/ SkipChunk \/ EndUpdate \/ UNCHANGED schedVars
      PROVE  UNCHANGED queueVars
  BY <1>6 DEF BeginSchedule, ScheduleRunning, EndPass1, EndPass2, RunModel,
              SkipChunk, EndUpdate, schedVars
<1>7. CASE Step
  BY <1>2, <1>5, <1>6, <1>7, AdmitNextAdmits, PreemptTailSuspends
     DEF Step, FCFS!QueueNext
<1> QED BY <1>2, <1>3, <1>4, <1>6, <1>7 DEF SchedNext

\* scheduler.h:21: the scheduler serves first come, first served: requests are
\* admitted and resumed in order of arrival, only the youngest running request
\* is ever preempted, and the oldest never.
THEOREM SchedFirstComeFirstServed == SchedSpec => FirstComeFirstServed
<1>1. SchedInit => FCFS!QueueInit
  <2> SUFFICES ASSUME SchedInit PROVE FCFS!QueueInit
    OBVIOUS
  <2>1. <<>> \o <<>> = <<>>
    BY <<>> \in Seq({}), ConcatEmptySeq
  <2> QED BY <2>1 DEF SchedInit, FCFS!QueueInit, ServiceOrder
<1>2. SchedInv /\ [SchedNext]_schedVars => [FCFS!QueueNext]_(FCFS!queueVars)
  BY FCFSStep
<1> QED BY <1>1, <1>2, SchedInvariant, PTL
     DEF SchedSpec, FirstComeFirstServed, FCFS!QueueSpec

LEMMA PoolStep ==
    ASSUME SchedInv, [SchedNext]_schedVars
    PROVE  [KVNext]_kvVars
<1>1. CoreInv /\ LocalTypeOK
  BY DEF SchedInv
<1>2. ASSUME NEW id \in Ids, id \in Live, ReleaseHeldBlocks(id)
      PROVE  [KVNext]_kvVars
  <2>1. CASE HasStatus(id, "kRunning")
    <3>1. request[id] \in Requests /\ request[id].numComputed > 0
      BY <2>1, <1>1, <1>2, LiveRequests DEF RequestSane, HasStatus
    <3>2. NumRequiredBlocks(request[id].numComputed) > 0
      BY <3>1, RequiredBlocks DEF Requests
    <3>3. Len(allocatedBlocks[id]) > 0
      BY <3>2, <2>1, <1>1 DEF CoreInv, BlocksMatchComputed
    <3>4. Release(id)
      BY <3>3, <2>1, <1>2 DEF Release, ReleaseHeldBlocks
    <3> QED BY <3>4 DEF KVNext
  <2>2. CASE ~ HasStatus(id, "kRunning")
    BY <2>2, <1>2 DEF ReleaseHeldBlocks
  <2> QED BY <2>1, <2>2
<1>3. ASSUME NEW id \in Ids, NEW slots \in Nat, slots < MaxModelLen,
             AllocateContract(id, slots), AllocateSlots(id, slots)
      PROVE  KVNext
  <2>1. slots \in 1 .. (NumBlocks * BlockSize)
    <3>1. slots > 0
      BY <1>3 DEF AllocateContract
    <3> QED BY <3>1, <1>3, PoolAssumption, MaxModelLenAssumption,
               NumBlocksAssumption, BlockSizeAssumption
  <2> QED BY <2>1, <1>3 DEF KVNext, Allocate
<1>4. CASE ScheduleRunning
  <2>1. MoreRunning /\ AllocateSlots(Current, CurrentSlots)
    BY <1>4 DEF ScheduleRunning
  <2>2. Current \in Ids
    BY <2>1, <1>1, CurrentRequest
  <2>3. /\ CurrentSlots \in Nat /\ CurrentSlots <= request[Current].numTokens
        /\ RequestSane(request[Current])
        /\ AllocateContract(Current, CurrentSlots)
    BY <2>1, CurrentTokens
  <2>4. CurrentSlots < MaxModelLen
    BY <2>3, MaxModelLenAssumption DEF RequestSane, Requests
  <2> QED BY <2>1, <2>2, <2>3, <2>4, <1>3
<1>5. CASE AdmitNext
  <2>1. MoreToAdmit /\ AllocateSlots(Candidate, CandidateSlots)
    BY <1>5 DEF AdmitNext
  <2>2. /\ Candidate \in Ids /\ Candidate \in Live
        /\ allocatedBlocks[Candidate] = <<>>
        /\ CandidateSlots = NumToAdmit(Candidate)
        /\ NumToAdmit(Candidate) \in 1 .. tokenBudget
        /\ NumToAdmit(Candidate) <= request[Candidate].numTokens
    BY <2>1, <1>1, CandidateRequest
  <2>3. CandidateSlots \in Nat /\ CandidateSlots > 0
    BY <2>2
  <2>4. CandidateSlots < MaxModelLen
    <3>1. RequestSane(request[Candidate])
      BY <2>2, <1>1, LiveRequests
    <3> QED BY <3>1, <2>2, <2>3, MaxModelLenAssumption DEF RequestSane, Requests
  <2>5. AllocateContract(Candidate, CandidateSlots)
    <3>1. NumRequiredBlocks(CandidateSlots) \in Nat
      BY <2>3, RequiredBlocks
    <3> QED BY <3>1, <2>2, <2>3 DEF AllocateContract, NumBlocksToAllocate
  <2> QED BY <2>1, <2>2, <2>3, <2>4, <2>5, <1>3
<1>6. CASE PreemptTail
  <2>1. /\ Last(running) \in Ids /\ Last(running) \in Live
        /\ HasStatus(Last(running), "kRunning")
    BY <1>6, PreemptedQueues
  <2>2. ReleaseHeldBlocks(Last(running))
    BY <2>1, <1>6 DEF PreemptTail, ReleaseHeldBlocks
  <2> QED BY <2>1, <2>2, <1>2
<1>7. ASSUME NEW id \in Ids, AbortRequest(id) PROVE [KVNext]_kvVars
  BY <1>2, <1>7 DEF AbortRequest, RemoveRequest, Live
<1>8. ASSUME NEW stop \in BOOLEAN, UpdateToken(stop) PROVE [KVNext]_kvVars
  <2> DEFINE id == Head(scheduled).id
             r  == [request[id] EXCEPT !.numTokens = @ + 1]
  <2>1. KeepOrRemove(id, r, FinishReason(r, stop))
    BY <1>8 DEF UpdateToken
  <2>2. id \in Ids /\ id \in Live
    BY <1>8, SampledRequest DEF UpdateToken
  <2> HIDE DEF id, r
  <2>3. UNCHANGED kvVars \/ ReleaseHeldBlocks(id)
    BY <2>1 DEF KeepOrRemove, RemoveRequest
  <2> QED BY <2>2, <2>3, <1>2
<1>9. ASSUME NEW id \in Ids, NEW promptLen \in PromptLens,
             NEW outputLen \in OutputLens, AddRequest(id, promptLen, outputLen)
      PROVE  UNCHANGED kvVars
  BY <1>9 DEF AddRequest
<1>10. ASSUME BeginSchedule \/ EndPass1 \/ EndPass2 \/ RunModel \/ SkipChunk
              \/ EndUpdate \/ UNCHANGED schedVars
       PROVE  UNCHANGED kvVars
  BY <1>10 DEF BeginSchedule, EndPass1, EndPass2, RunModel, SkipChunk, EndUpdate,
               schedVars
<1>11. CASE Step
  BY <1>4, <1>5, <1>6, <1>8, <1>10, <1>11 DEF Step
<1> QED BY <1>7, <1>9, <1>10, <1>11 DEF SchedNext

\* The scheduler calls allocate_slots and release_blocks only as the pool's
\* contract allows, so that what is proved of the pool holds in the engine.
THEOREM SchedKeepsPoolContract == SchedSpec => KVSpec
<1>1. SchedInit => KVInit
  BY DEF SchedInit
<1>2. SchedInv /\ [SchedNext]_schedVars => [KVNext]_kvVars
  BY PoolStep
<1> QED BY <1>1, <1>2, SchedInvariant, PTL DEF SchedSpec, KVSpec
=============================================================================
