---------------------------- MODULE KernelProofs ----------------------------
(***************************************************************************)
(* Proofs about the kernels.                                               *)
(*                                                                         *)
(* The shared memory of a thread block of the attention kernel, for any    *)
(* number of warps and of steps.  Between two barriers all warps are in    *)
(* the same stage of the same step (BlockInv).  What a warp copied is its  *)
(* own row of a region, [w][r], so that a stage says for each warp what    *)
(* its row holds or will hold when its copies have landed; the output is   *)
(* the exception, where a warp writes its column.  Then what the kernel    *)
(* attends to, for every batch of rows.                                    *)
(*                                                                         *)
(* The sampler, for every row of logits: the merge of ranges finds the     *)
(* first of the largest; the radix select finds a key that fewer than k    *)
(* logits exceed and at least k reach; the bucket of a thread and the      *)
(* stretches in it share the values of the uniform number out (Shares), so *)
(* that each token gets its weight of them; and a round's low bound is one *)
(* whose mass has reached the target, so that it is below the nucleus.     *)
(***************************************************************************)
EXTENDS MCKernels, ModelExecutionProofs, Sampler

-----------------------------------------------------------------------------
(* A thread block of the attention kernel.                                  *)

Contents == {"none", "query", "keys", "values", "output"} \X (Nat \cup Warps)

WarpPositions ==
    {"load query", "wait query", "query barrier", "read query", "query read barrier",
     "step", "wait keys", "keys barrier", "read keys", "wait values", "values barrier",
     "read values", "step barrier", "output barrier", "store", "done"}

BlockTypeOK ==
    /\ keySteps \in Nat
    /\ pc \in [Warps -> WarpPositions]
    /\ step \in [Warps -> Nat]
    /\ smem \in [Regions -> [Warps -> [Warps -> Contents]]]
    /\ inFlight \in [Warps -> SUBSET [nr : Nat, region : Regions, content : Contents]]
    /\ issued \in [Warps -> Nat]

\* Warp w's part of a region holds a tile.
Filled(region, w, content) == \A r \in Warps : smem[region][w][r] = content

\* The tile is there or on its way, and then nothing but the named copy brings it.
Coming(nr, region, w, content) ==
    Group(nr, region, content) \in inFlight[w] \/ Filled(region, w, content)

LoadingQuery(w) ==
    /\ step[w] = 0
    /\ \/ pc[w] = "load query" /\ inFlight[w] = {}
       \/ /\ pc[w] = "wait query" /\ issued[w] = 1
          /\ inFlight[w] \subseteq {Group(1, "qko", Query)}
          /\ Coming(1, "qko", w, Query)
       \/ pc[w] = "query barrier" /\ inFlight[w] = {} /\ Filled("qko", w, Query)

ReadingQuery(w) ==
    /\ step[w] = 0 /\ inFlight[w] = {} /\ Filled("qko", w, Query)
    /\ pc[w] \in {"read query", "query read barrier"}

\* n steps are over.  The values of the next may land before its keys.
LoadingKeys(n, w) ==
    \/ pc[w] = "step" /\ step[w] = n /\ inFlight[w] = {}
    \/ /\ pc[w] = "wait keys" /\ n < keySteps /\ step[w] = n + 1 /\ issued[w] > 1
       /\ inFlight[w] \subseteq {Group(issued[w] - 1, "qko", Keys(n + 1)),
                                 Group(issued[w], "v", Values(n + 1))}
       /\ Coming(issued[w] - 1, "qko", w, Keys(n + 1))
       /\ Coming(issued[w], "v", w, Values(n + 1))
    \/ /\ pc[w] = "keys barrier" /\ n < keySteps /\ step[w] = n + 1
       /\ inFlight[w] \subseteq {Group(issued[w], "v", Values(n + 1))}
       /\ Filled("qko", w, Keys(n + 1))
       /\ Coming(issued[w], "v", w, Values(n + 1))
    \/ /\ pc[w] = "output barrier" /\ n = keySteps /\ step[w] = n /\ inFlight[w] = {}
       /\ \A c \in Warps : smem["qko"][c][w] = Output(w)

Scoring(n, w) ==
    /\ step[w] = n /\ Filled("qko", w, Keys(n))
    /\ inFlight[w] \subseteq {Group(issued[w], "v", Values(n))}
    /\ Coming(issued[w], "v", w, Values(n))
    /\ pc[w] \in {"read keys", "wait values", "values barrier"}
    /\ pc[w] = "values barrier" => inFlight[w] = {}

Weighting(n, w) ==
    /\ step[w] = n /\ inFlight[w] = {} /\ Filled("v", w, Values(n))
    /\ pc[w] \in {"read values", "step barrier"}

Storing(w) ==
    /\ inFlight[w] = {} /\ pc[w] \in {"store", "done"}
    /\ \A c \in Warps : smem["qko"][c][w] = Output(w)

Stage ==
    \/ \A w \in Warps : LoadingQuery(w)
    \/ \A w \in Warps : ReadingQuery(w)
    \/ \E n \in 0 .. keySteps :
          \/ \A w \in Warps : LoadingKeys(n, w)
          \/ \A w \in Warps : Scoring(n, w)
          \/ \A w \in Warps : Weighting(n, w)
    \/ \A w \in Warps : Storing(w)

\* All warps are in the same stage.
BlockInv == BlockTypeOK /\ Stage

-----------------------------------------------------------------------------

LEMMA BlockInitInv == BlockInit => BlockInv
<1> SUFFICES ASSUME BlockInit PROVE BlockInv
  OBVIOUS
<1>1. BlockTypeOK
  <2>1. Empty \in Contents
    BY DEF Contents, Empty
  <2>2. keySteps \in Nat
    <3>1. keySteps \in 1 .. MaxKeySteps
      BY DEF BlockInit
    <3> QED
      BY <3>1, MaxKeyStepsAssumption
  <2>3. pc \in [Warps -> WarpPositions]
    BY DEF BlockInit, WarpPositions
  <2> QED
    BY <2>1, <2>2, <2>3 DEF BlockInit, BlockTypeOK
<1>2. \A w \in Warps : LoadingQuery(w)
  BY DEF BlockInit, LoadingQuery
<1> QED
  BY <1>1, <1>2 DEF BlockInv, Stage

LEMMA GroupFields ==
  ASSUME NEW nr, NEW region, NEW content
  PROVE  /\ Group(nr, region, content).nr = nr
         /\ Group(nr, region, content).region = region
         /\ Group(nr, region, content).content = content
BY DEF Group

LEMMA GroupType ==
  ASSUME NEW nr \in Nat, NEW region \in Regions, NEW content \in Contents
  PROVE  Group(nr, region, content) \in [nr : Nat, region : Regions, content : Contents]
BY DEF Group

LEMMA ContentTypes ==
  /\ Query \in Contents
  /\ \A n \in Nat : Keys(n) \in Contents /\ Values(n) \in Contents
  /\ \A w \in Warps : Output(w) \in Contents
BY DEF Query, Keys, Values, Output, Contents

LEMMA BarrierPositions == \A at \in DOMAIN AfterBarrier : AfterBarrier[at] \in WarpPositions
BY DEF AfterBarrier, WarpPositions

LEMMA BlockTypeStep == BlockTypeOK /\ [BlockNext]_blockVars => BlockTypeOK'
<1> SUFFICES ASSUME BlockTypeOK, [BlockNext]_blockVars PROVE BlockTypeOK'
  OBVIOUS
<1>1. CASE UNCHANGED blockVars
  BY <1>1 DEF BlockTypeOK, blockVars
<1>2. CASE SyncThreads
  BY <1>2, BarrierPositions DEF BlockTypeOK, SyncThreads
<1>3. ASSUME NEW w \in Warps, WarpStep(w) PROVE BlockTypeOK'
  <2>0. \A from, to : Goto(w, from, to) /\ to \in WarpPositions => pc' \in [Warps -> WarpPositions]
    BY DEF BlockTypeOK, Goto
  <2>1. CASE LoadQuery(w)
    <3>1. {Group(1, "qko", Query)} \subseteq [nr : Nat, region : Regions, content : Contents]
      BY GroupType, ContentTypes DEF Regions
    <3> QED
      BY <2>0, <2>1, <3>1 DEF BlockTypeOK, LoadQuery, WarpPositions
  <2>2. CASE LoadKeysAndValues(w)
    <3>1. step' \in [Warps -> Nat] /\ issued' \in [Warps -> Nat]
      <4>1. step \in [Warps -> Nat] /\ issued \in [Warps -> Nat]
        BY DEF BlockTypeOK
      <4>2. /\ step' = [step EXCEPT ![w] = @ + 1]
            /\ issued' = [issued EXCEPT ![w] = @ + 2]
        BY <2>2 DEF LoadKeysAndValues
      <4> QED
        BY <4>1, <4>2
    <3>3. pc' \in [Warps -> WarpPositions]
      BY <2>0, <2>2 DEF LoadKeysAndValues, WarpPositions
    <3>2. /\ Group(issued[w] + 1, "qko", Keys(step'[w])) \in
                [nr : Nat, region : Regions, content : Contents]
          /\ Group(issued[w] + 2, "v", Values(step'[w])) \in
                [nr : Nat, region : Regions, content : Contents]
      BY <3>1, GroupType, ContentTypes DEF BlockTypeOK, Regions
    <3> QED
      BY <2>2, <3>1, <3>2, <3>3 DEF BlockTypeOK, LoadKeysAndValues
  <2>3. CASE WriteOutput(w)
    <3>1. smem' \in [Regions -> [Warps -> [Warps -> Contents]]]
      BY <2>3, ContentTypes DEF BlockTypeOK, WriteOutput, Regions
    <3> QED
      BY <2>0, <2>3, <3>1 DEF BlockTypeOK, WriteOutput, WarpPositions
  <2>4. CASE Land(w)
    BY <2>4 DEF BlockTypeOK, Land
  <2>5. CASE WaitQuery(w) \/ ReadQuery(w) \/ WaitKeys(w) \/ ReadKeys(w)
    BY <2>0, <2>5 DEF BlockTypeOK, WaitQuery, ReadQuery, WaitKeys, ReadKeys, WarpPositions
  <2>6. CASE WaitValues(w) \/ ReadValues(w) \/ StoreOutput(w)
    BY <2>0, <2>6 DEF BlockTypeOK, WaitValues, ReadValues, StoreOutput, WarpPositions
  <2> QED
    BY <1>3, <2>1, <2>2, <2>3, <2>4, <2>5, <2>6 DEF WarpStep
<1> QED
  BY <1>1, <1>2, <1>3 DEF BlockNext

-----------------------------------------------------------------------------

\* A step that leaves a warp's position, copies and all of shared memory alone
\* leaves it in its stage.
LEMMA Elsewhere ==
  ASSUME NEW v \in Warps, NEW n,
         keySteps' = keySteps, smem' = smem, pc'[v] = pc[v], step'[v] = step[v],
         inFlight'[v] = inFlight[v], issued'[v] = issued[v]
  PROVE  /\ LoadingQuery(v) => LoadingQuery(v)'
         /\ ReadingQuery(v) => ReadingQuery(v)'
         /\ LoadingKeys(n, v) => LoadingKeys(n, v)'
         /\ Scoring(n, v) => Scoring(n, v)'
         /\ Weighting(n, v) => Weighting(n, v)'
         /\ Storing(v) => Storing(v)'
BY DEF LoadingQuery, ReadingQuery, LoadingKeys, Scoring, Weighting, Storing, Filled, Coming

\* A warp that waited for all its copies has none left.
LEMMA NoneInFlight ==
  ASSUME NEW w \in Warps, NEW nr \in Nat, NEW region, NEW content,
         issued[w] = nr, Landed(w, 0), inFlight[w] \subseteq {Group(nr, region, content)}
  PROVE  inFlight[w] = {}
BY GroupFields DEF Landed

LEMMA LoadQueryStep ==
  ASSUME BlockInv, NEW w \in Warps, LoadQuery(w)
  PROVE  Stage'
<1> USE DEF BlockInv, BlockTypeOK
<1>1. /\ keySteps' = keySteps /\ smem' = smem
      /\ \A v \in Warps \ {w} : /\ pc'[v] = pc[v] /\ step'[v] = step[v]
                                 /\ inFlight'[v] = inFlight[v] /\ issued'[v] = issued[v]
  BY DEF LoadQuery, Goto
<1>2. \A v \in Warps : LoadingQuery(v)
  BY DEF LoadQuery, Goto, Stage, LoadingQuery, ReadingQuery, LoadingKeys, Scoring, Weighting, Storing
<1>3. LoadingQuery(w)'
  BY <1>2 DEF LoadQuery, Goto, LoadingQuery, Filled, Coming, Group, Query
<1>4. ASSUME NEW v \in Warps, v # w PROVE LoadingQuery(v)'
  BY <1>1, <1>2, <1>4, Elsewhere
<1> QED
  BY <1>1, <1>3, <1>4 DEF Stage

LEMMA WaitQueryStep ==
  ASSUME BlockInv, NEW w \in Warps, WaitQuery(w)
  PROVE  Stage'
<1> USE DEF BlockInv, BlockTypeOK
<1>1. /\ keySteps' = keySteps /\ smem' = smem
      /\ \A v \in Warps \ {w} : /\ pc'[v] = pc[v] /\ step'[v] = step[v]
                                 /\ inFlight'[v] = inFlight[v] /\ issued'[v] = issued[v]
  BY DEF WaitQuery, Goto
<1>2. \A v \in Warps : LoadingQuery(v)
  BY DEF WaitQuery, Goto, Stage, LoadingQuery, ReadingQuery, LoadingKeys, Scoring, Weighting, Storing
<1>3. LoadingQuery(w)'
  <2>1. /\ step[w] = 0 /\ issued[w] = 1
        /\ inFlight[w] \subseteq {Group(1, "qko", Query)} /\ Coming(1, "qko", w, Query)
    BY <1>2 DEF WaitQuery, Goto, LoadingQuery
  <2>2. inFlight[w] = {}
    BY <2>1, NoneInFlight DEF WaitQuery
  <2>3. Filled("qko", w, Query)
    BY <2>1, <2>2 DEF Coming
  <2> QED
    BY <2>1, <2>2, <2>3 DEF WaitQuery, Goto, LoadingQuery, Filled
<1>4. ASSUME NEW v \in Warps, v # w PROVE LoadingQuery(v)'
  BY <1>1, <1>2, <1>4, Elsewhere
<1> QED
  BY <1>1, <1>3, <1>4 DEF Stage

LEMMA ReadQueryStep ==
  ASSUME BlockInv, NEW w \in Warps, ReadQuery(w)
  PROVE  Stage'
<1> USE DEF BlockInv, BlockTypeOK
<1>1. /\ keySteps' = keySteps /\ smem' = smem
      /\ \A v \in Warps \ {w} : /\ pc'[v] = pc[v] /\ step'[v] = step[v]
                                 /\ inFlight'[v] = inFlight[v] /\ issued'[v] = issued[v]
  BY DEF ReadQuery, Goto
<1>2. \A v \in Warps : ReadingQuery(v)
  BY DEF ReadQuery, Goto, Stage, LoadingQuery, ReadingQuery, LoadingKeys, Scoring, Weighting, Storing
<1>3. ReadingQuery(w)'
  BY <1>2 DEF ReadQuery, Goto, ReadingQuery, Filled, Coming
<1>4. ASSUME NEW v \in Warps, v # w PROVE ReadingQuery(v)'
  BY <1>1, <1>2, <1>4, Elsewhere
<1> QED
  BY <1>1, <1>3, <1>4 DEF Stage

LEMMA LoadKeysAndValuesStep ==
  ASSUME BlockInv, NEW w \in Warps, LoadKeysAndValues(w)
  PROVE  Stage'
<1> USE DEF BlockInv, BlockTypeOK
<1>1. /\ keySteps' = keySteps /\ smem' = smem
      /\ \A v \in Warps \ {w} : /\ pc'[v] = pc[v] /\ step'[v] = step[v]
                                 /\ inFlight'[v] = inFlight[v] /\ issued'[v] = issued[v]
  BY DEF LoadKeysAndValues, Goto
<1>2. PICK n \in 0 .. keySteps : \A v \in Warps : LoadingKeys(n, v)
  BY DEF LoadKeysAndValues, Goto, Stage, LoadingQuery, ReadingQuery, LoadingKeys, Scoring, Weighting, Storing
<1>3. LoadingKeys(n, w)'
  <2>1. step[w] = n /\ inFlight[w] = {} /\ n < keySteps
    BY <1>2 DEF LoadKeysAndValues, Goto, LoadingKeys
  <2>2. /\ pc'[w] = "wait keys" /\ step'[w] = n + 1 /\ issued'[w] = issued[w] + 2
        /\ issued[w] \in Nat /\ keySteps' = keySteps
    BY <2>1 DEF LoadKeysAndValues, Goto
  <2>3. issued'[w] - 1 = issued[w] + 1 /\ issued'[w] > 1
    <3>1. \A i \in Nat : (i + 2) - 1 = i + 1 /\ i + 2 > 1
      OBVIOUS
    <3> QED
      BY <2>2, <3>1, Zenon
  <2>4. inFlight'[w] = {Group(issued'[w] - 1, "qko", Keys(n + 1)),
                        Group(issued'[w], "v", Values(n + 1))}
    BY <2>1, <2>2, <2>3 DEF LoadKeysAndValues
  <2> QED
    BY <2>1, <2>2, <2>3, <2>4 DEF LoadingKeys, Coming
<1>4. ASSUME NEW v \in Warps, v # w PROVE LoadingKeys(n, v)'
  BY <1>1, <1>2, <1>4, Elsewhere
<1> QED
  BY <1>1, <1>3, <1>4 DEF Stage

LEMMA WaitKeysStep ==
  ASSUME BlockInv, NEW w \in Warps, WaitKeys(w)
  PROVE  Stage'
<1> USE DEF BlockInv, BlockTypeOK
<1>1. /\ keySteps' = keySteps /\ smem' = smem
      /\ \A v \in Warps \ {w} : /\ pc'[v] = pc[v] /\ step'[v] = step[v]
                                 /\ inFlight'[v] = inFlight[v] /\ issued'[v] = issued[v]
  BY DEF WaitKeys, Goto
<1>2. PICK n \in 0 .. keySteps : \A v \in Warps : LoadingKeys(n, v)
  BY DEF WaitKeys, Goto, Stage, LoadingQuery, ReadingQuery, LoadingKeys, Scoring, Weighting, Storing
<1>3. LoadingKeys(n, w)'
  <2>1. /\ n < keySteps /\ step[w] = n + 1 /\ issued[w] \in Nat
        /\ inFlight[w] \subseteq {Group(issued[w] - 1, "qko", Keys(n + 1)),
                                  Group(issued[w], "v", Values(n + 1))}
        /\ Coming(issued[w] - 1, "qko", w, Keys(n + 1))
        /\ Coming(issued[w], "v", w, Values(n + 1))
    BY <1>2 DEF WaitKeys, Goto, LoadingKeys
  <2>2. Group(issued[w] - 1, "qko", Keys(n + 1)) \notin inFlight[w]
    <3>1. \A group \in inFlight[w] : group.nr > issued[w] - 1
      BY DEF WaitKeys, Landed
    <3>2. ~ (issued[w] - 1 > issued[w] - 1)
      BY <2>1
    <3> QED
      BY <3>1, <3>2, GroupFields
  <2>3. Filled("qko", w, Keys(n + 1))
    BY <2>1, <2>2 DEF Coming
  <2>4. pc'[w] = "keys barrier"
    BY DEF WaitKeys, Goto
  <2> QED
    BY <2>1, <2>2, <2>3, <2>4 DEF WaitKeys, LoadingKeys, Filled, Coming
<1>4. ASSUME NEW v \in Warps, v # w PROVE LoadingKeys(n, v)'
  BY <1>1, <1>2, <1>4, Elsewhere
<1> QED
  BY <1>1, <1>3, <1>4 DEF Stage

LEMMA ReadKeysStep ==
  ASSUME BlockInv, NEW w \in Warps, ReadKeys(w)
  PROVE  Stage'
<1> USE DEF BlockInv, BlockTypeOK
<1>1. /\ keySteps' = keySteps /\ smem' = smem
      /\ \A v \in Warps \ {w} : /\ pc'[v] = pc[v] /\ step'[v] = step[v]
                                 /\ inFlight'[v] = inFlight[v] /\ issued'[v] = issued[v]
  BY DEF ReadKeys, Goto
<1>2. PICK n \in 0 .. keySteps : \A v \in Warps : Scoring(n, v)
  BY DEF ReadKeys, Goto, Stage, LoadingQuery, ReadingQuery, LoadingKeys, Scoring, Weighting, Storing
<1>3. Scoring(n, w)'
  BY <1>2 DEF ReadKeys, Goto, Scoring, Filled, Coming
<1>4. ASSUME NEW v \in Warps, v # w PROVE Scoring(n, v)'
  BY <1>1, <1>2, <1>4, Elsewhere
<1> QED
  BY <1>1, <1>3, <1>4 DEF Stage

LEMMA WaitValuesStep ==
  ASSUME BlockInv, NEW w \in Warps, WaitValues(w)
  PROVE  Stage'
<1> USE DEF BlockInv, BlockTypeOK
<1>1. /\ keySteps' = keySteps /\ smem' = smem
      /\ \A v \in Warps \ {w} : /\ pc'[v] = pc[v] /\ step'[v] = step[v]
                                 /\ inFlight'[v] = inFlight[v] /\ issued'[v] = issued[v]
  BY DEF WaitValues, Goto
<1>2. PICK n \in 0 .. keySteps : \A v \in Warps : Scoring(n, v)
  BY DEF WaitValues, Goto, Stage, LoadingQuery, ReadingQuery, LoadingKeys, Scoring, Weighting, Storing
<1>3. Scoring(n, w)'
  <2>1. /\ step[w] = n /\ Filled("qko", w, Keys(n)) /\ issued[w] \in Nat
        /\ inFlight[w] \subseteq {Group(issued[w], "v", Values(n))}
        /\ Coming(issued[w], "v", w, Values(n))
    BY <1>2 DEF Scoring
  <2>2. inFlight[w] = {}
    BY <2>1, NoneInFlight DEF WaitValues
  <2>3. pc'[w] = "values barrier"
    BY DEF WaitValues, Goto
  <2> QED
    BY <2>1, <2>2, <2>3 DEF WaitValues, Scoring, Filled, Coming
<1>4. ASSUME NEW v \in Warps, v # w PROVE Scoring(n, v)'
  BY <1>1, <1>2, <1>4, Elsewhere
<1> QED
  BY <1>1, <1>3, <1>4 DEF Stage

LEMMA ReadValuesStep ==
  ASSUME BlockInv, NEW w \in Warps, ReadValues(w)
  PROVE  Stage'
<1> USE DEF BlockInv, BlockTypeOK
<1>1. /\ keySteps' = keySteps /\ smem' = smem
      /\ \A v \in Warps \ {w} : /\ pc'[v] = pc[v] /\ step'[v] = step[v]
                                 /\ inFlight'[v] = inFlight[v] /\ issued'[v] = issued[v]
  BY DEF ReadValues, Goto
<1>2. PICK n \in 0 .. keySteps : \A v \in Warps : Weighting(n, v)
  BY DEF ReadValues, Goto, Stage, LoadingQuery, ReadingQuery, LoadingKeys, Scoring, Weighting, Storing
<1>3. Weighting(n, w)'
  BY <1>2 DEF ReadValues, Goto, Weighting, Filled, Coming
<1>4. ASSUME NEW v \in Warps, v # w PROVE Weighting(n, v)'
  BY <1>1, <1>2, <1>4, Elsewhere
<1> QED
  BY <1>1, <1>3, <1>4 DEF Stage

LEMMA StoreOutputStep ==
  ASSUME BlockInv, NEW w \in Warps, StoreOutput(w)
  PROVE  Stage'
<1> USE DEF BlockInv, BlockTypeOK
<1>1. /\ keySteps' = keySteps /\ smem' = smem
      /\ \A v \in Warps \ {w} : /\ pc'[v] = pc[v] /\ step'[v] = step[v]
                                 /\ inFlight'[v] = inFlight[v] /\ issued'[v] = issued[v]
  BY DEF StoreOutput, Goto
<1>2. \A v \in Warps : Storing(v)
  BY DEF StoreOutput, Goto, Stage, LoadingQuery, ReadingQuery, LoadingKeys, Scoring, Weighting, Storing
<1>3. Storing(w)'
  BY <1>2 DEF StoreOutput, Goto, Storing, Filled, Coming
<1>4. ASSUME NEW v \in Warps, v # w PROVE Storing(v)'
  BY <1>1, <1>2, <1>4, Elsewhere
<1> QED
  BY <1>1, <1>3, <1>4 DEF Stage

\* The same for a step that changes other warps' rows only, before the output.
LEMMA OtherRows ==
  ASSUME NEW v \in Warps, NEW n,
         keySteps' = keySteps, pc'[v] = pc[v], step'[v] = step[v],
         inFlight'[v] = inFlight[v], issued'[v] = issued[v],
         smem'["qko"][v] = smem["qko"][v], smem'["v"][v] = smem["v"][v]
  PROVE  /\ LoadingQuery(v) => LoadingQuery(v)'
         /\ LoadingKeys(n, v) /\ n # keySteps => LoadingKeys(n, v)'
         /\ Scoring(n, v) => Scoring(n, v)'
BY DEF LoadingQuery, LoadingKeys, Scoring, Filled, Coming

LEMMA LandStep ==
  ASSUME BlockInv, NEW w \in Warps, Land(w)
  PROVE  Stage'
<1> USE DEF BlockInv
<1>1. PICK group \in inFlight[w] :
        /\ smem' = [smem EXCEPT ![group.region][w] = [r \in Warps |-> group.content]]
        /\ inFlight' = [inFlight EXCEPT ![w] = @ \ {group}]
        /\ pc' = pc /\ keySteps' = keySteps /\ step' = step /\ issued' = issued
  BY DEF Land
<1>2. inFlight'[w] = inFlight[w] \ {group} /\ group.region \in Regions
  BY <1>1 DEF BlockTypeOK
<1>3. Filled(group.region, w, group.content)'
  BY <1>1, <1>2 DEF BlockTypeOK, Filled
<1>4. ASSUME NEW region \in Regions, region # group.region
      PROVE  \A content : Filled(region, w, content) => Filled(region, w, content)'
  BY <1>1, <1>4 DEF BlockTypeOK, Filled
<1>5. ASSUME NEW v \in Warps, v # w
      PROVE  /\ smem'["qko"][v] = smem["qko"][v] /\ smem'["v"][v] = smem["v"][v]
             /\ inFlight'[v] = inFlight[v]
  BY <1>1, <1>2, <1>5 DEF BlockTypeOK, Regions
<1>6. ASSUME NEW nr, NEW region \in Regions, NEW content, Coming(nr, region, w, content),
             group.region = region => group = Group(nr, region, content)
      PROVE  Coming(nr, region, w, content)'
  <2>1. CASE group = Group(nr, region, content)
    BY <1>3, <2>1, GroupFields DEF Coming
  <2>2. CASE group # Group(nr, region, content) /\ Group(nr, region, content) \in inFlight[w]
    BY <1>2, <2>2 DEF Coming
  <2>3. CASE group # Group(nr, region, content) /\ Filled(region, w, content)
    BY <1>4, <1>6, <2>3 DEF Coming
  <2> QED
    BY <1>6, <2>1, <2>2, <2>3 DEF Coming
<1>7. CASE \A v \in Warps : LoadingQuery(v)
  <2>1. /\ step[w] = 0 /\ pc[w] = "wait query" /\ issued[w] = 1
        /\ inFlight[w] \subseteq {Group(1, "qko", Query)} /\ Coming(1, "qko", w, Query)
    BY <1>1, <1>7 DEF LoadingQuery
  <2>2. Coming(1, "qko", w, Query)'
    BY <1>6, <2>1 DEF Regions
  <2>3. LoadingQuery(w)'
    BY <1>1, <1>2, <2>1, <2>2 DEF LoadingQuery
  <2>4. ASSUME NEW v \in Warps, v # w PROVE LoadingQuery(v)'
    BY <1>1, <1>5, <1>7, <2>4, OtherRows
  <2> QED
    BY <2>3, <2>4 DEF Stage
<1>8. ASSUME NEW n \in 0 .. keySteps, \A v \in Warps : LoadingKeys(n, v)
      PROVE  Stage'
  <2>0. /\ pc[w] = "wait keys" \/ pc[w] = "keys barrier"
        /\ n < keySteps /\ step[w] = n + 1
    BY <1>1, <1>8 DEF LoadingKeys
  <2>1. n # keySteps
    <3>1. keySteps \in Nat /\ n < keySteps
      BY <2>0 DEF BlockTypeOK
    <3> QED
      BY <3>1
  <2>2. ASSUME NEW v \in Warps, v # w PROVE LoadingKeys(n, v)'
    BY <1>1, <1>5, <1>8, <2>1, <2>2, OtherRows
  <2>3. ASSUME pc[w] = "wait keys" PROVE LoadingKeys(n, w)'
    <3>1. /\ issued[w] > 1
          /\ inFlight[w] \subseteq {Group(issued[w] - 1, "qko", Keys(n + 1)),
                                    Group(issued[w], "v", Values(n + 1))}
          /\ Coming(issued[w] - 1, "qko", w, Keys(n + 1))
          /\ Coming(issued[w], "v", w, Values(n + 1))
      BY <1>1, <1>8, <2>3 DEF LoadingKeys
    <3>2. Coming(issued[w] - 1, "qko", w, Keys(n + 1))'
      BY <1>1, <1>6, <3>1, GroupFields DEF Regions
    <3>3. Coming(issued[w], "v", w, Values(n + 1))'
      BY <1>1, <1>6, <3>1, GroupFields DEF Regions
    <3>4. /\ inFlight'[w] \subseteq {Group(issued[w] - 1, "qko", Keys(n + 1)),
                                      Group(issued[w], "v", Values(n + 1))}
          /\ pc'[w] = "wait keys" /\ step'[w] = n + 1 /\ n < keySteps'
          /\ issued'[w] = issued[w]
      BY <1>1, <1>2, <2>0, <2>3, <3>1
    <3> QED
      BY <1>1, <3>1, <3>2, <3>3, <3>4 DEF LoadingKeys, Filled, Coming
  <2>4. ASSUME pc[w] = "keys barrier" PROVE LoadingKeys(n, w)'
    <3>1. /\ inFlight[w] \subseteq {Group(issued[w], "v", Values(n + 1))}
          /\ Filled("qko", w, Keys(n + 1)) /\ Coming(issued[w], "v", w, Values(n + 1))
      BY <1>8, <2>4 DEF LoadingKeys
    <3>2. group = Group(issued[w], "v", Values(n + 1))
      BY <1>1, <3>1
    <3>3. Filled("qko", w, Keys(n + 1))'
      BY <1>4, <3>1, <3>2, GroupFields DEF Regions
    <3>4. Coming(issued[w], "v", w, Values(n + 1))'
      BY <1>1, <1>6, <3>1, <3>2 DEF Regions
    <3>5. /\ inFlight'[w] \subseteq {Group(issued[w], "v", Values(n + 1))}
          /\ pc'[w] = "keys barrier" /\ step'[w] = n + 1 /\ n < keySteps'
          /\ issued'[w] = issued[w]
      BY <1>1, <1>2, <2>0, <2>4, <3>1
    <3> QED
      BY <1>1, <3>3, <3>4, <3>5 DEF LoadingKeys, Filled, Coming
  <2>5. LoadingKeys(n, w)'
    BY <2>0, <2>3, <2>4
  <2> QED
    BY <1>1, <2>2, <2>5 DEF Stage
<1>9. ASSUME NEW n \in 0 .. keySteps, \A v \in Warps : Scoring(n, v)
      PROVE  Stage'
  <2>1. /\ step[w] = n /\ Filled("qko", w, Keys(n))
        /\ inFlight[w] \subseteq {Group(issued[w], "v", Values(n))}
        /\ Coming(issued[w], "v", w, Values(n))
        /\ pc[w] \in {"read keys", "wait values", "values barrier"}
        /\ pc[w] # "values barrier"
    BY <1>1, <1>9 DEF Scoring
  <2>2. group = Group(issued[w], "v", Values(n))
    BY <1>1, <2>1
  <2>3. Filled("qko", w, Keys(n))'
    <3>1. group.region # "qko" /\ "qko" \in Regions
      BY <2>2, GroupFields DEF Regions
    <3> QED
      BY <1>4, <2>1, <3>1
  <2>4. Coming(issued[w], "v", w, Values(n))'
    BY <1>1, <1>6, <2>1, <2>2 DEF Regions
  <2>5. Scoring(n, w)'
    BY <1>1, <1>2, <2>1, <2>3, <2>4 DEF Scoring
  <2>6. ASSUME NEW v \in Warps, v # w PROVE Scoring(n, v)'
    BY <1>1, <1>5, <1>9, <2>6, OtherRows
  <2> QED
    BY <1>1, <2>5, <2>6 DEF Stage
<1> QED
  BY <1>1, <1>7, <1>8, <1>9 DEF Stage, ReadingQuery, Weighting, Storing

LEMMA WriteOutputStep ==
  ASSUME BlockInv, NEW w \in Warps, WriteOutput(w)
  PROVE  Stage'
<1> USE DEF BlockInv
<1>1. PICK n \in 0 .. keySteps : \A v \in Warps : LoadingKeys(n, v)
  BY DEF WriteOutput, Goto, Stage, LoadingQuery, ReadingQuery, LoadingKeys, Scoring, Weighting, Storing
<1>2. n = keySteps /\ step[w] = n /\ inFlight[w] = {} /\ ~ (n < keySteps)
  <2>1. n = keySteps /\ step[w] = n /\ inFlight[w] = {}
    BY <1>1 DEF WriteOutput, Goto, LoadingKeys
  <2>2. keySteps \in Nat
    BY DEF BlockTypeOK
  <2> QED
    BY <2>1, <2>2
<1>3. /\ pc'[w] = "output barrier" /\ keySteps' = keySteps /\ step' = step
      /\ inFlight' = inFlight /\ issued' = issued
      /\ \A v \in Warps \ {w} : pc'[v] = pc[v]
  BY DEF WriteOutput, Goto, BlockTypeOK
<1>4. \A c \in Warps : /\ smem'["qko"][c][w] = Output(w)
                       /\ \A v \in Warps \ {w} : smem'["qko"][c][v] = smem["qko"][c][v]
  BY DEF WriteOutput, BlockTypeOK, Regions
<1>5. LoadingKeys(n, w)'
  BY <1>2, <1>3, <1>4 DEF LoadingKeys
<1>6. ASSUME NEW v \in Warps, v # w PROVE LoadingKeys(n, v)'
  <2>1. \/ pc[v] = "step" /\ step[v] = n /\ inFlight[v] = {}
        \/ /\ pc[v] = "output barrier" /\ step[v] = n /\ inFlight[v] = {}
           /\ \A c \in Warps : smem["qko"][c][v] = Output(v)
    BY <1>1, <1>2 DEF LoadingKeys
  <2> QED
    BY <1>2, <1>3, <1>4, <1>6, <2>1 DEF LoadingKeys
<1> QED
  BY <1>3, <1>5, <1>6 DEF Stage

\* The barrier takes all warps to the next stage.
LEMMA SyncThreadsStep ==
  ASSUME BlockInv, SyncThreads
  PROVE  Stage'
<1> USE DEF BlockInv
<1>1. /\ keySteps' = keySteps /\ step' = step /\ smem' = smem
      /\ inFlight' = inFlight /\ issued' = issued /\ keySteps \in Nat
      /\ \A w \in Warps : pc'[w] = AfterBarrier[pc[w]] /\ pc[w] \in DOMAIN AfterBarrier
  BY DEF SyncThreads, BlockTypeOK
<1>2. /\ AfterBarrier["query barrier"] = "read query"
      /\ AfterBarrier["query read barrier"] = "step"
      /\ AfterBarrier["keys barrier"] = "read keys"
      /\ AfterBarrier["values barrier"] = "read values"
      /\ AfterBarrier["step barrier"] = "step"
      /\ AfterBarrier["output barrier"] = "store"
  BY DEF AfterBarrier
<1>3. DOMAIN AfterBarrier = {"query barrier", "query read barrier", "keys barrier",
                             "values barrier", "step barrier", "output barrier"}
  BY DEF AfterBarrier
<1>4. CASE \A w \in Warps : LoadingQuery(w)
  <2>1. ASSUME NEW w \in Warps PROVE ReadingQuery(w)'
    <3>1. /\ pc[w] = "query barrier" /\ step[w] = 0 /\ inFlight[w] = {}
          /\ Filled("qko", w, Query)
      BY <1>1, <1>3, <1>4 DEF LoadingQuery
    <3> QED
      BY <1>1, <1>2, <3>1 DEF ReadingQuery, Filled
  <2> QED
    BY <2>1 DEF Stage
<1>5. CASE \A w \in Warps : ReadingQuery(w)
  <2>1. \A w \in Warps : LoadingKeys(0, w)'
    BY <1>1, <1>2, <1>3, <1>5 DEF ReadingQuery, LoadingKeys
  <2> QED
    BY <1>1, <2>1 DEF Stage
<1>6. ASSUME NEW n \in 0 .. keySteps, \A w \in Warps : LoadingKeys(n, w)
      PROVE  Stage'
  <2>1. CASE n = keySteps
    <3>1. ASSUME NEW w \in Warps PROVE Storing(w)'
      <4>1. /\ pc[w] = "output barrier" /\ inFlight[w] = {}
            /\ \A c \in Warps : smem["qko"][c][w] = Output(w)
        <5>1. ~ (n < keySteps)
          BY <1>1, <2>1
        <5> QED
          BY <1>1, <1>3, <1>6, <5>1 DEF LoadingKeys
      <4> QED
        BY <1>1, <1>2, <4>1 DEF Storing
    <3> QED
      BY <3>1 DEF Stage
  <2>2. CASE n # keySteps
    <3>1. n + 1 \in 0 .. keySteps'
      BY <1>1, <2>2
    <3>2. ASSUME NEW w \in Warps PROVE Scoring(n + 1, w)'
      <4>1. /\ pc[w] = "keys barrier" /\ step[w] = n + 1
            /\ inFlight[w] \subseteq {Group(issued[w], "v", Values(n + 1))}
            /\ Filled("qko", w, Keys(n + 1)) /\ Coming(issued[w], "v", w, Values(n + 1))
        BY <1>1, <1>3, <1>6, <2>2 DEF LoadingKeys
      <4> QED
        BY <1>1, <1>2, <4>1 DEF Scoring, Filled, Coming
    <3> QED
      BY <3>1, <3>2 DEF Stage
  <2> QED
    BY <2>1, <2>2
<1>7. ASSUME NEW n \in 0 .. keySteps, \A w \in Warps : Scoring(n, w)
      PROVE  Stage'
  <2>1. ASSUME NEW w \in Warps PROVE Weighting(n, w)'
    <3>1. /\ pc[w] = "values barrier" /\ step[w] = n /\ inFlight[w] = {}
          /\ Filled("v", w, Values(n))
      BY <1>1, <1>3, <1>7 DEF Scoring, Coming
    <3> QED
      BY <1>1, <1>2, <3>1 DEF Weighting, Filled
  <2> QED
    BY <1>1, <2>1 DEF Stage
<1>8. ASSUME NEW n \in 0 .. keySteps, \A w \in Warps : Weighting(n, w)
      PROVE  Stage'
  <2>1. \A w \in Warps : LoadingKeys(n, w)'
    BY <1>1, <1>2, <1>3, <1>8 DEF Weighting, LoadingKeys
  <2> QED
    BY <1>1, <2>1 DEF Stage
<1>9. CASE \A w \in Warps : Storing(w)
  <2>1. \A w \in Warps : Storing(w)'
    BY <1>1, <1>3, <1>9 DEF Storing
  <2> QED
    BY <2>1 DEF Stage
<1> QED
  BY <1>4, <1>5, <1>6, <1>7, <1>8, <1>9 DEF Stage

LEMMA BlockStep == BlockInv /\ [BlockNext]_blockVars => BlockInv'
<1> SUFFICES ASSUME BlockInv, [BlockNext]_blockVars PROVE Stage'
  BY BlockTypeStep DEF BlockInv
<1>1. CASE UNCHANGED blockVars
  <2>1. \A v \in Warps : /\ LoadingQuery(v) => LoadingQuery(v)'
                         /\ ReadingQuery(v) => ReadingQuery(v)'
                         /\ Storing(v) => Storing(v)'
    BY <1>1, Elsewhere DEF blockVars
  <2>2. \A v \in Warps : \A n : /\ LoadingKeys(n, v) => LoadingKeys(n, v)'
                                /\ Scoring(n, v) => Scoring(n, v)'
                                /\ Weighting(n, v) => Weighting(n, v)'
    BY <1>1, Elsewhere DEF blockVars
  <2>3. keySteps' = keySteps
    BY <1>1 DEF blockVars
  <2> QED
    <3>1. CASE \E n \in 0 .. keySteps : (\A v \in Warps : LoadingKeys(n, v))
                                      \/ (\A u \in Warps : Scoring(n, u))
                                      \/ (\A z \in Warps : Weighting(n, z))
      BY <2>2, <2>3, <3>1 DEF Stage
    <3>2. CASE (\A v \in Warps : LoadingQuery(v)) \/ (\A u \in Warps : ReadingQuery(u))
                    \/ (\A z \in Warps : Storing(z))
      BY <2>1, <3>2 DEF Stage
    <3> QED
      BY <3>1, <3>2 DEF BlockInv, Stage
<1>2. CASE SyncThreads
  BY <1>2, SyncThreadsStep
<1>3. ASSUME NEW w \in Warps, WarpStep(w) PROVE Stage'
  BY <1>3, LoadQueryStep, WaitQueryStep, ReadQueryStep, LoadKeysAndValuesStep, WaitKeysStep,
     ReadKeysStep, WaitValuesStep, ReadValuesStep, WriteOutputStep, StoreOutputStep, LandStep
     DEF WarpStep
<1> QED
  BY <1>1, <1>2, <1>3 DEF BlockNext

\* In every stage the cells that its warps read hold what they expect.
LEMMA BlockInvIntact == BlockInv => SharedMemoryIntact
<1> SUFFICES ASSUME BlockInv, NEW w \in Warps, NEW c \in Warps, NEW r \in Warps
             PROVE  /\ pc[w] = "read query" => smem["qko"][c][w] = Query
                    /\ pc[w] = "read keys" => smem["qko"][c][r] = Keys(step[w])
                    /\ pc[w] = "read values" => smem["v"][c][r] = Values(step[w])
                    /\ pc[w] = "store" => smem["qko"][w][r] = Output(r)
  BY DEF SharedMemoryIntact
<1> USE DEF BlockInv
<1>1. CASE pc[w] = "read query"
  <2>1. \A v \in Warps : ReadingQuery(v)
    BY <1>1 DEF Stage, LoadingQuery, ReadingQuery, LoadingKeys, Scoring, Weighting, Storing
  <2> QED
    BY <1>1, <2>1 DEF ReadingQuery, Filled
<1>2. CASE pc[w] = "read keys"
  <2>1. PICK n \in 0 .. keySteps : \A v \in Warps : Scoring(n, v)
    BY <1>2 DEF Stage, LoadingQuery, ReadingQuery, LoadingKeys, Scoring, Weighting, Storing
  <2> QED
    BY <1>2, <2>1 DEF Scoring, Filled
<1>3. CASE pc[w] = "read values"
  <2>1. PICK n \in 0 .. keySteps : \A v \in Warps : Weighting(n, v)
    BY <1>3 DEF Stage, LoadingQuery, ReadingQuery, LoadingKeys, Scoring, Weighting, Storing
  <2> QED
    BY <1>3, <2>1 DEF Weighting, Filled
<1>4. CASE pc[w] = "store"
  <2>1. \A v \in Warps : Storing(v)
    BY <1>4 DEF Stage, LoadingQuery, ReadingQuery, LoadingKeys, Scoring, Weighting, Storing
  <2> QED
    BY <1>4, <2>1 DEF Storing
<1> QED
  BY <1>1, <1>2, <1>3, <1>4

\* The stages of a thread block (paged_attention.cu:213-383) follow each other
\* in lockstep: BlockInv is inductive.
THEOREM BlockInvariant == BlockSpec => []BlockInv
BY BlockInitInv, BlockStep, PTL DEF BlockSpec

\* No warp reads a cell of shared memory before its copy has landed or after
\* another warp has begun to write the next tile over it (the waits and barriers
\* of paged_attention.cu:213-383), for any number of warps and steps.
THEOREM BlockSharedMemoryIntact == BlockSpec => []SharedMemoryIntact
BY BlockInvariant, BlockInvIntact, PTL

\* The same of a behaviour that also launches the other kernels.
THEOREM KernelsSharedMemoryIntact == Spec => []SharedMemoryIntact
<1>1. Init => BlockInv
  BY BlockInitInv DEF Init
<1>2. [Next]_vars => [BlockNext]_blockVars
  BY DEF Next, vars, AddEntry, Launch, RunBlock
<1>3. BlockInv /\ [Next]_vars => BlockInv'
  BY <1>2, BlockStep
<1> QED BY <1>1, <1>3, BlockInvIntact, PTL DEF Spec

-----------------------------------------------------------------------------
(* The attention grid, for every batch that is put together.                *)

AttentionEntries ==
    [id : Nat, sample : {TRUE}, offset : Nat, count : Nat \ {0}, blocks : Seq(Nat)]

EntriesInv == entries \in Seq(AttentionEntries)

LEMMA EntriesStep == EntriesInv /\ [Next]_vars => EntriesInv'
<1> SUFFICES ASSUME EntriesInv, [Next]_vars PROVE EntriesInv'
  OBVIOUS
<1>1. ASSUME NEW prefixLen \in PrefixLens, NEW queryLen \in QueryLens,
             AddEntry(prefixLen, queryLen)
      PROVE  EntriesInv'
  <2>1. prefixLen \in Nat /\ queryLen \in Nat \ {0}
    BY BatchesAssumption
  <2> DEFINE entry == [id |-> Len(entries), sample |-> TRUE, offset |-> prefixLen,
                       count |-> queryLen, blocks |-> [i \in 1 .. prefixLen + queryLen |-> i]]
  <2>2. [i \in 1 .. prefixLen + queryLen |-> i] \in Seq(Nat)
    BY <2>1
  <2>3. Len(entries) \in Nat
    BY DEF EntriesInv
  <2>4. entry \in AttentionEntries
    BY <2>1, <2>2, <2>3 DEF AttentionEntries
  <2>5. entries' = Append(entries, entry)
    BY <1>1 DEF AddEntry
  <2> QED BY <2>4, <2>5 DEF EntriesInv
<1>2. CASE UNCHANGED entries
  BY <1>2 DEF EntriesInv
<1>3. (\E prefixLen \in PrefixLens, queryLen \in QueryLens : AddEntry(prefixLen, queryLen))
      \/ UNCHANGED entries
  BY DEF Next, vars, Launch, RunBlock
<1> QED BY <1>1, <1>2, <1>3

\* Whatever requests a batch mixes, the tiles of the attention grid cover each
\* query row once and each row sees the keys up to its own position
\* (paged_attention.cu:175-196, 225-273, 400).
THEOREM KernelsCausalAttention == Spec => []CausalAttention
<1>1. Init => EntriesInv
  BY DEF Init, EntriesInv
<1>2. EntriesInv => CausalAttention
  <2> SUFFICES ASSUME EntriesInv, entries # <<>> PROVE CausalAttention
    BY DEF CausalAttention
  <2>1. \A i \in 1 .. Len(entries) :
            entries[i].offset \in Nat /\ entries[i].count \in Nat \ {0}
    <3>1. \A i \in 1 .. Len(entries) : entries[i] \in AttentionEntries
      BY DEF EntriesInv
    <3> QED BY <3>1 DEF AttentionEntries
  <2>2. Batched(Input, Len(entries))
    BY <2>1, PreparedRequests DEF EntriesInv, Input
  <2> QED BY <2>2, RowsCovered, RowsCausal DEF CausalAttention
<1> QED BY <1>1, <1>2, EntriesStep, PTL DEF Spec

-----------------------------------------------------------------------------
(* The sampler (Sampler), for every row, vocabulary and block.              *)

LEMMA SumOverIs ==
    ASSUME NEW f, NEW S PROVE SumOver(f, S) = SumOf(f, S)
BY Zenon DEF SumOver, MapThenSumSet, MapThenFoldSet, SumOf, FoldOf, FoldEquation, Pick

-----------------------------------------------------------------------------
(* The largest logit.                                                       *)

Ranges == [high : Int, index : Nat]

\* MergeRange(a, b) is whichever of the two does not come after the other.
Leads(a, b) == a.high > b.high \/ (a.high = b.high /\ a.index <= b.index)

LEMMA MergeLeads ==
    ASSUME NEW a \in Ranges, NEW b \in Ranges
    PROVE  /\ MergeRange(a, b) \in {a, b}
           /\ Leads(MergeRange(a, b), a) /\ Leads(MergeRange(a, b), b)
BY DEF MergeRange, Leads, Ranges

LEMMA LeadsOn ==
    ASSUME NEW a \in Ranges, NEW b \in Ranges, NEW c \in Ranges, Leads(a, b), Leads(b, c)
    PROVE  Leads(a, c)
BY DEF Leads, Ranges

LEMMA NumbersOfRow ==
    ASSUME SamplerAssumption
    PROVE  /\ VocabSize \in Nat \ {0} /\ TileSize \in Nat \ {0} /\ SignBit \in Nat \ {0}
           /\ Radix * Radix = 2 * SignBit
           /\ \A code \in LogitCodes : /\ code \in 0 .. 2 * SignBit - 1
                                       /\ Value(code) \in Int /\ Value(code) > MinusInfinity - 1
           /\ MinusInfinity \in Int /\ NoToken \in Nat /\ NoRange \in Ranges
<1>1. /\ VocabSize \in Nat \ {0} /\ NumThreads \in Nat \ {0} /\ TileWidth \in Nat \ {0}
      /\ Radix \in Nat \ {0} /\ Radix % 2 = 0
      /\ LogitCodes \subseteq 0 .. Radix * Radix - 1
  BY DEF SamplerAssumption
<1>2. TileSize \in Nat \ {0}
  BY <1>1, Product DEF TileSize
<1>3. PICK half \in Nat \ {0} : half = Radix \div 2 /\ Radix = 2 * half
  BY <1>1
<1>4. SignBit = half * Radix /\ SignBit \in Nat \ {0}
  BY <1>1, <1>3, Product DEF SignBit
<1>5. Radix * Radix = 2 * SignBit
  BY <1>1, <1>3, <1>4
<1>6. ASSUME NEW code \in LogitCodes
      PROVE  /\ code \in 0 .. 2 * SignBit - 1
             /\ Value(code) \in Int /\ Value(code) > MinusInfinity - 1
  <2>1. code \in 0 .. 2 * SignBit - 1
    BY <1>1, <1>5
  <2> QED BY <1>4, <2>1 DEF Value, MinusInfinity
<1>7. MinusInfinity \in Int /\ NoToken \in Nat
  BY <1>1, <1>4 DEF MinusInfinity, NoToken
<1> QED BY <1>1, <1>2, <1>4, <1>5, <1>6, <1>7 DEF NoRange, Ranges

\* The fold's equation, for the merge of ranges.
RangeEquation(g, R) ==
    g = [s \in SUBSET R |-> IF s = {} THEN NoRange ELSE MergeRange(Pick(s), g[s \ {Pick(s)}])]
RangeFold(R) == CHOOSE g : RangeEquation(g, R)

LEMMA RangeFoldExists ==
    ASSUME SamplerAssumption, NEW R \in SUBSET Ranges, IsFiniteSet(R)
    PROVE  RangeEquation(RangeFold(R), R)
<1> DEFINE h == [x \in R |-> [y \in Ranges |-> MergeRange(x, y)]]
<1>1. NoRange \in Ranges
  BY NumbersOfRow
<1>2. h \in [R -> [Ranges -> Ranges]]
  <2>1. \A x \in R, y \in Ranges : MergeRange(x, y) \in Ranges
    BY MergeLeads
  <2> QED BY <2>1
<1>3. \A x \in R, y \in Ranges : h[x][y] = MergeRange(x, y)
  OBVIOUS
<1> HIDE DEF h
<1>7. PICK g \in [SUBSET R -> Ranges] : SetRecursion(g, R, NoRange, h)
  BY <1>1, <1>2, RecursionOnSets
<1>4. \A s \in SUBSET R :
         g[s] = IF s = {} THEN NoRange ELSE h[Pick(s)][g[s \ {Pick(s)}]]
  BY <1>7, Zenon DEF SetRecursion
<1>5. ASSUME NEW s \in SUBSET R
      PROVE  g[s] = IF s = {} THEN NoRange ELSE MergeRange(Pick(s), g[s \ {Pick(s)}])
  <2>1. CASE s = {}
    BY <1>4, <2>1
  <2>2. CASE s # {}
    <3>1. Pick(s) \in R /\ s \ {Pick(s)} \in SUBSET R
      BY <2>2, OneLess
    <3>2. h[Pick(s)][g[s \ {Pick(s)}]] = MergeRange(Pick(s), g[s \ {Pick(s)}])
      BY <1>3, <3>1
    <3> QED BY <1>4, <2>2, <3>2
  <2> QED BY <2>1, <2>2
<1>6. RangeEquation(g, R)
  BY <1>5, <1>7 DEF RangeEquation
<1> QED BY <1>6, Zenon DEF RangeFold

\* The merge of some ranges is one of them that none comes before.
LEMMA MergedRange ==
    ASSUME SamplerAssumption, NEW R \in SUBSET Ranges, IsFiniteSet(R)
    PROVE  LET m == FoldSet(MergeRange, NoRange, R)
           IN  /\ m \in R \cup {NoRange}
               /\ \A r \in R \cup {NoRange} : Leads(m, r)
<1> DEFINE g == RangeFold(R)
           T == {s \in SUBSET R : /\ g[s] \in s \cup {NoRange}
                                  /\ \A r \in s \cup {NoRange} : Leads(g[s], r)}
<1>1. FoldSet(MergeRange, NoRange, R) = g[R]
  BY Zenon DEF FoldSet, MapThenFoldSet, RangeFold, RangeEquation, Pick
<1>2. RangeEquation(g, R)
  BY RangeFoldExists
<1>3. NoRange \in Ranges /\ \A r \in Ranges : Leads(r, r)
  BY NumbersOfRow DEF Leads, Ranges
<1> HIDE DEF g
<1>4. \A s \in SUBSET R : g[s] = IF s = {} THEN NoRange ELSE MergeRange(Pick(s), g[s \ {Pick(s)}])
  BY <1>2 DEF RangeEquation
<1>5. {} \in T
  BY <1>3, <1>4
<1>6. ASSUME NEW s \in SUBSET R, s # {}, s \ {Pick(s)} \in T PROVE s \in T
  <2> DEFINE p == Pick(s)
             b == g[s \ {Pick(s)}]
  <2>1. p \in s /\ p \in Ranges
    BY <1>6, OneLess
  <2>2. b \in (s \ {p}) \cup {NoRange} /\ \A r \in (s \ {p}) \cup {NoRange} : Leads(b, r)
    BY <1>6
  <2>3. g[s] = MergeRange(p, b) /\ b \in Ranges
    BY <1>3, <1>4, <1>6, <2>2
  <2> HIDE DEF p, b
  <2>4. g[s] \in {p, b} /\ Leads(g[s], p) /\ Leads(g[s], b) /\ g[s] \in Ranges
    BY <2>1, <2>3, MergeLeads
  <2>5. ASSUME NEW r \in s \cup {NoRange} PROVE Leads(g[s], r)
    <3>1. CASE r = p
      BY <2>4, <3>1
    <3>2. CASE r # p
      <4>1. Leads(b, r) /\ r \in Ranges
        BY <1>3, <2>2, <2>5, <3>2
      <4> QED BY <2>3, <2>4, <4>1, LeadsOn
    <3> QED BY <3>1, <3>2
  <2>6. g[s] \in s \cup {NoRange}
    BY <2>1, <2>2, <2>4
  <2> QED BY <2>5, <2>6
<1>7. R \in T
  <2>1. \A s \in SUBSET R : s # {} => Pick(s) \in s
    BY OneLess
  <2> HIDE DEF T
  <2> QED BY <1>5, <1>6, <2>1, InductionOnSets
<1> QED BY <1>1, <1>7

\* The range of one logit, and what the merge of some of these is for them.
RangeOf(i) == [high |-> Value(logits[i]), index |-> i]
RangesOver(S) == {RangeOf(i) : i \in S}
LeadsAll(m, S) == m \in RangesOver(S) \cup {NoRange} /\ \A i \in S : Leads(m, RangeOf(i))

LogitsOK == logits \in [Tokens -> LogitCodes]

LEMMA RangesOfRow ==
    ASSUME SamplerAssumption, LogitsOK, NEW S \in SUBSET Tokens
    PROVE  /\ RangesOver(S) \in SUBSET Ranges /\ IsFiniteSet(RangesOver(S))
           /\ \A i \in S : RangeOf(i) \in Ranges
<1>1. \A i \in Tokens : RangeOf(i) \in Ranges
  <2> SUFFICES ASSUME NEW i \in Tokens PROVE RangeOf(i) \in Ranges
    OBVIOUS
  <2>1. logits[i] \in LogitCodes /\ i \in Nat
    <3>1. VocabSize \in Nat
      BY NumbersOfRow
    <3> QED BY <3>1 DEF Tokens, LogitsOK
  <2>2. Value(logits[i]) \in Int
    BY <2>1, NumbersOfRow
  <2> QED BY <2>1, <2>2 DEF RangeOf, Ranges
<1>2. IsFiniteSet(Tokens) /\ IsFiniteSet(S)
  <2>1. 0 \in Int /\ VocabSize - 1 \in Int
    BY NumbersOfRow
  <2> QED BY <2>1, FS_Interval, FS_Subset DEF Tokens
<1>3. IsFiniteSet(RangesOver(S))
  <2> DEFINE f == [i \in S |-> RangeOf(i)]
  <2>1. RangesOver(S) = {f[i] : i \in S}
    BY DEF RangesOver
  <2> HIDE DEF f
  <2> QED BY <1>2, <2>1, FiniteImage
<1> QED BY <1>1, <1>3 DEF RangesOver

\* Of one tile, and of all tiles together.
LEMMA TileRange ==
    ASSUME SamplerAssumption, LogitsOK, NEW S \in SUBSET Tokens
    PROVE  LeadsAll(FoldSet(MergeRange, NoRange, RangesOver(S)), S)
<1> DEFINE m == FoldSet(MergeRange, NoRange, RangesOver(S))
<1>1. /\ m \in RangesOver(S) \cup {NoRange}
      /\ \A r \in RangesOver(S) \cup {NoRange} : Leads(m, r)
  BY RangesOfRow, MergedRange
<1> HIDE DEF m
<1>2. LeadsAll(m, S)
  BY <1>1 DEF LeadsAll, RangesOver
<1> QED BY <1>2 DEF m

LEMMA TileOfToken ==
    ASSUME SamplerAssumption, NEW i \in Tokens
    PROVE  i \div TileSize \in Tiles /\ i \in TileTokens(i \div TileSize)
<1>1. /\ TileSize \in Nat \ {0} /\ VocabSize \in Nat \ {0} /\ i \in Nat
      /\ VocabSize + TileSize - 1 \in Nat /\ (i + TileSize) <= VocabSize + TileSize - 1
  BY NumbersOfRow DEF Tokens
<1> HIDE DEF TileSize
<1> DEFINE q == i \div TileSize
           n == (VocabSize + TileSize - 1) \div TileSize
<1>2. q \in Nat /\ i = q * TileSize + (i % TileSize) /\ i % TileSize \in 0 .. TileSize - 1
  BY <1>1, Quotient
<1>3. (i + TileSize) \div TileSize <= n
  BY <1>1, QuotientGrows
<1>4. (i + TileSize) \div TileSize = q + 1
  <2> DEFINE r == i % TileSize
  <2>1. i + TileSize = (q + 1) * TileSize + r /\ q + 1 \in Nat /\ r \in 0 .. TileSize - 1
    <3> HIDE DEF q, r
    <3>1. i = q * TileSize + r /\ r \in 0 .. TileSize - 1
      BY <1>2 DEF r
    <3>2. (q + 1) * TileSize = q * TileSize + TileSize
      BY <1>1, <1>2
    <3>3. q * TileSize \in Nat
      BY <1>1, <1>2
    <3> QED BY <1>1, <1>2, <3>1, <3>2, <3>3
  <2> HIDE DEF q, r
  <2>2. ((q + 1) * TileSize + r) \div TileSize = q + 1
    BY <1>1, <2>1, QuotientAndRest
  <2> QED BY <2>1, <2>2
<1>5. n \in Nat
  BY <1>1, Quotient
<1> HIDE DEF q, n
<1>6. q \in 0 .. n - 1
  BY <1>2, <1>3, <1>4, <1>5
<1> QED BY <1>6 DEF Tiles, TileTokens, q, n

\* The first of the largest logits.
BestOK ==
    /\ best.index \in Tokens /\ best.high = Value(logits[best.index])
    /\ \A i \in Tokens : Value(logits[i]) < best.high
                            \/ (Value(logits[i]) = best.high /\ best.index <= i)

TileRangesOK == \A tile \in Tiles : LeadsAll(ranges[tile], TileTokens(tile))

LEMMA MergedTiles ==
    ASSUME SamplerAssumption, LogitsOK, TileRangesOK,
           best' = FoldSet(MergeRange, NoRange, {ranges[tile] : tile \in Tiles}),
           logits' = logits
    PROVE  BestOK'
<1> DEFINE R == {ranges[tile] : tile \in Tiles}
           m == FoldSet(MergeRange, NoRange, R)
<1>1. \A tile \in Tiles : ranges[tile] \in RangesOver(Tokens) \cup {NoRange}
  BY DEF TileRangesOK, LeadsAll, RangesOver, TileTokens
<1>2. R \in SUBSET Ranges /\ NoRange \in Ranges /\ RangesOver(Tokens) \in SUBSET Ranges
  BY <1>1, RangesOfRow, NumbersOfRow
<1>3. IsFiniteSet(R)
  <2>1. IsFiniteSet(Tiles)
    <3>1. VocabSize + TileSize - 1 \in Nat /\ TileSize \in Nat \ {0}
      BY NumbersOfRow
    <3> DEFINE n == (VocabSize + TileSize - 1) \div TileSize
    <3>2. n \in Nat
      BY <3>1, Quotient
    <3> HIDE DEF n
    <3>3. 0 \in Int /\ n - 1 \in Int
      BY <3>2
    <3> QED BY <3>3, FS_Interval DEF Tiles, n
  <2> QED BY <2>1, FiniteImage
<1>4. m \in R \cup {NoRange} /\ \A r \in R \cup {NoRange} : Leads(m, r)
  <2> HIDE DEF R
  <2> QED BY <1>2, <1>3, MergedRange
<1>5. m \in Ranges /\ m \in RangesOver(Tokens) \cup {NoRange}
  BY <1>1, <1>2, <1>4
<1> HIDE DEF m
<1>6. ASSUME NEW i \in Tokens PROVE Leads(m, RangeOf(i))
  <2> DEFINE tile == i \div TileSize
  <2>1. tile \in Tiles /\ i \in TileTokens(tile)
    BY TileOfToken
  <2> HIDE DEF tile
  <2>2. Leads(ranges[tile], RangeOf(i)) /\ ranges[tile] \in R
    BY <2>1 DEF TileRangesOK, LeadsAll
  <2>3. ranges[tile] \in Ranges /\ RangeOf(i) \in Ranges
    BY <1>2, <2>2 DEF RangesOver
  <2>4. Leads(m, ranges[tile])
    BY <1>4, <2>2
  <2> QED BY <1>5, <2>2, <2>3, <2>4, LeadsOn
<1>7. m # NoRange
  <2>1. 0 \in Tokens /\ VocabSize \in Nat \ {0}
    BY NumbersOfRow DEF Tokens
  <2>2. Leads(m, RangeOf(0))
    BY <1>6, <2>1
  <2>3. Value(logits[0]) \in Int /\ Value(logits[0]) > MinusInfinity - 1 /\ MinusInfinity \in Int
    BY <2>1, NumbersOfRow DEF LogitsOK
  <2> SUFFICES ASSUME m = NoRange PROVE FALSE
    OBVIOUS
  <2>4. m.high = MinusInfinity /\ m.index = VocabSize
    BY DEF NoRange, NoToken
  <2> QED BY <2>1, <2>2, <2>3, <2>4 DEF Leads, RangeOf
<1>8. PICK k \in Tokens : m = RangeOf(k)
  BY <1>5, <1>7 DEF RangesOver
<1>9. m.index = k /\ m.high = Value(logits[k])
  BY <1>8 DEF RangeOf
<1>10. ASSUME NEW i \in Tokens
       PROVE  Value(logits[i]) < m.high \/ (Value(logits[i]) = m.high /\ m.index <= i)
  <2>1. Leads(m, RangeOf(i))
    BY <1>6
  <2>2. m.high > Value(logits[i]) \/ (m.high = Value(logits[i]) /\ m.index <= i)
    BY <2>1 DEF Leads, RangeOf
  <2>3. m.high \in Int /\ Value(logits[i]) \in Int
    BY <1>9, NumbersOfRow DEF LogitsOK
  <2> QED BY <2>2, <2>3
<1>11. best' = m
  BY DEF m
<1> QED BY <1>9, <1>10, <1>11 DEF BestOK, Value, Tokens

-----------------------------------------------------------------------------
(* The weights.                                                             *)

TokenSets == IsFiniteSet(Tokens) /\ IsFiniteSet(Threads)
Above(bound) == {j \in Tokens : row[j] > bound}
MassOver(bound) == SumOf(row, Above(bound))
RowOK == row \in [Tokens -> Nat]

LEMMA FiniteTokens ==
    ASSUME SamplerAssumption
    PROVE  IsFiniteSet(Tokens) /\ IsFiniteSet(Threads)
<1>1. /\ 0 \in Int /\ VocabSize - 1 \in Int /\ NumThreads - 1 \in Int
  BY DEF SamplerAssumption
<1> QED BY <1>1, FS_Interval DEF Tokens, Threads

\* Every token is one thread's.
LEMMA ThreadOfToken ==
    ASSUME SamplerAssumption
    PROVE  /\ \A t \in Threads : ThreadTokens(t) \subseteq Tokens
           /\ \A t, s \in Threads : t # s => ThreadTokens(t) \cap ThreadTokens(s) = {}
           /\ \A i \in Tokens : \E t \in Threads : i \in ThreadTokens(t)
<1>1. ASSUME NEW i \in Tokens PROVE (i \div LoadWidth) % NumThreads \in Threads
  <2>1. i \in Nat /\ LoadWidth \in Nat \ {0} /\ NumThreads \in Nat \ {0}
    BY DEF SamplerAssumption, Tokens
  <2>2. i \div LoadWidth \in Nat
    BY <2>1, Quotient
  <2> QED BY <2>1, <2>2, Quotient DEF Threads
<1> QED BY <1>1 DEF ThreadTokens

\* What the threads have above a bound, added up, is what the row has.
LEMMA MassesAddUp ==
    ASSUME SamplerAssumption, NEW w \in [Tokens -> Nat], NEW bound \in Nat, NEW masses,
           \A t \in Threads : masses[t] = MassAbove(w, t, bound)
    PROVE  SumOver(masses, Threads) = SumOf(w, {j \in Tokens : w[j] > bound})
<1> DEFINE P == [t \in Threads |-> {i \in ThreadTokens(t) : w[i] > bound}]
           U == {j \in Tokens : w[j] > bound}
<1>1. \A t \in Threads : IsFiniteSet(P[t]) /\ \A x \in P[t] : w[x] \in Nat
  <2> SUFFICES ASSUME NEW t \in Threads PROVE IsFiniteSet(P[t]) /\ \A x \in P[t] : w[x] \in Nat
    OBVIOUS
  <2>1. P[t] \in SUBSET Tokens
    BY ThreadOfToken
  <2> HIDE DEF P
  <2> QED BY <2>1, FiniteTokens, FS_Subset
<1>2. \A t, s \in Threads : t # s => P[t] \cap P[s] = {}
  BY ThreadOfToken
<1>3. \A t \in Threads : masses[t] = SumOf(w, P[t])
  BY SumOverIs DEF MassAbove
<1>4. (\A t \in Threads : P[t] \subseteq U) /\ \A x \in U : \E t \in Threads : x \in P[t]
  BY ThreadOfToken
<1>5. IsFiniteSet(Threads)
  BY FiniteTokens
<1> HIDE DEF P, U
<1>6. SumOf(masses, Threads) = SumOf(w, U)
  <2>1. \A t \in Threads : IsFiniteSet(P[t])
    BY <1>1
  <2>2. \A t \in Threads : \A x \in P[t] : w[x] \in Nat
    BY <1>1
  <2> QED BY <1>2, <1>3, <1>4, <1>5, <2>1, <2>2, SumOfSums
<1> QED BY <1>6, SumOverIs DEF U

LEMMA ExpType ==
    ASSUME SamplerAssumption, param.cooling \in Nat \ {0}, NEW gap \in Nat
    PROVE  Exp(gap) \in Nat
<1> DEFINE c == param.cooling
           h == [i \in 1 .. gap |-> [x \in Nat |-> x \div c]]
           Solves(f) == f = [g \in 0 .. gap |-> IF g = 0 THEN One ELSE f[g - 1] \div c]
           exp == CHOOSE f : Solves(f)
<1>1. One \in Nat
  BY DEF SamplerAssumption
<1>2. \A x \in Nat : x \div c \in Nat
  BY Quotient
<1>3. h \in [1 .. gap -> [Nat -> Nat]] /\ \A i \in 1 .. gap : \A x \in Nat : h[i][x] = x \div c
  BY <1>2
<1> HIDE DEF h
<1>4. PICK f \in [0 .. gap -> Nat] : Recursion(f, gap, One, h)
  BY <1>1, <1>3, RecursionUpTo
<1>5. \A g \in 0 .. gap : f[g] = IF g = 0 THEN One ELSE h[g][f[g - 1]]
  BY <1>4, Zenon DEF Recursion
<1>6. \A g \in 0 .. gap : f[g] = IF g = 0 THEN One ELSE f[g - 1] \div c
  <2> SUFFICES ASSUME NEW g \in 0 .. gap, g # 0 PROVE f[g] = f[g - 1] \div c
    BY <1>5
  <2>1. g \in 1 .. gap /\ f[g - 1] \in Nat
    BY <1>4
  <2> QED BY <1>3, <1>5, <2>1
<1>7. Solves(f)
  <2>1. f = [g \in 0 .. gap |-> f[g]]
    BY <1>4
  <2> HIDE DEF c
  <2> QED BY <1>6, <2>1
<1>8. Solves(exp)
  BY <1>7, Zenon
<1>9. Exp(gap) = exp[gap]
  BY Zenon DEF Exp
<1> HIDE DEF exp
<1> DEFINE T == {g \in 0 .. gap : exp[g] \in Nat}
<1>10. \A g \in 0 .. gap : exp[g] = IF g = 0 THEN One ELSE exp[g - 1] \div c
  BY <1>8
<1>11. 0 \in T
  <2>1. 0 \in 0 .. gap
    OBVIOUS
  <2>2. exp[0] = One
    BY <1>10, <2>1
  <2> QED BY <1>1, <2>1, <2>2
<1>12. ASSUME NEW g \in 0 .. (gap - 1), g \in T PROVE g + 1 \in T
  <2>1. g + 1 \in 0 .. gap /\ (g + 1) - 1 = g /\ g + 1 # 0 /\ exp[g] \in Nat
    BY <1>12
  <2>2. exp[g + 1] = exp[g] \div c
    BY <1>10, <2>1
  <2>3. exp[g] \div c \in Nat
    BY <1>2, <2>1
  <2> QED BY <2>1, <2>2, <2>3
<1> HIDE DEF T
<1>13. gap \in T
  <2>1. \A g \in 0 .. gap : g \in T
    BY <1>11, <1>12, InductionUpTo
  <2> QED BY <2>1
<1> QED BY <1>9, <1>13 DEF T

LEMMA WeightType ==
    ASSUME SamplerAssumption, LogitsOK, BestOK, param.cooling \in Nat \ {0}, NEW i \in Tokens
    PROVE  WeightOf(i) \in Nat /\ (i = best.index => WeightOf(i) = One)
<1>1. One \in Nat
  BY DEF SamplerAssumption
<1>2. Value(logits[i]) \in Int /\ best.high \in Int
  BY NumbersOfRow DEF LogitsOK, BestOK
<1>3. CASE Value(logits[i]) = best.high
  BY <1>1, <1>3 DEF WeightOf
<1>4. CASE Value(logits[i]) # best.high
  <2>1. Value(logits[i]) < best.high /\ i # best.index
    BY <1>2, <1>4 DEF BestOK
  <2>2. best.high - Value(logits[i]) \in Nat
    BY <1>2, <2>1
  <2>3. Exp(best.high - Value(logits[i])) \in Nat
    BY <2>2, ExpType
  <2>4. WeightOf(i) = IF Value(logits[i]) >= cutoff THEN Exp(best.high - Value(logits[i])) ELSE 0
    BY <1>4 DEF WeightOf
  <2> QED BY <2>1, <2>3, <2>4
<1> QED BY <1>3, <1>4

-----------------------------------------------------------------------------
(* The draw: the bucket of a thread is read back by the whole block, in     *)
(* vectors, and every token of the thread is read once, in order.           *)

\* Where a vector begins, in vectors.
VectorOf(t, pass, s) == t + (pass * NumThreads + s) * NumThreads

LEMMA VectorNumbers ==
    ASSUME SamplerAssumption, NEW t \in Threads, NEW pass \in Nat, NEW s \in Threads
    PROVE  /\ VectorOf(t, pass, s) \in Nat /\ VectorOf(t, pass, s) * LoadWidth \in Nat
           /\ VectorOf(t, pass, s) % NumThreads = t
           /\ VectorOf(t, pass, s) \div NumThreads = pass * NumThreads + s
           /\ (pass * NumThreads + s) % NumThreads = s
           /\ (pass * NumThreads + s) \div NumThreads = pass
<1>1. /\ NumThreads \in Nat \ {0} /\ LoadWidth \in Nat \ {0}
      /\ t \in 0 .. NumThreads - 1 /\ s \in 0 .. NumThreads - 1 /\ t \in Nat /\ s \in Nat
  BY DEF SamplerAssumption, Threads
<1> DEFINE m == pass * NumThreads + s
<1>2. m \in Nat
  BY <1>1
<1>3. m % NumThreads = s /\ m \div NumThreads = pass
  BY <1>1, QuotientAndRest
<1> HIDE DEF m
<1>4. m * NumThreads \in Nat /\ t + m * NumThreads = m * NumThreads + t
  <2>1. m * NumThreads \in Nat
    BY <1>1, <1>2
  <2> QED BY <1>1, <2>1
<1>5. (m * NumThreads + t) % NumThreads = t /\ (m * NumThreads + t) \div NumThreads = m
  BY <1>1, <1>2, QuotientAndRest
<1>6. VectorOf(t, pass, s) = m * NumThreads + t
  BY <1>4 DEF VectorOf, m
<1>7. VectorOf(t, pass, s) \in Nat
  BY <1>1, <1>4, <1>6
<1>8. VectorOf(t, pass, s) * LoadWidth \in Nat
  BY <1>1, <1>7
<1> QED BY <1>3, <1>5, <1>6, <1>7, <1>8 DEF m

LEMMA ReadingNumbers ==
    ASSUME SamplerAssumption, NEW t \in Threads, NEW r \in Readings(t)
    PROVE  /\ r = <<r[1], r[2], r[3]>> /\ r[1] \in Passes(t) /\ r[1] \in Nat
           /\ r[2] \in Threads /\ r[2] \in Nat /\ r[3] \in Tokens /\ r[3] \in Nat
           /\ r[3] \div LoadWidth = VectorOf(t, r[1], r[2])
           /\ r[3] \in ThreadTokens(t)
<1>0. PICK pass \in Passes(t) :
         r \in UNION {{<<pass, s, i>> : i \in Vector(t, pass, s)} : s \in Threads}
  BY DEF Readings
<1>1. PICK s \in Threads : r \in {<<pass, s, i>> : i \in Vector(t, pass, s)}
  BY <1>0
<1>2. PICK i \in Vector(t, pass, s) : r = <<pass, s, i>>
  BY <1>1
<1>3. /\ NumThreads \in Nat \ {0} /\ LoadWidth \in Nat \ {0} /\ VocabSize \in Nat \ {0}
  BY DEF SamplerAssumption
<1>4. pass \in Nat /\ pass \in Tokens /\ s \in Nat /\ i \in Tokens /\ i \in Nat
  BY <1>1, <1>2, <1>3 DEF Passes, Tokens, Threads, Vector
<1> DEFINE q == VectorOf(t, pass, s)
<1>5. q \in Nat /\ q * LoadWidth \in Nat /\ q % NumThreads = t
  BY <1>4, VectorNumbers
<1>6. q * LoadWidth <= i /\ i < q * LoadWidth + LoadWidth
  BY <1>2 DEF Vector, VectorOf
<1> HIDE DEF q
<1>7. i - q * LoadWidth \in 0 .. LoadWidth - 1 /\ i = q * LoadWidth + (i - q * LoadWidth)
  BY <1>3, <1>4, <1>5, <1>6
<1>8. i \div LoadWidth = q
  <2> DEFINE d == i - q * LoadWidth
  <2>1. d \in 0 .. LoadWidth - 1 /\ i = q * LoadWidth + d
    BY <1>7
  <2> HIDE DEF d
  <2>2. (q * LoadWidth + d) \div LoadWidth = q
    BY <1>3, <1>5, <2>1, QuotientAndRest
  <2> QED BY <2>1, <2>2
<1>9. i \in ThreadTokens(t)
  BY <1>4, <1>5, <1>8 DEF ThreadTokens
<1>10. r[1] = pass /\ r[2] = s /\ r[3] = i
  BY <1>2
<1> QED BY <1>1, <1>2, <1>4, <1>8, <1>9, <1>10 DEF q

LEMMA OneReading ==
    ASSUME SamplerAssumption, NEW t \in Threads, NEW r1 \in Readings(t), NEW r2 \in Readings(t),
           r1[3] = r2[3]
    PROVE  r1 = r2
<1>1. VectorOf(t, r1[1], r1[2]) = VectorOf(t, r2[1], r2[2])
  BY ReadingNumbers
<1>2. r1[1] \in Nat /\ r2[1] \in Nat /\ r1[2] \in Threads /\ r2[2] \in Threads
  BY ReadingNumbers
<1>3. ASSUME NEW r \in Readings(t), r[1] \in Nat, r[2] \in Threads
      PROVE  /\ VectorOf(t, r[1], r[2]) \div NumThreads = r[1] * NumThreads + r[2]
             /\ (r[1] * NumThreads + r[2]) \div NumThreads = r[1]
             /\ (r[1] * NumThreads + r[2]) % NumThreads = r[2]
  <2> DEFINE p == r[1]
             s == r[2]
  <2>1. p \in Nat /\ s \in Threads
    BY <1>3
  <2> HIDE DEF p, s
  <2>2. /\ VectorOf(t, p, s) \div NumThreads = p * NumThreads + s
        /\ (p * NumThreads + s) \div NumThreads = p
        /\ (p * NumThreads + s) % NumThreads = s
    BY <2>1, VectorNumbers
  <2> QED BY <2>2 DEF p, s
<1>4. r1[1] * NumThreads + r1[2] = r2[1] * NumThreads + r2[2]
  <2>1. VectorOf(t, r1[1], r1[2]) \div NumThreads = r1[1] * NumThreads + r1[2]
    BY <1>2, <1>3
  <2>2. VectorOf(t, r2[1], r2[2]) \div NumThreads = r2[1] * NumThreads + r2[2]
    BY <1>2, <1>3
  <2> QED BY <1>1, <2>1, <2>2, Zenon
<1>5. r1[1] = r2[1] /\ r1[2] = r2[2]
  <2>1. /\ (r1[1] * NumThreads + r1[2]) \div NumThreads = r1[1]
        /\ (r1[1] * NumThreads + r1[2]) % NumThreads = r1[2]
    BY <1>2, <1>3
  <2>2. /\ (r2[1] * NumThreads + r2[2]) \div NumThreads = r2[1]
        /\ (r2[1] * NumThreads + r2[2]) % NumThreads = r2[2]
    BY <1>2, <1>3
  <2> QED BY <1>4, <2>1, <2>2, Zenon
<1> QED BY <1>5, ReadingNumbers

LEMMA EveryReading ==
    ASSUME SamplerAssumption, NEW t \in Threads, NEW i \in ThreadTokens(t)
    PROVE  \E r \in Readings(t) : r[3] = i
<1>1. /\ NumThreads \in Nat \ {0} /\ LoadWidth \in Nat \ {0} /\ VocabSize \in Nat \ {0}
      /\ t \in 0 .. NumThreads - 1 /\ t \in Nat
  BY DEF SamplerAssumption, Threads
<1>2. i \in Tokens /\ i \in Nat /\ i < VocabSize
  BY <1>1 DEF ThreadTokens, Tokens
<1> DEFINE q == i \div LoadWidth
           m == q \div NumThreads
           pass == m \div NumThreads
           s == m % NumThreads
<1>3. q \in Nat /\ q * LoadWidth \in Nat /\ q * LoadWidth <= i /\ i < q * LoadWidth + LoadWidth
  BY <1>1, <1>2, Quotient
<1>4. q % NumThreads = t
  BY DEF ThreadTokens
<1> HIDE DEF q
<1>5. m \in Nat /\ q = m * NumThreads + t /\ m * NumThreads \in Nat
  BY <1>1, <1>3, <1>4, Quotient
<1> HIDE DEF m
<1>6. pass \in Nat /\ s \in Threads /\ m = pass * NumThreads + s /\ pass * NumThreads \in Nat
      /\ pass * NumThreads <= m
  BY <1>1, <1>5, Quotient DEF Threads
<1> HIDE DEF pass, s
<1>7. q = VectorOf(t, pass, s)
  BY <1>1, <1>5, <1>6 DEF VectorOf
<1>8. i \in Vector(t, pass, s)
  BY <1>2, <1>3, <1>7 DEF Vector, VectorOf
<1>9. \A a \in Nat : \A b \in Nat \ {0} : a <= a * b
  OBVIOUS
<1>10. pass <= i
  <2>1. pass <= pass * NumThreads /\ m <= m * NumThreads /\ q <= q * LoadWidth
    BY <1>1, <1>3, <1>5, <1>6, <1>9
  <2> QED BY <1>1, <1>2, <1>3, <1>5, <1>6, <2>1
<1>11. pass \in Passes(t)
  <2> DEFINE a == pass * NumThreads
             b == t + pass * NumThreads * NumThreads
  <2>1. a \in Nat /\ a <= m /\ b = t + a * NumThreads
    BY <1>6
  <2> HIDE DEF a, b
  <2>2. \A x, y, z \in Nat : x <= y => x * z \in Nat /\ y * z \in Nat /\ x * z <= y * z
    OBVIOUS
  <2>3. a * NumThreads \in Nat /\ a * NumThreads <= m * NumThreads
    BY <1>1, <1>5, <2>1, <2>2
  <2>4. b \in Nat /\ b <= q
    BY <1>1, <1>5, <2>1, <2>3
  <2>5. b * LoadWidth \in Nat /\ b * LoadWidth <= q * LoadWidth
    BY <1>1, <1>3, <2>2, <2>4
  <2>6. b * LoadWidth < VocabSize
    BY <1>1, <1>2, <1>3, <2>5
  <2>7. pass \in Tokens
    BY <1>1, <1>2, <1>6, <1>10 DEF Tokens
  <2> QED BY <2>6, <2>7 DEF Passes, b
<1>12. <<pass, s, i>> \in Readings(t)
  BY <1>2, <1>6, <1>8, <1>11 DEF Readings
<1>13. <<pass, s, i>>[3] = i
  OBVIOUS
<1> QED BY <1>12, <1>13

ReadingsBefore(t) == [r \in Readings(t) |-> {q \in Readings(t) : ReadBefore(q, r)}]

LEMMA ReadingsInOrder ==
    ASSUME SamplerAssumption, NEW t \in Threads
    PROVE  IsFiniteSet(Readings(t)) /\ InOrder(ReadingsBefore(t), Readings(t))
<1> DEFINE R == Readings(t)
           B == ReadingsBefore(t)
<1>1. \A r \in R : /\ r = <<r[1], r[2], r[3]>> /\ r[1] \in Nat /\ r[2] \in Nat /\ r[3] \in Nat
                   /\ r[3] \in Tokens
  BY ReadingNumbers
<1>2. \A r \in R : B[r] = {q \in R : ReadBefore(q, r)}
  BY DEF ReadingsBefore
<1>3. IsFiniteSet(R)
  <2> DEFINE f == [r \in R |-> r[3]]
  <2>1. f \in Injection(R, Tokens)
    <3>1. f \in [R -> Tokens]
      BY <1>1
    <3>2. \A r1, r2 \in R : f[r1] = f[r2] => r1 = r2
      BY OneReading
    <3> QED BY <3>1, <3>2 DEF Injection, IsInjective
  <2> HIDE DEF f, R
  <2> QED BY <2>1, FiniteTokens, FS_Injection
<1> HIDE DEF R, B
<1>4. \A i \in R : B[i] \subseteq R \ {i}
  BY <1>1, <1>2 DEF ReadBefore
<1>5. ASSUME NEW i \in R, NEW j \in B[i], NEW k \in B[j] PROVE k \in B[i]
  <2>1. j \in R /\ ReadBefore(j, i) /\ k \in R /\ ReadBefore(k, j)
    BY <1>2, <1>5
  <2>2. ReadBefore(k, i)
    BY <1>1, <2>1 DEF ReadBefore
  <2> QED BY <1>2, <2>1, <2>2
<1>6. ASSUME NEW i \in R, NEW j \in R, i # j PROVE i \in B[j] \/ j \in B[i]
  <2>1. i[1] # j[1] \/ i[2] # j[2] \/ i[3] # j[3]
    BY <1>1, <1>6
  <2>2. ReadBefore(i, j) \/ ReadBefore(j, i)
    BY <1>1, <2>1 DEF ReadBefore
  <2> QED BY <1>2, <2>2
<1>7. InOrder(B, R)
  BY <1>4, <1>5, <1>6 DEF InOrder
<1> QED BY <1>3, <1>7 DEF R, B

MassesOK == \A t \in Threads : threadMass[t] = MassAbove(row, t, low)

WeightsRead(t) == [q \in Readings(t) |-> Kept(q[3])]

LEMMA KeptType ==
    ASSUME RowOK, low \in Nat, NEW i \in Tokens
    PROVE  Kept(i) \in Nat /\ (Kept(i) > 0 => row[i] > low /\ row[i] > 0)
<1>1. row[i] \in Nat
  BY DEF RowOK
<1> QED BY <1>1 DEF Kept

\* What is read back of a bucket adds up to the bucket.
LEMMA BucketIsRead ==
    ASSUME SamplerAssumption, RowOK, low \in Nat, MassesOK, NEW t \in Threads
    PROVE  /\ \A q \in Readings(t) : WeightsRead(t)[q] \in Nat
           /\ SumOf(WeightsRead(t), Readings(t)) = threadMass[t]
<1> DEFINE K == [i \in Tokens |-> Kept(i)]
           S == ThreadTokens(t)
           P == {i \in S : row[i] > low}
           Q == S \ P
           R == Readings(t)
           f == WeightsRead(t)
           b == [r \in R |-> r[3]]
<1>1. S \in SUBSET Tokens /\ IsFiniteSet(S)
  BY ThreadOfToken, FiniteTokens, FS_Subset
<1>2. \A i \in S : row[i] \in Nat /\ K[i] = (IF row[i] > low THEN row[i] ELSE 0) /\ K[i] \in Nat
  BY <1>1 DEF RowOK, Kept
<1>3. threadMass[t] = SumOf(row, P)
  BY SumOverIs DEF MassesOK, MassAbove
<1>4. /\ IsFiniteSet(P) /\ IsFiniteSet(Q) /\ P \cap Q = {} /\ P \cup Q = S
      /\ (\A i \in P : row[i] = K[i]) /\ (\A i \in Q : K[i] = 0)
      /\ \A i \in P \cup Q : K[i] \in Nat
  BY <1>1, <1>2, FS_Subset
<1>5. SumOf(row, P) = SumOf(K, S)
  <2> HIDE DEF K, P, Q, S
  <2>1. SumOf(row, P) = SumOf(K, P)
    BY <1>4, SumAgrees
  <2>2. SumOf(K, Q) = 0
    BY <1>4, SumZero
  <2>3. SumOf(K, P \cup Q) = SumOf(K, P) + SumOf(K, Q)
    BY <1>4, SumUnion
  <2>4. SumOf(K, P) \in Nat
    BY <1>4, SumElement
  <2>5. SumOf(K, P \cup Q) = SumOf(K, P)
    BY <2>2, <2>3, <2>4
  <2>6. P \cup Q = S
    BY <1>4
  <2> QED BY <2>1, <2>5, <2>6, Zenon
<1>6. \A q \in R : q[3] \in S
  BY ReadingNumbers
<1>7. \A q \in R : b[q] \in S /\ K[b[q]] \in Nat /\ f[q] = K[b[q]]
  BY <1>1, <1>2, <1>6 DEF WeightsRead
<1>8. \A x, y \in R : x # y => b[x] # b[y]
  BY OneReading
<1>9. \A z \in S : \E x \in R : z = b[x]
  <2> SUFFICES ASSUME NEW z \in S PROVE \E x \in R : z = b[x]
    OBVIOUS
  <2>1. PICK x \in R : x[3] = z
    BY EveryReading
  <2> QED BY <2>1
<1>10. IsFiniteSet(R)
  BY ReadingsInOrder
<1>11. SumOf(f, R) = SumOf(K, S)
  <2> HIDE DEF f, R, K, S, b
  <2> QED BY <1>7, <1>8, <1>9, <1>10, SumAlong
<1> QED BY <1>3, <1>5, <1>7, <1>11

ThreadsBefore == [t \in Threads |-> {s \in Threads : s < t}]
BucketStart(t) == SumOf(threadMass, ThreadsBefore[t])
StretchStart(t, r) == SumOf(WeightsRead(t), ReadingsBefore(t)[r])

LEMMA BucketShares ==
    ASSUME SamplerAssumption, RowOK, low \in Nat, MassesOK
    PROVE  /\ Total \in Nat
           /\ \A t \in Threads : /\ threadMass[t] \in Nat /\ BucketStart(t) \in Nat
                                 /\ BucketStart(t) + threadMass[t] <= Total
           /\ \A t, s \in Threads : t # s =>
                 \/ BucketStart(t) + threadMass[t] <= BucketStart(s)
                 \/ BucketStart(s) + threadMass[s] <= BucketStart(t)
           /\ \A u \in 0 .. Total - 1 : \E t \in Threads :
                 BucketStart(t) <= u /\ u < BucketStart(t) + threadMass[t]
<1>1. \A t \in Threads : threadMass[t] \in Nat
  <2> SUFFICES ASSUME NEW t \in Threads PROVE threadMass[t] \in Nat
    OBVIOUS
  <2>1. (\A q \in Readings(t) : WeightsRead(t)[q] \in Nat)
        /\ SumOf(WeightsRead(t), Readings(t)) = threadMass[t]
    BY BucketIsRead
  <2>2. IsFiniteSet(Readings(t))
    BY ReadingsInOrder
  <2>3. SumOf(WeightsRead(t), Readings(t)) \in Nat
    BY <2>1, <2>2, SumElement
  <2> QED BY <2>1, <2>3
<1>2. IsFiniteSet(Threads)
  BY FiniteTokens
<1>3. InOrder(ThreadsBefore, Threads)
  <2> DEFINE B == ThreadsBefore
  <2>1. Threads \in SUBSET Int
    BY DEF Threads
  <2>2. \A t \in Threads : B[t] = {s \in Threads : s < t}
    BY DEF ThreadsBefore
  <2> HIDE DEF B
  <2>3. \A t, s \in Threads : s \in B[t] <=> s < t
    BY <2>2
  <2>4. \A i \in Threads : B[i] \subseteq Threads \ {i}
    BY <2>1, <2>2
  <2>5. ASSUME NEW i \in Threads, NEW j \in B[i], NEW k \in B[j] PROVE k \in B[i]
    <3>1. j \in Threads /\ j < i
      BY <2>2
    <3>2. k \in Threads /\ k < j
      BY <2>2, <3>1
    <3>3. k < i
      BY <2>1, <3>1, <3>2
    <3> QED BY <2>3, <3>2, <3>3
  <2>6. \A i, j \in Threads : i = j \/ i \in B[j] \/ j \in B[i]
    BY <2>1, <2>3
  <2> QED BY <2>4, <2>5, <2>6 DEF InOrder, B
<1>4. Total = SumOf(threadMass, Threads) /\ SumOf(threadMass, Threads) \in Nat
  BY <1>1, <1>2, SumOverIs, SumElement DEF Total
<1> USE DEF BucketStart
<1>5. \A t \in Threads : BucketStart(t) \in Nat
                         /\ BucketStart(t) + threadMass[t] <= SumOf(threadMass, Threads)
  BY <1>1, <1>2, <1>3, Shares
<1>6. \A t, s \in Threads : t # s =>
         \/ BucketStart(t) + threadMass[t] <= BucketStart(s)
         \/ BucketStart(s) + threadMass[s] <= BucketStart(t)
  BY <1>1, <1>2, <1>3, Shares
<1>7. \A u \in 0 .. SumOf(threadMass, Threads) - 1 : \E t \in Threads :
         BucketStart(t) <= u /\ u < BucketStart(t) + threadMass[t]
  BY <1>1, <1>2, <1>3, Shares
<1> HIDE DEF BucketStart
<1> QED BY <1>1, <1>4, <1>5, <1>6, <1>7

LEMMA StretchShares ==
    ASSUME SamplerAssumption, RowOK, low \in Nat, MassesOK, NEW t \in Threads
    PROVE  /\ \A r \in Readings(t) :
                 /\ StretchStart(t, r) \in Nat /\ Kept(r[3]) \in Nat
                 /\ StretchStart(t, r) + Kept(r[3]) <= threadMass[t]
           /\ \A q, r \in Readings(t) : q # r =>
                 \/ StretchStart(t, q) + Kept(q[3]) <= StretchStart(t, r)
                 \/ StretchStart(t, r) + Kept(r[3]) <= StretchStart(t, q)
           /\ \A u \in 0 .. threadMass[t] - 1 : \E r \in Readings(t) :
                 StretchStart(t, r) <= u /\ u < StretchStart(t, r) + Kept(r[3])
<1> DEFINE R == Readings(t)
           f == WeightsRead(t)
           B == ReadingsBefore(t)
<1>1. (\A r \in R : f[r] \in Nat) /\ SumOf(f, R) = threadMass[t]
  BY BucketIsRead
<1>2. IsFiniteSet(R) /\ InOrder(B, R)
  BY ReadingsInOrder
<1>3. \A r \in R : f[r] = Kept(r[3]) /\ StretchStart(t, r) = SumOf(f, B[r])
  BY DEF WeightsRead, StretchStart
<1> HIDE DEF R, f, B
<1>4. \A i \in R : SumOf(f, B[i]) \in Nat /\ SumOf(f, B[i]) + f[i] <= SumOf(f, R)
  BY <1>1, <1>2, Shares
<1>5. \A i, j \in R : i # j => \/ SumOf(f, B[i]) + f[i] <= SumOf(f, B[j])
                               \/ SumOf(f, B[j]) + f[j] <= SumOf(f, B[i])
  BY <1>1, <1>2, Shares
<1>6. \A u \in 0 .. SumOf(f, R) - 1 : \E i \in R : SumOf(f, B[i]) <= u /\ u < SumOf(f, B[i]) + f[i]
  BY <1>1, <1>2, Shares
<1>7. \A r \in R : /\ StretchStart(t, r) \in Nat /\ Kept(r[3]) \in Nat
                   /\ StretchStart(t, r) + Kept(r[3]) <= threadMass[t]
  BY <1>1, <1>3, <1>4, Zenon
<1>8. \A q, r \in R : q # r =>
         \/ StretchStart(t, q) + Kept(q[3]) <= StretchStart(t, r)
         \/ StretchStart(t, r) + Kept(r[3]) <= StretchStart(t, q)
  BY <1>3, <1>5, Zenon
<1>9. \A u \in 0 .. threadMass[t] - 1 : \E r \in R :
         StretchStart(t, r) <= u /\ u < StretchStart(t, r) + Kept(r[3])
  BY <1>1, <1>3, <1>6, Zenon
<1> QED BY <1>7, <1>8, <1>9 DEF R

\* A value in a token's stretch draws the token.
LEMMA DrawAt ==
    ASSUME SamplerAssumption, RowOK, low \in Nat, MassesOK,
           NEW t \in Threads, NEW r \in Readings(t), NEW u \in Nat,
           BucketStart(t) + StretchStart(t, r) <= u,
           u < BucketStart(t) + StretchStart(t, r) + Kept(r[3])
    PROVE  u \in 0 .. Total - 1 /\ DrawnToken(u) = r[3]
<1> DEFINE a == BucketStart(t)
           d == u - a
           x == [thread |-> t, start |-> a]
           y == [pass |-> r[1], token |-> r[3], start |-> StretchStart(t, r)]
<1>1. /\ a \in Nat /\ threadMass[t] \in Nat /\ a + threadMass[t] <= Total /\ Total \in Nat
      /\ StretchStart(t, r) \in Nat /\ Kept(r[3]) \in Nat
      /\ StretchStart(t, r) + Kept(r[3]) <= threadMass[t]
  BY BucketShares, StretchShares
<1>2. /\ a <= u /\ u < a + threadMass[t] /\ d \in Nat
      /\ StretchStart(t, r) <= d /\ d < StretchStart(t, r) + Kept(r[3])
  BY <1>1
<1>3. u \in 0 .. Total - 1
  BY <1>1, <1>2
<1>4. Buckets = {[thread |-> s, start |-> BucketStart(s)] : s \in Threads}
  <2>1. \A s \in Threads : SumOver(threadMass, {q \in Threads : q < s}) = BucketStart(s)
    BY SumOverIs DEF BucketStart, ThreadsBefore
  <2> QED BY <2>1, Zenon DEF Buckets
<1> HIDE DEF a
<1>5. BucketsOf(u) = {x}
  <2>1. x \in BucketsOf(u)
    BY <1>2, <1>4 DEF BucketsOf, a
  <2>2. ASSUME NEW b \in BucketsOf(u) PROVE b = x
    <3>1. PICK s \in Threads : b = [thread |-> s, start |-> BucketStart(s)]
      BY <1>4 DEF BucketsOf
    <3>2. BucketStart(s) <= u /\ u < BucketStart(s) + threadMass[s]
      BY <3>1 DEF BucketsOf
    <3>3. BucketStart(s) \in Nat /\ threadMass[s] \in Nat
      BY BucketShares
    <3>4. s # t => \/ BucketStart(t) + threadMass[t] <= BucketStart(s)
                   \/ BucketStart(s) + threadMass[s] <= BucketStart(t)
      BY BucketShares
    <3>5. s = t
      BY <1>1, <1>2, <3>2, <3>3, <3>4 DEF a
    <3> QED BY <3>1, <3>5 DEF a
  <2> HIDE DEF x
  <2> QED BY <2>1, <2>2
<1>6. Stretches(t) = {[pass |-> q[1], token |-> q[3], start |-> StretchStart(t, q)] :
                      q \in Readings(t)}
  <2>1. \A q \in Readings(t) :
           SumOver([p \in Readings(t) |-> Kept(p[3])], {p \in Readings(t) : ReadBefore(p, q)})
             = StretchStart(t, q)
    BY SumOverIs DEF StretchStart, ReadingsBefore, WeightsRead
  <2> QED BY <2>1, Zenon DEF Stretches
<1>7. FoundIn(t, d) = {y}
  <2>1. y \in FoundIn(t, d)
    BY <1>2, <1>6 DEF FoundIn
  <2>2. ASSUME NEW z \in FoundIn(t, d) PROVE z = y
    <3>1. PICK q \in Readings(t) :
             z = [pass |-> q[1], token |-> q[3], start |-> StretchStart(t, q)]
      BY <1>6 DEF FoundIn
    <3>2. StretchStart(t, q) <= d /\ d < StretchStart(t, q) + Kept(q[3])
      BY <3>1 DEF FoundIn
    <3>3. StretchStart(t, q) \in Nat /\ Kept(q[3]) \in Nat
      BY StretchShares
    <3>4. q # r => \/ StretchStart(t, q) + Kept(q[3]) <= StretchStart(t, r)
                   \/ StretchStart(t, r) + Kept(r[3]) <= StretchStart(t, q)
      BY StretchShares
    <3> HIDE DEF d
    <3>5. q = r
      BY <1>1, <1>2, <3>2, <3>3, <3>4
    <3> QED BY <3>1, <3>5
  <2> HIDE DEF y, d
  <2> QED BY <2>1, <2>2
<1>8. FirstFound({y}) = r[3]
  <2>1. {s.token : s \in {s \in {y} : \A other \in {y} : s.pass <= other.pass}} = {r[3]}
    <3>1. y.token = r[3] /\ y.pass = r[1] /\ r[1] <= r[1]
      BY ReadingNumbers
    <3> HIDE DEF y
    <3>2. {s \in {y} : \A other \in {y} : s.pass <= other.pass} = {y}
      BY <3>1
    <3> QED BY <3>1, <3>2
  <2>2. Min({r[3]}) = r[3]
    <3>1. r[3] \in Nat
      BY ReadingNumbers
    <3> QED BY <3>1 DEF Min
  <2> QED BY <2>1, <2>2, Zenon DEF FirstFound
<1>9. DrawnToken(u) = r[3]
  <2>1. (CHOOSE b \in {x} : \A other \in {x} : b.thread <= other.thread) = x
    <3>1. x.thread = t /\ t <= t
      BY DEF Threads
    <3> HIDE DEF x
    <3> QED BY <3>1
  <2>2. x.thread = t /\ x.start = a
    OBVIOUS
  <2> DEFINE b == CHOOSE b \in BucketsOf(u) : \A other \in BucketsOf(u) : b.thread <= other.thread
  <2>3. b = x
    BY <1>5, <2>1, Zenon
  <2>4. DrawnToken(u) = IF BucketsOf(u) = {} \/ FoundIn(b.thread, u - b.start) = {}
                          THEN best.index ELSE FirstFound(FoundIn(b.thread, u - b.start))
    BY Zenon DEF DrawnToken
  <2> HIDE DEF b, x, y
  <2>5. FoundIn(b.thread, u - b.start) = {y}
    <3> HIDE DEF d
    <3>1. b.thread = t /\ b.start = a
      BY <2>2, <2>3
    <3> QED BY <1>7, <3>1, Zenon DEF d
  <2>6. BucketsOf(u) # {} /\ {y} # {}
    BY <1>5
  <2> QED BY <1>8, <2>4, <2>5, <2>6, Zenon
<1> QED BY <1>3, <1>9

\* Every value draws the token in whose stretch it is.
LEMMA DrawOf ==
    ASSUME SamplerAssumption, RowOK, low \in Nat, MassesOK, NEW u \in 0 .. Total - 1
    PROVE  \E t \in Threads : \E r \in Readings(t) :
              /\ BucketStart(t) + StretchStart(t, r) <= u
              /\ u < BucketStart(t) + StretchStart(t, r) + Kept(r[3])
              /\ DrawnToken(u) = r[3]
<1>1. Total \in Nat /\ u \in Nat
  BY BucketShares
<1>2. PICK t \in Threads : BucketStart(t) <= u /\ u < BucketStart(t) + threadMass[t]
  BY BucketShares
<1>3. BucketStart(t) \in Nat /\ threadMass[t] \in Nat
  BY BucketShares
<1>4. u - BucketStart(t) \in 0 .. threadMass[t] - 1
  BY <1>1, <1>2, <1>3
<1>5. PICK r \in Readings(t) : /\ StretchStart(t, r) <= u - BucketStart(t)
                               /\ u - BucketStart(t) < StretchStart(t, r) + Kept(r[3])
  BY <1>4, StretchShares
<1>6. StretchStart(t, r) \in Nat /\ Kept(r[3]) \in Nat
  BY StretchShares
<1>7. /\ BucketStart(t) + StretchStart(t, r) <= u
      /\ u < BucketStart(t) + StretchStart(t, r) + Kept(r[3])
  BY <1>1, <1>3, <1>5, <1>6
<1>8. DrawnToken(u) = r[3]
  BY <1>1, <1>7, DrawAt
<1> QED BY <1>7, <1>8

LEMMA DrawnTokenIs ==
    ASSUME SamplerAssumption, RowOK, low \in Nat, MassesOK, NEW i \in DrawnTokens
    PROVE  i = best.index \/ (i \in Tokens /\ row[i] > low /\ row[i] > 0)
<1>1. SUFFICES ASSUME i # best.index PROVE i \in Tokens /\ row[i] > low /\ row[i] > 0
  OBVIOUS
<1>2. PICK u \in 0 .. Total - 1 : i = DrawnToken(u)
  BY <1>1 DEF DrawnTokens, Draws
<1>3. PICK t \in Threads : \E r \in Readings(t) :
         /\ BucketStart(t) + StretchStart(t, r) <= u
         /\ u < BucketStart(t) + StretchStart(t, r) + Kept(r[3])
         /\ DrawnToken(u) = r[3]
  BY DrawOf
<1>4. PICK r \in Readings(t) :
         /\ BucketStart(t) + StretchStart(t, r) <= u
         /\ u < BucketStart(t) + StretchStart(t, r) + Kept(r[3])
         /\ DrawnToken(u) = r[3]
  BY <1>3
<1>5. BucketStart(t) \in Nat /\ StretchStart(t, r) \in Nat /\ Total \in Nat
  BY BucketShares, StretchShares
<1>6. i = r[3] /\ i \in Tokens
  BY <1>2, <1>4, ReadingNumbers
<1>7. Kept(i) \in Nat
  BY <1>6, KeptType
<1>8. Kept(i) > 0
  BY <1>4, <1>5, <1>6, <1>7
<1> QED BY <1>6, <1>8, KeptType

LEMMA DrawsAreProportional ==
    ASSUME SamplerAssumption, RowOK, low \in Nat, MassesOK, NEW i \in Tokens
    PROVE  Quantify(Draws, LAMBDA d : d.token = i) = Kept(i)
<1>1. PICK t \in Threads : i \in ThreadTokens(t)
  BY ThreadOfToken
<1>2. PICK r \in Readings(t) : r[3] = i
  BY <1>1, EveryReading
<1> DEFINE a == BucketStart(t) + StretchStart(t, r)
           D == {d \in Draws : d.token = i}
           U == a .. a + Kept(i) - 1
           f == [u \in U |-> [uniform |-> u, token |-> i]]
<1>3. /\ BucketStart(t) \in Nat /\ StretchStart(t, r) \in Nat /\ a \in Nat
      /\ Kept(i) \in Nat /\ Total \in Nat
  BY BucketShares, StretchShares, KeptType
<1>4. ASSUME NEW u \in U PROVE u \in 0 .. Total - 1 /\ DrawnToken(u) = i
  <2>1. u \in Nat /\ a <= u /\ u < a + Kept(i)
    <3> HIDE DEF a
    <3> QED BY <1>3
  <2> QED BY <1>2, <2>1, DrawAt
<1>5. ASSUME NEW u \in 0 .. Total - 1, DrawnToken(u) = i PROVE u \in U
  <2>1. PICK s \in Threads : \E q \in Readings(s) :
           /\ BucketStart(s) + StretchStart(s, q) <= u
           /\ u < BucketStart(s) + StretchStart(s, q) + Kept(q[3])
           /\ DrawnToken(u) = q[3]
    BY DrawOf
  <2>2. PICK q \in Readings(s) :
           /\ BucketStart(s) + StretchStart(s, q) <= u
           /\ u < BucketStart(s) + StretchStart(s, q) + Kept(q[3])
           /\ DrawnToken(u) = q[3]
    BY <2>1
  <2>3. q[3] = i /\ i \in ThreadTokens(s)
    BY <1>5, <2>2, ReadingNumbers
  <2>4. s = t
    BY <1>1, <2>3, ThreadOfToken
  <2>5. q = r
    BY <1>2, <2>3, <2>4, OneReading
  <2>6. a <= u /\ u < a + Kept(i) /\ u \in Nat
    BY <1>3, <2>2, <2>3, <2>4, <2>5
  <2> HIDE DEF a
  <2> QED BY <1>3, <2>6
<1>6. f \in Bijection(U, D)
  <2>1. \A d \in D : d.uniform \in U /\ d = [uniform |-> d.uniform, token |-> i]
    <3> SUFFICES ASSUME NEW d \in D PROVE d.uniform \in U /\ d = [uniform |-> d.uniform, token |-> i]
      OBVIOUS
    <3>1. PICK u \in 0 .. Total - 1 : d = [uniform |-> u, token |-> DrawnToken(u)]
      BY DEF Draws
    <3>2. DrawnToken(u) = i /\ d.uniform = u
      BY <3>1
    <3> HIDE DEF U
    <3> QED BY <1>5, <3>1, <3>2
  <2>2. \A u \in U : \E d \in D : d.uniform = u
    <3> SUFFICES ASSUME NEW u \in U PROVE \E d \in D : d.uniform = u
      OBVIOUS
    <3>1. u \in 0 .. Total - 1 /\ DrawnToken(u) = i
      BY <1>4
    <3>2. [uniform |-> u, token |-> DrawnToken(u)] \in D
      BY <3>1 DEF Draws
    <3> QED BY <3>2
  <2>3. \A u \in U : [uniform |-> u, token |-> i] \in D
    BY <2>1, <2>2
  <2> HIDE DEF D, U
  <2>4. f \in [U -> D]
    BY <2>3
  <2>5. \A u, v \in U : f[u] = f[v] => u = v
    <3> SUFFICES ASSUME NEW u \in U, NEW v \in U, f[u] = f[v] PROVE u = v
      OBVIOUS
    <3>1. f[u].uniform = u /\ f[v].uniform = v
      OBVIOUS
    <3> QED BY <3>1
  <2>6. \A d \in D : \E u \in U : f[u] = d
    BY <2>1
  <2> QED BY <2>4, <2>5, <2>6 DEF Bijection, Injection, Surjection, IsInjective
<1>7. IsFiniteSet(U) /\ Cardinality(U) = Kept(i)
  <2>1. a \in Int /\ a + Kept(i) - 1 \in Int /\ Kept(i) \in Nat
    BY <1>3
  <2> HIDE DEF a
  <2> DEFINE b == a + Kept(i) - 1
  <2>2. b \in Int /\ b - a + 1 = Kept(i) /\ (a > b <=> Kept(i) = 0)
    BY <1>3
  <2> HIDE DEF b
  <2>3. IsFiniteSet(a .. b) /\ Cardinality(a .. b) = IF a > b THEN 0 ELSE b - a + 1
    BY <2>1, <2>2, FS_Interval
  <2> QED BY <2>2, <2>3 DEF b
<1> HIDE DEF f, D, U
<1>8. Cardinality(D) = Cardinality(U)
  <2>1. ExistsBijection(U, D)
    BY <1>6 DEF ExistsBijection
  <2> QED BY <1>7, <2>1, FS_Bijection
<1>9. Quantify(Draws, LAMBDA d : d.token = i) = Cardinality(D)
  BY Zenon DEF Quantify, D
<1> QED BY <1>7, <1>8, <1>9

-----------------------------------------------------------------------------
(* Top-k.                                                                   *)

LEMMA KeyIs ==
    ASSUME SamplerAssumption, NEW code \in 0 .. 2 * SignBit - 1
    PROVE  /\ Bf16Key(code) = IF Value(code) >= 0 THEN Value(code) + SignBit
                                                 ELSE Value(code) + SignBit - 1
           /\ Value(code) \in Int /\ Bf16Key(code) \in Nat
           /\ Bf16Key(code) <= 2 * SignBit - 1
           /\ KeyValue(Bf16Key(code)) = Value(code)
<1>1. SignBit \in Nat \ {0}
  BY NumbersOfRow
<1> HIDE DEF SignBit
<1>2. code \in Nat /\ code <= 2 * SignBit - 1
  BY <1>1
<1>3. CASE code < SignBit
  <2>1. Value(code) = code /\ Bf16Key(code) = code + SignBit
    BY <1>1, <1>2, <1>3 DEF Value, Bf16Key
  <2>2. KeyValue(code + SignBit) = code
    <3>1. code + SignBit >= SignBit /\ (code + SignBit) - SignBit = code
      BY <1>1, <1>2
    <3>2. KeyValue(code + SignBit) = Value((code + SignBit) - SignBit)
      BY <3>1 DEF KeyValue
    <3> QED BY <2>1, <3>1, <3>2
  <2> QED BY <1>1, <1>2, <1>3, <2>1, <2>2
<1>4. CASE code = SignBit
  <2>1. Value(code) = 0 /\ Bf16Key(code) = SignBit
    BY <1>1, <1>4 DEF Value, Bf16Key
  <2>2. KeyValue(SignBit) = 0
    BY <1>1 DEF KeyValue, Value
  <2> QED BY <1>1, <2>1, <2>2
<1>5. CASE code > SignBit
  <2>1. Value(code) = SignBit - code /\ Bf16Key(code) = 2 * SignBit - 1 - code
    BY <1>1, <1>2, <1>5 DEF Value, Bf16Key
  <2>2. KeyValue(2 * SignBit - 1 - code) = SignBit - code
    <3>1. ~(2 * SignBit - 1 - code >= SignBit) /\ 2 * SignBit - 1 - (2 * SignBit - 1 - code) = code
      BY <1>1, <1>2, <1>5
    <3>2. KeyValue(2 * SignBit - 1 - code) = Value(2 * SignBit - 1 - (2 * SignBit - 1 - code))
      BY <3>1 DEF KeyValue
    <3> QED BY <2>1, <3>1, <3>2
  <2> QED BY <1>1, <1>2, <1>5, <2>1, <2>2
<1> QED BY <1>1, <1>2, <1>3, <1>4, <1>5

DigitsAbove == [digit \in Digits |-> {d \in Digits : d > digit}]

\* The digit of the k-th largest.
LEMMA DigitSelected ==
    ASSUME SamplerAssumption, NEW count, \A d \in Digits : count[d] \in Nat,
           NEW k \in Nat, 0 < k, k <= SumOf(count, Digits)
    PROVE  \E digit \in Digits :
              /\ SelectDigit(count, k) = [digit |-> digit, k |-> k - SumOf(count, DigitsAbove[digit])]
              /\ SumOf(count, DigitsAbove[digit]) \in Nat
              /\ SumOf(count, DigitsAbove[digit]) < k
              /\ k <= SumOf(count, DigitsAbove[digit]) + count[digit]
<1> DEFINE B == DigitsAbove
<1>1. IsFiniteSet(Digits) /\ Digits \in SUBSET Int
  <2>1. 0 \in Int /\ Radix - 1 \in Int
    BY DEF SamplerAssumption
  <2>2. Digits \in SUBSET Int
    BY DEF Digits
  <2>3. IsFiniteSet(Digits)
    BY <2>1, FS_Interval DEF Digits
  <2> QED BY <2>2, <2>3
<1>2. \A t \in Digits : B[t] = {s \in Digits : s > t}
  BY DEF DigitsAbove
<1>3. InOrder(B, Digits)
  <2> HIDE DEF B
  <2>1. \A t, s \in Digits : s \in B[t] <=> s > t
    BY <1>2
  <2>2. \A i \in Digits : B[i] \subseteq Digits \ {i}
    BY <1>1, <1>2
  <2>3. ASSUME NEW i \in Digits, NEW j \in B[i], NEW l \in B[j] PROVE l \in B[i]
    <3>1. j \in Digits /\ j > i
      BY <1>2
    <3>2. l \in Digits /\ l > j
      BY <1>2, <3>1
    <3>3. l > i
      BY <1>1, <3>1, <3>2
    <3> QED BY <2>1, <3>2, <3>3
  <2>4. \A i, j \in Digits : i = j \/ i \in B[j] \/ j \in B[i]
    BY <1>1, <2>1
  <2> QED BY <2>2, <2>3, <2>4 DEF InOrder
<1>4. \A i \in Digits : SumOf(count, B[i]) \in Nat /\ SumOf(count, B[i]) + count[i] <= SumOf(count, Digits)
  BY <1>1, <1>3, Shares
<1>5. \A u \in 0 .. SumOf(count, Digits) - 1 : \E i \in Digits :
         SumOf(count, B[i]) <= u /\ u < SumOf(count, B[i]) + count[i]
  BY <1>1, <1>3, Shares
<1>6. SumOf(count, Digits) \in Nat
  BY <1>1, SumElement
<1>7. \E i \in Digits : SumOf(count, B[i]) < k /\ k <= SumOf(count, B[i]) + count[i]
  <2>1. PICK i \in Digits : SumOf(count, B[i]) <= k - 1 /\ k - 1 < SumOf(count, B[i]) + count[i]
    <3>1. k - 1 \in 0 .. SumOf(count, Digits) - 1
      BY <1>6
    <3> QED BY <1>5, <3>1
  <2>2. SumOf(count, B[i]) < k /\ k <= SumOf(count, B[i]) + count[i]
    BY <1>4, <2>1
  <2> QED BY <2>2
<1> DEFINE above(digit) == SumOver(count, {d \in Digits : d > digit})
           digit == CHOOSE d \in Digits : above(d) < k /\ k <= above(d) + count[d]
<1>8. \A d \in Digits : above(d) = SumOf(count, B[d])
  BY SumOverIs DEF DigitsAbove
<1>9. SelectDigit(count, k) = [digit |-> digit, k |-> k - above(digit)]
  BY Zenon DEF SelectDigit
<1> HIDE DEF above, B
<1>10. digit \in Digits /\ above(digit) < k /\ k <= above(digit) + count[digit]
  BY <1>7, <1>8
<1> HIDE DEF digit
<1>11. SelectDigit(count, k) = [digit |-> digit, k |-> k - SumOf(count, B[digit])]
  BY <1>8, <1>9, <1>10
<1>12. /\ SumOf(count, B[digit]) \in Nat /\ SumOf(count, B[digit]) < k
       /\ k <= SumOf(count, B[digit]) + count[digit]
  BY <1>4, <1>8, <1>10
<1> QED BY <1>10, <1>11, <1>12 DEF B

HistogramsOK ==
    \A tile \in Tiles, digit \in Digits :
        histograms[tile][digit] = Cardinality({i \in TileTokens(tile) : HighDigit(logits[i]) = digit})

Key(i) == Bf16Key(logits[i])

LEMMA KeyDigits ==
    ASSUME SamplerAssumption, LogitsOK, NEW i \in Tokens
    PROVE  /\ Key(i) \in Nat /\ Key(i) = HighDigit(logits[i]) * Radix + LowDigit(logits[i])
           /\ HighDigit(logits[i]) \in Digits /\ LowDigit(logits[i]) \in Digits
           /\ KeyValue(Key(i)) = Value(logits[i]) /\ Value(logits[i]) \in Int
           /\ Key(i) = IF Value(logits[i]) >= 0 THEN Value(logits[i]) + SignBit
                                               ELSE Value(logits[i]) + SignBit - 1
<1>1. logits[i] \in 0 .. 2 * SignBit - 1
  BY NumbersOfRow DEF LogitsOK
<1> DEFINE c == logits[i]
           key == Bf16Key(c)
<1>2. /\ key = IF Value(c) >= 0 THEN Value(c) + SignBit ELSE Value(c) + SignBit - 1
      /\ Value(c) \in Int /\ key \in Nat /\ key <= 2 * SignBit - 1 /\ KeyValue(key) = Value(c)
  <2>1. c \in 0 .. 2 * SignBit - 1
    BY <1>1
  <2> HIDE DEF c
  <2> QED BY <2>1, KeyIs
<1>3. Radix \in Nat \ {0} /\ key < Radix * Radix
  <2>1. Radix \in Nat \ {0} /\ SignBit \in Nat /\ Radix * Radix = 2 * SignBit
    BY NumbersOfRow DEF SamplerAssumption
  <2> HIDE DEF key
  <2> QED BY <1>2, <2>1
<1> HIDE DEF key
<1>4. key = (key \div Radix) * Radix + (key % Radix) /\ key \div Radix \in Nat
      /\ key % Radix \in 0 .. Radix - 1
  BY <1>2, <1>3, Quotient
<1>5. key \div Radix \in 0 .. Radix - 1
  <2>1. key \div Radix < Radix
    BY <1>2, <1>3, QuotientBelow
  <2> QED BY <1>3, <1>4, <2>1
<1>6. HighDigit(c) = key \div Radix /\ LowDigit(c) = key % Radix /\ Key(i) = key
  BY DEF HighDigit, LowDigit, key, Key
<1> QED BY <1>2, <1>4, <1>5, <1>6 DEF Digits

\* The radix select finds the key of a logit that is among the k largest and
\* the last of them.
LEMMA KeySelected ==
    ASSUME SamplerAssumption, LogitsOK, HistogramsOK, param.topK \in 1 .. VocabSize
    PROVE  \E z \in Tokens :
              /\ RadixCutoff = Value(logits[z])
              /\ Cardinality({i \in Tokens : Key(i) > Key(z)}) < param.topK
              /\ param.topK <= Cardinality({i \in Tokens : Key(i) >= Key(z)})
<1> DEFINE k == param.topK
           High(i) == HighDigit(logits[i])
           Low(i) == LowDigit(logits[i])
           H == [digit \in Digits |-> SumOver([tile \in Tiles |-> histograms[tile][digit]], Tiles)]
<1>1. \A i \in Tokens : High(i) \in Digits /\ Low(i) \in Digits /\ Key(i) = High(i) * Radix + Low(i)
                       /\ Key(i) \in Nat /\ KeyValue(Key(i)) = Value(logits[i])
  BY KeyDigits
<1>2. IsFiniteSet(Tokens) /\ Cardinality(Tokens) = VocabSize /\ VocabSize \in Nat
  <2>1. VocabSize \in Nat \ {0} /\ 0 \in Int /\ VocabSize - 1 \in Int
    BY NumbersOfRow
  <2>2. IsFiniteSet(0 .. VocabSize - 1)
        /\ Cardinality(0 .. VocabSize - 1) = IF 0 > VocabSize - 1 THEN 0 ELSE (VocabSize - 1) - 0 + 1
    BY <2>1, FS_Interval
  <2>3. (IF 0 > VocabSize - 1 THEN 0 ELSE (VocabSize - 1) - 0 + 1) = VocabSize
    BY <2>1
  <2> QED BY <2>1, <2>2, <2>3 DEF Tokens
<1>3. IsFiniteSet(Digits) /\ Digits \in SUBSET Nat
  <2>1. 0 \in Int /\ Radix - 1 \in Int
    BY DEF SamplerAssumption
  <2>2. Digits \in SUBSET Nat
    BY DEF Digits
  <2>3. IsFiniteSet(Digits)
    BY <2>1, FS_Interval DEF Digits
  <2> QED BY <2>2, <2>3
<1>4. IsFiniteSet(Tiles)
  <2>1. VocabSize + TileSize - 1 \in Nat /\ TileSize \in Nat \ {0}
    BY NumbersOfRow
  <2> DEFINE n == (VocabSize + TileSize - 1) \div TileSize
  <2>2. n \in Nat
    BY <2>1, Quotient
  <2> HIDE DEF n
  <2>3. 0 \in Int /\ n - 1 \in Int
    BY <2>2
  <2> QED BY <2>3, FS_Interval DEF Tiles, n
<1> HIDE DEF High, Low
<1>5. \A d \in Digits : H[d] = Cardinality({i \in Tokens : High(i) = d})
  <2> SUFFICES ASSUME NEW d \in Digits PROVE H[d] = Cardinality({i \in Tokens : High(i) = d})
    OBVIOUS
  <2> DEFINE W == {i \in Tokens : High(i) = d}
             P == [tile \in Tiles |-> {i \in TileTokens(tile) : High(i) = d}]
             g == [tile \in Tiles |-> histograms[tile][d]]
  <2>1. H[d] = SumOf(g, Tiles)
    BY SumOverIs
  <2>2. IsFiniteSet(W)
    BY <1>2, FS_Subset
  <2>3. \A t \in Tiles : P[t] \subseteq W /\ g[t] = Cardinality(P[t])
    <3> SUFFICES ASSUME NEW t \in Tiles PROVE P[t] \subseteq W /\ g[t] = Cardinality(P[t])
      OBVIOUS
    <3>1. histograms[t][d] = Cardinality({i \in TileTokens(t) : HighDigit(logits[i]) = d})
      BY Zenon DEF HistogramsOK
    <3>2. P[t] = {i \in TileTokens(t) : HighDigit(logits[i]) = d}
      BY DEF High
    <3>3. P[t] \subseteq W
      BY DEF TileTokens
    <3>4. g[t] = histograms[t][d]
      OBVIOUS
    <3> HIDE DEF P, g, W
    <3> QED BY <3>1, <3>2, <3>3, <3>4, Zenon
  <2>4. \A t, s \in Tiles : t # s => P[t] \cap P[s] = {}
    BY DEF TileTokens
  <2>5. \A x \in W : \E t \in Tiles : x \in P[t]
    BY TileOfToken
  <2> HIDE DEF W, P, g
  <2>6. SumOf(g, Tiles) = Cardinality(W)
    BY <1>4, <2>2, <2>3, <2>4, <2>5, CountParts
  <2> HIDE DEF H
  <2> QED BY <2>1, <2>6, Zenon DEF W
<1> HIDE DEF H
<1> DEFINE highs == [i \in Tokens |-> High(i)]
           lows == [i \in Tokens |-> Low(i)]
           above(d) == DigitsAbove[d]
<1>7. \A i \in Tokens : highs[i] = High(i) /\ lows[i] = Low(i)
  OBVIOUS
<1> HIDE DEF highs, lows
<1>8. \A d \in Digits : H[d] = Cardinality(Fibre(Tokens, highs, d))
  <2> SUFFICES ASSUME NEW d \in Digits PROVE H[d] = Cardinality(Fibre(Tokens, highs, d))
    OBVIOUS
  <2>1. Fibre(Tokens, highs, d) = {i \in Tokens : High(i) = d}
    BY <1>7 DEF Fibre
  <2> QED BY <1>5, <2>1
<1>9. \A d \in Digits : above(d) \in SUBSET Digits /\ \A e \in Digits : e \in above(d) <=> e > d
  BY DEF DigitsAbove
<1> HIDE DEF above
<1>10. SumOf(H, Digits) = VocabSize
  <2>1. Inside(Tokens, highs, Digits) = Tokens
    BY <1>1, <1>7 DEF Inside
  <2>2. SumOf(H, Digits) = Cardinality(Inside(Tokens, highs, Digits))
    BY <1>2, <1>3, <1>8, CountFibres
  <2> QED BY <1>2, <2>1, <2>2
<1>11. \A d \in Digits : H[d] \in Nat
  <2> SUFFICES ASSUME NEW d \in Digits PROVE H[d] \in Nat
    OBVIOUS
  <2>1. IsFiniteSet(Fibre(Tokens, highs, d))
    BY <1>2, FS_Subset DEF Fibre
  <2> QED BY <1>8, <2>1, FS_CardinalityType
<1>12. k \in Nat /\ 0 < k /\ k <= SumOf(H, Digits)
  BY <1>2, <1>10
<1> HIDE DEF k
<1>13. PICK d1 \in Digits :
          /\ SelectDigit(H, k) = [digit |-> d1, k |-> k - SumOf(H, above(d1))]
          /\ SumOf(H, above(d1)) \in Nat /\ SumOf(H, above(d1)) < k
          /\ k <= SumOf(H, above(d1)) + H[d1]
  BY <1>11, <1>12, DigitSelected DEF above
<1> DEFINE k1 == k - SumOf(H, above(d1))
           T == Fibre(Tokens, highs, d1)
           L == LowDigits(d1)
<1>14. \A d \in Digits : L[d] = Cardinality(Fibre(T, lows, d))
  <2> SUFFICES ASSUME NEW d \in Digits PROVE L[d] = Cardinality(Fibre(T, lows, d))
    OBVIOUS
  <2>1. L[d] = Cardinality({i \in Tokens : LowDigit(logits[i]) = d /\ HighDigit(logits[i]) = d1})
    BY Zenon DEF LowDigits, Quantify
  <2>2. {i \in Tokens : LowDigit(logits[i]) = d /\ HighDigit(logits[i]) = d1} = Fibre(T, lows, d)
    BY <1>7 DEF High, Low, Fibre
  <2> HIDE DEF L, T
  <2> QED BY <2>1, <2>2
<1>15. T \in SUBSET Tokens /\ IsFiniteSet(T) /\ Cardinality(T) = H[d1]
  <2>1. T \in SUBSET Tokens
    BY DEF Fibre
  <2> QED BY <1>2, <1>8, <2>1, FS_Subset
<1> HIDE DEF T, L
<1>16. SumOf(L, Digits) = H[d1]
  <2>1. Inside(T, lows, Digits) = T
    BY <1>1, <1>7, <1>15 DEF Inside
  <2>2. SumOf(L, Digits) = Cardinality(Inside(T, lows, Digits))
    BY <1>3, <1>14, <1>15, CountFibres
  <2> QED BY <1>15, <2>1, <2>2
<1>17. \A d \in Digits : L[d] \in Nat
  <2> SUFFICES ASSUME NEW d \in Digits PROVE L[d] \in Nat
    OBVIOUS
  <2>1. IsFiniteSet(Fibre(T, lows, d))
    BY <1>15, FS_Subset DEF Fibre
  <2> QED BY <1>14, <2>1, FS_CardinalityType
<1>18. k1 \in Nat /\ 0 < k1 /\ k1 <= SumOf(L, Digits)
  <2>1. H[d1] \in Nat
    BY <1>11
  <2> QED BY <1>12, <1>13, <1>16, <2>1
<1> HIDE DEF k1
<1>19. PICK d2 \in Digits :
          /\ SelectDigit(L, k1) = [digit |-> d2, k |-> k1 - SumOf(L, above(d2))]
          /\ SumOf(L, above(d2)) \in Nat /\ SumOf(L, above(d2)) < k1
          /\ k1 <= SumOf(L, above(d2)) + L[d2]
  BY <1>17, <1>18, DigitSelected DEF above
<1>20. RadixCutoff = KeyValue(d1 * Radix + d2)
  <2>1. RadixCutoff = KeyValue(SelectDigit(H, k).digit * Radix
                        + SelectDigit(LowDigits(SelectDigit(H, k).digit), SelectDigit(H, k).k).digit)
    BY Zenon DEF RadixCutoff, H, k
  <2>2. SelectDigit(H, k).digit = d1 /\ SelectDigit(H, k).k = k1
    BY <1>13 DEF k1
  <2>3. SelectDigit(L, k1).digit = d2
    BY <1>19
  <2> QED BY <2>1, <2>2, <2>3, Zenon DEF L
<1>21. PICK z \in T : lows[z] = d2
  <2>1. L[d2] # 0
    <3>1. L[d2] \in Nat
      BY <1>17
    <3> QED BY <1>18, <1>19, <3>1
  <2>2. Fibre(T, lows, d2) # {}
    BY <1>14, <2>1, FS_EmptySet
  <2> QED BY <2>2 DEF Fibre
<1>22. z \in Tokens /\ highs[z] = d1 /\ Key(z) = d1 * Radix + d2
  BY <1>1, <1>7, <1>21 DEF T, Fibre
<1>23. ASSUME NEW i \in Tokens
       PROVE  /\ ((Key(i) > Key(z)) <=> (highs[i] > d1 \/ (highs[i] = d1 /\ lows[i] > d2)))
              /\ ((Key(i) = Key(z)) <=> (highs[i] = d1 /\ lows[i] = d2))
  <2> DEFINE a == highs[i]
             b == lows[i]
  <2>1. Key(i) = a * Radix + b /\ a \in Nat /\ b \in 0 .. Radix - 1
    BY <1>1, <1>3, <1>7 DEF Digits
  <2>2. d1 \in Nat /\ d2 \in 0 .. Radix - 1 /\ Radix \in Nat \ {0}
    BY <1>3 DEF Digits, SamplerAssumption
  <2> HIDE DEF a, b
  <2>3. /\ ((a * Radix + b > d1 * Radix + d2) <=> (a > d1 \/ (a = d1 /\ b > d2)))
        /\ ((a * Radix + b = d1 * Radix + d2) <=> (a = d1 /\ b = d2))
    BY <2>1, <2>2, TwoDigits
  <2> QED BY <1>22, <2>1, <2>3 DEF a, b
<1> DEFINE A1 == Inside(Tokens, highs, above(d1))
           A2 == Inside(T, lows, above(d2))
           A3 == Fibre(T, lows, d2)
<1>24. /\ Cardinality(A1) = SumOf(H, above(d1)) /\ Cardinality(A2) = SumOf(L, above(d2))
       /\ Cardinality(A3) = L[d2]
  <2>1. above(d1) \in SUBSET Digits /\ above(d2) \in SUBSET Digits
    BY <1>9
  <2>2. \A d \in above(d1) : H[d] = Cardinality(Fibre(Tokens, highs, d))
    BY <1>8, <2>1
  <2>3. \A d \in above(d2) : L[d] = Cardinality(Fibre(T, lows, d))
    BY <1>14, <2>1
  <2>4. IsFiniteSet(above(d1)) /\ IsFiniteSet(above(d2))
    BY <1>3, <2>1, FS_Subset
  <2>5. SumOf(H, above(d1)) = Cardinality(Inside(Tokens, highs, above(d1)))
    BY <1>2, <2>2, <2>4, CountFibres
  <2>6. SumOf(L, above(d2)) = Cardinality(Inside(T, lows, above(d2)))
    BY <1>15, <2>3, <2>4, CountFibres
  <2> QED BY <1>14, <2>5, <2>6
<1>25. IsFiniteSet(A1) /\ IsFiniteSet(A2) /\ IsFiniteSet(A3)
  BY <1>2, <1>15, FS_Subset DEF Inside, Fibre
<1>26. /\ A1 \cap A2 = {} /\ (A1 \cup A2) \cap A3 = {}
       /\ {i \in Tokens : Key(i) > Key(z)} = A1 \cup A2
       /\ {i \in Tokens : Key(i) >= Key(z)} = (A1 \cup A2) \cup A3
  <2>1. \A i \in Tokens : /\ highs[i] \in Digits /\ lows[i] \in Digits
                          /\ ((Key(i) >= Key(z)) <=> (Key(i) > Key(z) \/ Key(i) = Key(z)))
    BY <1>1, <1>7, <1>22
  <2>2. \A i \in Tokens : /\ ((i \in A1) <=> (highs[i] > d1))
                          /\ ((i \in A2) <=> (highs[i] = d1 /\ lows[i] > d2))
                          /\ ((i \in A3) <=> (highs[i] = d1 /\ lows[i] = d2))
    BY <1>9, <2>1 DEF T, Inside, Fibre
  <2>3. A1 \subseteq Tokens /\ A2 \subseteq Tokens /\ A3 \subseteq Tokens
    BY <1>15 DEF Inside, Fibre
  <2>4. \A i \in Tokens : highs[i] > d1 => highs[i] # d1
    BY <1>3, <2>1
  <2>5. \A i \in Tokens : lows[i] > d2 => lows[i] # d2
    BY <1>3, <2>1
  <2> HIDE DEF A1, A2, A3
  <2>6. A1 \cap A2 = {} /\ (A1 \cup A2) \cap A3 = {}
    BY <2>2, <2>3, <2>4, <2>5
  <2>7. {i \in Tokens : Key(i) > Key(z)} = A1 \cup A2
    BY <1>23, <2>2, <2>3
  <2>8. {i \in Tokens : Key(i) >= Key(z)} = (A1 \cup A2) \cup A3
    BY <1>23, <2>1, <2>2, <2>3
  <2> QED BY <2>6, <2>7, <2>8
<1> HIDE DEF A1, A2, A3
<1>27. /\ IsFiniteSet(A1 \cup A2) /\ Cardinality(A1 \cup A2) = Cardinality(A1) + Cardinality(A2)
       /\ Cardinality((A1 \cup A2) \cup A3) = Cardinality(A1) + Cardinality(A2) + Cardinality(A3)
  <2>1. /\ IsFiniteSet(A1 \cup A2)
        /\ Cardinality(A1 \cup A2) = Cardinality(A1) + Cardinality(A2) - Cardinality(A1 \cap A2)
    BY <1>25, FS_Union
  <2> DEFINE A == A1 \cup A2
  <2>2. Cardinality(A \cup A3) = Cardinality(A) + Cardinality(A3) - Cardinality(A \cap A3)
    <3>1. IsFiniteSet(A)
      BY <2>1
    <3> HIDE DEF A
    <3> QED BY <1>25, <3>1, FS_Union
  <2>3. Cardinality({}) = 0
    BY FS_EmptySet
  <2>4. Cardinality(A1) \in Nat /\ Cardinality(A2) \in Nat /\ Cardinality(A3) \in Nat
    BY <1>25, FS_CardinalityType
  <2>5. Cardinality(A1 \cap A2) = 0 /\ Cardinality((A1 \cup A2) \cap A3) = 0
    BY <1>26, <2>3
  <2> QED BY <2>1, <2>2, <2>4, <2>5
<1>28. /\ Cardinality({i \in Tokens : Key(i) > Key(z)}) < k
       /\ k <= Cardinality({i \in Tokens : Key(i) >= Key(z)})
  <2>1. L[d2] \in Nat
    BY <1>17
  <2>2. k1 = k - SumOf(H, above(d1))
    BY DEF k1
  <2>3. /\ Cardinality({i \in Tokens : Key(i) > Key(z)}) = SumOf(H, above(d1)) + SumOf(L, above(d2))
        /\ Cardinality({i \in Tokens : Key(i) >= Key(z)})
             = SumOf(H, above(d1)) + SumOf(L, above(d2)) + L[d2]
    BY <1>24, <1>26, <1>27
  <2> QED BY <1>12, <1>13, <1>18, <1>19, <2>1, <2>2, <2>3
<1>29. RadixCutoff = Value(logits[z])
  BY <1>1, <1>20, <1>22
<1> QED BY <1>22, <1>28, <1>29 DEF k

LEMMA CutoffExact ==
    ASSUME SamplerAssumption, LogitsOK, BestOK, param.topK \in Nat, param.cooling # 0,
           UsesRadix => HistogramsOK,
           NEW v, v = CASE param.topK = 1 -> best.high
                        [] UsesRadix      -> RadixCutoff
                        [] OTHER          -> MinusInfinity
    PROVE  {i \in Tokens : Value(logits[i]) >= v} = KeptByTopK
<1>1. /\ \A i \in Tokens : Value(logits[i]) \in Int /\ Value(logits[i]) >= MinusInfinity
      /\ VocabSize \in Nat \ {0} /\ MinusInfinity \in Int /\ best.high \in Int
      /\ IsFiniteSet(Tokens)
  <2>1. \A i \in Tokens : Value(logits[i]) \in Int /\ Value(logits[i]) > MinusInfinity - 1
                          /\ MinusInfinity \in Int
    BY NumbersOfRow DEF LogitsOK
  <2>2. best.high \in Int
    BY <2>1 DEF BestOK
  <2>3. VocabSize \in Nat \ {0} /\ MinusInfinity \in Int
    BY NumbersOfRow
  <2> QED BY <2>1, <2>2, <2>3, FiniteTokens
<1> DEFINE LargerThan(i) == {j \in Tokens : Value(logits[j]) > Value(logits[i])}
<1>2. \A i \in Tokens : NumLarger(i) = Cardinality(LargerThan(i))
  BY Zenon DEF NumLarger, Quantify
<1>3. \A i \in Tokens : IsFiniteSet(LargerThan(i)) /\ Cardinality(LargerThan(i)) \in Nat
  BY <1>1, FS_Subset, FS_CardinalityType
<1>4. CASE param.topK = 1
  <2>0. ~UsesRadix
    BY <1>4 DEF UsesRadix
  <2>1. v = best.high
    BY <1>4, <2>0
  <2>2. ASSUME NEW i \in Tokens
        PROVE  (Value(logits[i]) >= v) <=> Cardinality(LargerThan(i)) < 1
    <3>1. CASE Value(logits[i]) = best.high
      <4>1. LargerThan(i) = {}
        BY <1>1, <3>1 DEF BestOK
      <4>2. Cardinality(LargerThan(i)) = 0
        BY <4>1, FS_EmptySet
      <4> HIDE DEF LargerThan
      <4> QED BY <1>1, <2>1, <3>1, <4>2
    <3>2. CASE Value(logits[i]) < best.high
      <4>1. best.index \in LargerThan(i)
        BY <3>2 DEF BestOK
      <4>2. Cardinality(LargerThan(i)) # 0
        BY <1>3, <4>1, FS_EmptySet
      <4> HIDE DEF LargerThan
      <4>3. Cardinality(LargerThan(i)) \in Nat
        BY <1>3
      <4>4. ~(Value(logits[i]) >= v) /\ ~(Cardinality(LargerThan(i)) < 1)
        BY <1>1, <2>1, <3>2, <4>2, <4>3
      <4> QED BY <4>4
    <3> QED BY <3>1, <3>2 DEF BestOK
  <2>3. CASE VocabSize > 1
    <3>1. param.topK \in 1 .. VocabSize - 1
      BY <1>1, <1>4, <2>3
    <3>2. KeptByTopK = {i \in Tokens : NumLarger(i) < param.topK}
      BY <3>1 DEF KeptByTopK
    <3> HIDE DEF LargerThan
    <3> QED BY <1>2, <1>4, <2>2, <3>2
  <2>4. CASE VocabSize = 1
    <3>1. KeptByTopK = Tokens
      BY <1>4, <2>4 DEF KeptByTopK
    <3>2. \A i \in Tokens : i = 0
      BY <2>4 DEF Tokens
    <3>3. \A i \in Tokens : Value(logits[i]) >= v
      BY <1>1, <2>1, <3>2 DEF BestOK
    <3> QED BY <3>1, <3>3
  <2> QED BY <1>1, <2>3, <2>4
<1>5. CASE UsesRadix
  <2>1. param.topK \in 1 .. VocabSize - 1 /\ param.topK # 1 /\ param.topK \in 1 .. VocabSize
    BY <1>1, <1>5 DEF UsesRadix
  <2>2. v = RadixCutoff
    BY <1>5, <2>1
  <2>3. PICK z \in Tokens :
           /\ RadixCutoff = Value(logits[z])
           /\ Cardinality({i \in Tokens : Key(i) > Key(z)}) < param.topK
           /\ param.topK <= Cardinality({i \in Tokens : Key(i) >= Key(z)})
    BY <1>5, <2>1, KeySelected
  <2> DEFINE A == {i \in Tokens : Value(logits[i]) > v}
             B == {i \in Tokens : Value(logits[i]) >= v}
  <2>4. v = Value(logits[z])
    BY <2>2, <2>3
  <2>5. ASSUME NEW i \in Tokens
        PROVE  /\ ((Key(i) > Key(z)) <=> (Value(logits[i]) > Value(logits[z])))
               /\ ((Key(i) >= Key(z)) <=> (Value(logits[i]) >= Value(logits[z])))
    <3> DEFINE a == Value(logits[i])
               b == Value(logits[z])
    <3>1. /\ Key(i) = IF a >= 0 THEN a + SignBit ELSE a + SignBit - 1
          /\ Key(z) = IF b >= 0 THEN b + SignBit ELSE b + SignBit - 1
          /\ a \in Int /\ b \in Int
      BY KeyDigits
    <3>2. SignBit \in Nat
      BY NumbersOfRow
    <3> HIDE DEF a, b, SignBit
    <3>3. /\ ((Key(i) > Key(z)) <=> (a > b))
          /\ ((Key(i) >= Key(z)) <=> (a >= b))
      BY <3>1, <3>2
    <3> QED BY <3>3 DEF a, b
  <2>6. Cardinality(A) < param.topK /\ param.topK <= Cardinality(B)
    <3>1. {i \in Tokens : Key(i) > Key(z)} = A /\ {i \in Tokens : Key(i) >= Key(z)} = B
      BY <2>4, <2>5
    <3> QED BY <2>3, <3>1
  <2>7. /\ IsFiniteSet(A) /\ IsFiniteSet(B) /\ Cardinality(A) \in Nat /\ Cardinality(B) \in Nat
        /\ v \in Int
    BY <1>1, <2>4, FS_Subset, FS_CardinalityType
  <2>8. ASSUME NEW i \in Tokens
        PROVE  (Value(logits[i]) >= v) <=> Cardinality(LargerThan(i)) < param.topK
    <3>1. CASE Value(logits[i]) >= v
      <4>1. LargerThan(i) \subseteq A
        BY <1>1, <2>7, <3>1
      <4> HIDE DEF LargerThan, A, B
      <4>2. Cardinality(LargerThan(i)) <= Cardinality(A)
        BY <2>7, <4>1, FS_Subset
      <4>3. Cardinality(LargerThan(i)) < param.topK
        BY <1>3, <2>6, <2>7, <4>2
      <4> QED BY <3>1, <4>3
    <3>2. CASE ~(Value(logits[i]) >= v)
      <4>1. B \subseteq LargerThan(i)
        BY <1>1, <2>7, <3>2
      <4> HIDE DEF LargerThan, A, B
      <4>2. IsFiniteSet(LargerThan(i)) /\ Cardinality(LargerThan(i)) \in Nat
        BY <1>3
      <4>3. Cardinality(B) <= Cardinality(LargerThan(i))
        BY <4>1, <4>2, FS_Subset
      <4>4. ~(Cardinality(LargerThan(i)) < param.topK)
        BY <2>6, <2>7, <4>2, <4>3
      <4> QED BY <3>2, <4>4
    <3> QED BY <3>1, <3>2
  <2>9. KeptByTopK = {i \in Tokens : NumLarger(i) < param.topK}
    BY <2>1 DEF KeptByTopK
  <2> HIDE DEF LargerThan, A, B
  <2> QED BY <1>2, <2>8, <2>9
<1>6. CASE param.topK # 1 /\ ~UsesRadix
  <2>1. v = MinusInfinity
    BY <1>6
  <2>2. ~(param.topK \in 1 .. VocabSize - 1)
    BY <1>1, <1>6 DEF UsesRadix
  <2>3. KeptByTopK = Tokens
    BY <2>2 DEF KeptByTopK
  <2> QED BY <1>1, <2>1, <2>3
<1> QED BY <1>4, <1>5, <1>6

-----------------------------------------------------------------------------
(* The rounds.                                                              *)

RoundOK ==
    /\ RowOK
    /\ row[best.index] > 0
    /\ low \in Nat /\ high \in Nat
    /\ MassesOK
    /\ target = param.topP * SumOf(row, Tokens)
    /\ low = 0 \/ target <= MassOver(low) * FloatOne

LEMMA SumAboveIs ==
    ASSUME SamplerAssumption, RowOK, NEW bound \in Nat
    PROVE  SumAbove(bound) = MassOver(bound) /\ MassOver(bound) \in Nat
<1> DEFINE masses == [t \in Threads |-> MassAbove(row, t, bound)]
<1>1. \A t \in Threads : masses[t] = MassAbove(row, t, bound)
  OBVIOUS
<1> HIDE DEF masses
<1>2. SumOver(masses, Threads) = SumOf(row, {j \in Tokens : row[j] > bound})
  BY <1>1, MassesAddUp DEF RowOK
<1>3. SumAbove(bound) = MassOver(bound)
  BY <1>2, Zenon DEF SumAbove, MassOver, Above, masses
<1>4. IsFiniteSet(Above(bound)) /\ \A x \in Above(bound) : row[x] \in Nat
  BY FiniteTokens, FS_Subset DEF Above, RowOK
<1>5. MassOver(bound) \in Nat
  BY <1>4, SumElement DEF MassOver
<1> QED BY <1>3, <1>5

LEMMA InNucleus ==
    ASSUME SamplerAssumption, RowOK, NEW i \in Tokens
    PROVE  i \in Nucleus <=>
              row[i] > 0 /\ MassOver(row[i]) * FloatOne < param.topP * SumOf(row, Tokens)
<1>1. SumOver(row, {j \in Tokens : row[j] > row[i]}) = MassOver(row[i])
  BY SumOverIs DEF MassOver, Above
<1>2. SumOver(row, Tokens) = SumOf(row, Tokens)
  BY SumOverIs
<1> QED BY <1>1, <1>2 DEF Nucleus

LEMMA NucleusStays ==
    ASSUME SamplerAssumption, RoundOK, param.topP \in Nat, NEW i \in Nucleus
    PROVE  row[i] > low
<1>1. i \in Tokens /\ row[i] > 0 /\ MassOver(row[i]) * FloatOne < target
  BY InNucleus DEF Nucleus, RoundOK
<1>2. RowOK /\ low \in Nat /\ row[i] \in Nat
  BY <1>1 DEF RoundOK, RowOK
<1>3. SUFFICES ASSUME low # 0, ~(row[i] > low) PROVE FALSE
  BY <1>1
<1>4. target <= MassOver(low) * FloatOne
  BY <1>3 DEF RoundOK
<1>5. MassOver(low) <= MassOver(row[i])
  <2>1. Above(low) \subseteq Above(row[i])
    BY <1>2, <1>3 DEF Above, RowOK
  <2>2. IsFiniteSet(Above(row[i])) /\ \A x \in Above(row[i]) : row[x] \in Nat
    BY <1>2, FiniteTokens, FS_Subset DEF Above, RowOK
  <2> DEFINE A == Above(low)
             B == Above(row[i])
  <2> HIDE DEF A, B
  <2>3. SumOf(row, A) <= SumOf(row, B)
    <3>1. A \subseteq B /\ IsFiniteSet(B) /\ \A x \in B : row[x] \in Nat
      BY <2>1, <2>2 DEF A, B
    <3> QED BY <3>1, SumOfPart
  <2> QED BY <2>3 DEF MassOver, A, B
<1>6. MassOver(low) \in Nat /\ MassOver(row[i]) \in Nat
  BY <1>2, SumAboveIs
<1>7. target \in Nat
  <2>1. SumOf(row, Tokens) \in Nat
    BY <1>2, FiniteTokens, SumElement DEF RowOK
  <2>2. target = param.topP * SumOf(row, Tokens)
    BY DEF RoundOK
  <2> QED BY <2>1, <2>2
<1> QED BY <1>1, <1>4, <1>5, <1>6, <1>7 DEF FloatOne

\* With a top_p of 1 everything that has a weight belongs to the nucleus.
LEMMA WholeNucleus ==
    ASSUME SamplerAssumption, RowOK, param.topP = FloatOne, NEW i \in Tokens, row[i] > 0
    PROVE  i \in Nucleus
<1>1. IsFiniteSet(Tokens) /\ \A x \in Tokens : row[x] \in Nat
  BY FiniteTokens DEF RowOK
<1>2. Above(row[i]) \subseteq Tokens /\ i \in Tokens \ Above(row[i])
  BY <1>1 DEF Above
<1> DEFINE A == Above(row[i])
<1> HIDE DEF A
<1>3. SumOf(row, A) \in Nat /\ SumOf(row, Tokens) \in Nat /\ SumOf(row, A) < SumOf(row, Tokens)
  <2>1. A \subseteq Tokens /\ i \in Tokens \ A
    BY <1>2 DEF A
  <2> QED BY <1>1, <2>1, SumOfPart
<1>4. SumOf(row, A) * FloatOne < param.topP * SumOf(row, Tokens)
  BY <1>3 DEF FloatOne
<1>5. i \in Nucleus <=>
         row[i] > 0 /\ MassOver(row[i]) * FloatOne < param.topP * SumOf(row, Tokens)
  BY InNucleus
<1> QED BY <1>4, <1>5 DEF MassOver, A

-----------------------------------------------------------------------------
(* The inductive invariant, by the barrier that the block has reached.      *)

ParamOK == param \in [topK : Nat, cooling : Nat, topP : Nat]

SamplerInv ==
    /\ stage \in Stages /\ LogitsOK /\ ParamOK
    /\ stage # "prepare" => TileRangesOK /\ (UsesRadix => HistogramsOK)
    /\ stage \notin {"prepare", "merge"} => BestOK
    /\ stage \in {"cutoff", "weigh", "draw", "judge"} => param.cooling # 0
    /\ TopKExact
    /\ stage \in {"draw", "judge"} => RoundOK
    /\ stage = "judge" => candidate \in Tokens /\ row[candidate] > 0
    /\ stage = "done" => IF param.cooling = 0 THEN output = best.index ELSE output \in Nucleus

LEMMA SamplerStarts == SamplerInit => SamplerInv
<1> SUFFICES ASSUME SamplerInit PROVE SamplerInv
  OBVIOUS
<1>1. stage = "prepare" /\ LogitsOK
  BY DEF SamplerInit, LogitsOK
<1>2. ParamOK
  <2>1. PICK k \in TopKs, c \in Coolings, p \in RequestTopPs :
           param = [topK |-> k, cooling |-> c, topP |-> FloatTopP(p)]
    BY DEF SamplerInit
  <2>2. k \in Nat /\ c \in Nat /\ p \in 1 .. 16
    BY SamplerAssumption DEF SamplerAssumption
  <2>3. FloatTopP(p) \in Nat
    BY <2>2 DEF FloatTopP, FloatOne
  <2> QED BY <2>1, <2>2, <2>3 DEF ParamOK
<1> QED BY <1>1, <1>2 DEF SamplerInv, Stages, TopKExact

\* What the row, the parameters and the scratch buffers decide stays with them.
LEMMA SameRow ==
    ASSUME logits' = logits, param' = param
    PROVE  /\ LogitsOK => LogitsOK'
           /\ ParamOK => ParamOK'
           /\ ranges' = ranges /\ TileRangesOK => TileRangesOK'
           /\ histograms' = histograms /\ (UsesRadix => HistogramsOK) => (UsesRadix => HistogramsOK)'
           /\ best' = best /\ BestOK => BestOK'
           /\ KeptByTopK' = KeptByTopK
<1>1. LogitsOK => LogitsOK'
  BY DEF LogitsOK
<1>2. ParamOK => ParamOK'
  BY DEF ParamOK
<1>3. ASSUME ranges' = ranges, TileRangesOK PROVE TileRangesOK'
  BY <1>3 DEF TileRangesOK, LeadsAll, RangesOver, RangeOf
<1>4. ASSUME histograms' = histograms, UsesRadix => HistogramsOK
      PROVE  (UsesRadix => HistogramsOK)'
  BY <1>4 DEF UsesRadix, HistogramsOK, HighDigit
<1>5. ASSUME best' = best, BestOK PROVE BestOK'
  BY <1>5 DEF BestOK
<1>6. KeptByTopK' = KeptByTopK
  <2>1. ASSUME NEW i \in Tokens PROVE NumLarger(i)' = NumLarger(i)
    <3>1. {j \in Tokens : Value(logits'[j]) > Value(logits'[i])}
            = {j \in Tokens : Value(logits[j]) > Value(logits[i])}
      OBVIOUS
    <3> QED BY <3>1, Zenon DEF NumLarger, Quantify
  <2>2. {i \in Tokens : NumLarger(i)' < param.topK} = {i \in Tokens : NumLarger(i) < param.topK}
    BY <2>1
  <2>3. KeptByTopK' = IF param'.topK \in 1 .. VocabSize - 1
                      THEN {i \in Tokens : NumLarger(i)' < param'.topK} ELSE Tokens
    BY Zenon DEF KeptByTopK
  <2>4. KeptByTopK = IF param.topK \in 1 .. VocabSize - 1
                     THEN {i \in Tokens : NumLarger(i) < param.topK} ELSE Tokens
    BY Zenon DEF KeptByTopK
  <2> QED BY <2>2, <2>3, <2>4, Zenon
<1> QED BY <1>1, <1>2, <1>3, <1>4, <1>5, <1>6

LEMMA SamplerSteps ==
    ASSUME SamplerInv, [SamplerNext]_samplerVars
    PROVE  SamplerInv'
<1>0. /\ stage \in Stages /\ LogitsOK /\ ParamOK
      /\ param.topK \in Nat /\ param.cooling \in Nat /\ param.topP \in Nat
  BY DEF SamplerInv, ParamOK
<1>1. CASE PrepareLogits
  <2>1. /\ stage' = "merge" /\ UNCHANGED <<logits, param>>
        /\ ranges' = [tile \in Tiles |->
               FoldSet(MergeRange, NoRange,
                       {[high |-> Value(logits[i]), index |-> i] : i \in TileTokens(tile)})]
        /\ histograms' = IF UsesRadix
               THEN [tile \in Tiles |-> [digit \in Digits |->
                        Quantify(TileTokens(tile), LAMBDA i : HighDigit(logits[i]) = digit)]]
               ELSE histograms
    BY <1>1, Zenon DEF PrepareLogits
  <2>2. LogitsOK' /\ ParamOK'
    BY <1>0, <2>1, SameRow
  <2>3. TileRangesOK'
    <3> SUFFICES ASSUME NEW tile \in Tiles PROVE LeadsAll(ranges[tile], TileTokens(tile))'
      BY DEF TileRangesOK
    <3>1. ranges'[tile] = FoldSet(MergeRange, NoRange, RangesOver(TileTokens(tile)))
      BY <2>1, Zenon DEF RangesOver, RangeOf
    <3>2. TileTokens(tile) \in SUBSET Tokens
      BY DEF TileTokens
    <3>3. LeadsAll(ranges'[tile], TileTokens(tile))
      BY <1>0, <3>1, <3>2, SamplerAssumption, TileRange
    <3> QED BY <2>1, <3>3 DEF LeadsAll, RangesOver, RangeOf
  <2>4. (UsesRadix => HistogramsOK)'
    <3> SUFFICES ASSUME UsesRadix' PROVE HistogramsOK'
      OBVIOUS
    <3>1. UsesRadix
      BY <2>1 DEF UsesRadix
    <3>2. histograms' = [t \in Tiles |-> [d \in Digits |->
                            Quantify(TileTokens(t), LAMBDA i : HighDigit(logits[i]) = d)]]
      BY <2>1, <3>1, Zenon
    <3>3. \A t \in Tiles, d \in Digits :
             histograms'[t][d] = Cardinality({i \in TileTokens(t) : HighDigit(logits[i]) = d})
      BY <3>2, Zenon DEF Quantify
    <3> QED BY <2>1, <3>3 DEF HistogramsOK, HighDigit
  <2> QED BY <2>1, <2>2, <2>3, <2>4 DEF SamplerInv, Stages, TopKExact
<1>2. CASE MergeTiles
  <2>1. /\ stage = "merge" /\ UNCHANGED <<logits, param, ranges, histograms>>
        /\ best' = FoldSet(MergeRange, NoRange, {ranges[tile] : tile \in Tiles})
        /\ IF param.cooling = 0 THEN output' = best'.index /\ stage' = "done" ELSE stage' = "cutoff"
    BY <1>2, Zenon DEF MergeTiles
  <2>2. TileRangesOK /\ (UsesRadix => HistogramsOK)
    BY <2>1 DEF SamplerInv
  <2>3. BestOK'
    BY <1>0, <2>1, <2>2, SamplerAssumption, MergedTiles
  <2>4. LogitsOK' /\ ParamOK' /\ TileRangesOK' /\ (UsesRadix => HistogramsOK)'
    BY <1>0, <2>1, <2>2, SameRow
  <2> QED BY <2>1, <2>3, <2>4 DEF SamplerInv, Stages, TopKExact
<1>3. CASE SelectCutoff
  <2>1. /\ stage = "cutoff" /\ stage' = "weigh"
        /\ UNCHANGED <<logits, param, ranges, histograms, best>>
        /\ cutoff' = CASE param.topK = 1 -> best.high
                       [] UsesRadix      -> RadixCutoff
                       [] OTHER          -> MinusInfinity
    BY <1>3, Zenon DEF SelectCutoff
  <2>2. TileRangesOK /\ (UsesRadix => HistogramsOK) /\ BestOK /\ param.cooling # 0
    BY <2>1 DEF SamplerInv
  <2>3. LogitsOK' /\ ParamOK' /\ TileRangesOK' /\ (UsesRadix => HistogramsOK)' /\ BestOK'
    BY <1>0, <2>1, <2>2, SameRow
  <2>4. {i \in Tokens : Value(logits[i]) >= cutoff'} = KeptByTopK
    <3> DEFINE v == cutoff'
    <3>1. v = CASE param.topK = 1 -> best.high
                [] UsesRadix      -> RadixCutoff
                [] OTHER          -> MinusInfinity
      BY <2>1
    <3> HIDE DEF v
    <3>2. {i \in Tokens : Value(logits[i]) >= v} = KeptByTopK
      BY <1>0, <2>2, <3>1, SamplerAssumption, CutoffExact
    <3> QED BY <3>2 DEF v
  <2>5. TopKExact'
    <3>1. KeptByTopK' = KeptByTopK
      BY <2>1, SameRow
    <3> QED BY <2>1, <2>4, <3>1 DEF TopKExact
  <2> QED BY <2>1, <2>2, <2>3, <2>5 DEF SamplerInv, Stages
<1>4. CASE WeighRow
  <2> DEFINE weights == [i \in Tokens |-> WeightOf(i)]
             masses == [t \in Threads |-> MassAbove(weights, t, 0)]
  <2>1. /\ stage = "weigh" /\ stage' = "draw"
        /\ UNCHANGED <<logits, param, ranges, histograms, best>>
        /\ row' = weights /\ threadMass' = masses
        /\ target' = param.topP * SumOver(masses, Threads)
        /\ low' = 0 /\ high' = One
    BY <1>4, Zenon DEF WeighRow
  <2>2. TileRangesOK /\ (UsesRadix => HistogramsOK) /\ BestOK /\ param.cooling # 0
    BY <2>1 DEF SamplerInv
  <2>3. LogitsOK' /\ ParamOK' /\ TileRangesOK' /\ (UsesRadix => HistogramsOK)' /\ BestOK'
    BY <1>0, <2>1, <2>2, SameRow
  <2>4. weights \in [Tokens -> Nat] /\ weights[best.index] = One /\ One \in Nat \ {0}
    <3>1. \A i \in Tokens : WeightOf(i) \in Nat /\ (i = best.index => WeightOf(i) = One)
      BY <1>0, <2>2, SamplerAssumption, WeightType
    <3>2. best.index \in Tokens /\ One \in Nat \ {0}
      BY <2>2, SamplerAssumption DEF BestOK, SamplerAssumption
    <3> QED BY <3>1, <3>2
  <2>5. \A t \in Threads : masses[t] = MassAbove(weights, t, 0)
    OBVIOUS
  <2> HIDE DEF weights, masses
  <2>6. SumOver(masses, Threads) = SumOf(weights, Tokens)
    <3>1. SumOver(masses, Threads) = SumOf(weights, {j \in Tokens : weights[j] > 0})
      BY <2>4, <2>5, SamplerAssumption, MassesAddUp
    <3> DEFINE P == {j \in Tokens : weights[j] > 0}
               Q == Tokens \ P
    <3>2. /\ IsFiniteSet(P) /\ IsFiniteSet(Q) /\ P \cap Q = {} /\ P \cup Q = Tokens
          /\ (\A i \in P \cup Q : weights[i] \in Nat) /\ \A i \in Q : weights[i] = 0
      BY <2>4, SamplerAssumption, FiniteTokens, FS_Subset
    <3> HIDE DEF P, Q
    <3>3. SumOf(weights, P \cup Q) = SumOf(weights, P) + SumOf(weights, Q)
      BY <3>2, SumUnion
    <3>4. SumOf(weights, Q) = 0
      BY <3>2, SumZero
    <3>5. SumOf(weights, P) \in Nat
      BY <3>2, SumElement
    <3>6. SumOf(weights, P \cup Q) = SumOf(weights, P)
      BY <3>3, <3>4, <3>5
    <3> QED BY <3>1, <3>2, <3>6, Zenon DEF P
  <2>7. RoundOK'
    <3>1. RowOK' /\ row'[best'.index] > 0
      BY <2>1, <2>4 DEF RowOK
    <3>2. low' \in Nat /\ high' \in Nat /\ low' = 0
      BY <2>1, <2>4
    <3>3. MassesOK'
      BY <2>1, <2>5 DEF MassesOK, MassAbove
    <3>4. target' = param'.topP * SumOf(row', Tokens)
      BY <2>1, <2>6
    <3> QED BY <3>1, <3>2, <3>3, <3>4 DEF RoundOK
  <2> QED BY <2>1, <2>2, <2>3, <2>7 DEF SamplerInv, Stages, TopKExact
<1>5. CASE Draw
  <2>1. /\ stage = "draw" /\ candidate' \in DrawnTokens
        /\ UNCHANGED <<logits, param, ranges, histograms, best, row, threadMass, low, high, target>>
        /\ IF param.topP = FloatOne THEN output' = candidate' /\ stage' = "done"
                                    ELSE stage' = "judge"
    BY <1>5, Zenon DEF Draw
  <2>2. /\ TileRangesOK /\ (UsesRadix => HistogramsOK) /\ BestOK /\ param.cooling # 0 /\ RoundOK
    BY <2>1 DEF SamplerInv
  <2>3. LogitsOK' /\ ParamOK' /\ TileRangesOK' /\ (UsesRadix => HistogramsOK)' /\ BestOK'
    BY <1>0, <2>1, <2>2, SameRow
  <2>4. RoundOK'
    BY <2>1, <2>2 DEF RoundOK, RowOK, MassesOK, MassAbove, MassOver, Above
  <2>5. candidate' \in Tokens /\ row[candidate'] > 0
    <3>1. RowOK /\ low \in Nat /\ MassesOK /\ row[best.index] > 0 /\ best.index \in Tokens
      BY <2>2 DEF RoundOK, BestOK
    <3> DEFINE i == candidate'
    <3>2. i \in DrawnTokens
      BY <2>1
    <3> HIDE DEF i
    <3>3. i = best.index \/ (i \in Tokens /\ row[i] > low /\ row[i] > 0)
      BY <3>1, <3>2, SamplerAssumption, DrawnTokenIs
    <3>4. i \in Tokens /\ row[i] > 0
      BY <3>1, <3>3
    <3> QED BY <3>4 DEF i
  <2>6. ASSUME param.topP = FloatOne PROVE candidate' \in Nucleus'
    <3> DEFINE i == candidate'
    <3>1. i \in Tokens /\ row[i] > 0 /\ RowOK
      BY <2>2, <2>5 DEF RoundOK
    <3> HIDE DEF i
    <3>2. i \in Nucleus
      BY <2>6, <3>1, SamplerAssumption, WholeNucleus
    <3>3. Nucleus' = Nucleus
      BY <2>1 DEF Nucleus
    <3> QED BY <3>2, <3>3 DEF i
  <2>7. CASE param.topP = FloatOne
    <3>1. stage' = "done" /\ output' \in Nucleus' /\ param'.cooling # 0
      BY <2>1, <2>2, <2>6, <2>7
    <3> QED BY <2>3, <3>1 DEF SamplerInv, Stages, TopKExact
  <2>8. CASE param.topP # FloatOne
    <3>1. stage' = "judge" /\ param'.cooling # 0 /\ row'[candidate'] > 0
      BY <2>1, <2>2, <2>5, <2>8
    <3> QED BY <2>3, <2>4, <2>5, <3>1 DEF SamplerInv, Stages, TopKExact
  <2> QED BY <2>7, <2>8
<1>6. CASE Accept
  <2>1. /\ stage = "judge" /\ stage' = "done" /\ output' = candidate
        /\ BelowTarget(SumAbove(Pivot))
        /\ UNCHANGED <<logits, param, ranges, histograms, best, row>>
    BY <1>6, Zenon DEF Accept
  <2>2. /\ TileRangesOK /\ (UsesRadix => HistogramsOK) /\ BestOK /\ param.cooling # 0 /\ RoundOK
        /\ candidate \in Tokens /\ row[candidate] > 0
    BY <2>1 DEF SamplerInv
  <2>3. LogitsOK' /\ ParamOK' /\ TileRangesOK' /\ (UsesRadix => HistogramsOK)' /\ BestOK'
    BY <1>0, <2>1, <2>2, SameRow
  <2>4. RowOK /\ Pivot \in Nat /\ Pivot = row[candidate] /\ target = param.topP * SumOf(row, Tokens)
    BY <2>2 DEF RoundOK, RowOK, Pivot
  <2>5. MassOver(Pivot) * FloatOne < target
    <3>1. SumAbove(Pivot) = MassOver(Pivot)
      BY <2>4, SamplerAssumption, SumAboveIs
    <3> QED BY <2>1, <3>1 DEF BelowTarget
  <2>6. candidate \in Nucleus
    <3>1. candidate \in Nucleus <=>
            row[candidate] > 0 /\ MassOver(row[candidate]) * FloatOne < param.topP * SumOf(row, Tokens)
      BY <2>2, <2>4, SamplerAssumption, InNucleus
    <3>2. MassOver(row[candidate]) * FloatOne < param.topP * SumOf(row, Tokens)
      BY <2>4, <2>5, Zenon
    <3> QED BY <2>2, <3>1, <3>2
  <2>7. output' \in Nucleus'
    <3>1. Nucleus' = Nucleus
      BY <2>1 DEF Nucleus
    <3> QED BY <2>1, <2>6, <3>1
  <2> QED BY <2>1, <2>2, <2>3, <2>7 DEF SamplerInv, Stages, TopKExact
<1>7. CASE Reject
  <2>1. /\ stage = "judge" /\ stage' = "draw" /\ ~BelowTarget(SumAbove(Pivot))
        /\ IF BelowTarget(SumAbove(Midpoint)) THEN NarrowTo(Pivot, Midpoint)
                                              ELSE NarrowTo(Midpoint, high)
        /\ UNCHANGED <<logits, param, ranges, histograms, best, row, target>>
    BY <1>7, Zenon DEF Reject
  <2>2. /\ TileRangesOK /\ (UsesRadix => HistogramsOK) /\ BestOK /\ param.cooling # 0 /\ RoundOK
        /\ candidate \in Tokens /\ row[candidate] > 0
    BY <2>1 DEF SamplerInv
  <2>3. LogitsOK' /\ ParamOK' /\ TileRangesOK' /\ (UsesRadix => HistogramsOK)' /\ BestOK'
    BY <1>0, <2>1, <2>2, SameRow
  <2>4. RowOK /\ Pivot \in Nat /\ high \in Nat /\ Midpoint \in Nat
    <3>1. RowOK /\ high \in Nat /\ row[candidate] \in Nat
      BY <2>2 DEF RoundOK, RowOK
    <3>2. Pivot \in Nat
      BY <3>1 DEF Pivot
    <3> QED BY <3>1, <3>2 DEF Midpoint
  <2>5. target \in Nat
    <3>1. SumOf(row, Tokens) \in Nat
      BY <2>4, SamplerAssumption, FiniteTokens, SumElement DEF RowOK
    <3> QED BY <1>0, <2>2, <3>1 DEF RoundOK
  <2>6. PICK newLow \in Nat, newHigh \in Nat :
           NarrowTo(newLow, newHigh) /\ target <= MassOver(newLow) * FloatOne
    <3>1. ASSUME NEW bound \in Nat, ~BelowTarget(SumAbove(bound))
          PROVE  target <= MassOver(bound) * FloatOne
      <4>1. SumAbove(bound) = MassOver(bound) /\ MassOver(bound) \in Nat
        BY <2>4, SamplerAssumption, SumAboveIs
      <4>2. ~(MassOver(bound) * FloatOne < target)
        BY <3>1, <4>1 DEF BelowTarget
      <4> QED BY <2>5, <4>1, <4>2 DEF FloatOne
    <3>2. CASE BelowTarget(SumAbove(Midpoint))
      BY <2>1, <2>4, <3>1, <3>2
    <3>3. CASE ~BelowTarget(SumAbove(Midpoint))
      BY <2>1, <2>4, <3>1, <3>3
    <3> QED BY <3>2, <3>3
  <2>7. low' = newLow /\ high' = newHigh /\ threadMass' = [t \in Threads |-> MassAbove(row, t, newLow)]
    BY <2>6 DEF NarrowTo
  <2>8. RoundOK'
    <3>1. RowOK' /\ row'[best'.index] > 0 /\ low' \in Nat /\ high' \in Nat
          /\ target' = param'.topP * SumOf(row', Tokens)
      BY <2>1, <2>2, <2>7 DEF RoundOK, RowOK
    <3>2. MassesOK'
      BY <2>1, <2>7 DEF MassesOK, MassAbove
    <3>3. target' <= MassOver(low)' * FloatOne
      BY <2>1, <2>6, <2>7 DEF MassOver, Above
    <3> QED BY <3>1, <3>2, <3>3 DEF RoundOK
  <2> QED BY <2>1, <2>2, <2>3, <2>8 DEF SamplerInv, Stages, TopKExact
<1>8. CASE UNCHANGED samplerVars
  <2>1. UNCHANGED <<stage, logits, param, ranges, histograms, best, cutoff, row, threadMass,
                    low, high, target, candidate, output>>
    BY <1>8 DEF samplerVars
  <2>2. /\ LogitsOK' /\ ParamOK' /\ (TileRangesOK => TileRangesOK') /\ (BestOK => BestOK')
        /\ ((UsesRadix => HistogramsOK) => (UsesRadix => HistogramsOK)') /\ KeptByTopK' = KeptByTopK
    BY <1>0, <2>1, SameRow
  <2>3. TopKExact'
    BY <2>1, <2>2 DEF SamplerInv, TopKExact
  <2>4. RoundOK => RoundOK'
    BY <2>1 DEF RoundOK, RowOK, MassesOK, MassAbove, MassOver, Above
  <2>5. Nucleus' = Nucleus
    BY <2>1 DEF Nucleus
  <2> QED BY <2>1, <2>2, <2>3, <2>4, <2>5 DEF SamplerInv
<1> QED BY <1>1, <1>2, <1>3, <1>4, <1>5, <1>6, <1>7, <1>8 DEF SamplerNext

(* At every barrier of the sampling block its buffers hold what the next step *)
(* takes them for (ops/sampler.cu:55-386).                                   *)
THEOREM SamplerInvariant == SamplerSpec => []SamplerInv
<1>1. SamplerInv /\ [SamplerNext]_samplerVars => SamplerInv'
  BY SamplerSteps
<1> QED BY <1>1, SamplerStarts, PTL DEF SamplerSpec

(* The radix select keeps the top_k largest logits, with all that equal the  *)
(* last of them, and no other, whatever the digits and the tiles             *)
(* (ops/sampler.cu:214-250).                                                 *)
THEOREM SamplerTopK == SamplerSpec => []TopKExact
<1>1. SamplerInv => TopKExact
  BY DEF SamplerInv
<1> QED BY <1>1, SamplerInvariant, PTL

(* A round draws every token that it has not ruled out in proportion to its  *)
(* weight, for any vocabulary, number of threads and width of a load         *)
(* (ops/sampler.cu:296-352).                                                 *)
THEOREM SamplerDraws == SamplerSpec => []DrawProportional
<1>1. ASSUME SamplerInv PROVE DrawProportional
  <2> SUFFICES ASSUME stage = "draw", NEW i \in Tokens
               PROVE  Quantify(Draws, LAMBDA d : d.token = i) = Kept(i)
    BY Zenon DEF DrawProportional
  <2>1. RowOK /\ low \in Nat /\ MassesOK
    BY <1>1 DEF SamplerInv, RoundOK
  <2> QED BY <2>1, SamplerAssumption, DrawsAreProportional
<1> QED BY <1>1, SamplerInvariant, PTL

(* No round rules a token of the nucleus out, the token returned is one of   *)
(* it, and a temperature of 0 returns the first of the largest logits        *)
(* (ops/sampler.cu:207-212, 359-385).                                        *)
THEOREM SamplerNucleus == SamplerSpec => []NucleusSampling
<1>1. ASSUME SamplerInv PROVE NucleusSampling
  <2>1. ASSUME stage \in {"draw", "judge"}, NEW i \in Nucleus PROVE row[i] > low
    <3>1. RoundOK /\ param.topP \in Nat
      BY <1>1, <2>1 DEF SamplerInv, ParamOK
    <3> QED BY <3>1, SamplerAssumption, NucleusStays
  <2>2. ASSUME stage = "done", param.cooling = 0
        PROVE  /\ NumLarger(output) = 0
               /\ \A i \in Tokens : i < output => NumLarger(i) > 0
    <3>1. output = best.index /\ BestOK /\ LogitsOK
      BY <1>1, <2>2 DEF SamplerInv
    <3>2. \A i \in Tokens : Value(logits[i]) \in Int
      BY <3>1, SamplerAssumption, NumbersOfRow DEF LogitsOK
    <3>3. ASSUME NEW i \in Tokens
          PROVE  NumLarger(i) = Cardinality({j \in Tokens : Value(logits[j]) > Value(logits[i])})
      BY Zenon DEF NumLarger, Quantify
    <3>4. NumLarger(output) = 0
      <4>1. {j \in Tokens : Value(logits[j]) > Value(logits[output])} = {}
        BY <3>1, <3>2 DEF BestOK
      <4>2. output \in Tokens
        BY <3>1 DEF BestOK
      <4> QED BY <3>3, <4>1, <4>2, FS_EmptySet
    <3>5. ASSUME NEW i \in Tokens, i < output PROVE NumLarger(i) > 0
      <4> DEFINE S == {j \in Tokens : Value(logits[j]) > Value(logits[i])}
      <4>1. best.index \in S
        <5>1. i \in Int /\ best.index \in Int /\ best.index \in Tokens /\ i < best.index
          BY <3>1, <3>5 DEF BestOK, Tokens
        <5>2. Value(logits[i]) < best.high
          BY <3>1, <5>1 DEF BestOK
        <5> QED BY <3>1, <3>2, <5>1, <5>2 DEF BestOK
      <4>2. IsFiniteSet(S)
        BY SamplerAssumption, FiniteTokens, FS_Subset
      <4> HIDE DEF S
      <4>3. Cardinality(S) \in Nat /\ Cardinality(S) # 0
        BY <4>1, <4>2, FS_EmptySet, FS_CardinalityType
      <4>4. NumLarger(i) = Cardinality(S)
        BY <3>3 DEF S
      <4> QED BY <4>3, <4>4
    <3> QED BY <3>4, <3>5
  <2>3. ASSUME stage = "done", param.cooling # 0 PROVE output \in Nucleus
    BY <1>1, <2>3 DEF SamplerInv
  <2> QED BY <2>1, <2>2, <2>3 DEF NucleusSampling
<1> QED BY <1>1, SamplerInvariant, PTL
=============================================================================
