--------------------------- MODULE AttentionBlock ---------------------------
(***************************************************************************)
(* One thread block of the paged attention kernel and its shared memory    *)
(* (csrc/ops/paged_attention.cu:213-383).                                  *)
(*                                                                         *)
(* The warps of a block run on their own between the barriers.  Each fills *)
(* its part of a tile with asynchronous copies, which land at any time     *)
(* until the warp waits for their group, and reads parts that the other    *)
(* warps filled.  The query tile, every key tile and the output tile share *)
(* one region.                                                             *)
(*                                                                         *)
(* A cell of a region is [c][r]: copied by warp c, a row of warp r.  The   *)
(* copies go round the warps every few rows, so that the rows of each warp *)
(* are copied by all of them.                                              *)
(***************************************************************************)
EXTENDS Integers

CONSTANTS
    Warps,        \* the warps of a block, four in the code
    MaxKeySteps   \* bound: the most steps of kBc keys a block walks over

ASSUME MaxKeyStepsAssumption == MaxKeySteps \in Nat

VARIABLES
    pc,          \* where each warp is
    keySteps,    \* how many steps the block has, the same for every warp
    step,        \* which one each warp is in
    smem,        \* what the cells of each region hold
    inFlight,    \* the copies of each warp that have not landed
    issued       \* how many groups of copies each warp has committed

blockVars == <<pc, keySteps, step, smem, inFlight, issued>>

Empty == <<"none", 0>>

Query == <<"query", 0>>

Keys(n) == <<"keys", n>>

Values(n) == <<"values", n>>

Output(w) == <<"output", w>>

\* smem_q, smem_k and smem_o are one region of the union, smem_v the other.
Regions == {"qko", "v"}

BlockInit ==
    /\ pc = [w \in Warps |-> "load query"]
    /\ keySteps \in 1 .. MaxKeySteps
    /\ step = [w \in Warps |-> 0]
    /\ smem = [region \in Regions |-> [c \in Warps |-> [r \in Warps |-> Empty]]]
    /\ inFlight = [w \in Warps |-> {}]
    /\ issued = [w \in Warps |-> 0]

Goto(w, from, to) == pc[w] = from /\ pc' = [pc EXCEPT ![w] = to]

\* A committed group of copies into a region.
Group(nr, region, content) == [nr |-> nr, region |-> region, content |-> content]

\* A copy lands: nothing orders the groups before the warp waits for them.
Land(w) == \E group \in inFlight[w] :
    /\ smem' = [smem EXCEPT ![group.region][w] = [r \in Warps |-> group.content]]
    /\ inFlight' = [inFlight EXCEPT ![w] = @ \ {group}]
    /\ UNCHANGED <<pc, keySteps, step, issued>>

\* cp_async_wait_group: all the warp's groups but the latest `pending` landed.
Landed(w, pending) == \A group \in inFlight[w] : group.nr > issued[w] - pending

LoadQuery(w) ==
    /\ Goto(w, "load query", "wait query")
    /\ inFlight' = [inFlight EXCEPT ![w] = {Group(1, "qko", Query)}]
    /\ issued' = [issued EXCEPT ![w] = 1]
    /\ UNCHANGED <<keySteps, step, smem>>

WaitQuery(w) ==
    /\ Goto(w, "wait query", "query barrier")
    /\ Landed(w, 0)
    /\ UNCHANGED <<keySteps, step, smem, inFlight, issued>>

\* load_mma_tile_q_s2r: the query tile goes to registers and stays there.
ReadQuery(w) ==
    /\ Goto(w, "read query", "query read barrier")
    /\ UNCHANGED <<keySteps, step, smem, inFlight, issued>>

\* The head of the loop: both loads of a step are under way at once.
LoadKeysAndValues(w) ==
    /\ step[w] < keySteps
    /\ Goto(w, "step", "wait keys")
    /\ step' = [step EXCEPT ![w] = @ + 1]
    /\ inFlight' = [inFlight EXCEPT ![w] = @ \cup
            {Group(issued[w] + 1, "qko", Keys(step'[w])),
             Group(issued[w] + 2, "v", Values(step'[w]))}]
    /\ issued' = [issued EXCEPT ![w] = @ + 2]
    /\ UNCHANGED <<keySteps, smem>>

\* variant: lets both groups of the step stay in flight.
WaitKeysTwoPending(w) ==
    /\ Goto(w, "wait keys", "keys barrier")
    /\ Landed(w, 2)
    /\ UNCHANGED <<keySteps, step, smem, inFlight, issued>>

WaitKeys(w) ==
    /\ Goto(w, "wait keys", "keys barrier")
    /\ Landed(w, 1)
    /\ UNCHANGED <<keySteps, step, smem, inFlight, issued>>

\* S = QK^T and the softmax of the step, in registers.
ReadKeys(w) ==
    /\ Goto(w, "read keys", "wait values")
    /\ UNCHANGED <<keySteps, step, smem, inFlight, issued>>

WaitValues(w) ==
    /\ Goto(w, "wait values", "values barrier")
    /\ Landed(w, 0)
    /\ UNCHANGED <<keySteps, step, smem, inFlight, issued>>

\* variant: goes on to the next step with no barrier after the values.
ReadValuesOnly(w) ==
    /\ Goto(w, "read values", "step")
    /\ UNCHANGED <<keySteps, step, smem, inFlight, issued>>

\* O += PV.
ReadValues(w) ==
    /\ Goto(w, "read values", "step barrier")
    /\ UNCHANGED <<keySteps, step, smem, inFlight, issued>>

\* The loop is over: the warp puts its rows of the output in shared memory.
WriteOutput(w) ==
    /\ step[w] = keySteps
    /\ Goto(w, "step", "output barrier")
    /\ smem' = [smem EXCEPT !["qko"] = [c \in Warps |-> [@[c] EXCEPT ![w] = Output(w)]]]
    /\ UNCHANGED <<keySteps, step, inFlight, issued>>

\* The stores to global memory, shared out like the copies.
StoreOutput(w) ==
    /\ Goto(w, "store", "done")
    /\ UNCHANGED <<keySteps, step, smem, inFlight, issued>>

\* What follows each __syncthreads.
AfterBarrier ==
    [at \in {"query barrier", "query read barrier", "keys barrier", "values barrier",
             "step barrier", "output barrier"} |->
        CASE at = "query barrier" -> "read query"
          [] at = "query read barrier" -> "step"
          [] at = "keys barrier" -> "read keys"
          [] at = "values barrier" -> "read values"
          [] at = "step barrier" -> "step"
          [] at = "output barrier" -> "store"]

\* __syncthreads releases the warps when the last one has arrived.
SyncThreads ==
    /\ \A w \in Warps : pc[w] \in DOMAIN AfterBarrier
    /\ pc' = [w \in Warps |-> AfterBarrier[pc[w]]]
    /\ UNCHANGED <<keySteps, step, smem, inFlight, issued>>

WarpStep(w) ==
    \/ LoadQuery(w) \/ WaitQuery(w) \/ ReadQuery(w)
    \/ LoadKeysAndValues(w) \/ WaitKeys(w) \/ ReadKeys(w)
    \/ WaitValues(w) \/ ReadValues(w)
    \/ WriteOutput(w) \/ StoreOutput(w)
    \/ Land(w)

BlockNext == SyncThreads \/ \E w \in Warps : WarpStep(w)

BlockSpec == BlockInit /\ [][BlockNext]_blockVars

-----------------------------------------------------------------------------

\* As long as a warp may still read a tile, every cell of it holds that tile:
\* the other warps' parts have landed, and no warp ahead of it has begun to
\* overwrite them (paged_attention.cu:215, 227, 237, 318, 342 and 369).
SharedMemoryIntact ==
    \A w, c, r \in Warps :
        /\ pc[w] = "read query" => smem["qko"][c][w] = Query
        /\ pc[w] = "read keys" => smem["qko"][c][r] = Keys(step[w])
        /\ pc[w] = "read values" => smem["v"][c][r] = Values(step[w])
        /\ pc[w] = "store" => smem["qko"][w][r] = Output(r)
=============================================================================
