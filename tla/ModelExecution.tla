--------------------------- MODULE ModelExecution ---------------------------
(***************************************************************************)
(* The scheduler together with what a step does on the device: the model   *)
(* runner (csrc/executor/model_runner.cpp) flattens the scheduled entries  *)
(* and uploads them; the model stores the keys and values of the step's    *)
(* tokens in their slots of the KV cache, lets every query attend to its   *)
(* request's earlier tokens through the block table, and samples from the  *)
(* logits of the last tokens; finish() returns the samples in order.       *)
(*                                                                         *)
(* Keys, values and logits are represented by the token they belong to,    *)
(* <<id, position>>, so that a slot that holds another request's keys, or  *)
(* those of another position, is seen.  One stream executes a step's       *)
(* kernels in order and finish() waits for it before the host goes on, so  *)
(* a step on the device is one action.                                     *)
(***************************************************************************)
EXTENDS SchedulerProperties, ModelInput, PagedAttention, BatchBuffer

VARIABLES
    usedIds,   \* ids are random: one that was used does not come again
    kvCache,   \* what each slot may hold: a set of tokens, {} before any write
    inputs,    \* the ModelInput of the step, or NoInput
    sampled    \* the step's SampledTokens not applied yet: the request each is
               \*   for and the token whose logits it was sampled from

execVars == <<schedVars, usedIds, kvCache, inputs, sampled>>

Slots == 0 .. NumBlocks * BlockSize - 1

NoInput == [seqLens |-> <<>>]

ExecInit ==
    /\ SchedInit
    /\ usedIds = {}
    /\ kvCache = [slot \in Slots |-> {}]
    /\ inputs = NoInput
    /\ sampled = <<>>

-----------------------------------------------------------------------------

\* unified_kv_cache_update: one thread block per token, in no order.  Two tokens
\* with one slot would leave either.
Written(input) ==
    [slot \in Slots |->
        LET writers == {t \in DOMAIN input.slotMapping : input.slotMapping[t] = slot}
        IN  IF writers = {} THEN kvCache[slot] ELSE {input.tokenIds[t] : t \in writers}]

\* inflight and the logits rows: logits_indices picks the rows of the residual.
Sampled(input) ==
    [k \in DOMAIN input.logitsIndices |->
        [id   |-> scheduled[input.samplingRequests[k] + 1].id,
         from |-> input.tokenIds[input.logitsIndices[k]]]]

\* run_model and finish; a step without entries returns at once.
ExecuteModel ==
    /\ RunModel
    /\ IF scheduled = <<>>
         THEN UNCHANGED <<kvCache, inputs, sampled>>
         ELSE LET input == PrepareModelInput(scheduled, BlockSize)
              IN  /\ inputs' = input
                  /\ kvCache' = Written(input)
                  /\ sampled' = Sampled(input)
    /\ UNCHANGED usedIds

ExecUpdateToken(stop) ==
    /\ UpdateToken(stop)
    /\ sampled' = Tail(sampled)
    /\ UNCHANGED <<usedIds, kvCache, inputs>>

ExecEndUpdate ==
    /\ EndUpdate
    /\ inputs' = NoInput
    /\ UNCHANGED <<usedIds, kvCache, sampled>>

ExecAddRequest(id, promptLen, outputLen) ==
    /\ id \notin usedIds
    /\ AddRequest(id, promptLen, outputLen)
    /\ usedIds' = usedIds \cup {id}
    /\ UNCHANGED <<kvCache, inputs, sampled>>

\* The scheduler's steps that touch none of the device's state.
HostStep ==
    /\ \/ BeginSchedule \/ ScheduleRunning \/ PreemptTail \/ EndPass1
       \/ AdmitNext \/ EndPass2 \/ SkipChunk
       \/ \E id \in Ids : AbortRequest(id)
    /\ UNCHANGED <<usedIds, kvCache, inputs, sampled>>

ExecNext ==
    \/ \E id \in Ids, promptLen \in PromptLens, outputLen \in OutputLens :
          ExecAddRequest(id, promptLen, outputLen)
    \/ HostStep
    \/ ExecuteModel
    \/ \E stop \in BOOLEAN : ExecUpdateToken(stop)
    \/ ExecEndUpdate

ExecSpec == ExecInit /\ [][ExecNext]_execVars

-----------------------------------------------------------------------------

\* The requests of the step on the device.
StepRequests == DOMAIN inputs.seqLens

\* The id of a request of the step, by its first token.
StepId(r) == inputs.tokenIds[inputs.queryStartLoc[r]][1]

\* The slots a request attends to, which the attention kernel finds through the
\* block table on the device, hold the keys of its own tokens in order: those
\* computed in earlier steps are still there and those of this step went where
\* they are looked for, after any chunking, preemption and reuse of blocks.
ReadsOwnTokens ==
    \A r \in StepRequests : \A key \in 0 .. inputs.seqLens[r] - 1 :
        kvCache[SlotOfKey(inputs, r, key, BlockSize)] = {<<StepId(r), key>>}

\* Every sampled token comes from the logits of the last token its request has,
\* and update() gives it to the request it was sampled for.
SamplesFromLastToken ==
    /\ \A k \in DOMAIN sampled :
          sampled[k].from = <<sampled[k].id, request[sampled[k].id].numTokens - 1>>
    /\ phase = "update" =>
          LET entriesLeft == SamplingRequestIndices(scheduled)
          IN  [k \in DOMAIN sampled |-> sampled[k].id] =
                  [k \in DOMAIN entriesLeft |-> Entry(scheduled, entriesLeft[k]).id]

\* The arrays of every step fit the buffer that create() sized from the limits,
\* no array has more rows than the limits, which also size the activations and
\* the logits (config.h:16-22, workspace.cpp:18-32), and the sampled tokens
\* overwrite nothing still needed.
UploadFits ==
    StepRequests # {} =>
        LET n == Cardinality(StepRequests)
            uploaded == Uploaded(inputs, n)
            reserved == Reserved(MaxNumScheduledTokens, MaxNumSeqs, MaxModelLen, BlockSize)
        IN  /\ PackedSize(uploaded) <= PackedSize(reserved)
            /\ \A array \in DOMAIN reserved : uploaded[array] <= reserved[array]
            /\ SampledOverTokenIds(inputs, n)
=============================================================================
