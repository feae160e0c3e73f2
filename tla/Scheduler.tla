----------------------------- MODULE Scheduler -----------------------------
(***************************************************************************)
(* The continuous-batching scheduler (csrc/scheduler/scheduler.cpp) in the *)
(* loop that drives it (csrc/engine/engine_core.cpp, EngineCore::run).     *)
(*                                                                         *)
(* The engine thread alternates between applying the messages that arrived *)
(* (add_request, abort_requests) and one step: schedule(), run the model,  *)
(* update().  schedule() and update() are loops over the requests; each    *)
(* iteration is one action here and "phase" says which loop is running, so *)
(* that what holds between two iterations is checked as well.  A request   *)
(* is known by its id; of its tokens only the number matters.              *)
(***************************************************************************)
EXTENDS KVCacheManager

CONSTANTS
    MaxModelLen,            \* max_model_len_
    MaxNumSeqs,             \* max_num_seqs_
    MaxNumScheduledTokens,  \* max_num_scheduled_tokens_
    PromptLens,             \* prompt lengths the frontend sends
    OutputLens              \* max_output_tokens the frontend sends

ASSUME MaxModelLenAssumption == MaxModelLen \in Nat \ {0}
ASSUME MaxNumSeqsAssumption == MaxNumSeqs \in Nat \ {0}
ASSUME TokenBudgetAssumption == MaxNumScheduledTokens \in Nat \ {0}
\* csrc/engine/protocol.h:36-38: "guaranteed by the frontend".
ASSUME PromptLensAssumption == PromptLens \subseteq 1 .. (MaxModelLen - 1)
ASSUME OutputLensAssumption == OutputLens \subseteq Nat \ {0}
\* csrc/engine/engine_core.cpp:114: the engine refuses to start otherwise.
ASSUME PoolAssumption == MaxModelLen <= NumBlocks * BlockSize

VARIABLES
    running,          \* running_, preempted_ and waiting_: lists of requests,
    preempted,        \*   here of their ids
    waiting,
    request,          \* id_to_request_: the request of each id, or NoRequest
    phase,            \* which loop of the engine's step is running
    tokenBudget,      \* schedule()'s token_budget
    preemptedBefore,  \* schedule()'s num_preempted_before
    scheduled,        \* the step's ScheduledRequests; during update(), those
                      \*   whose token is still to be applied
    outputs           \* the EngineCoreOutputs that update() fills

queueVars == <<running, preempted, waiting>>
localVars == <<tokenBudget, preemptedBefore>>
schedVars == <<kvVars, queueVars, request, phase, localVars, scheduled, outputs>>

Statuses == {"kWaiting", "kRunning", "kPreempted"}
FinishReasons == {"kRunning", "kStop", "kLength"}
Phases == {"idle", "pass1", "pass2", "scheduled", "update"}

Requests ==
    [status : Statuses, numPrompt : Nat, numPrefill : Nat, numComputed : Nat,
     numTokens : Nat, maxOutput : Nat]

NoRequest == [status |-> "none"]

\* offset tokens are computed, count more are to be computed in this step.
ScheduledRequests ==
    [id : Ids, sample : BOOLEAN, offset : Nat, count : Nat, blocks : Seq(Blocks)]

SchedTypeOK ==
    /\ KVTypeOK
    /\ running \in Seq(Ids) /\ preempted \in Seq(Ids) /\ waiting \in Seq(Ids)
    /\ request \in [Ids -> Requests \cup {NoRequest}]
    /\ phase \in Phases
    /\ tokenBudget \in Nat /\ preemptedBefore \in Nat
    /\ scheduled \in Seq(ScheduledRequests)
    /\ outputs \in Seq([id : Ids, reason : FinishReasons])

SchedInit ==
    /\ KVInit
    /\ running = <<>> /\ preempted = <<>> /\ waiting = <<>>
    /\ request = [id \in Ids |-> NoRequest]
    /\ phase = "idle"
    /\ tokenBudget = 0 /\ preemptedBefore = 0
    /\ scheduled = <<>> /\ outputs = <<>>

-----------------------------------------------------------------------------

Smaller(a, b) == IF a <= b THEN a ELSE b

\* The ids in id_to_request_.
Live == {id \in Ids : request[id] # NoRequest}

HasStatus(id, status) == request[id].status = status

Erase(list, id) == RemoveAt(list, CHOOSE i \in DOMAIN list : list[i] = id)

\* queue_of(status).erase
EraseFromQueue(id) ==
    /\ running' = IF HasStatus(id, "kRunning") THEN Erase(running, id) ELSE running
    /\ preempted' = IF HasStatus(id, "kPreempted") THEN Erase(preempted, id) ELSE preempted
    /\ waiting' = IF HasStatus(id, "kWaiting") THEN Erase(waiting, id) ELSE waiting

\* Only a running request holds blocks.
ReleaseHeldBlocks(id) ==
    IF HasStatus(id, "kRunning") THEN ReleaseBlocks(id) ELSE UNCHANGED kvVars

RemoveRequest(id) ==
    /\ ReleaseHeldBlocks(id)
    /\ EraseFromQueue(id)
    /\ request' = [request EXCEPT ![id] = NoRequest]

\* add_request.  The frontend never reuses the id of a request it still follows.
AddRequest(id, promptLen, outputLen) ==
    /\ phase = "idle"
    /\ request[id] = NoRequest
    /\ request' = [request EXCEPT ![id] =
          [status |-> "kWaiting", numPrompt |-> promptLen, numPrefill |-> promptLen,
           numComputed |-> 0, numTokens |-> promptLen, maxOutput |-> outputLen]]
    /\ waiting' = Append(waiting, id)
    /\ UNCHANGED <<kvVars, running, preempted, phase, localVars, scheduled, outputs>>

\* abort_requests for one id; an id that is not there is skipped.
AbortRequest(id) ==
    /\ phase = "idle"
    /\ request[id] # NoRequest
    /\ RemoveRequest(id)
    /\ UNCHANGED <<phase, localVars, scheduled, outputs>>

-----------------------------------------------------------------------------
(* schedule(), pass 1: the running requests, in order.                      *)

\* The engine calls schedule() after every round of messages, also when these
\* left it without a request.
BeginSchedule ==
    /\ phase = "idle"
    /\ phase' = "pass1"
    /\ tokenBudget' = MaxNumScheduledTokens
    /\ preemptedBefore' = Len(preempted)
    /\ UNCHANGED <<kvVars, queueVars, request, scheduled, outputs>>

\* Both loops stop when the step is full.
StepHasRoom == tokenBudget > 0 /\ Len(scheduled) < MaxNumSeqs

\* cur_iter: each iteration of pass 1 that goes on pushed one entry.
MoreRunning == phase = "pass1" /\ Len(scheduled) < Len(running) /\ StepHasRoom

Current == running[Len(scheduled) + 1]

\* variant: the budget does not cut a request short.
NumToScheduleUnbounded(id) == request[id].numTokens - request[id].numComputed

\* variant: a chunk never exceeds a block.
NumToScheduleCapped(id) ==
    Smaller(BlockSize, Smaller(request[id].numTokens - request[id].numComputed, tokenBudget))

NumToSchedule(id) ==
    Smaller(request[id].numTokens - request[id].numComputed, tokenBudget)

\* variant: > for >=.
NeedsSamplingLate(r, numComputed) == numComputed > r.numPrefill

\* variant: sampled tokens that are computed again do not count as prefill.
NeedsSamplingFromPrompt(r, numComputed) == numComputed >= r.numPrompt

NeedsSampling(r, numComputed) == numComputed >= r.numPrefill

\* push_back of the entry for request r of that id: count tokens from offset on.
\* Its blocks are a copy of the table as it is after the allocation.
PushScheduled(id, r, offset, count) ==
    scheduled' = Append(scheduled,
        [id     |-> id,
         sample |-> NeedsSampling(r, offset + count),
         offset |-> offset,
         count  |-> count,
         blocks |-> allocatedBlocks'[id]])

\* The slots the current request needs.
CurrentSlots == request[Current].numComputed + NumToSchedule(Current)

ScheduleRunning ==
    LET r == request[Current]
        n == NumToSchedule(Current)
    IN  /\ MoreRunning
        /\ AllocateSlots(Current, CurrentSlots)
        /\ PushScheduled(Current, r, r.numComputed, n)
        /\ tokenBudget' = tokenBudget - n
        /\ request' = [request EXCEPT ![Current].numComputed = CurrentSlots]
        /\ UNCHANGED <<queueVars, phase, preemptedBefore, outputs>>

\* variant: the computed tokens still count.
SuspendedStillComputed(r) == [r EXCEPT !.status = "kPreempted"]

\* A preempted request keeps its tokens and loses what was computed of them.
Suspended(r) == [r EXCEPT !.numComputed = 0, !.status = "kPreempted"]

\* variant: behind the requests preempted before.
PreemptedAtEnd(id) == Append(preempted, id)

PreemptedAtFront(id) == <<id>> \o preempted

\* The pool is short: the youngest running request gives its blocks back and
\* the allocation is tried again.  When it is the current one itself, nothing
\* is left of the list and the loop ends.
PreemptTail ==
    LET victim == Last(running)
    IN  /\ MoreRunning
        /\ ~ CanAllocate(Current, CurrentSlots)
        /\ ReleaseBlocks(victim)
        /\ request' = [request EXCEPT ![victim] = Suspended(@)]
        /\ running' = Front(running)
        /\ preempted' = PreemptedAtFront(victim)
        /\ UNCHANGED <<waiting, phase, localVars, scheduled, outputs>>

\* variant: nobody is admitted while any request is preempted.
NobodySuspended == preempted = <<>>

NobodyPreempted == Len(preempted) = preemptedBefore

\* A step that preempted admits nobody.
EndPass1 ==
    /\ phase = "pass1"
    /\ ~ MoreRunning
    /\ phase' = IF NobodyPreempted THEN "pass2" ELSE "scheduled"
    /\ UNCHANGED <<kvVars, queueVars, request, localVars, scheduled, outputs>>

-----------------------------------------------------------------------------
(* schedule(), pass 2: admission, preempted requests before waiting ones.   *)

MoreToAdmit ==
    /\ phase = "pass2"
    /\ preempted # <<>> \/ waiting # <<>>
    /\ StepHasRoom

Candidate == IF preempted # <<>> THEN Head(preempted) ELSE Head(waiting)

NumToAdmit(id) == Smaller(request[id].numTokens, tokenBudget)

CandidateSlots == request[Candidate].numComputed + NumToAdmit(Candidate)

\* All the tokens known by now, sampled ones included, are prefill.
Admitted(r, n) ==
    [r EXCEPT !.numPrefill = r.numTokens, !.numComputed = n, !.status = "kRunning"]

AdmitNext ==
    LET n == NumToAdmit(Candidate)
        r == Admitted(request[Candidate], n)
    IN  /\ MoreToAdmit
        /\ AllocateSlots(Candidate, CandidateSlots)
        /\ PushScheduled(Candidate, r, 0, n)
        /\ tokenBudget' = tokenBudget - n
        /\ request' = [request EXCEPT ![Candidate] = r]
        /\ running' = Append(running, Candidate)
        /\ preempted' = IF preempted # <<>> THEN Tail(preempted) ELSE preempted
        /\ waiting' = IF preempted # <<>> THEN waiting ELSE Tail(waiting)
        /\ UNCHANGED <<phase, preemptedBefore, outputs>>

EndPass2 ==
    /\ phase = "pass2"
    /\ MoreToAdmit => ~ CanAllocate(Candidate, CandidateSlots)
    /\ phase' = "scheduled"
    /\ UNCHANGED <<kvVars, queueVars, request, localVars, scheduled, outputs>>

-----------------------------------------------------------------------------
(* The model runs, then update() applies the sampled tokens.                *)

\* run_model and finish.  schedule()'s locals are gone.
RunModel ==
    /\ phase = "scheduled"
    /\ phase' = "update"
    /\ tokenBudget' = 0 /\ preemptedBefore' = 0
    /\ UNCHANGED <<kvVars, queueVars, request, scheduled, outputs>>

\* finish() returns no token for an entry that did not ask for one.
SkipChunk ==
    /\ phase = "update"
    /\ scheduled # <<>>
    /\ ~ Head(scheduled).sample
    /\ scheduled' = Tail(scheduled)
    /\ UNCHANGED <<kvVars, queueVars, request, phase, localVars, outputs>>

\* finish_reason; "stop" says that the token ends the sequence and the request
\* does not ignore that.
FinishReason(r, stop) ==
    IF stop THEN "kStop"
    ELSE IF \/ r.numTokens - r.numPrompt >= r.maxOutput
            \/ r.numTokens >= MaxModelLen
           THEN "kLength"
           ELSE "kRunning"

KeepOrRemove(id, r, reason) ==
    IF reason = "kRunning"
      THEN request' = [request EXCEPT ![id] = r] /\ UNCHANGED <<kvVars, queueVars>>
      ELSE RemoveRequest(id)

\* One iteration of update().
UpdateToken(stop) ==
    LET id     == Head(scheduled).id
        r      == [request[id] EXCEPT !.numTokens = @ + 1]
        reason == FinishReason(r, stop)
    IN  /\ phase = "update"
        /\ scheduled # <<>>
        /\ Head(scheduled).sample
        /\ outputs' = Append(outputs, [id |-> id, reason |-> reason])
        /\ scheduled' = Tail(scheduled)
        /\ KeepOrRemove(id, r, reason)
        /\ UNCHANGED <<phase, localVars>>

\* The outputs are sent and the loop starts over.
EndUpdate ==
    /\ phase = "update"
    /\ scheduled = <<>>
    /\ phase' = "idle"
    /\ outputs' = <<>>
    /\ UNCHANGED <<kvVars, queueVars, request, localVars, scheduled>>

-----------------------------------------------------------------------------

Step ==
    \/ BeginSchedule \/ ScheduleRunning \/ PreemptTail \/ EndPass1
    \/ AdmitNext \/ EndPass2 \/ RunModel \/ SkipChunk
    \/ \E stop \in BOOLEAN : UpdateToken(stop)
    \/ EndUpdate

SchedNext ==
    \/ \E id \in Ids, promptLen \in PromptLens, outputLen \in OutputLens :
          AddRequest(id, promptLen, outputLen)
    \/ \E id \in Ids : AbortRequest(id)
    \/ Step

SchedSpec == SchedInit /\ [][SchedNext]_schedVars
=============================================================================
