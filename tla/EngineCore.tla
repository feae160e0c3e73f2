----------------------------- MODULE EngineCore -----------------------------
(***************************************************************************)
(* The engine process (csrc/engine/engine_core.cpp): the loop of           *)
(* EngineCore::run around the scheduler, reading messages between steps    *)
(* and sending the outputs after each.  The parent process is any client   *)
(* that asks for every id at most once, may withdraw what it asked for,    *)
(* and shuts the engine down at some point.  The process may die between   *)
(* any two steps.                                                          *)
(***************************************************************************)
EXTENDS SchedulerProperties, FiniteSetsExt

CONSTANT OutboxLimit  \* messages the output socket queues before send() blocks

ASSUME OutboxLimitAssumption == OutboxLimit \in Nat \ {0}
\* Some request asks for the most tokens.
ASSUME OutputsAssumption == \E most \in OutputLens : \A n \in OutputLens : n <= most

VARIABLES
    engine,    \* "loading", "serving" or "stopped"
    inbox,     \* messages that have arrived and were not read
    outbox,    \* messages sent and not collected
    mustWait,  \* process_inputs' next receive blocks
    asked,     \* ids the client has added, ...
    withdrawn, \* ... and those it has aborted
    answered,  \* how many outputs of each id were sent
    finished   \* ids whose final output was sent

clientVars == <<asked, withdrawn>>
historyVars == <<answered, finished>>
engineVars == <<schedVars, engine, inbox, outbox, mustWait, clientVars, historyVars>>

Add(id) == [type |-> "kAdd", id |-> id]
Abort(id) == [type |-> "kAbort", id |-> id]
Shutdown == [type |-> "kShutdown"]
Ready == [type |-> "kReady"]
Outputs(some) == [type |-> "kOutputs", outputs |-> some]

EngineInit ==
    /\ SchedInit
    /\ engine = "loading"
    /\ inbox = <<>> /\ outbox = <<>>
    /\ mustWait = TRUE
    /\ asked = {} /\ withdrawn = {}
    /\ answered = [id \in Ids |-> 0] /\ finished = {}

-----------------------------------------------------------------------------
(* The engine process.                                                      *)

\* The model is loaded, the sockets are connected, READY is sent.
BecomeReady ==
    /\ engine = "loading"
    /\ engine' = "serving"
    /\ outbox' = Append(outbox, Ready)
    /\ UNCHANGED <<schedVars, inbox, mustWait, clientVars, historyVars>>

ReceiveAdd(id) ==
    /\ Head(inbox) = Add(id)
    /\ \E promptLen \in PromptLens, outputLen \in OutputLens :
          AddRequest(id, promptLen, outputLen)
    /\ UNCHANGED engine

ReceiveAbort(id) ==
    /\ Head(inbox) = Abort(id)
    /\ IF id \in Live THEN AbortRequest(id) ELSE UNCHANGED schedVars
    /\ UNCHANGED engine

\* variant: "break" instead of "return false" leaves the switch only.
ReceiveShutdownAndGoOn ==
    /\ Head(inbox) = Shutdown
    /\ UNCHANGED <<schedVars, engine>>

\* Whatever is in the scheduler is dropped with the process.
ReceiveShutdown ==
    /\ Head(inbox) = Shutdown
    /\ engine' = "stopped"
    /\ UNCHANGED schedVars

\* One turn of process_inputs' loop; after the first message it no longer waits.
ProcessInput ==
    /\ engine = "serving"
    /\ phase = "idle"
    /\ inbox # <<>>
    /\ \/ \E id \in Ids : ReceiveAdd(id) \/ ReceiveAbort(id)
       \/ ReceiveShutdown
    /\ inbox' = IF engine' = "stopped" THEN <<>> ELSE Tail(inbox)
    /\ mustWait' = FALSE
    /\ UNCHANGED <<outbox, clientVars, historyVars>>

\* No message is left and the loop need not wait for one.
StartStep ==
    /\ engine = "serving"
    /\ inbox = <<>>
    /\ ~ mustWait
    /\ BeginSchedule
    /\ UNCHANGED <<engine, inbox, outbox, mustWait, clientVars, historyVars>>

\* The rest of the step, up to the last iteration of update().
RunStep ==
    /\ engine = "serving"
    /\ \/ ScheduleRunning \/ PreemptTail \/ EndPass1
       \/ AdmitNext \/ EndPass2 \/ RunModel \/ SkipChunk
       \/ \E stop \in BOOLEAN : UpdateToken(stop)
    /\ UNCHANGED <<engine, inbox, outbox, mustWait, clientVars, historyVars>>

\* variant: waits for a message whenever nothing runs.
NothingToDoButSuspended == running = <<>>

\* ! scheduler_.has_requests()
NothingToDo == Live = {}

Answered == {outputs[i].id : i \in DOMAIN outputs}

\* variant: reports the requests that end for a token only.
FinishedByStop == {outputs[i].id : i \in {j \in DOMAIN outputs : outputs[j].reason = "kStop"}}

Finished == {outputs[i].id : i \in {j \in DOMAIN outputs : outputs[j].reason # "kRunning"}}

\* variant: sends only the outputs that end a request.
SendFinishedOutputs ==
    IF Finished = {}
      THEN UNCHANGED <<outbox, historyVars>>
      ELSE /\ Len(outbox) < OutboxLimit
           /\ outbox' = Append(outbox,
                 Outputs({[id |-> id, final |-> TRUE] : id \in Finished}))
           /\ answered' = [id \in Ids |->
                 IF id \in Finished THEN answered[id] + 1 ELSE answered[id]]
           /\ finished' = finished \cup Finished

\* An empty set of outputs is not sent.
SendOutputs ==
    IF outputs = <<>>
      THEN UNCHANGED <<outbox, historyVars>>
      ELSE /\ Len(outbox) < OutboxLimit
           /\ outbox' = Append(outbox,
                 Outputs({[id |-> id, final |-> id \in Finished] : id \in Answered}))
           /\ answered' = [id \in Ids |->
                 IF id \in Answered THEN answered[id] + 1 ELSE answered[id]]
           /\ finished' = finished \cup Finished

FinishStep ==
    /\ engine = "serving"
    /\ EndUpdate
    /\ SendOutputs
    /\ mustWait' = NothingToDo
    /\ UNCHANGED <<engine, inbox, clientVars>>

EngineStep == BecomeReady \/ ProcessInput \/ StartStep \/ RunStep \/ FinishStep

\* An exception in a step or while loading, a signal, a fault.
Die ==
    /\ engine # "stopped"
    /\ engine' = "stopped"
    /\ inbox' = <<>>
    /\ \E n \in 0 .. Len(outbox) : outbox' = SubSeq(outbox, 1, n)
    /\ UNCHANGED <<schedVars, mustWait, clientVars, historyVars>>

-----------------------------------------------------------------------------
(* Its parent.                                                              *)

Submit(message) ==
    /\ engine # "stopped"
    /\ inbox' = Append(inbox, message)
    /\ UNCHANGED <<schedVars, engine, outbox, mustWait, historyVars>>

AskFor(id) ==
    /\ id \notin asked
    /\ asked' = asked \cup {id}
    /\ UNCHANGED withdrawn
    /\ Submit(Add(id))

Withdraw(id) ==
    /\ id \in asked \ withdrawn
    /\ withdrawn' = withdrawn \cup {id}
    /\ UNCHANGED asked
    /\ Submit(Abort(id))

ShutDown ==
    /\ ~ Contains(inbox, Shutdown)
    /\ Submit(Shutdown)
    /\ UNCHANGED clientVars

Collect ==
    /\ outbox # <<>>
    /\ outbox' = Tail(outbox)
    /\ UNCHANGED <<schedVars, engine, inbox, mustWait, clientVars, historyVars>>

EngineNext ==
    \/ EngineStep
    \/ Die
    \/ \E id \in Ids : AskFor(id) \/ Withdraw(id)
    \/ ShutDown
    \/ Collect

EngineSpec == EngineInit /\ [][EngineNext]_engineVars

\* The engine thread keeps running, and its parent keeps reading.
FairEngineSpec ==
    EngineSpec /\ WF_engineVars(EngineStep) /\ WF_engineVars(Collect)

-----------------------------------------------------------------------------

\* The outputs that update() has for an id and that are still to be sent.
Unsent(id) == IF id \in Answered THEN 1 ELSE 0

\* Every token is sampled once and sent once: a live request has as many tokens
\* beyond its prompt as outputs were sent or are about to be, however often it
\* was preempted and computed again.
OneOutputPerToken ==
    \A id \in Live :
        request[id].numTokens - request[id].numPrompt = answered[id] + Unsent(id)

\* protocol.h:69-71: an added request gets exactly one final output and nothing
\* after it; nothing is sent for a request that was not added or that is aborted.
Service == INSTANCE EngineService WITH
    MaxOutputs <- Max(OutputLens),
    working <- IF engine = "stopped" THEN {} ELSE Live \cup Answered

ImplementsService == Service!ServiceSpec

\* The other half of protocol.h:69-71: the final output does come, since the
\* engine never waits for a message, or for room to answer, with a request left;
\* and SHUTDOWN is obeyed although requests keep the engine busy.
EveryInputServed ==
    /\ \A id \in Ids :
          (id \in asked) ~> (id \in finished \/ id \in withdrawn \/ engine = "stopped")
    /\ Contains(inbox, Shutdown) ~> engine = "stopped"
=============================================================================
