---------------------------- MODULE EngineClient ----------------------------
(***************************************************************************)
(* EngineClient (cuinfer/engine.py) and the engine process it owns.        *)
(*                                                                         *)
(* The client's tasks and callbacks run on one asyncio loop: what a task   *)
(* does from one await to the next is one action.  The tasks are start(),  *)
(* a generate() per request with whoever consumes it, an abort() per       *)
(* request from elsewhere, the output reader and the close task; the       *)
(* callback is _on_exit.  The engine is any that keeps its contract        *)
(* (EngineService), may die at any time, and may hang.                     *)
(***************************************************************************)
EXTENDS EngineService

CONSTANT InboxLimit  \* messages the input socket takes before send() waits

ASSUME InboxLimitAssumption == InboxLimit \in Nat \ {0}

VARIABLES
    started,    \* _started: "new" before __init__ ends, "yes", or "no" when the
                \*   process could not be started
    ready,      \* the future _ready: "pending", "set", "failed" or "cancelled"
    error,      \* error is set, and with it the future _dead
    closing,    \* _closing
    exited,     \* the future _exited
    requests,   \* the keys of _requests
    queue,      \* the queue of each id: outputs, EngineDied or None
    sends,      \* the sends that wait in the PUSH socket, in order
    starter,    \* where start() is
    generator,  \* where the generate() of each id is
    consumed,   \* how many outputs of each id were yielded
    final,      \* the ids whose last yielded output was final
    aborter,    \* where an abort() from elsewhere is
    reader,     \* where the output reader is
    closer      \* where the close task is

taskVars == <<starter, generator, aborter, reader, closer>>
stateVars == <<started, ready, error, closing, exited>>
requestVars == <<requests, queue, sends, consumed, final>>
clientVars == <<taskVars, stateVars, requestVars>>
allVars == <<serviceVars, clientVars>>

\* What a queue holds besides outputs: an exception, or the end.
EngineDied == [item |-> "EngineDied"]
None == [item |-> "None"]

GeneratorStates ==
    {"new", "sending", "getting", "yielded", "aborting",
     "finished", "died", "stopped", "cancelled", "rejected"}
GeneratorEnds == {"finished", "died", "stopped", "cancelled", "rejected"}

ClientTypeOK ==
    /\ started \in {"new", "yes", "no"}
    /\ ready \in {"pending", "set", "failed", "cancelled"}
    /\ error \in BOOLEAN /\ closing \in BOOLEAN /\ exited \in BOOLEAN
    /\ requests \subseteq Ids
    /\ queue \in [Ids -> Seq(Answers \cup {EngineDied, None})]
    /\ sends \in Seq(Inputs)
    /\ starter \in {"new", "waiting", "closing", "returned", "raised"}
    /\ generator \in [Ids -> GeneratorStates]
    /\ consumed \in [Ids -> Nat] /\ final \subseteq Ids
    /\ aborter \in [Ids -> {"new", "sending", "done"}]
    /\ reader \in {"none", "waiting", "reading", "ended"}
    /\ closer \in {"none", "created", "sending", "waiting", "exiting", "gathering", "done"}

ClientInit ==
    /\ ServiceInit
    /\ started = "new" /\ ready = "pending"
    /\ error = FALSE /\ closing = FALSE /\ exited = FALSE
    /\ requests = {} /\ queue = [id \in Ids |-> <<>>]
    /\ sends = <<>>
    /\ starter = "new"
    /\ generator = [id \in Ids |-> "new"]
    /\ consumed = [id \in Ids |-> 0] /\ final = {}
    /\ aborter = [id \in Ids |-> "new"]
    /\ reader = "none" /\ closer = "none"

-----------------------------------------------------------------------------

\* _process.is_alive()
IsAlive == started = "yes" /\ engine # "stopped"

\* alive
Alive == ~ closing /\ ~ error /\ ready # "pending" /\ IsAlive

\* variant: leaves the requests registered.
PutErrorInQueues ==
    /\ queue' = [id \in Ids |->
          IF id \in requests THEN Append(queue[id], EngineDied) ELSE queue[id]]
    /\ UNCHANGED requests

\* variant: forgets them without a word.
ForgetRequests == requests' = {} /\ UNCHANGED queue

\* _fail_requests
FailRequests ==
    /\ queue' = [id \in Ids |->
          IF id \in requests THEN Append(queue[id], EngineDied) ELSE queue[id]]
    /\ requests' = {}

\* variant: only while start() still waits.
MarkDeadAtStart ==
    IF error \/ ready # "pending"
      THEN UNCHANGED <<error, ready, requests, queue>>
      ELSE error' = TRUE /\ ready' = "failed" /\ FailRequests

\* variant: start() is not told.
MarkDeadKeepingReady ==
    IF error
      THEN UNCHANGED <<error, ready, requests, queue>>
      ELSE error' = TRUE /\ UNCHANGED ready /\ FailRequests

\* _mark_dead
MarkDead ==
    IF error
      THEN UNCHANGED <<error, ready, requests, queue>>
      ELSE /\ error' = TRUE
           /\ ready' = IF ready = "pending" THEN "failed" ELSE ready
           /\ FailRequests

Waiting(message) == Contains(sends, message)

Withdrawn(message) == RemoveFirst(sends, message)

-----------------------------------------------------------------------------
(* start()                                                                  *)

\* process.start() can raise.
StartProcess ==
    /\ starter = "new"
    /\ \/ /\ started' = "yes"
          /\ starter' = "waiting"
          /\ reader' = "waiting"
          /\ UNCHANGED closer
       \/ /\ started' = "no"
          /\ starter' = "closing"
          /\ closer' = "created"
          /\ UNCHANGED reader
    /\ UNCHANGED <<serviceVars, ready, error, closing, exited, requestVars,
                   generator, aborter>>

StartReturns ==
    /\ starter = "waiting"
    /\ ready = "set"
    /\ starter' = "returned"
    /\ UNCHANGED <<serviceVars, stateVars, requestVars, generator, aborter, reader, closer>>

StartGivesUp ==
    /\ starter = "waiting"
    /\ starter' = "closing"
    /\ closer' = "created"
    /\ UNCHANGED <<serviceVars, started, error, closing, exited, requestVars,
                   generator, aborter, reader>>

\* The engine died while it loaded.
StartFails == ready = "failed" /\ StartGivesUp /\ UNCHANGED ready

\* Cancelling start() cancels the future it waits for.
StartCancelled == ready = "pending" /\ StartGivesUp /\ ready' = "cancelled"

StartRaises ==
    /\ starter = "closing"
    /\ closer = "done"
    /\ starter' = "raised"
    /\ UNCHANGED <<serviceVars, stateVars, requestVars, generator, aborter, reader, closer>>

-----------------------------------------------------------------------------
(* generate(), and the task that consumes it.  Ids are random, so that none *)
(* is used twice.                                                           *)

Generate(id) ==
    /\ starter = "returned"
    /\ generator[id] = "new"
    /\ IF Alive
         THEN /\ generator' = [generator EXCEPT ![id] = "sending"]
              /\ requests' = requests \cup {id}
              /\ sends' = Append(sends, Add(id))
         ELSE /\ generator' = [generator EXCEPT ![id] = "rejected"]
              /\ UNCHANGED <<requests, sends>>
    /\ UNCHANGED <<serviceVars, stateVars, queue, consumed, final,
                   starter, aborter, reader, closer>>

\* _send(ADD) comes back: the message went out or the engine is known dead.
GenerateSent(id) ==
    /\ generator[id] = "sending"
    /\ error \/ ~ Waiting(Add(id))
    /\ generator' = [generator EXCEPT ![id] = IF error THEN "died" ELSE "getting"]
    /\ sends' = Withdrawn(Add(id))
    /\ UNCHANGED <<serviceVars, stateVars, requests, queue, consumed, final,
                   starter, aborter, reader, closer>>

RegisteredAfter(id, output) ==
    IF output.final THEN requests \ {id} ELSE requests

GenerateGets(id) ==
    LET item == Head(queue[id])
    IN  /\ generator[id] = "getting"
        /\ queue[id] # <<>>
        /\ queue' = [queue EXCEPT ![id] = Tail(@)]
        /\ CASE item = EngineDied ->
                    /\ generator' = [generator EXCEPT ![id] = "died"]
                    /\ UNCHANGED <<requests, consumed, final>>
             [] item = None ->
                    /\ generator' = [generator EXCEPT ![id] = "stopped"]
                    /\ UNCHANGED <<requests, consumed, final>>
             [] OTHER ->
                    /\ generator' = [generator EXCEPT ![id] = "yielded"]
                    /\ consumed' = [consumed EXCEPT ![id] = @ + 1]
                    /\ final' = IF item.final THEN final \cup {id} ELSE final
                    /\ requests' = RegisteredAfter(id, item)
        /\ UNCHANGED <<serviceVars, stateVars, sends, starter, aborter, reader, closer>>

\* The consumer asks for the next output.
GenerateGoesOn(id) ==
    /\ generator[id] = "yielded"
    /\ generator' = [generator EXCEPT ![id] = IF id \in final THEN "finished" ELSE "getting"]
    /\ UNCHANGED <<serviceVars, stateVars, requestVars, starter, aborter, reader, closer>>

\* variant: ABORT overtakes an ADD that still waits.
StartAbortAhead(id, kept) ==
    /\ requests' = requests \ {id}
    /\ queue' = [queue EXCEPT ![id] = <<None>>]
    /\ sends' = IF Alive THEN <<Abort(id)>> \o kept ELSE kept

\* variant: the queue is emptied and nothing put in it.
StartAbortSilently(id, kept) ==
    /\ requests' = requests \ {id}
    /\ queue' = [queue EXCEPT ![id] = <<>>]
    /\ sends' = IF Alive THEN Append(kept, Abort(id)) ELSE kept

\* variant: the outputs that wait in the queue stay before the end.
StartAbortBehind(id, kept) ==
    /\ requests' = requests \ {id}
    /\ queue' = [queue EXCEPT ![id] = Append(@, None)]
    /\ sends' = IF Alive THEN Append(kept, Abort(id)) ELSE kept

\* abort up to its await.  "kept" is what is left of the waiting sends.
StartAbort(id, kept) ==
    /\ requests' = requests \ {id}
    /\ queue' = [queue EXCEPT ![id] = <<None>>]
    /\ sends' = IF Alive THEN Append(kept, Abort(id)) ELSE kept

\* variant: the request is only forgotten.
CleanUpWithoutAbort(id) ==
    /\ requests' = requests \ {id}
    /\ sends' = Withdrawn(Add(id))
    /\ UNCHANGED queue

\* The finally block of generate, after that of _send.
CleanUp(id) ==
    IF id \in requests
      THEN StartAbort(id, Withdrawn(Add(id)))
      ELSE sends' = Withdrawn(Add(id)) /\ UNCHANGED <<requests, queue>>

\* The consumer's task is cancelled, or it closes the generator.
CancelGenerate(id) ==
    /\ generator[id] \in {"sending", "getting", "yielded"}
    /\ CleanUp(id)
    /\ generator' = [generator EXCEPT ![id] =
          IF id \in requests /\ Alive THEN "aborting" ELSE "cancelled"]
    /\ UNCHANGED <<serviceVars, stateVars, consumed, final, starter, aborter, reader, closer>>

GenerateAborted(id) ==
    /\ generator[id] = "aborting"
    /\ error \/ ~ Waiting(Abort(id))
    /\ generator' = [generator EXCEPT ![id] = "cancelled"]
    /\ sends' = Withdrawn(Abort(id))
    /\ UNCHANGED <<serviceVars, stateVars, requests, queue, consumed, final,
                   starter, aborter, reader, closer>>

\* abort() from a task other than the consumer's.
CallAbort(id) ==
    /\ aborter[id] = "new"
    /\ id \in requests
    /\ StartAbort(id, sends)
    /\ aborter' = [aborter EXCEPT ![id] = IF Alive THEN "sending" ELSE "done"]
    /\ UNCHANGED <<serviceVars, stateVars, consumed, final, starter, generator, reader, closer>>

AbortSent(id) ==
    /\ aborter[id] = "sending"
    /\ error \/ ~ Waiting(Abort(id))
    /\ aborter' = [aborter EXCEPT ![id] = "done"]
    /\ sends' = Withdrawn(Abort(id))
    /\ UNCHANGED <<serviceVars, stateVars, requests, queue, consumed, final,
                   starter, generator, reader, closer>>

-----------------------------------------------------------------------------
(* The sockets, the output reader and the sentinel.                         *)

\* The PUSH socket takes a message while the engine is connected and its queue
\* has room.
SendNext ==
    /\ sends # <<>>
    /\ engine = "serving"
    /\ Len(inbox) < InboxLimit
    /\ closer # "done"
    /\ inbox' = Append(inbox, Head(sends))
    /\ sends' = Tail(sends)
    /\ UNCHANGED <<engine, outbox, working, answered, taskVars, stateVars,
                   requests, queue, consumed, final>>

ReadReady ==
    /\ reader = "waiting"
    /\ outbox # <<>>
    /\ Head(outbox) = Ready
    /\ ready' = IF ready = "pending" THEN "set" ELSE ready
    /\ reader' = "reading"
    /\ outbox' = Tail(outbox)
    /\ UNCHANGED <<engine, inbox, working, answered, started, error, closing, exited,
                   requestVars, starter, generator, aborter, closer>>

\* The output for an id in a message.
OutputOf(answers, id) == CHOOSE a \in answers : a.id = id

\* variant: only the first output of a message.
DeliverFirst(answers) ==
    LET first == CHOOSE a \in answers : TRUE
    IN  [id \in Ids |-> IF id \in requests /\ first.id = id
                          THEN Append(queue[id], first)
                          ELSE queue[id]]

\* variant: the newest output comes first.
DeliverNewestFirst(answers) ==
    [id \in Ids |-> IF id \in requests /\ \E a \in answers : a.id = id
                      THEN <<OutputOf(answers, id)>> \o queue[id]
                      ELSE queue[id]]

\* Outputs of an id that is no longer registered are dropped.
Deliver(answers) ==
    [id \in Ids |-> IF id \in requests /\ \E a \in answers : a.id = id
                      THEN Append(queue[id], OutputOf(answers, id))
                      ELSE queue[id]]

ReadOutputs ==
    /\ reader = "reading"
    /\ outbox # <<>>
    /\ queue' = Deliver(Head(outbox).outputs)
    /\ outbox' = Tail(outbox)
    /\ UNCHANGED <<engine, inbox, working, answered, taskVars, stateVars,
                   requests, sends, consumed, final>>

\* Receiving or unpacking raises.  The process goes on.
ReaderFails ==
    /\ reader \in {"waiting", "reading"}
    /\ MarkDead
    /\ reader' = "ended"
    /\ UNCHANGED <<serviceVars, started, closing, exited, sends, consumed, final,
                   starter, generator, aborter, closer>>

\* _on_exit.  What the reader has not read is lost with it.
OnExit ==
    /\ started = "yes"
    /\ engine = "stopped"
    /\ ~ exited
    /\ exited' = TRUE
    /\ IF closing
         THEN UNCHANGED <<error, ready, requests, queue, reader>>
         ELSE MarkDead /\ reader' = "ended"
    /\ UNCHANGED <<serviceVars, started, closing, sends, consumed, final,
                   starter, generator, aborter, closer>>

-----------------------------------------------------------------------------
(* close() and the task it creates, which nobody can cancel.                *)

Close ==
    /\ starter = "returned"
    /\ closer = "none"
    /\ closer' = "created"
    /\ UNCHANGED <<serviceVars, stateVars, requestVars, starter, generator, aborter, reader>>

CloseBegins ==
    /\ closer = "created"
    /\ closing' = TRUE
    /\ FailRequests
    /\ closer' = IF started = "no" THEN "gathering"
                 ELSE IF IsAlive THEN "sending" ELSE "exiting"
    /\ sends' = IF IsAlive THEN Append(sends, Shutdown) ELSE sends
    /\ UNCHANGED <<serviceVars, started, ready, error, exited, consumed, final,
                   starter, generator, aborter, reader>>

CloseSent ==
    /\ closer = "sending"
    /\ ~ Waiting(Shutdown)
    /\ closer' = "waiting"
    /\ UNCHANGED <<serviceVars, stateVars, requestVars, starter, generator, aborter, reader>>

\* variant: the timeout covers the wait for the exit alone.
InTimeoutOfExit == closer = "waiting" /\ ~ exited

\* asyncio.timeout(3) covers the send and the wait for the exit.
InTimeout == closer = "sending" \/ (closer = "waiting" /\ ~ exited)

\* Three seconds passed: kill, by which what was sent may be lost in part.
CloseTimesOut ==
    /\ InTimeout
    /\ sends' = Withdrawn(Shutdown)
    /\ closer' = "exiting"
    /\ Die \/ (engine = "stopped" /\ UNCHANGED serviceVars)
    /\ UNCHANGED <<stateVars, requests, queue, consumed, final,
                   starter, generator, aborter, reader>>

CloseSeesExit ==
    /\ closer \in {"waiting", "exiting"}
    /\ exited
    /\ closer' = "gathering"
    /\ UNCHANGED <<serviceVars, stateVars, requestVars, starter, generator, aborter, reader>>

\* The reader is cancelled and waited for; then the sockets are closed, which
\* cancels the sends that wait in them.
CloseEnds ==
    /\ closer = "gathering"
    /\ closer' = "done"
    /\ reader' = IF reader = "none" THEN "none" ELSE "ended"
    /\ UNCHANGED <<serviceVars, stateVars, requestVars, starter, generator, aborter>>

\* A send cancelled by the closed socket raises in the task that waits for it;
\* a generate() has nothing to clean up: closing has taken its registration.
SendCancelled(id) ==
    /\ closer = "done"
    /\ ~ error
    /\ \/ /\ generator[id] = "sending" /\ Waiting(Add(id))
          /\ generator' = [generator EXCEPT ![id] = "cancelled"]
          /\ sends' = Withdrawn(Add(id))
          /\ UNCHANGED aborter
       \/ /\ generator[id] = "aborting" /\ Waiting(Abort(id))
          /\ generator' = [generator EXCEPT ![id] = "cancelled"]
          /\ sends' = Withdrawn(Abort(id))
          /\ UNCHANGED aborter
       \/ /\ aborter[id] = "sending" /\ Waiting(Abort(id))
          /\ aborter' = [aborter EXCEPT ![id] = "done"]
          /\ sends' = Withdrawn(Abort(id))
          /\ UNCHANGED generator
    /\ UNCHANGED <<serviceVars, stateVars, requests, queue, consumed, final,
                   starter, reader, closer>>

-----------------------------------------------------------------------------

EngineStep == started = "yes" /\ ServiceStep /\ UNCHANGED clientVars

\* The engine answers a request for the last time.
EngineFinishes(id) ==
    /\ \E some \in SUBSET working : \E last \in SUBSET some : id \in last /\ Answer(some, last)
    /\ UNCHANGED clientVars

EngineDies == started = "yes" /\ Die /\ UNCHANGED clientVars

\* What the asyncio loop runs by itself.
LoopStep ==
    \/ StartProcess \/ StartReturns \/ StartFails \/ StartRaises
    \/ \E id \in Ids :
          \/ GenerateSent(id) \/ GenerateGets(id) \/ GenerateAborted(id)
          \/ AbortSent(id) \/ SendCancelled(id)
    \/ SendNext \/ ReadReady \/ ReadOutputs \/ OnExit
    \/ CloseBegins \/ CloseSent \/ CloseTimesOut \/ CloseSeesExit \/ CloseEnds

\* What the users of the client do, and faults.
UserStep ==
    \/ StartCancelled \/ Close \/ ReaderFails
    \/ \E id \in Ids : Generate(id) \/ CancelGenerate(id) \/ CallAbort(id)

ClientNext ==
    \/ LoopStep
    \/ UserStep
    \/ \E id \in Ids : GenerateGoesOn(id)
    \/ EngineStep
    \/ EngineDies

ClientSpec == ClientInit /\ [][ClientNext]_allVars

\* The loop runs, and the consumers go on consuming; the engine may hang.
FairClientSpec ==
    /\ ClientSpec
    /\ WF_allVars(LoopStep)
    /\ \A id \in Ids : WF_allVars(GenerateGoesOn(id))

\* The engine does not hang either: it becomes ready or dies, it takes its
\* messages and finishes its requests (EngineCore's EveryInputServed).
EngineKeepsGoing ==
    /\ WF_allVars(started = "yes" /\ BecomeReady /\ UNCHANGED clientVars)
    /\ WF_allVars(TakeInput /\ UNCHANGED clientVars)
    /\ \A id \in Ids : WF_allVars(EngineFinishes(id))
=============================================================================
