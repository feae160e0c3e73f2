------------------------------- MODULE Server -------------------------------
(***************************************************************************)
(* The HTTP server (cuinfer/server.py) and the program around it           *)
(* (cuinfer/__main__.py) on top of the engine client.                      *)
(*                                                                         *)
(* Every request has a handler that consumes one generate(), for a stream  *)
(* frame by frame at the pace of its reader, otherwise by itself.  The     *)
(* handler is left by the end of its response, by a reader that goes away, *)
(* by an error of its own, and by the end of the server.  What web server  *)
(* and framework do is external: uvicorn's shutdown, Starlette's           *)
(* cancellation of a stream whose reader is gone.                          *)
(***************************************************************************)
EXTENDS EngineClient

VARIABLES
    handler,    \* where the handler of each id is
    streaming,  \* the ids whose response is a stream
    frames,     \* what was handed to the web server for each id
    cancelled,  \* handlers that uvicorn has cancelled and that do not know yet
    serve       \* where serve() is

serverVars == <<handler, streaming, frames, cancelled, serve>>
systemVars == <<allVars, serverVars>>

\* A handler is "new"; it is "opening" a stream, "streaming" outputs, "erring" or
\* "trailing" before [DONE]; or it is "collecting" a response in one piece; it is
\* "cleaning" while its ABORT waits to be sent; and it has "ended".
Active == {id \in Ids : handler[id] \notin {"new", "ended"}}

ServerInit ==
    /\ ClientInit
    /\ handler = [id \in Ids |-> "new"]
    /\ streaming = {}
    /\ frames = [id \in Ids |-> <<>>]
    /\ cancelled = {}
    /\ serve = "starting"

-----------------------------------------------------------------------------

MoveTo(id, state) == handler' = [handler EXCEPT ![id] = state]

Respond(id, frame, state) ==
    /\ frames' = [frames EXCEPT ![id] = Append(@, frame)]
    /\ MoveTo(id, state)

\* What the handler does with what generate() has just come back with.
Digest(id) ==
    LET came == generator'[id]
    IN  CASE came \in {"died", "rejected"} ->
                IF id \in streaming THEN Respond(id, "error", "erring")
                                    ELSE Respond(id, "unavailable", "ended")
          [] came = "yielded" ->
                Respond(id, IF id \in final' THEN "final" ELSE "text", "streaming")
          [] came = "finished" ->
                IF id \in streaming THEN Respond(id, "[DONE]", "trailing")
                                    ELSE Respond(id, "completion", "ended")
          [] OTHER -> UNCHANGED <<handler, frames>>

\* complete(): without an engine, or with something wrong with the request, it
\* is refused.
Refuse(id) ==
    /\ Respond(id, IF Alive THEN "invalid" ELSE "unavailable", "ended")
    /\ UNCHANGED <<allVars, streaming>>

OpenStream(id) ==
    /\ Alive
    /\ MoveTo(id, "opening")
    /\ streaming' = streaming \cup {id}
    /\ UNCHANGED <<allVars, frames>>

BeginCollecting(id) ==
    /\ Alive
    /\ Generate(id)
    /\ MoveTo(id, "collecting")
    /\ UNCHANGED <<streaming, frames>>

Complete(id) ==
    /\ serve = "serving"
    /\ handler[id] = "new"
    /\ Refuse(id) \/ OpenStream(id) \/ BeginCollecting(id)
    /\ UNCHANGED <<cancelled, serve>>

\* The head of the response, and the role in a chat, have been sent: generate()
\* starts only now.
StreamOpened(id) ==
    /\ handler[id] = "opening"
    /\ Generate(id)
    /\ IF generator'[id] = "rejected"
         THEN Digest(id)
         ELSE MoveTo(id, "streaming") /\ UNCHANGED frames
    /\ UNCHANGED <<streaming, cancelled, serve>>

\* A frame has been sent and the stream goes on.
FrameSent(id) ==
    /\ \/ handler[id] = "streaming" /\ GenerateGoesOn(id) /\ Digest(id)
       \/ /\ handler[id] = "erring"
          /\ Respond(id, "[DONE]", "trailing")
          /\ UNCHANGED allVars
       \/ /\ handler[id] = "trailing"
          /\ MoveTo(id, "ended")
          /\ UNCHANGED <<allVars, frames>>
    /\ UNCHANGED <<streaming, cancelled, serve>>

\* A response in one piece: the next output is asked for at once.
CollectNext(id) ==
    LET item == Head(queue[id])
    IN  /\ generator[id] = "getting"
        /\ queue[id] # <<>>
        /\ queue' = [queue EXCEPT ![id] = Tail(@)]
        /\ IF item = EngineDied
             THEN /\ generator' = [generator EXCEPT ![id] = "died"]
                  /\ UNCHANGED <<requests, consumed, final>>
             ELSE /\ generator' = [generator EXCEPT ![id] =
                        IF item.final THEN "finished" ELSE "getting"]
                  /\ consumed' = [consumed EXCEPT ![id] = @ + 1]
                  /\ final' = IF item.final THEN final \cup {id} ELSE final
                  /\ requests' = RegisteredAfter(id, item)
        /\ UNCHANGED <<serviceVars, stateVars, sends, starter, aborter, reader, closer>>

HandlerGoesOn(id) ==
    /\ \/ handler[id] \in {"streaming", "collecting"} /\ GenerateSent(id)
       \/ handler[id] = "streaming" /\ GenerateGets(id)
       \/ handler[id] = "collecting" /\ CollectNext(id)
    /\ Digest(id)
    /\ UNCHANGED <<streaming, cancelled, serve>>

-----------------------------------------------------------------------------
(* Ends of a handler.                                                       *)

\* After generate() is closed, its ABORT may still have to be sent.
LeaveAfterCleanup(id) ==
    MoveTo(id, IF generator'[id] = "aborting" THEN "cleaning" ELSE "ended")

\* decode raises on an output; cleanup() closes generate().
DecodeFails(id) ==
    /\ handler[id] \in {"streaming", "collecting"}
    /\ generator[id] = "getting"
    /\ queue[id] # <<>> /\ Head(queue[id]) \in Answers
    /\ IF id \in requests /\ ~ Head(queue[id]).final
         THEN /\ StartAbort(id, sends)
              /\ generator' = [generator EXCEPT ![id] =
                    IF Alive THEN "aborting" ELSE "cancelled"]
         ELSE /\ requests' = requests \ {id}
              /\ queue' = [queue EXCEPT ![id] = Tail(@)]
              /\ generator' = [generator EXCEPT ![id] = "cancelled"]
              /\ UNCHANGED sends
    /\ LeaveAfterCleanup(id)
    /\ UNCHANGED <<serviceVars, stateVars, consumed, final, starter, aborter, reader, closer,
                   streaming, frames, cancelled, serve>>

\* variant: the stream is dropped where it is suspended, as it would be without
\* CompletionStream.
LeaveSuspended(id) ==
    /\ handler[id] \in {"opening", "streaming", "erring", "trailing", "collecting"}
    /\ IF generator[id] \in {"sending", "getting"}
         THEN CancelGenerate(id) /\ LeaveAfterCleanup(id)
         ELSE MoveTo(id, "ended") /\ UNCHANGED allVars

\* The handler is cancelled, or a send in it fails: cleanup(), after which a
\* generate() that was not started never is.
Leave(id) ==
    /\ handler[id] \in {"opening", "streaming", "erring", "trailing", "collecting"}
    /\ IF handler[id] \in {"streaming", "collecting"}
         THEN CancelGenerate(id) /\ LeaveAfterCleanup(id)
         ELSE MoveTo(id, "ended") /\ UNCHANGED allVars

\* Only a stream notices that its reader is gone.
Disconnect(id) ==
    /\ id \in streaming
    /\ Leave(id)
    /\ UNCHANGED <<streaming, frames, cancelled, serve>>

CleanedUp(id) ==
    /\ handler[id] = "cleaning"
    /\ GenerateAborted(id) \/ SendCancelled(id)
    /\ MoveTo(id, "ended")
    /\ UNCHANGED <<streaming, frames, cancelled, serve>>

\* uvicorn's cancellation reaches a handler.  One that is sending its ABORT drops
\* it, or, when the shield stands between, finishes first.
DropAbort(id) ==
    /\ handler[id] = "cleaning"
    /\ generator' = [generator EXCEPT ![id] = "cancelled"]
    /\ sends' = Withdrawn(Abort(id))
    /\ MoveTo(id, "ended")
    /\ UNCHANGED <<serviceVars, stateVars, requests, queue, consumed, final,
                   starter, aborter, reader, closer>>

CancelArrives(id) ==
    /\ id \in cancelled
    /\ cancelled' = cancelled \ {id}
    /\ \/ Leave(id)
       \/ DropAbort(id)
       \/ handler[id] = "cleaning" /\ UNCHANGED <<allVars, handler>>
    /\ UNCHANGED <<streaming, frames, serve>>

-----------------------------------------------------------------------------
(* serve().                                                                 *)

\* The client has been started, or that has failed.
Started ==
    /\ serve = "starting"
    /\ \/ starter = "returned" /\ serve' = "serving"
       \/ starter = "raised" /\ serve' = "ended"
    /\ UNCHANGED <<allVars, handler, streaming, frames, cancelled>>

\* SIGINT or SIGTERM.
StopSignal ==
    /\ serve = "serving"
    /\ serve' = "draining"
    /\ UNCHANGED <<allVars, handler, streaming, frames, cancelled>>

\* variant: nobody waits for the death of the engine.
NobodyWatches == FALSE

\* wait_dead() of watch_engine has returned.
EngineWatched == error

WatchEngine ==
    /\ EngineWatched
    /\ StopSignal

\* uvicorn has no handler left, or gives up after timeout_graceful_shutdown and
\* cancels those that are; then the lifespan ends with engine.close().
ShutDown ==
    /\ serve = "draining"
    /\ serve' = "closing"
    /\ cancelled' = Active
    /\ Close
    /\ UNCHANGED <<handler, streaming, frames>>

ServeReturns ==
    /\ serve = "closing"
    /\ closer = "done"
    /\ serve' = "ended"
    /\ UNCHANGED <<allVars, handler, streaming, frames, cancelled>>

-----------------------------------------------------------------------------

\* A handler that has been cancelled does nothing else first.
HandlerStep(id) ==
    IF id \in cancelled
      THEN CancelArrives(id)
      ELSE HandlerGoesOn(id) \/ CleanedUp(id)

ClientStep ==
    /\ \/ StartProcess \/ StartReturns \/ StartFails \/ StartRaises
       \/ SendNext \/ ReadReady \/ ReadOutputs \/ OnExit
       \/ CloseBegins \/ CloseSent \/ CloseTimesOut \/ CloseSeesExit \/ CloseEnds
    /\ UNCHANGED serverVars

ServerStep ==
    \/ ClientStep
    \/ \E id \in Ids : HandlerStep(id)
    \/ Started \/ WatchEngine \/ ShutDown \/ ServeReturns

\* Readers read and go away, users send requests and signals, things fail.
OutsideStep ==
    \/ \E id \in Ids \ cancelled :
          Complete(id) \/ StreamOpened(id) \/ FrameSent(id) \/ DecodeFails(id) \/ Disconnect(id)
    \/ StopSignal
    \/ (StartCancelled \/ ReaderFails \/ EngineStep \/ EngineDies) /\ UNCHANGED serverVars

ServerNext == ServerStep \/ OutsideStep

ServerSpec == ServerInit /\ [][ServerNext]_systemVars

\* The asyncio loop runs.  Nothing is assumed of readers, and the engine may hang.
FairServerSpec == ServerSpec /\ WF_systemVars(ServerStep)

-----------------------------------------------------------------------------

IsResponse(some) ==
    \E n \in 0 .. MaxOutputs : \E tail \in {"final", "error"} :
        IsPrefix(some, [i \in 1 .. n |-> "text"] \o <<tail, "[DONE]">>)

\* A stream carries one frame per output, the last of them with the reason of the
\* finish, or stops with an error, and then [DONE]; a response whose end is marked
\* has everything the engine answered; and an error is reported only when the
\* engine is dead or the server ends (test_server.py:278-297).
ResponseFaithful ==
    \A id \in Ids :
        /\ id \in streaming => IsResponse(frames[id])
        /\ Contains(frames[id], "final") \/ Contains(frames[id], "completion") =>
              id \in final /\ consumed[id] = answered[id]
        /\ Contains(frames[id], "error") => error \/ closing \/ engine = "stopped"

\* However a handler ends, its generate() has ended too, the request is no longer
\* registered, and the engine does not go on with it: its ABORT is on the way,
\* or, when a second cancellation broke through the shield, the engine is about
\* to be closed (server.py:76-83, :174-178, engine.py:195-198,
\* test_server.py:300-357).  And the engine process does not outlive serve().
NothingLeftBehind ==
    /\ \A id \in Ids : handler[id] = "ended" =>
          /\ generator[id] \in GeneratorEnds \cup {"new"} /\ id \notin requests
          /\ id \in working =>
                Waiting(Abort(id)) \/ Contains(inbox, Abort(id)) \/ error \/ serve = "closing"
    /\ serve = "ended" => engine = "stopped" \/ started = "no"

\* serve() ends when the engine has died and when it is told to, although readers
\* do not read and the engine may hang.
ServeEnds ==
    ((serve = "serving" /\ engine = "stopped") \/ serve = "draining") ~> serve = "ended"
=============================================================================
