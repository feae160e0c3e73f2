----------------------- MODULE EngineClientProperties -----------------------
(***************************************************************************)
(* What makes the client correct: no output is lost or delivered twice, no *)
(* task waits for something that will not come, and the engine works on    *)
(* nothing that nobody wants.                                              *)
(***************************************************************************)
EXTENDS EngineClient, FiniteSets

\* How many outputs of an id are in a channel or queue.
InQueue(id) == Cardinality({i \in DOMAIN queue[id] : queue[id][i] \in Answers})

InOutbox(id) ==
    Cardinality({i \in DOMAIN outbox :
        /\ outbox[i].type = "kOutputs"
        /\ \E a \in outbox[i].outputs : a.id = id})

\* While a request is registered and the engine lives, every output the engine
\* made for it was consumed, is in its queue or is on its way: none is dropped
\* and none is delivered twice, whatever is sent, aborted and cancelled around.
NoOutputLost ==
    \A id \in requests :
        engine # "stopped" => consumed[id] + InQueue(id) + InOutbox(id) = answered[id]

\* Whoever waits for an output is registered, or finds an item in its queue; and
\* nothing is registered with a client that is dead or closing.  So nobody waits
\* for an output that cannot come (engine.py:108-120 and :214-216).
NobodyWaitsForTheDead ==
    /\ \A id \in Ids :
          generator[id] \in {"sending", "getting"} => id \in requests \/ queue[id] # <<>>
    /\ error \/ closing => requests = {}

\* The engine works on a request only for somebody: it is registered, or its
\* ABORT or the end of the engine is on the way.  Otherwise it would keep its
\* place in the batch and its blocks until it is done (engine.py:195-207).  In
\* particular no ADD follows the ABORT of its request.
OnTheWay(message) == Waiting(message) \/ Contains(inbox, message)

NoOrphanRequest ==
    \A id \in working : id \in requests \/ OnTheWay(Abort(id)) \/ error \/ closing

\* A generate() that ends by itself has given its consumer every output of the
\* request, the last one final (test_engine.py:67-89); an error is reported only
\* when the engine is dead or the client closing.
OutcomesJustified ==
    \A id \in Ids :
        /\ generator[id] = "finished" => id \in final /\ consumed[id] = answered[id]
        /\ generator[id] = "died" => error \/ closing

\* What a call of generate() is to its caller.
CallState ==
    [state \in GeneratorStates |->
        CASE state \in {"sending", "getting", "yielded"} -> "open"
          [] state \in {"aborting", "cancelled"} -> "cancelled"
          [] state = "died" -> "failed"
          [] state = "rejected" -> "refused"
          [] OTHER -> state]

\* The client is a generation service: seen by its callers, the sockets, the
\* queues, the reader, the exit callback and the close task come down to outputs
\* given once each, none after an abort, and errors only of a client that is down
\* (engine.py:169-207).
Generation == INSTANCE GenerationService WITH
    call <- [id \in Ids |-> CallState[generator[id]]],
    made <- answered,
    given <- consumed,
    ended <- final,
    aborted <- {id \in Ids : aborter[id] # "new"},
    gone <- engine = "stopped",
    down <- error \/ closing

ImplementsGeneration == Generation!GenerationSpec

\* close() comes to its end even when the engine hangs, while it loads or later,
\* and when SHUTDOWN cannot be sent; and then no generate() and no abort() is
\* left waiting (engine.py:209-236).
CloseCompletes ==
    \A id \in Ids : (closer = "created") ~>
        /\ closer = "done"
        /\ generator[id] \in GeneratorEnds \cup {"new"}
        /\ aborter[id] # "sending"

\* With an engine that does not hang, start() returns or raises and every
\* request that is asked for comes to its end.
EveryCallEnds ==
    EngineKeepsGoing =>
        /\ (starter = "waiting") ~> (starter \in {"returned", "raised"})
        /\ \A id \in Ids : (generator[id] = "sending") ~> (generator[id] \in GeneratorEnds)
=============================================================================
