---------------------------- MODULE EngineService ----------------------------
(***************************************************************************)
(* The engine process as its parent sees it through the two sockets, from  *)
(* what csrc/engine/protocol.h says: it loads and says it is ready, takes  *)
(* ADD, ABORT and SHUTDOWN messages in order, and answers every added      *)
(* request with outputs of which exactly the last is final, unless the     *)
(* request is aborted first.  It may die at any time.                      *)
(***************************************************************************)
EXTENDS Integers, SequencesExt

CONSTANTS
    Ids,
    MaxOutputs  \* outputs per request: OutputLens bounds them in the engine

ASSUME MaxOutputsAssumption == MaxOutputs \in Nat \ {0}

VARIABLES
    engine,    \* "loading", "serving" or "stopped"
    inbox,     \* messages to the engine, oldest first
    outbox,    \* messages from the engine, oldest first
    working,   \* the requests it works on
    answered   \* how many outputs it has produced for each id

serviceVars == <<engine, inbox, outbox, working, answered>>

Add(id) == [type |-> "kAdd", id |-> id]
Abort(id) == [type |-> "kAbort", id |-> id]
Shutdown == [type |-> "kShutdown"]
Inputs == {Add(id) : id \in Ids} \cup {Abort(id) : id \in Ids} \cup {Shutdown}

Ready == [type |-> "kReady"]
Outputs(some) == [type |-> "kOutputs", outputs |-> some]
Answers == [id : Ids, final : BOOLEAN]

ServiceInit ==
    /\ engine = "loading"
    /\ inbox = <<>> /\ outbox = <<>>
    /\ working = {}
    /\ answered = [id \in Ids |-> 0]

BecomeReady ==
    /\ engine = "loading"
    /\ engine' = "serving"
    /\ outbox' = Append(outbox, Ready)
    /\ UNCHANGED <<inbox, working, answered>>

TakeAdd(id) ==
    /\ working' = working \cup {id}
    /\ inbox' = Tail(inbox)
    /\ UNCHANGED <<engine, outbox, answered>>

\* An id the engine does not know is no error: its ADD was withdrawn, or it has
\* been answered meanwhile.
TakeAbort(id) ==
    /\ working' = working \ {id}
    /\ inbox' = Tail(inbox)
    /\ UNCHANGED <<engine, outbox, answered>>

\* What is left of the requests and the messages is dropped; what was sent is
\* still delivered.
TakeShutdown ==
    /\ engine' = "stopped"
    /\ inbox' = <<>>
    /\ working' = {}
    /\ UNCHANGED <<outbox, answered>>

TakeInput ==
    /\ engine = "serving"
    /\ inbox # <<>>
    /\ \/ \E id \in Ids : Head(inbox) = Add(id) /\ TakeAdd(id)
       \/ \E id \in Ids : Head(inbox) = Abort(id) /\ TakeAbort(id)
       \/ Head(inbox) = Shutdown /\ TakeShutdown

\* One step's outputs, for some of the requests; those in "last" are finished.
Answer(some, last) ==
    /\ engine = "serving"
    /\ some # {} /\ some \subseteq working /\ last \subseteq some
    /\ \A id \in some : answered[id] + 1 < MaxOutputs \/ id \in last
    /\ outbox' = Append(outbox, Outputs({[id |-> id, final |-> id \in last] : id \in some}))
    /\ working' = working \ last
    /\ answered' = [id \in Ids |-> IF id \in some THEN answered[id] + 1 ELSE answered[id]]
    /\ UNCHANGED <<engine, inbox>>

\* The process ends by an error or is killed; of what it sent any part may still
\* be on its way.
Die ==
    /\ engine # "stopped"
    /\ engine' = "stopped"
    /\ inbox' = <<>>
    /\ working' = {}
    /\ \E n \in 0 .. Len(outbox) : outbox' = SubSeq(outbox, 1, n)
    /\ UNCHANGED answered

ServiceStep ==
    \/ BecomeReady
    \/ TakeInput
    \/ \E some \in SUBSET working : \E last \in SUBSET some : Answer(some, last)

\* The other end of the sockets.
Submit(message) ==
    /\ engine # "stopped"
    /\ inbox' = Append(inbox, message)
    /\ UNCHANGED <<engine, outbox, working, answered>>

Collect ==
    /\ outbox # <<>>
    /\ outbox' = Tail(outbox)
    /\ UNCHANGED <<engine, inbox, working, answered>>

ServiceNext ==
    \/ ServiceStep
    \/ Die
    \/ \E message \in Inputs : Submit(message)
    \/ Collect

ServiceSpec == ServiceInit /\ [][ServiceNext]_serviceVars
=============================================================================
