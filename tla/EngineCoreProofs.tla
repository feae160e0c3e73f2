-------------------------- MODULE EngineCoreProofs --------------------------
(***************************************************************************)
(* The engine process runs the scheduler as the scheduler's own            *)
(* specification has it: whatever the parent sends and whenever the        *)
(* process dies, every step of the engine is one step of the scheduler or  *)
(* none.  So what SchedulerProofs says of SchedSpec holds of the engine    *)
(* too.                                                                    *)
(***************************************************************************)
EXTENDS EngineCore, SchedulerProofs

-----------------------------------------------------------------------------
(* The inductive invariant: the scheduler's, and what relates the messages *)
(* still to be read, the requests and the outputs sent for them.            *)

Messages == {Add(id) : id \in Ids} \cup {Abort(id) : id \in Ids} \cup {Shutdown}

\* Nothing of the id has reached the scheduler yet.
Unseen(id) == id \notin Live /\ answered[id] = 0 /\ id \notin Answered

\* The ADD of an id comes once, and before anything the engine does for it.
AddedOnce ==
    /\ \A id \in Ids \ asked : Unseen(id)
    /\ \A id \in Ids, i \in 1 .. Len(inbox) : inbox[i] = Add(id) =>
          /\ id \in asked /\ Unseen(id)
          /\ \A j \in 1 .. Len(inbox) : inbox[j] = Add(id) => i = j

\* A live request has been given fewer tokens than it asked for.
WithinOutputLens ==
    \A id \in Live :
        /\ request[id].maxOutput \in OutputLens
        /\ request[id].numTokens - request[id].numPrompt < request[id].maxOutput

EngineInv ==
    /\ SchedInv
    /\ inbox \in Seq(Messages)
    /\ asked \subseteq Ids
    /\ answered \in [Ids -> Nat]
    /\ AddedOnce
    /\ OneOutputPerToken
    /\ WithinOutputLens

-----------------------------------------------------------------------------
(* The engine as a scheduler.                                               *)

\* A message read between two steps is one call of the scheduler or none.
LEMMA ProcessInputIsScheduler ==
    ProcessInput => [SchedNext]_schedVars
<1> SUFFICES ASSUME ProcessInput PROVE [SchedNext]_schedVars
    OBVIOUS
<1>1. ASSUME NEW id \in Ids, ReceiveAdd(id) PROVE SchedNext
    <2>1. PICK promptLen \in PromptLens, outputLen \in OutputLens :
              AddRequest(id, promptLen, outputLen)
        BY <1>1 DEF ReceiveAdd
    <2> QED BY <2>1 DEF SchedNext
<1>2. ASSUME NEW id \in Ids, ReceiveAbort(id) PROVE SchedNext \/ UNCHANGED schedVars
    BY <1>2 DEF ReceiveAbort, SchedNext
<1>3. ReceiveShutdown => UNCHANGED schedVars
    BY DEF ReceiveShutdown
<1> QED BY <1>1, <1>2, <1>3 DEF ProcessInput

\* Every step of the engine process, of its parent, and its death.
LEMMA EngineNextIsScheduler ==
    [EngineNext]_engineVars => [SchedNext]_schedVars
<1> SUFFICES ASSUME [EngineNext]_engineVars PROVE [SchedNext]_schedVars
    OBVIOUS
<1>1. CASE BecomeReady
    BY <1>1 DEF BecomeReady
<1>2. CASE ProcessInput
    BY <1>2, ProcessInputIsScheduler
<1>3. CASE StartStep
    BY <1>3 DEF StartStep, SchedNext, Step
<1>4. CASE RunStep
    BY <1>4 DEF RunStep, SchedNext, Step
<1>5. CASE FinishStep
    BY <1>5 DEF FinishStep, SchedNext, Step
<1>6. CASE Die
    BY <1>6 DEF Die
<1>7. CASE \E id \in Ids : AskFor(id) \/ Withdraw(id)
    BY <1>7 DEF AskFor, Withdraw, Submit
<1>8. CASE ShutDown
    BY <1>8 DEF ShutDown, Submit
<1>9. CASE Collect
    BY <1>9 DEF Collect
<1>10. CASE UNCHANGED engineVars
    BY <1>10 DEF engineVars
<1> QED
    BY <1>1, <1>2, <1>3, <1>4, <1>5, <1>6, <1>7, <1>8, <1>9, <1>10
    DEF EngineNext, EngineStep

\* The engine process implements the scheduler's specification: the loop of
\* EngineCore::run calls add_request, abort_requests, schedule and update in no
\* other way than SchedSpec has them called.
THEOREM EngineImplementsScheduler == EngineSpec => SchedSpec
<1>1. EngineInit => SchedInit
    BY DEF EngineInit
<1> QED BY <1>1, EngineNextIsScheduler, PTL DEF EngineSpec, SchedSpec

-----------------------------------------------------------------------------
(* The invariant.                                                           *)

\* The part of the scheduler's state that the engine's invariant speaks of.
SameRequests ==
    /\ Live' = Live
    /\ outputs' = outputs
    /\ \A id \in Live :
          /\ request'[id].numTokens = request[id].numTokens
          /\ request'[id].numPrompt = request[id].numPrompt
          /\ request'[id].maxOutput = request[id].maxOutput

\* A loop iteration that rewrites one live request, and not its tokens.
LEMMA OneRequestRewritten ==
    ASSUME CoreInv, NEW c \in Live, NEW r,
           request' = [request EXCEPT ![c] = r],
           r.status \in Statuses,
           r.numTokens = request[c].numTokens,
           r.numPrompt = request[c].numPrompt,
           r.maxOutput = request[c].maxOutput,
           outputs' = outputs
    PROVE  SameRequests
<1>1. request \in [Ids -> Requests \cup {NoRequest}] /\ c \in Ids
  BY DEF CoreInv, Live
<1>2. r # NoRequest
  BY DEF NoRequest, Statuses
<1>3. Live' = Live
  BY <1>1, <1>2 DEF Live
<1> QED BY <1>1, <1>3 DEF SameRequests

\* Everything schedule() does, and the model, leaves the tokens alone.
LEMMA ScheduleKeepsRequests ==
    ASSUME SchedInv,
           \/ BeginSchedule \/ ScheduleRunning \/ PreemptTail \/ EndPass1
           \/ AdmitNext \/ EndPass2 \/ RunModel \/ SkipChunk
    PROVE  SameRequests
<1>1. CoreInv /\ LocalTypeOK
  BY DEF SchedInv
<1>2. ASSUME UNCHANGED <<request, outputs>> PROVE SameRequests
  BY <1>2 DEF SameRequests, Live
<1>3. CASE ScheduleRunning
  <2>1. Current \in Live /\ request[Current] \in Requests
    BY <1>1, <1>3, CurrentRequest, LiveRequests DEF ScheduleRunning
  <2> DEFINE r == [request[Current] EXCEPT !.numComputed = CurrentSlots]
  <2>2. request' = [request EXCEPT ![Current] = r] /\ outputs' = outputs
    BY <1>3 DEF ScheduleRunning
  <2>3. /\ r.status \in Statuses
        /\ r.numTokens = request[Current].numTokens
        /\ r.numPrompt = request[Current].numPrompt
        /\ r.maxOutput = request[Current].maxOutput
    BY <2>1 DEF Requests
  <2> HIDE DEF r
  <2> QED BY <1>1, <2>1, <2>2, <2>3, OneRequestRewritten
<1>4. CASE PreemptTail
  <2> DEFINE victim == Last(running)
             r == Suspended(request[victim])
  <2>1. victim \in Live /\ request[victim] \in Requests
    <3>1. running \in Seq(Ids) /\ running # <<>>
      BY <1>1, <1>4, CurrentRequest DEF CoreInv, PreemptTail
    <3>2. victim \in ToSet(running) /\ victim \in Ids
      <4>1. victim \in ToSet(running) /\ victim = running[Len(running)]
        BY <3>1, DropLast
      <4> QED BY <3>1, <4>1
    <3> QED BY <3>2, <1>1, LiveRequests
  <2>2. request' = [request EXCEPT ![victim] = r] /\ outputs' = outputs
    BY <1>4 DEF PreemptTail
  <2>3. /\ r.status \in Statuses
        /\ r.numTokens = request[victim].numTokens
        /\ r.numPrompt = request[victim].numPrompt
        /\ r.maxOutput = request[victim].maxOutput
    BY <2>1 DEF Requests, Suspended, Statuses
  <2> HIDE DEF r, victim
  <2> QED BY <1>1, <2>1, <2>2, <2>3, OneRequestRewritten
<1>5. CASE AdmitNext
  <2> DEFINE r == Admitted(request[Candidate], NumToAdmit(Candidate))
  <2>1. Candidate \in Live /\ request[Candidate] \in Requests
    BY <1>1, <1>5, CandidateRequest, LiveRequests DEF AdmitNext
  <2>2. request' = [request EXCEPT ![Candidate] = r] /\ outputs' = outputs
    BY <1>5 DEF AdmitNext
  <2>3. /\ r.status \in Statuses
        /\ r.numTokens = request[Candidate].numTokens
        /\ r.numPrompt = request[Candidate].numPrompt
        /\ r.maxOutput = request[Candidate].maxOutput
    BY <2>1 DEF Requests, Admitted, Statuses
  <2> HIDE DEF r
  <2> QED BY <1>1, <2>1, <2>2, <2>3, OneRequestRewritten
<1> QED
  BY <1>2, <1>3, <1>4, <1>5
  DEF BeginSchedule, EndPass1, EndPass2, RunModel, SkipChunk

\* One iteration of update(): it answers a request not yet answered in this
\* step, and lets it live on only within what it asked for.
LEMMA UpdateTokenAnswers ==
    ASSUME SchedInv, NEW stop \in BOOLEAN, UpdateToken(stop)
    PROVE  LET id == Head(scheduled).id
           IN  /\ id \in Live /\ id \notin Answered
               /\ Answered' = Answered \cup {id}
               /\ Live' \cup {id} = Live
               /\ \A other \in Ids \ {id} : request'[other] = request[other]
               /\ id \in Live' =>
                     /\ request'[id].numTokens = request[id].numTokens + 1
                     /\ request'[id].numPrompt = request[id].numPrompt
                     /\ request'[id].maxOutput = request[id].maxOutput
                     /\ request'[id].numTokens - request'[id].numPrompt
                           < request'[id].maxOutput
<1> DEFINE id     == Head(scheduled).id
           r      == [request[id] EXCEPT !.numTokens = @ + 1]
           reason == FinishReason(r, stop)
           o      == [id |-> id, reason |-> reason]
<1>1. /\ CoreInv /\ LocalTypeOK /\ OutputsFresh
      /\ phase = "update" /\ scheduled # <<>> /\ Head(scheduled).sample
      /\ outputs' = Append(outputs, o)
      /\ KeepOrRemove(id, r, reason)
  BY DEF SchedInv, UpdateToken
<1>2. /\ id \in Ids /\ id \in Live /\ RequestSane(request[id])
  BY <1>1, SampledRequest
<1>3. /\ reason = "kRunning" <=> id \in Live'
      /\ Live' \cup {id} = Live
      /\ \A other \in Ids \ {id} : request'[other] = request[other]
  BY UpdateTokenCore
<1>4. id \notin Answered
  <2>1. Head(scheduled) = scheduled[1] /\ 1 \in 1 .. Len(scheduled)
    BY <1>1 DEF LocalTypeOK
  <2>2. DOMAIN outputs = 1 .. Len(outputs)
    BY <1>1 DEF LocalTypeOK
  <2> QED BY <1>1, <2>1, <2>2 DEF OutputsFresh, Answered
<1>5. Answered' = Answered \cup {id}
  <2> HIDE DEF id, reason
  <2>1. /\ DOMAIN outputs = 1 .. Len(outputs) /\ Len(outputs) \in Nat
        /\ DOMAIN outputs' = 1 .. (Len(outputs) + 1)
        /\ \A i \in 1 .. Len(outputs) : outputs'[i] = outputs[i]
        /\ outputs'[Len(outputs) + 1] = o
    <3> HIDE DEF o
    <3> QED BY <1>1 DEF LocalTypeOK
  <2>2. o.id = id
    OBVIOUS
  <2> HIDE DEF o
  <2> QED BY <2>1, <2>2 DEF Answered
<1>6. ASSUME id \in Live'
      PROVE  /\ request'[id].numTokens = request[id].numTokens + 1
             /\ request'[id].numPrompt = request[id].numPrompt
             /\ request'[id].maxOutput = request[id].maxOutput
             /\ request'[id].numTokens - request'[id].numPrompt
                   < request'[id].maxOutput
  <2> HIDE DEF id
  <2>1. reason = "kRunning" /\ request' = [request EXCEPT ![id] = r]
    BY <1>1, <1>3, <1>6 DEF KeepOrRemove
  <2>2. request[id] \in Requests /\ request \in [Ids -> Requests \cup {NoRequest}]
    BY <1>1, <1>2, LiveRequests DEF CoreInv
  <2>3. ~ (r.numTokens - r.numPrompt >= r.maxOutput)
    BY <2>1 DEF FinishReason
  <2>4. /\ r.numTokens = request[id].numTokens + 1
        /\ r.numPrompt = request[id].numPrompt /\ r.numPrompt \in Nat
        /\ r.maxOutput = request[id].maxOutput /\ r.maxOutput \in Nat
        /\ r.numTokens \in Nat
    BY <2>2 DEF Requests
  <2>5. request'[id] = r
    BY <2>1, <2>2, <1>2
  <2> HIDE DEF r
  <2> QED BY <2>3, <2>4, <2>5
<1> QED BY <1>2, <1>3, <1>4, <1>5, <1>6

\* A step of the engine that keeps requests, answers and messages keeps what
\* EngineInv adds to the scheduler's invariant.
LEMMA EngineInvKept ==
    ASSUME EngineInv, SameRequests, SchedInv',
           UNCHANGED <<inbox, clientVars, historyVars>>
    PROVE  EngineInv'
<1>1. Answered' = Answered
  BY DEF SameRequests, Answered
<1>2. UNCHANGED <<inbox, asked, answered>> /\ Live' = Live
  BY DEF clientVars, historyVars, SameRequests
<1>3. AddedOnce'
  BY <1>1, <1>2 DEF EngineInv, AddedOnce, Unseen
<1>4. OneOutputPerToken'
  BY <1>1, <1>2 DEF EngineInv, OneOutputPerToken, Unsent, SameRequests
<1>5. WithinOutputLens'
  BY <1>1, <1>2 DEF EngineInv, WithinOutputLens, SameRequests
<1> QED BY <1>1, <1>2, <1>3, <1>4, <1>5 DEF EngineInv, Messages

\* The messages that stay after the first is read.
LEMMA InboxRead ==
    ASSUME inbox \in Seq(Messages), inbox # <<>>, inbox' = Tail(inbox), AddedOnce
    PROVE  /\ inbox' \in Seq(Messages)
           /\ Head(inbox) \in Messages
           /\ \A i \in 1 .. Len(inbox') : i + 1 \in 1 .. Len(inbox) /\ inbox'[i] = inbox[i + 1]
           /\ \A id \in Ids : Head(inbox) = Add(id) =>
                 /\ id \in asked /\ Unseen(id)
                 /\ \A i \in 1 .. Len(inbox') : inbox'[i] # Add(id)
<1>1. /\ Len(inbox) \in Nat /\ 1 \in 1 .. Len(inbox) /\ Head(inbox) = inbox[1]
      /\ inbox' \in Seq(Messages) /\ Len(inbox') = Len(inbox) - 1
      /\ \A i \in 1 .. (Len(inbox) - 1) : inbox'[i] = inbox[i + 1]
      /\ Head(inbox) \in Messages
  OBVIOUS
<1>2. \A i \in 1 .. Len(inbox') : i + 1 \in 1 .. Len(inbox) /\ inbox'[i] = inbox[i + 1] /\ i + 1 # 1
  BY <1>1
<1> QED BY <1>1, <1>2 DEF AddedOnce

\* An ADD is read.
LEMMA ReceiveAddInv ==
    ASSUME EngineInv, SchedInv', NEW id \in Ids, ReceiveAdd(id), ProcessInput
    PROVE  EngineInv'
<1>1. PICK promptLen \in PromptLens, outputLen \in OutputLens :
          AddRequest(id, promptLen, outputLen)
  BY DEF ReceiveAdd
<1> DEFINE r == [status |-> "kWaiting", numPrompt |-> promptLen, numPrefill |-> promptLen,
                 numComputed |-> 0, numTokens |-> promptLen, maxOutput |-> outputLen]
<1>2. request' = [request EXCEPT ![id] = r] /\ outputs' = outputs
  BY <1>1 DEF AddRequest
<1>3. /\ inbox \in Seq(Messages) /\ inbox # <<>> /\ AddedOnce
      /\ inbox' = Tail(inbox) /\ Head(inbox) = Add(id)
      /\ UNCHANGED <<asked, answered>>
  BY DEF EngineInv, ProcessInput, ReceiveAdd, clientVars, historyVars
<1>4. /\ inbox' \in Seq(Messages)
      /\ \A i \in 1 .. Len(inbox') : i + 1 \in 1 .. Len(inbox) /\ inbox'[i] = inbox[i + 1]
      /\ id \in asked /\ Unseen(id)
      /\ \A i \in 1 .. Len(inbox') : inbox'[i] # Add(id)
  BY <1>3, InboxRead
<1>5. /\ request'[id] = r /\ Live' = Live \cup {id}
      /\ \A other \in Ids \ {id} : request'[other] = request[other]
      /\ Answered' = Answered
  <2>1. request \in [Ids -> Requests \cup {NoRequest}]
    BY DEF EngineInv, SchedInv, CoreInv
  <2>2. r # NoRequest
    BY DEF NoRequest
  <2> HIDE DEF r
  <2> QED BY <1>2, <2>1, <2>2 DEF Live, Answered
<1>6. \A other \in Ids \ {id} : Unseen(other) => Unseen(other)'
  BY <1>3, <1>5 DEF Unseen
<1>7. AddedOnce'
  <2>1. ASSUME NEW other \in Ids \ asked' PROVE Unseen(other)'
    BY <1>3, <1>4, <1>6, <2>1 DEF AddedOnce
  <2>2. ASSUME NEW other \in Ids, NEW i \in 1 .. Len(inbox'), inbox'[i] = Add(other)
        PROVE  /\ other \in asked' /\ Unseen(other)'
               /\ \A j \in 1 .. Len(inbox') : inbox'[j] = Add(other) => i = j
    <3>1. other # id
      BY <1>4, <2>2
    <3>2. \A j \in 1 .. Len(inbox') : inbox'[j] = Add(other) => i + 1 = j + 1
      BY <1>3, <1>4, <2>2 DEF AddedOnce
    <3>3. \A j \in 1 .. Len(inbox') : inbox'[j] = Add(other) => i = j
      BY <1>4, <3>2
    <3>4. other \in asked /\ Unseen(other)
      BY <1>3, <1>4, <2>2 DEF AddedOnce
    <3> QED BY <3>1, <3>3, <3>4, <1>3, <1>6
  <2> QED BY <2>1, <2>2 DEF AddedOnce, Add, Unseen, Live, Answered
<1>8. OneOutputPerToken'
  <2>1. ASSUME NEW other \in Live'
        PROVE  request'[other].numTokens - request'[other].numPrompt
                  = answered'[other] + Unsent(other)'
    <3>1. CASE other = id
      <4>1. promptLen \in Nat
        BY PromptLensAssumption, MaxModelLenAssumption
      <4>2. answered[id] = 0 /\ id \notin Answered
        BY <1>4 DEF Unseen
      <4> QED BY <3>1, <4>1, <4>2, <1>3, <1>5 DEF Unsent
    <3>2. CASE other # id
      <4>1. other \in Live /\ other \in Ids
        BY <2>1, <3>2, <1>5 DEF Live
      <4> QED BY <3>2, <4>1, <1>3, <1>5 DEF EngineInv, OneOutputPerToken, Unsent
    <3> QED BY <3>1, <3>2
  <2> QED BY <2>1 DEF OneOutputPerToken, Unsent, Answered, Live
<1>9. WithinOutputLens'
  <2>1. ASSUME NEW other \in Live'
        PROVE  /\ request'[other].maxOutput \in OutputLens
               /\ request'[other].numTokens - request'[other].numPrompt
                     < request'[other].maxOutput
    <3>1. CASE other = id
      <4>1. promptLen \in Nat /\ outputLen \in Nat /\ 0 < outputLen
        BY PromptLensAssumption, MaxModelLenAssumption, OutputLensAssumption
      <4> QED BY <3>1, <4>1, <1>5
    <3>2. CASE other # id
      <4>1. other \in Live /\ other \in Ids
        BY <2>1, <3>2, <1>5 DEF Live
      <4> QED BY <3>2, <4>1, <1>5 DEF EngineInv, WithinOutputLens
    <3> QED BY <3>1, <3>2
  <2> QED BY <2>1 DEF WithinOutputLens, Live
<1> QED BY <1>3, <1>4, <1>7, <1>8, <1>9 DEF EngineInv, Messages

\* Messages are read, or dropped, and nothing is added to the requests.
LEMMA FewerRequestsInv ==
    ASSUME EngineInv, SchedInv',
           inbox' \in Seq(Messages),
           \A i \in 1 .. Len(inbox') : i + 1 \in 1 .. Len(inbox) /\ inbox'[i] = inbox[i + 1],
           UNCHANGED <<asked, answered, outputs>>,
           Live' \subseteq Live,
           \A id \in Live' : request'[id] = request[id]
    PROVE  EngineInv'
<1>1. Answered' = Answered
  BY DEF Answered
<1>2. \A id \in Ids : Unseen(id) => Unseen(id)'
  BY <1>1 DEF Unseen
<1>3. AddedOnce'
  <2>1. ASSUME NEW other \in Ids \ asked' PROVE Unseen(other)'
    BY <1>2 DEF EngineInv, AddedOnce
  <2>2. ASSUME NEW other \in Ids, NEW i \in 1 .. Len(inbox'), inbox'[i] = Add(other)
        PROVE  /\ other \in asked' /\ Unseen(other)'
               /\ \A j \in 1 .. Len(inbox') : inbox'[j] = Add(other) => i = j
    <3>1. \A j \in 1 .. Len(inbox') : inbox'[j] = Add(other) => i + 1 = j + 1
      BY <2>2 DEF EngineInv, AddedOnce
    <3>2. \A j \in 1 .. Len(inbox') : inbox'[j] = Add(other) => i = j
      BY <3>1
    <3>3. other \in asked /\ Unseen(other)
      BY <2>2 DEF EngineInv, AddedOnce
    <3> QED BY <3>2, <3>3, <1>2
  <2> QED BY <2>1, <2>2 DEF AddedOnce, Add, Unseen, Live, Answered
<1>4. OneOutputPerToken'
  BY <1>1 DEF EngineInv, OneOutputPerToken, Unsent
<1>5. WithinOutputLens'
  BY DEF EngineInv, WithinOutputLens
<1> QED BY <1>3, <1>4, <1>5 DEF EngineInv, Messages

LEMMA ProcessInputInv ==
    ASSUME EngineInv, SchedInv', ProcessInput
    PROVE  EngineInv'
<1>1. ASSUME NEW id \in Ids, ReceiveAdd(id) PROVE EngineInv'
  BY <1>1, ReceiveAddInv
<1>2. UNCHANGED <<asked, answered>>
  BY DEF ProcessInput, clientVars, historyVars
<1>3. inbox' = Tail(inbox) =>
        /\ inbox' \in Seq(Messages)
        /\ \A i \in 1 .. Len(inbox') : i + 1 \in 1 .. Len(inbox) /\ inbox'[i] = inbox[i + 1]
  <2>1. inbox \in Seq(Messages) /\ inbox # <<>> /\ AddedOnce
    BY DEF EngineInv, ProcessInput
  <2> QED BY <2>1, InboxRead
<1>4. ASSUME NEW id \in Ids, ReceiveAbort(id) PROVE EngineInv'
  <2>1. inbox' = Tail(inbox)
    BY <1>4 DEF ProcessInput, ReceiveAbort
  <2>2. /\ outputs' = outputs
        /\ request' = request \/ request' = [request EXCEPT ![id] = NoRequest]
    BY <1>4 DEF ReceiveAbort, AbortRequest, RemoveRequest, schedVars
  <2>3. Live' \subseteq Live /\ \A other \in Live' : request'[other] = request[other]
    <3>1. request \in [Ids -> Requests \cup {NoRequest}]
      BY DEF EngineInv, SchedInv, CoreInv
    <3> QED BY <2>2, <3>1 DEF Live
  <2> QED BY <1>2, <1>3, <2>1, <2>2, <2>3, FewerRequestsInv
<1>5. ASSUME ReceiveShutdown PROVE EngineInv'
  <2>1. inbox' = <<>> /\ UNCHANGED <<request, outputs>>
    BY <1>5 DEF ProcessInput, ReceiveShutdown, schedVars
  <2>2. inbox' \in Seq(Messages) /\ 1 .. Len(inbox') = {}
    BY <2>1
  <2>3. Live' = Live
    BY <2>1 DEF Live
  <2> QED BY <1>2, <2>1, <2>2, <2>3, FewerRequestsInv
<1> QED BY <1>1, <1>4, <1>5 DEF ProcessInput

\* A message is sent, the first of its kind if it is an ADD.
LEMMA SubmitInv ==
    ASSUME EngineInv, SchedInv', NEW message \in Messages, Submit(message),
           asked' \subseteq Ids, asked \subseteq asked',
           \A id \in Ids : message = Add(id) => id \notin asked /\ id \in asked'
    PROVE  EngineInv'
<1>1. /\ inbox \in Seq(Messages) /\ Len(inbox) \in Nat
      /\ inbox' = Append(inbox, message)
      /\ UNCHANGED <<request, outputs, answered>>
  BY DEF EngineInv, Submit, schedVars, historyVars
<1>2. /\ inbox' \in Seq(Messages) /\ Len(inbox') = Len(inbox) + 1
      /\ \A i \in 1 .. Len(inbox) : inbox'[i] = inbox[i]
      /\ inbox'[Len(inbox) + 1] = message
  BY <1>1
<1>3. Live' = Live /\ Answered' = Answered
  BY <1>1 DEF Live, Answered
<1>4. AddedOnce'
  <2>1. ASSUME NEW other \in Ids \ asked' PROVE Unseen(other)'
    BY <1>1, <1>3 DEF EngineInv, AddedOnce, Unseen
  <2>2. ASSUME NEW other \in Ids, NEW i \in 1 .. Len(inbox'), inbox'[i] = Add(other)
        PROVE  /\ other \in asked' /\ Unseen(other)'
               /\ \A j \in 1 .. Len(inbox') : inbox'[j] = Add(other) => i = j
    <3>1. CASE i = Len(inbox) + 1
      <4>1. message = Add(other) /\ other \notin asked /\ other \in asked'
        BY <2>2, <3>1, <1>2
      <4>2. \A j \in 1 .. Len(inbox) : inbox[j] # Add(other)
        BY <4>1 DEF EngineInv, AddedOnce
      <4>3. Unseen(other)
        BY <4>1 DEF EngineInv, AddedOnce
      <4>4. \A j \in 1 .. Len(inbox') : j # i => j \in 1 .. Len(inbox) /\ inbox'[j] = inbox[j]
        BY <3>1, <1>1, <1>2
      <4> QED BY <4>1, <4>2, <4>3, <4>4, <1>1, <1>3 DEF Unseen
    <3>2. CASE i # Len(inbox) + 1
      <4>1. i \in 1 .. Len(inbox) /\ inbox[i] = Add(other)
        BY <2>2, <3>2, <1>1, <1>2
      <4>2. /\ other \in asked /\ Unseen(other)
            /\ \A j \in 1 .. Len(inbox) : inbox[j] = Add(other) => i = j
        BY <4>1 DEF EngineInv, AddedOnce
      <4>3. message # Add(other)
        BY <4>2
      <4>4. \A j \in 1 .. Len(inbox') :
               inbox'[j] = Add(other) => j \in 1 .. Len(inbox) /\ inbox'[j] = inbox[j]
        BY <4>3, <1>1, <1>2
      <4> QED BY <4>2, <4>4, <1>1, <1>3 DEF Unseen
    <3> QED BY <3>1, <3>2
  <2> QED BY <2>1, <2>2 DEF AddedOnce, Add, Unseen, Live, Answered
<1>5. OneOutputPerToken'
  BY <1>1, <1>3 DEF EngineInv, OneOutputPerToken, Unsent
<1>6. WithinOutputLens'
  BY <1>1, <1>3 DEF EngineInv, WithinOutputLens
<1> QED BY <1>1, <1>2, <1>4, <1>5, <1>6 DEF EngineInv, Messages

LEMMA UpdateTokenEngineInv ==
    ASSUME EngineInv, SchedInv', NEW stop \in BOOLEAN, UpdateToken(stop),
           UNCHANGED <<inbox, clientVars, historyVars>>
    PROVE  EngineInv'
<1> DEFINE id == Head(scheduled).id
<1>1. /\ id \in Live /\ id \notin Answered
      /\ Answered' = Answered \cup {id}
      /\ Live' \cup {id} = Live
      /\ \A other \in Ids \ {id} : request'[other] = request[other]
      /\ id \in Live' =>
            /\ request'[id].numTokens = request[id].numTokens + 1
            /\ request'[id].numPrompt = request[id].numPrompt
            /\ request'[id].maxOutput = request[id].maxOutput
            /\ request'[id].numTokens - request'[id].numPrompt
                  < request'[id].maxOutput
  BY UpdateTokenAnswers DEF EngineInv
<1> HIDE DEF id
<1>2. UNCHANGED <<inbox, asked, answered>> /\ id \in Ids /\ Live \subseteq Ids
  BY <1>1 DEF clientVars, historyVars, Live
<1>3. /\ answered[id] \in Nat
      /\ request[id].numTokens \in Nat /\ request[id].numPrompt \in Nat
  <2>1. request[id] \in Requests
    BY <1>1, <1>2, LiveRequests DEF EngineInv, SchedInv
  <2> QED BY <2>1, <1>2 DEF EngineInv, Requests
<1>4. \A other \in Ids : Unseen(other) => other # id /\ Unseen(other)'
  BY <1>1, <1>2 DEF Unseen
<1>5. AddedOnce'
  BY <1>2, <1>4 DEF EngineInv, AddedOnce, Add
<1>6. OneOutputPerToken'
  <2>1. ASSUME NEW other \in Live'
        PROVE  request'[other].numTokens - request'[other].numPrompt
                  = answered'[other] + Unsent(other)'
    <3>1. other \in Live /\ other \in Ids
      BY <2>1, <1>1, <1>2
    <3>2. request[other].numTokens - request[other].numPrompt
             = answered[other] + Unsent(other)
      BY <3>1 DEF EngineInv, OneOutputPerToken
    <3>3. CASE other = id
      BY <2>1, <3>2, <3>3, <1>1, <1>2, <1>3 DEF Unsent
    <3>4. CASE other # id
      BY <3>1, <3>2, <3>4, <1>1, <1>2 DEF Unsent
    <3> QED BY <3>3, <3>4
  <2> QED BY <2>1 DEF OneOutputPerToken, Unsent, Answered, Live
<1>7. WithinOutputLens'
  <2>1. ASSUME NEW other \in Live'
        PROVE  /\ request'[other].maxOutput \in OutputLens
               /\ request'[other].numTokens - request'[other].numPrompt
                     < request'[other].maxOutput
    BY <2>1, <1>1, <1>2 DEF EngineInv, WithinOutputLens
  <2> QED BY <2>1 DEF WithinOutputLens, Live
<1> QED BY <1>2, <1>5, <1>6, <1>7 DEF EngineInv, Messages

\* The outputs are sent: what was unsent counts as answered.
LEMMA FinishStepInv ==
    ASSUME EngineInv, SchedInv', FinishStep
    PROVE  EngineInv'
<1>1. /\ UNCHANGED <<request, inbox, asked>> /\ outputs' = <<>>
      /\ Live' = Live /\ Answered' = {}
  BY DEF FinishStep, EndUpdate, clientVars, Live, Answered
<1>2. \A id \in Ids :
         /\ answered'[id] \in Nat
         /\ answered'[id] = answered[id] + Unsent(id)
         /\ Unsent(id)' = 0
  <2>1. CASE outputs = <<>>
    <3>1. answered' = answered /\ Answered = {}
      BY <2>1 DEF FinishStep, SendOutputs, historyVars, Answered
    <3> QED BY <3>1, <1>1 DEF EngineInv, Unsent
  <2>2. CASE outputs # <<>>
    <3>1. answered' = [id \in Ids |->
             IF id \in Answered THEN answered[id] + 1 ELSE answered[id]]
      BY <2>2 DEF FinishStep, SendOutputs
    <3> QED BY <3>1, <1>1 DEF EngineInv, Unsent
  <2> QED BY <2>1, <2>2
<1>3. answered' \in [Ids -> Nat]
  BY <1>2 DEF FinishStep, SendOutputs, historyVars, EngineInv
<1>4. \A id \in Ids : Unseen(id) => Unseen(id)'
  BY <1>1, <1>2 DEF Unseen, Unsent
<1>5. AddedOnce'
  BY <1>1, <1>4 DEF EngineInv, AddedOnce, Add
<1>6. OneOutputPerToken'
  <2>1. \A id \in Live : answered'[id] + Unsent(id)' = answered[id] + Unsent(id)
    BY <1>2 DEF Live, EngineInv, Unsent
  <2> QED BY <2>1, <1>1 DEF EngineInv, OneOutputPerToken
<1>7. WithinOutputLens'
  BY <1>1 DEF EngineInv, WithinOutputLens
<1> QED BY <1>1, <1>3, <1>5, <1>6, <1>7 DEF EngineInv, Messages

\* Every step of the engine process, of its parent, and its death.
LEMMA EngineInvStep == EngineInv /\ [EngineNext]_engineVars => EngineInv'
<1> SUFFICES ASSUME EngineInv, [EngineNext]_engineVars PROVE EngineInv'
  OBVIOUS
<1>1. SchedInv /\ SchedInv'
  BY EngineNextIsScheduler, SchedStep DEF EngineInv
<1>2. ASSUME UNCHANGED <<schedVars, inbox, clientVars, historyVars>> PROVE EngineInv'
  <2>1. SameRequests
    BY <1>2 DEF schedVars, SameRequests, Live
  <2> QED BY <1>1, <1>2, <2>1, EngineInvKept
<1>3. CASE ProcessInput
  BY <1>1, <1>3, ProcessInputInv
<1>4. CASE StartStep
  BY <1>1, <1>4, ScheduleKeepsRequests, EngineInvKept DEF StartStep
<1>5. CASE RunStep
  <2>1. ASSUME NEW stop \in BOOLEAN, UpdateToken(stop) PROVE EngineInv'
    BY <1>1, <1>5, <2>1, UpdateTokenEngineInv DEF RunStep
  <2>2. ASSUME \/ ScheduleRunning \/ PreemptTail \/ EndPass1
               \/ AdmitNext \/ EndPass2 \/ RunModel \/ SkipChunk
        PROVE  EngineInv'
    BY <1>1, <1>5, <2>2, ScheduleKeepsRequests, EngineInvKept DEF RunStep
  <2> QED BY <1>5, <2>1, <2>2 DEF RunStep
<1>6. CASE FinishStep
  BY <1>1, <1>6, FinishStepInv
<1>7. CASE Die
  <2>1. inbox' = <<>> /\ UNCHANGED <<request, outputs, asked, answered>>
    BY <1>7 DEF Die, schedVars, clientVars, historyVars
  <2>2. inbox' \in Seq(Messages) /\ 1 .. Len(inbox') = {} /\ Live' = Live
    BY <2>1 DEF Live
  <2> QED BY <1>1, <2>1, <2>2, FewerRequestsInv
<1>8. ASSUME NEW id \in Ids, AskFor(id) PROVE EngineInv'
  <2>1. Add(id) \in Messages /\ \A other \in Ids : Add(id) = Add(other) => other = id
    BY DEF Messages, Add
  <2>2. /\ asked' = asked \cup {id} /\ id \notin asked /\ Submit(Add(id))
        /\ asked' \subseteq Ids
    BY <1>8 DEF AskFor, EngineInv
  <2> QED BY <1>1, <2>1, <2>2, SubmitInv
<1>9. ASSUME NEW id \in Ids, Withdraw(id) PROVE EngineInv'
  <2>1. Abort(id) \in Messages /\ \A other \in Ids : Abort(id) # Add(other)
    BY DEF Messages, Add, Abort
  <2>2. asked' = asked /\ asked \subseteq Ids /\ Submit(Abort(id))
    BY <1>9 DEF Withdraw, EngineInv
  <2> QED BY <1>1, <2>1, <2>2, SubmitInv
<1>10. CASE ShutDown
  <2>1. Shutdown \in Messages
    BY DEF Messages
  <2>2. \A other \in Ids : Shutdown # Add(other)
    BY DEF Shutdown, Add
  <2>3. asked' = asked /\ asked \subseteq Ids /\ Submit(Shutdown)
    BY <1>10 DEF ShutDown, clientVars, EngineInv
  <2> QED BY <1>1, <2>1, <2>2, <2>3, SubmitInv
<1>11. CASE BecomeReady
  BY <1>2, <1>11 DEF BecomeReady
<1>12. CASE Collect
  BY <1>2, <1>12 DEF Collect
<1>13. CASE UNCHANGED engineVars
  BY <1>2, <1>13 DEF engineVars
<1> QED
  BY <1>3, <1>4, <1>5, <1>6, <1>7, <1>8, <1>9, <1>10, <1>11, <1>12, <1>13
  DEF EngineNext, EngineStep

LEMMA EngineInitInv == EngineInit => EngineInv
<1> SUFFICES ASSUME EngineInit PROVE EngineInv
  OBVIOUS
<1>1. SchedInv
  BY InitInv DEF EngineInit
<1>2. Live = {} /\ Answered = {}
  BY DEF EngineInit, SchedInit, Live, Answered
<1>3. inbox \in Seq(Messages) /\ 1 .. Len(inbox) = {}
  BY DEF EngineInit
<1> QED BY <1>1, <1>2, <1>3
  DEF EngineInit, EngineInv, AddedOnce, Unseen, OneOutputPerToken, WithinOutputLens

\* EngineInv holds in every state of every behaviour of the engine process.
THEOREM EngineInvariant == EngineSpec => []EngineInv
<1>1. EngineInit => EngineInv
  BY EngineInitInv
<1>2. EngineInv /\ [EngineNext]_engineVars => EngineInv'
  BY EngineInvStep
<1> QED BY <1>1, <1>2, PTL DEF EngineSpec

\* Each token of a live request beyond its prompt was sent, or is about to be
\* sent, in exactly one output (engine_core.cpp:92-98), for any pool, limits and
\* requests, however often it is preempted and computed again.
THEOREM EngineOneOutputPerToken == EngineSpec => []OneOutputPerToken
<1>1. EngineInv => OneOutputPerToken
  BY DEF EngineInv
<1> QED BY <1>1, EngineInvariant, PTL

-----------------------------------------------------------------------------
(* The engine process implements EngineService.                             *)

Working == IF engine = "stopped" THEN {} ELSE Live \cup Answered

LEMMA MostOutputs ==
    /\ Max(OutputLens) \in OutputLens
    /\ \A n \in OutputLens : n <= Max(OutputLens)
<1> DEFINE Longest(x) == \A y \in OutputLens : x >= y
<1>1. PICK most \in OutputLens : \A n \in OutputLens : n <= most
  BY OutputsAssumption
<1>2. Longest(most)
  BY <1>1, OutputLensAssumption
<1>3. Max(OutputLens) = CHOOSE x \in OutputLens : Longest(x)
  BY DEF Max
<1> HIDE DEF Longest
<1>4. Max(OutputLens) \in OutputLens /\ Longest(Max(OutputLens))
  BY <1>1, <1>2, <1>3
<1> QED BY <1>4, OutputLensAssumption DEF Longest

\* A message read is the same step of the service.
LEMMA ProcessInputService ==
    ASSUME EngineInv, ProcessInput
    PROVE  Service!TakeInput
<1>1. /\ engine = "serving" /\ inbox # <<>> /\ UNCHANGED <<outbox, answered>>
      /\ outputs = <<>> /\ Answered = {}
  BY DEF ProcessInput, historyVars, EngineInv, SchedInv, OutputsFresh, Answered
<1>2. request \in [Ids -> Requests \cup {NoRequest}]
  BY DEF EngineInv, SchedInv, CoreInv
<1>3. ASSUME NEW id \in Ids, ReceiveAdd(id) PROVE Service!TakeInput
  <2>1. PICK promptLen \in PromptLens, outputLen \in OutputLens :
            AddRequest(id, promptLen, outputLen)
    BY <1>3 DEF ReceiveAdd
  <2> DEFINE r == [status |-> "kWaiting", numPrompt |-> promptLen,
                   numPrefill |-> promptLen, numComputed |-> 0,
                   numTokens |-> promptLen, maxOutput |-> outputLen]
  <2>2. request' = [request EXCEPT ![id] = r] /\ outputs' = outputs /\ r # NoRequest
    BY <2>1 DEF AddRequest, NoRequest
  <2> HIDE DEF r
  <2>3. Live' = Live \cup {id} /\ Answered' = {}
    BY <1>1, <1>2, <2>2 DEF Live, Answered
  <2>4. engine' = engine /\ inbox' = Tail(inbox) /\ Head(inbox) = Add(id)
    BY <1>1, <1>3 DEF ReceiveAdd, ProcessInput
  <2>5. Head(inbox) = Service!Add(id) /\ Service!TakeAdd(id)
    BY <1>1, <2>3, <2>4 DEF Service!TakeAdd, Service!Add, Add
  <2> QED BY <1>1, <2>5 DEF Service!TakeInput
<1>4. ASSUME NEW id \in Ids, ReceiveAbort(id) PROVE Service!TakeInput
  <2>1. engine' = engine /\ inbox' = Tail(inbox) /\ Head(inbox) = Abort(id)
    BY <1>1, <1>4 DEF ReceiveAbort, ProcessInput
  <2>2. Live' = Live \ {id} /\ Answered' = {}
    <3>1. CASE id \in Live
      <4>1. request' = [request EXCEPT ![id] = NoRequest] /\ outputs' = outputs
        BY <1>4, <3>1 DEF ReceiveAbort, AbortRequest, RemoveRequest
      <4> QED BY <4>1, <1>1, <1>2 DEF Live, Answered
    <3>2. CASE id \notin Live
      <4>1. UNCHANGED <<request, outputs>>
        BY <1>4, <3>2 DEF ReceiveAbort, schedVars
      <4> QED BY <3>2, <4>1, <1>1 DEF Live, Answered
    <3> QED BY <3>1, <3>2
  <2>3. Head(inbox) = Service!Abort(id) /\ Service!TakeAbort(id)
    BY <1>1, <2>1, <2>2 DEF Service!TakeAbort, Service!Abort, Abort
  <2> QED BY <1>1, <2>3 DEF Service!TakeInput
<1>5. ASSUME ReceiveShutdown PROVE Service!TakeInput
  <2>1. engine' = "stopped" /\ inbox' = <<>> /\ Head(inbox) = Service!Shutdown
    BY <1>5 DEF ReceiveShutdown, ProcessInput, Shutdown, Service!Shutdown
  <2> QED BY <1>1, <2>1 DEF Service!TakeInput, Service!TakeShutdown
<1> QED BY <1>3, <1>4, <1>5 DEF ProcessInput

\* The outputs of a step are answers the service may give: at least one, only to
\* requests it works on, and final for one that has all it asked for.
LEMMA FinishStepService ==
    ASSUME EngineInv, FinishStep
    PROVE  [Service!ServiceNext]_Service!serviceVars
<1>1. /\ engine = "serving" /\ engine' = engine /\ UNCHANGED <<request, inbox>>
      /\ outputs' = <<>> /\ SendOutputs
      /\ Live' = Live /\ Answered' = {}
  BY DEF FinishStep, EndUpdate, Live, Answered
<1>2. CASE outputs = <<>>
  <2>1. UNCHANGED <<outbox, answered>> /\ Answered = {}
    BY <1>1, <1>2 DEF SendOutputs, historyVars, Answered
  <2> QED BY <1>1, <2>1 DEF Service!serviceVars
<1>3. CASE outputs # <<>>
  <2>1. /\ outputs \in Seq([id : Ids, reason : FinishReasons])
        /\ DOMAIN outputs = 1 .. Len(outputs)
    BY DEF EngineInv, SchedInv, LocalTypeOK
  <2>2. Answered # {} /\ Answered \subseteq Ids /\ Finished \subseteq Answered
    <3>1. 1 \in DOMAIN outputs /\ \A i \in DOMAIN outputs : outputs[i].id \in Ids
      <4> DEFINE Entries == [id : Ids, reason : FinishReasons]
      <4>1. \A e \in Entries : e.id \in Ids
        OBVIOUS
      <4>2. outputs \in Seq(Entries)
        BY <2>1
      <4> HIDE DEF Entries
      <4>3. /\ Len(outputs) \in Nat /\ Len(outputs) # 0
            /\ \A i \in 1 .. Len(outputs) : outputs[i] \in Entries
        BY <1>3, <4>2
      <4> QED BY <2>1, <4>1, <4>3
    <3>2. outputs[1].id \in Answered /\ Answered \subseteq Ids
      BY <3>1 DEF Answered
    <3>3. Finished \subseteq Answered
      BY DEF Answered, Finished
    <3> QED BY <3>2, <3>3
  <2>3. \A id \in Finished : id \notin Live
    BY DEF Finished, EngineInv, SchedInv, OutputsFresh, OneOutputPerStep
  <2>4. \A id \in Answered \ Finished : id \in Live
    BY DEF Answered, Finished, EngineInv, SchedInv, OutputsFresh, OneOutputPerStep
  <2>5. \A id \in Answered : answered[id] + 1 < Max(OutputLens) \/ id \in Finished
    <3> SUFFICES ASSUME NEW id \in Answered \ Finished
                 PROVE  answered[id] + 1 < Max(OutputLens)
      OBVIOUS
    <3>1. id \in Live /\ id \in Ids
      BY <2>2, <2>4
    <3>2. request[id].numTokens - request[id].numPrompt = answered[id] + 1
      BY <3>1 DEF EngineInv, OneOutputPerToken, Unsent
    <3>3. /\ request[id].numTokens - request[id].numPrompt < request[id].maxOutput
          /\ request[id].maxOutput \in OutputLens
      BY <3>1 DEF EngineInv, WithinOutputLens
    <3>4. request[id].maxOutput <= Max(OutputLens)
      BY <3>3, MostOutputs
    <3>5. /\ request[id].maxOutput \in Nat /\ Max(OutputLens) \in Nat
          /\ answered[id] \in Nat
      BY <3>1, <3>3, MostOutputs, OutputLensAssumption DEF EngineInv
    <3> QED BY <3>2, <3>3, <3>4, <3>5
  <2>6. Live = (Live \cup Answered) \ Finished
    BY <2>2, <2>3, <2>4
  <2>7. /\ outbox' = Append(outbox,
              Outputs({[id |-> id, final |-> id \in Finished] : id \in Answered}))
        /\ answered' = [id \in Ids |->
              IF id \in Answered THEN answered[id] + 1 ELSE answered[id]]
    BY <1>1, <1>3 DEF SendOutputs
  <2>8. Service!Answer(Answered, Finished)
    BY <1>1, <2>2, <2>5, <2>6, <2>7
    DEF Service!Answer, Service!Outputs, Outputs
  <2>9. Service!ServiceStep
    BY <1>1, <2>2, <2>8 DEF Service!ServiceStep
  <2> QED BY <2>9 DEF Service!ServiceNext
<1> QED BY <1>2, <1>3

\* The requests the engine works on change only where it reads a message or
\* sends the outputs of a step.
LEMMA EngineNextService ==
    EngineInv /\ [EngineNext]_engineVars => [Service!ServiceNext]_Service!serviceVars
<1> SUFFICES ASSUME EngineInv, [EngineNext]_engineVars
             PROVE  [Service!ServiceNext]_Service!serviceVars
  OBVIOUS
<1>1. ASSUME Live' \cup Answered' = Live \cup Answered,
             UNCHANGED <<engine, inbox, outbox, answered>>
      PROVE  UNCHANGED Service!serviceVars
  BY <1>1 DEF Service!serviceVars
<1>2. UNCHANGED schedVars => Live' = Live /\ Answered' = Answered
  BY DEF schedVars, Live, Answered
<1>3. SameRequests => Live' = Live /\ Answered' = Answered
  BY DEF SameRequests, Answered
<1>4. SchedInv
  BY DEF EngineInv
<1>5. CASE BecomeReady
  <2>1. Service!BecomeReady
    BY <1>2, <1>5 DEF BecomeReady, Service!BecomeReady, Ready, Service!Ready, historyVars
  <2> QED BY <2>1 DEF Service!ServiceNext, Service!ServiceStep
<1>6. CASE ProcessInput
  BY <1>6, ProcessInputService DEF Service!ServiceNext, Service!ServiceStep
<1>7. CASE StartStep
  BY <1>1, <1>3, <1>4, <1>7, ScheduleKeepsRequests DEF StartStep, historyVars
<1>8. CASE RunStep
  <2>1. ASSUME NEW stop \in BOOLEAN, UpdateToken(stop)
        PROVE  Live' \cup Answered' = Live \cup Answered
    BY <1>4, <2>1, UpdateTokenAnswers
  <2>2. ASSUME \/ ScheduleRunning \/ PreemptTail \/ EndPass1
               \/ AdmitNext \/ EndPass2 \/ RunModel \/ SkipChunk
        PROVE  Live' \cup Answered' = Live \cup Answered
    BY <1>3, <1>4, <2>2, ScheduleKeepsRequests
  <2> QED BY <1>1, <1>8, <2>1, <2>2 DEF RunStep, historyVars
<1>9. CASE FinishStep
  BY <1>9, FinishStepService
<1>10. CASE Die
  <2>1. Service!Die
    BY <1>10 DEF Die, Service!Die, historyVars
  <2> QED BY <2>1 DEF Service!ServiceNext
<1>11. ASSUME NEW message \in Service!Inputs, Submit(message)
       PROVE  Service!ServiceNext
  <2>1. Service!Submit(message)
    BY <1>2, <1>11 DEF Submit, Service!Submit, historyVars
  <2> QED BY <2>1 DEF Service!ServiceNext
<1>12. CASE \E id \in Ids : AskFor(id) \/ Withdraw(id)
  <2>1. PICK id \in Ids : AskFor(id) \/ Withdraw(id)
    BY <1>12
  <2>2. Submit(Add(id)) \/ Submit(Abort(id))
    BY <2>1 DEF AskFor, Withdraw
  <2>3. Add(id) \in Service!Inputs /\ Abort(id) \in Service!Inputs
    BY DEF Service!Inputs, Service!Add, Service!Abort, Add, Abort
  <2> QED BY <1>11, <2>2, <2>3
<1>13. CASE ShutDown
  <2>1. Shutdown \in Service!Inputs
    BY DEF Service!Inputs, Service!Shutdown, Shutdown
  <2> QED BY <1>11, <1>13, <2>1 DEF ShutDown
<1>14. CASE Collect
  <2>1. Service!Collect
    BY <1>2, <1>14 DEF Collect, Service!Collect, historyVars
  <2> QED BY <2>1 DEF Service!ServiceNext
<1>15. CASE UNCHANGED engineVars
  BY <1>1, <1>2, <1>15 DEF engineVars, historyVars
<1> QED
  BY <1>5, <1>6, <1>7, <1>8, <1>9, <1>10, <1>12, <1>13, <1>14, <1>15
  DEF EngineNext, EngineStep

\* The engine process keeps the contract of protocol.h:69-71 for every pool,
\* every limit and every client that asks for an id at most once.
THEOREM EngineImplementsService == EngineSpec => ImplementsService
<1>1. EngineInit => Service!ServiceInit
  BY DEF EngineInit, SchedInit, Service!ServiceInit, Live, Answered
<1>2. EngineInv /\ [EngineNext]_engineVars => [Service!ServiceNext]_Service!serviceVars
  BY EngineNextService
<1> QED BY <1>1, <1>2, EngineInvariant, PTL
        DEF EngineSpec, ImplementsService, Service!ServiceSpec
=============================================================================
