---------------------------- MODULE ServerProofs ----------------------------
(***************************************************************************)
(* What EngineClientProperties says of the client and Server of its        *)
(* responses, for any number of requests, of outputs and of messages in    *)
(* the input socket; and what Detokenizer says of the text of a response,  *)
(* for any prompt, any number of tokens and any length of the context.     *)
(*                                                                         *)
(* The client's invariant follows a request along its ways: the ADD and    *)
(* the ABORT through the sends and the inbox, the outputs through the      *)
(* outbox and the queue.  The server's puts where a handler is beside      *)
(* where its generate() is, and beside the frames it has sent.             *)
(***************************************************************************)
EXTENDS Server, EngineClientProperties, Detokenizer, SequenceLemmas, SequenceTheorems

\* What the engine process can send, and what a queue can hold.
Messages == {Ready} \cup {Outputs(some) : some \in SUBSET Answers}
Items == Answers \cup {EngineDied, None}

ServiceTypeOK ==
    /\ engine \in {"loading", "serving", "stopped"}
    /\ inbox \in Seq(Inputs) /\ outbox \in Seq(Messages)
    /\ working \subseteq Ids
    /\ answered \in [Ids -> Nat]

\* READY comes first and once, before the reader waits for outputs, and nothing
\* is read or done by an engine that has stopped.
EngineOK ==
    /\ engine = "loading" => outbox = <<>> /\ reader # "reading"
    /\ engine = "stopped" => working = {} /\ inbox = <<>>
    /\ \A i \in 1 .. Len(outbox) : outbox[i] = Ready => i = 1 /\ reader # "reading"

\* Requests exist only between the end of start() and the death of the engine or
\* the begin of close().
LifeOK ==
    /\ starter = "waiting" => started = "yes"
    /\ starter = "returned" => ready = "set" /\ started = "yes"
    /\ \A id \in Ids : generator[id] # "new" => starter = "returned"
    /\ error \/ closing => requests = {}
    /\ closer \notin {"none", "created"} => closing

-----------------------------------------------------------------------------

\* The messages to the engine that it has not read, oldest first.
Pipe == inbox \o sends

\* The ADD of a request goes out once, and before its ABORT.
Ordered(pipe, id) ==
    /\ \A i, j \in 1 .. Len(pipe) : pipe[i] = Add(id) /\ pipe[j] = Add(id) => i = j
    /\ \A i, j \in 1 .. Len(pipe) : pipe[i] = Abort(id) /\ pipe[j] = Add(id) => j < i

PipeOK(id) ==
    /\ Ordered(Pipe, id)
    /\ id \in working => ~ Contains(Pipe, Add(id)) /\ answered[id] < MaxOutputs
    /\ Contains(Pipe, Add(id)) => answered[id] = 0
    /\ answered[id] <= MaxOutputs
    /\ generator[id] = "new" => ~ Contains(Pipe, Add(id)) /\ ~ Contains(Pipe, Abort(id))

\* The engine has, or will have, the request to work on.
AtEngine(id) == id \in working \/ Contains(Pipe, Add(id))

WantedOK(id) ==
    AtEngine(id) /\ engine # "stopped" =>
        id \in requests \/ Contains(Pipe, Abort(id)) \/ error \/ closing

-----------------------------------------------------------------------------

\* An end is the last item of a queue, and only of a request that is no longer
\* registered; nothing follows a final output but an end.
QueueOK(id) ==
    /\ \A i \in 1 .. Len(queue[id]) : queue[id][i] \notin Answers =>
            i = Len(queue[id]) /\ id \notin requests
    /\ \A i, j \in 1 .. Len(queue[id]) :
            queue[id][i] \in Answers /\ queue[id][i].final /\ queue[id][j] \in Answers => j <= i
    /\ \A i \in 1 .. Len(queue[id]) : queue[id][i] = EngineDied => error \/ closing

\* Whoever still wants outputs of a request that is not registered finds an end.
WaitOK(id) ==
    /\ generator[id] \in {"sending", "getting", "yielded"} /\ id \notin final =>
        \/ id \in requests
        \/ queue[id] # <<>> /\ Last(queue[id]) \notin Answers
    /\ id \in requests => generator[id] \in {"sending", "getting", "yielded"}
    /\ id \in final => generator[id] \notin {"new", "sending", "getting"} /\ id \notin requests
    /\ generator[id] = "finished" => id \in final
    /\ generator[id] = "died" => error \/ closing

-----------------------------------------------------------------------------

\* The messages that carry an output, or the final output, of a request.
About(id) == {m \in Messages : m.type = "kOutputs" /\ \E a \in m.outputs : a.id = id}
LastOf(id) == {m \in Messages : m.type = "kOutputs" /\ \E a \in m.outputs : a.id = id /\ a.final}
FinalAnswers == {a \in Answers : a.final}

\* A message has one output for a request, and none follows the final one.
OutboxOK(id) ==
    /\ \A i \in 1 .. Len(outbox) : outbox[i].type = "kOutputs" =>
            \A a, b \in outbox[i].outputs : a.id = id /\ b.id = id => a = b
    /\ \A i, j \in 1 .. Len(outbox) : outbox[i] \in LastOf(id) /\ outbox[j] \in About(id) => j <= i
    /\ (\E i \in 1 .. Len(outbox) : outbox[i] \in LastOf(id)) => ~ AtEngine(id)

\* The outputs of a request that have reached its queue or its consumer.
Delivered(id) == consumed[id] + CountIn(queue[id], Answers)

\* No output of a registered request has been lost while the engine lives, and
\* none at all if the last one is still to be read, wherever it is.
CountOK(id) ==
    /\ id \in requests /\ (engine # "stopped" \/ \E i \in 1 .. Len(outbox) : outbox[i] \in LastOf(id)) =>
            Delivered(id) + CountIn(outbox, About(id)) = answered[id]
    /\ Delivered(id) + CountIn(outbox, About(id)) <= answered[id]
    /\ generator[id] # "cancelled" /\ (\E i \in 1 .. Len(queue[id]) : queue[id][i] \in FinalAnswers) =>
            /\ Delivered(id) = answered[id]
            /\ ~ AtEngine(id)
            /\ \A i \in 1 .. Len(outbox) : outbox[i] \notin About(id)
    /\ id \in final => consumed[id] = answered[id] /\ ~ AtEngine(id)

FreshOK(id) ==
    generator[id] = "new" =>
        /\ id \notin requests /\ id \notin working
        /\ queue[id] = <<>> /\ consumed[id] = 0 /\ answered[id] = 0
        /\ \A i \in 1 .. Len(outbox) : outbox[i] \notin About(id)

PerRequest(id) ==
    /\ PipeOK(id)
    /\ QueueOK(id) /\ WaitOK(id)
    /\ OutboxOK(id) /\ CountOK(id)
    /\ FreshOK(id)

\* What holds however the client is used.
ClientCore ==
    /\ ClientTypeOK /\ ServiceTypeOK
    /\ EngineOK /\ LifeOK
    /\ \A id \in Ids : PerRequest(id)

ClientInv ==
    /\ ClientCore
    /\ \A id \in Ids : WantedOK(id)

-----------------------------------------------------------------------------
(* Messages and the order they are in.                                      *)

\* The kinds of messages differ, and those of a kind in their requests.
LEMMA MessagesDiffer ==
    /\ \A id, other : Add(id) # Abort(other) /\ Add(id) # Shutdown /\ Abort(id) # Shutdown
    /\ \A id, other : (Add(id) = Add(other) => id = other) /\ (Abort(id) = Abort(other) => id = other)
    /\ \A id \in Ids : Add(id) \in Inputs /\ Abort(id) \in Inputs
    /\ Shutdown \in Inputs
<1>1. \A id : Add(id).type = "kAdd" /\ Add(id).id = id
  BY DEF Add
<1>2. \A id : Abort(id).type = "kAbort" /\ Abort(id).id = id
  BY DEF Abort
<1>3. Shutdown.type = "kShutdown"
  BY DEF Shutdown
<1>4. /\ \A id \in Ids : Add(id) \in Inputs /\ Abort(id) \in Inputs
      /\ Shutdown \in Inputs
  BY DEF Inputs
<1>5. \A id, other : Add(id) # Abort(other) /\ Add(id) # Shutdown /\ Abort(id) # Shutdown
  BY <1>1, <1>2, <1>3
<1>6. \A id, other : (Add(id) = Add(other) => id = other) /\ (Abort(id) = Abort(other) => id = other)
  BY <1>1, <1>2
<1> QED
  BY <1>4, <1>5, <1>6

\* A pipe of which messages were read, lost or withdrawn.
Shorter(short, pipe) ==
    \E f \in [1 .. Len(short) -> 1 .. Len(pipe)] :
        /\ \A i, j \in 1 .. Len(short) : i < j => f[i] < f[j]
        /\ \A i \in 1 .. Len(short) : short[i] = pipe[f[i]]

LEMMA ShorterOrdered ==
    ASSUME NEW short \in Seq(Inputs), NEW pipe \in Seq(Inputs), Shorter(short, pipe)
    PROVE  /\ \A id : Ordered(pipe, id) => Ordered(short, id)
           /\ \A m : Contains(short, m) => Contains(pipe, m)
<1>1. PICK f \in [1 .. Len(short) -> 1 .. Len(pipe)] :
          /\ \A i, j \in 1 .. Len(short) : i < j => f[i] < f[j]
          /\ \A i \in 1 .. Len(short) : short[i] = pipe[f[i]]
  BY DEF Shorter
<1>2. \A i \in 1 .. Len(short) : f[i] \in 1 .. Len(pipe)
  BY <1>1
<1>3. \A m : Contains(short, m) => Contains(pipe, m)
  BY <1>1, <1>2 DEF Contains
<1>4. ASSUME NEW id, Ordered(pipe, id) PROVE Ordered(short, id)
  <2>1. ASSUME NEW i \in 1 .. Len(short), NEW j \in 1 .. Len(short),
               short[i] = Add(id), short[j] = Add(id)
        PROVE  i = j
    <3>1. f[i] = f[j]
      BY <1>1, <1>2, <1>4, <2>1 DEF Ordered
    <3>2. ~(i < j) /\ ~(j < i)
      BY <1>1, <1>2, <3>1
    <3> QED BY <3>2
  <2>2. ASSUME NEW i \in 1 .. Len(short), NEW j \in 1 .. Len(short),
               short[i] = Abort(id), short[j] = Add(id)
        PROVE  j < i
    <3>1. f[j] < f[i]
      BY <1>1, <1>2, <1>4, <2>2 DEF Ordered
    <3>2. ~(i < j)
      BY <1>1, <1>2, <3>1
    <3>3. i # j
      BY <3>1, <1>2
    <3> QED BY <3>2, <3>3
  <2> QED
    BY <2>1, <2>2 DEF Ordered
<1> QED
  BY <1>3, <1>4

\* The engine takes the oldest message.
LEMMA PipeTaken ==
    ASSUME NEW pipe \in Seq(Inputs), pipe # <<>>
    PROVE  /\ Tail(pipe) \in Seq(Inputs) /\ Head(pipe) \in Inputs
           /\ \A id : Ordered(pipe, id) => Ordered(Tail(pipe), id)
           /\ \A m : Contains(Tail(pipe), m) => Contains(pipe, m)
           /\ \A m : m # Head(pipe) => (Contains(pipe, m) => Contains(Tail(pipe), m))
           /\ Contains(pipe, Head(pipe))
           /\ \A id : Ordered(pipe, id) /\ Head(pipe) \in {Add(id), Abort(id)} =>
                  ~ Contains(Tail(pipe), Add(id))
<1> DEFINE t == Tail(pipe)
           n == Len(pipe)
           f == [i \in 1 .. Len(t) |-> i + 1]
<1>1. /\ t \in Seq(Inputs) /\ Len(t) = n - 1 /\ n \in Nat \ {0}
      /\ Head(pipe) = pipe[1] /\ Head(pipe) \in Inputs
      /\ \A i \in 1 .. (n - 1) : t[i] = pipe[i + 1]
  OBVIOUS
<1>2. Shorter(t, pipe)
  <2>1. f \in [1 .. Len(t) -> 1 .. Len(pipe)]
    BY <1>1
  <2>2. /\ \A i, j \in 1 .. Len(t) : i < j => f[i] < f[j]
        /\ \A i \in 1 .. Len(t) : t[i] = pipe[f[i]]
    BY <1>1
  <2> HIDE DEF f, t
  <2> QED BY <2>1, <2>2 DEF Shorter
<1> HIDE DEF t
<1>3. /\ \A id : Ordered(pipe, id) => Ordered(t, id)
      /\ \A m : Contains(t, m) => Contains(pipe, m)
  BY <1>1, <1>2, ShorterOrdered
<1>4. ASSUME NEW m, m # Head(pipe), Contains(pipe, m) PROVE Contains(t, m)
  <2>1. PICK i \in 1 .. n : pipe[i] = m
    BY <1>4 DEF Contains
  <2>2. i - 1 \in 1 .. (n - 1) /\ t[i - 1] = m
    BY <1>1, <1>4, <2>1
  <2> QED BY <1>1, <2>2 DEF Contains
<1>5. Contains(pipe, Head(pipe))
  BY <1>1 DEF Contains
<1>6. ASSUME NEW id, Ordered(pipe, id), Head(pipe) \in {Add(id), Abort(id)}, Contains(t, Add(id))
      PROVE  FALSE
  <2>1. PICK i \in 1 .. (n - 1) : t[i] = Add(id)
    BY <1>1, <1>6 DEF Contains
  <2>2. i + 1 \in 1 .. n /\ 1 \in 1 .. n /\ pipe[i + 1] = Add(id)
    BY <1>1, <2>1
  <2> QED BY <1>1, <1>6, <2>2 DEF Ordered
<1> QED
  BY <1>1, <1>3, <1>4, <1>5, <1>6 DEF t

\* A message is put in.
LEMMA PipeExtended ==
    ASSUME NEW pipe \in Seq(Inputs), NEW x \in Inputs
    PROVE  /\ Append(pipe, x) \in Seq(Inputs)
           /\ \A m : Contains(Append(pipe, x), m) <=> Contains(pipe, m) \/ m = x
           /\ \A id : /\ Ordered(pipe, id)
                      /\ x = Add(id) => ~ Contains(pipe, Add(id)) /\ ~ Contains(pipe, Abort(id))
                      => Ordered(Append(pipe, x), id)
<1> DEFINE t == Append(pipe, x)
           n == Len(pipe)
<1>1. /\ t \in Seq(Inputs) /\ Len(t) = n + 1 /\ n \in Nat /\ t[n + 1] = x
      /\ \A i \in 1 .. n : t[i] = pipe[i]
  OBVIOUS
<1> HIDE DEF t
<1>2. \A m : Contains(t, m) <=> Contains(pipe, m) \/ m = x
  BY <1>1 DEF Contains
<1>3. ASSUME NEW id, Ordered(pipe, id),
             x = Add(id) => ~ Contains(pipe, Add(id)) /\ ~ Contains(pipe, Abort(id))
      PROVE  Ordered(t, id)
  <2>1. Add(id) # Abort(id)
    BY MessagesDiffer
  <2>2. x = Add(id) => \A i \in 1 .. n : pipe[i] # Add(id) /\ pipe[i] # Abort(id)
    BY <1>3 DEF Contains
  <2>3. ASSUME NEW i \in 1 .. (n + 1), NEW j \in 1 .. (n + 1), t[i] = Add(id), t[j] = Add(id)
        PROVE  i = j
    BY <1>1, <1>3, <2>2, <2>3 DEF Ordered
  <2>4. ASSUME NEW i \in 1 .. (n + 1), NEW j \in 1 .. (n + 1), t[i] = Abort(id), t[j] = Add(id)
        PROVE  j < i
    BY <1>1, <1>3, <2>1, <2>2, <2>4 DEF Ordered
  <2> QED
    BY <1>1, <2>3, <2>4 DEF Ordered
<1> QED
  BY <1>1, <1>2, <1>3 DEF t

\* A send that waits is withdrawn, or one that waits no longer is not.
LEMMA PipeWithdrawn ==
    ASSUME NEW front \in Seq(Inputs), NEW back \in Seq(Inputs), NEW x
    PROVE  LET pipe == front \o back
               t == RemoveFirst(back, x)
           IN  /\ t \in Seq(Inputs) /\ front \o t \in Seq(Inputs)
               /\ \A id : Ordered(pipe, id) => Ordered(front \o t, id)
               /\ \A m : Contains(front \o t, m) => Contains(pipe, m)
               /\ \A m : m # x /\ Contains(pipe, m) => Contains(front \o t, m)
               /\ ~ Contains(back, x) => t = back
<1> DEFINE pipe == front \o back
           t == RemoveFirst(back, x)
           r == front \o t
           p == Len(front)
           n == Len(back)
<1>1. CASE ~ Contains(back, x)
  BY <1>1, RemoveFirstNode
<1>2. CASE Contains(back, x)
  <2>1. PICK k \in 1 .. n : back[k] = x /\ t = RemoveAt(back, k)
    BY <1>2, RemoveFirstNode
  <2>2. /\ t \in Seq(Inputs) /\ Len(t) = n - 1
        /\ \A i \in 1 .. (n - 1) : t[i] = IF i < k THEN back[i] ELSE back[i + 1]
    <3>1. k \in 1 .. Len(back)
      BY <2>1
    <3>2. /\ RemoveAt(back, k) \in Seq(Inputs) /\ Len(RemoveAt(back, k)) = Len(back) - 1
          /\ \A i \in 1 .. (Len(back) - 1) :
                RemoveAt(back, k)[i] = IF i < k THEN back[i] ELSE back[i + 1]
      BY <3>1, EraseNode
    <3> QED BY <2>1, <3>2
  <2> HIDE DEF t
  <2>3. /\ p \in Nat /\ n \in Nat
        /\ pipe \in Seq(Inputs) /\ Len(pipe) = p + n
        /\ \A i \in 1 .. p : pipe[i] = front[i]
        /\ \A i \in 1 .. n : pipe[p + i] = back[i]
    OBVIOUS
  <2>4. /\ r \in Seq(Inputs) /\ Len(r) = p + (n - 1)
        /\ \A i \in 1 .. p : r[i] = front[i]
        /\ \A i \in 1 .. (n - 1) : r[p + i] = t[i]
    <3>1. t \in Seq(Inputs) /\ Len(t) = n - 1
      BY <2>2
    <3>2. /\ r \in Seq(Inputs) /\ Len(r) = p + Len(t)
          /\ \A i \in 1 .. p : r[i] = front[i]
          /\ \A i \in 1 .. Len(t) : r[p + i] = t[i]
      BY <3>1
    <3> HIDE DEF n, r, p
    <3> QED BY <3>1, <3>2
  <2> DEFINE f == [i \in 1 .. Len(r) |-> IF i < p + k THEN i ELSE i + 1]
  <2> HIDE DEF pipe, r, p, n
  <2>5. f \in [1 .. Len(r) -> 1 .. Len(pipe)]
    BY <2>3, <2>4, <2>1
  <2>6. \A i, j \in 1 .. Len(r) : i < j => f[i] < f[j]
    BY <2>3, <2>4, <2>1
  <2>7. ASSUME NEW i \in 1 .. Len(r) PROVE r[i] = pipe[f[i]]
    <3>1. CASE i <= p
      <4>1. f[i] = i
        BY <2>1, <2>3, <2>4, <3>1
      <4> QED BY <2>3, <2>4, <3>1, <4>1
    <3>2. CASE i > p
      <4>1. PICK j \in 1 .. (n - 1) : i = p + j
        <5>1. i - p \in 1 .. (n - 1) /\ i = p + (i - p)
          BY <2>3, <2>4, <3>2
        <5> QED BY <5>1
      <4>2. r[i] = IF j < k THEN back[j] ELSE back[j + 1]
        BY <2>2, <2>4, <4>1
      <4>3. CASE j < k
        <5>1. f[i] = p + j /\ j \in 1 .. n
          BY <2>1, <2>3, <4>1, <4>3
        <5> QED BY <2>3, <4>2, <4>3, <5>1
      <4>4. CASE ~(j < k)
        <5>1. f[i] = p + (j + 1) /\ j + 1 \in 1 .. n
          BY <2>1, <2>3, <4>1, <4>4
        <5> QED BY <2>3, <4>2, <4>4, <5>1
      <4> QED BY <4>3, <4>4
    <3> QED BY <2>3, <3>1, <3>2, <2>4
  <2>8. Shorter(r, pipe)
    <3> HIDE DEF f
    <3> QED BY <2>5, <2>6, <2>7 DEF Shorter
  <2>9. /\ \A id : Ordered(pipe, id) => Ordered(r, id)
        /\ \A m : Contains(r, m) => Contains(pipe, m)
    BY <2>3, <2>4, <2>8, ShorterOrdered
  <2>10. ASSUME NEW m, m # x, Contains(pipe, m) PROVE Contains(r, m)
    <3>1. PICK i \in 1 .. (p + n) : pipe[i] = m
      BY <2>3, <2>10 DEF Contains
    <3>2. CASE i <= p
      <4>1. r[i] = m /\ i \in 1 .. Len(r)
        BY <2>1, <2>3, <2>4, <3>1, <3>2
      <4> QED BY <4>1 DEF Contains
    <3>3. CASE i > p
      <4>1. PICK j \in 1 .. n : i = p + j
        <5>1. i - p \in 1 .. n /\ i = p + (i - p)
          BY <2>3, <3>1, <3>3
        <5> QED BY <5>1
      <4>2. back[j] = m /\ j # k
        BY <2>1, <2>3, <2>10, <3>1, <4>1
      <4>3. CASE j < k
        <5>1. j \in 1 .. (n - 1) /\ t[j] = m
          BY <2>1, <2>2, <2>3, <4>2, <4>3
        <5>2. r[p + j] = m
          BY <2>4, <5>1
        <5>3. p + j \in 1 .. Len(r)
          BY <2>3, <2>4, <5>1
        <5> QED BY <5>2, <5>3 DEF Contains
      <4>4. CASE j > k
        <5>1. j - 1 \in 1 .. (n - 1) /\ t[j - 1] = m
          BY <2>1, <2>2, <2>3, <4>2, <4>4
        <5>2. p + (j - 1) \in 1 .. Len(r) /\ r[p + (j - 1)] = m
          BY <2>3, <2>4, <5>1
        <5> QED BY <5>2 DEF Contains
      <4> QED BY <2>1, <4>2, <4>3, <4>4
    <3> QED BY <2>3, <3>1, <3>2, <3>3
  <2> QED
    BY <1>2, <2>2, <2>4, <2>9, <2>10 DEF pipe, r, t
<1> QED
  BY <1>1, <1>2

-----------------------------------------------------------------------------
(* Types.                                                                   *)

LEMMA ItemsDiffer ==
    /\ EngineDied \notin Answers /\ None \notin Answers /\ EngineDied # None
    /\ \A some \in SUBSET Answers : Outputs(some) # Ready
    /\ Ready.type # "kOutputs" /\ \A some : Outputs(some).type = "kOutputs" /\ Outputs(some).outputs = some
<1>1. EngineDied.item = "EngineDied" /\ None.item = "None"
  BY DEF EngineDied, None
<1>2. EngineDied \notin Answers /\ None \notin Answers
  <2>1. \A a \in Answers : DOMAIN a = {"id", "final"}
    BY DEF Answers
  <2>2. DOMAIN EngineDied = {"item"} /\ DOMAIN None = {"item"}
    BY DEF EngineDied, None
  <2> QED BY <2>1, <2>2
<1>3. Ready.type = "kReady" /\ \A some : Outputs(some).type = "kOutputs" /\ Outputs(some).outputs = some
  BY DEF Ready, Outputs
<1> QED
  BY <1>1, <1>2, <1>3

LEMMA WithdrawnType ==
    ASSUME sends \in Seq(Inputs), NEW m
    PROVE  Withdrawn(m) \in Seq(Inputs)
<1>1. <<>> \in Seq(Inputs)
  OBVIOUS
<1> QED
  BY <1>1, PipeWithdrawn DEF Withdrawn

TypeOK == ClientTypeOK /\ ServiceTypeOK

LEMMA FailRequestsType ==
    ASSUME TypeOK
    PROVE  [id \in Ids |-> IF id \in requests THEN Append(queue[id], EngineDied) ELSE queue[id]]
              \in [Ids -> Seq(Items)]
<1>1. queue \in [Ids -> Seq(Items)] /\ EngineDied \in Items
  BY DEF TypeOK, ClientTypeOK, Items
<1> QED
  BY <1>1

LEMMA EngineTypeStep ==
    ASSUME TypeOK, EngineStep \/ EngineDies PROVE TypeOK'
<1> USE DEF TypeOK, ServiceTypeOK
<1>1. UNCHANGED clientVars
  BY DEF EngineStep, EngineDies
<1>2. ClientTypeOK'
  BY <1>1 DEF ClientTypeOK, clientVars, taskVars, stateVars, requestVars
<1>3. CASE BecomeReady
  <2>1. Ready \in Messages
    BY DEF Messages
  <2> QED BY <1>2, <1>3, <2>1 DEF BecomeReady
<1>4. CASE TakeInput
  <2>1. inbox # <<>> => Tail(inbox) \in Seq(Inputs)
    OBVIOUS
  <2>2. <<>> \in Seq(Inputs)
    OBVIOUS
  <2>3. inbox # <<>>
    BY <1>4 DEF TakeInput
  <2> QED BY <1>2, <1>4, <2>1, <2>2, <2>3 DEF TakeInput, TakeAdd, TakeAbort, TakeShutdown
<1>5. ASSUME NEW some \in SUBSET working, NEW last \in SUBSET some, Answer(some, last)
      PROVE  TypeOK'
  <2> DEFINE answers == {[id |-> id, final |-> id \in last] : id \in some}
  <2>1. answers \in SUBSET Answers
    <3>1. \A id \in Ids, b \in BOOLEAN : [id |-> id, final |-> b] \in Answers
      BY DEF Answers
    <3>2. \A id \in some : id \in Ids /\ (id \in last) \in BOOLEAN
      OBVIOUS
    <3> QED BY <3>1, <3>2, Zenon
  <2> HIDE DEF answers
  <2>2. Outputs(answers) \in Messages
    BY <2>1 DEF Messages
  <2>3. outbox' = Append(outbox, Outputs(answers))
    BY <1>5 DEF Answer, answers
  <2>4. outbox' \in Seq(Messages)
    BY <2>2, <2>3
  <2> QED BY <1>2, <1>5, <2>4 DEF Answer
<1>6. CASE Die
  <2>1. outbox' \in Seq(Messages)
    BY <1>6 DEF Die
  <2> QED BY <1>2, <1>6, <2>1 DEF Die
<1> QED
  BY <1>3, <1>4, <1>5, <1>6 DEF EngineStep, EngineDies, ServiceStep

LEMMA ClientTypeStep ==
    ASSUME TypeOK, EngineOK, LoopStep \/ UserStep \/ \E id \in Ids : GenerateGoesOn(id)
    PROVE  ClientTypeOK'
<1> USE DEF TypeOK, ClientTypeOK
<1>0. /\ {"sending", "getting", "yielded", "aborting", "finished", "died", "stopped",
          "cancelled", "rejected"} \subseteq GeneratorStates
      /\ \A id \in Ids, state \in GeneratorStates :
            [generator EXCEPT ![id] = state] \in [Ids -> GeneratorStates]
  BY DEF GeneratorStates
<1>1. queue \in [Ids -> Seq(Items)] /\ EngineDied \in Items /\ None \in Items
  BY DEF Items
<1>2. Items = Answers \cup {EngineDied, None}
  BY DEF Items
<1>3. CASE StartProcess \/ StartReturns \/ StartFails \/ StartRaises \/ StartCancelled
  BY <1>3 DEF StartProcess, StartReturns, StartFails, StartRaises, StartCancelled, StartGivesUp,
     stateVars, requestVars
<1>4. CASE Close \/ CloseSent \/ CloseSeesExit \/ CloseEnds
  BY <1>4 DEF Close, CloseSent, CloseSeesExit, CloseEnds, stateVars, requestVars
<1>5. \A id \in Ids : Add(id) \in Inputs /\ Abort(id) \in Inputs /\ Shutdown \in Inputs
  BY MessagesDiffer
<1>6. \A m : Withdrawn(m) \in Seq(Inputs)
  BY WithdrawnType
<1>7. \A s \in Seq(Inputs), m \in Inputs : Append(s, m) \in Seq(Inputs)
  OBVIOUS
<1>8. \A id \in Ids, s \in Seq(Inputs) : StartAbort(id, s) =>
          /\ requests' \subseteq Ids /\ sends' \in Seq(Inputs)
          /\ queue' \in [Ids -> Seq(Items)]
  <2>1. <<None>> \in Seq(Items)
    BY <1>1
  <2> QED BY <1>1, <1>5, <1>7, <2>1 DEF StartAbort
<1>9. \A id \in Ids : CleanUp(id) =>
          /\ requests' \subseteq Ids /\ sends' \in Seq(Inputs)
          /\ queue' \in [Ids -> Seq(Items)]
  BY <1>1, <1>6, <1>8 DEF CleanUp
<1>10. ASSUME NEW id \in Ids, Generate(id) PROVE ClientTypeOK'
  <2>1. generator' \in [Ids -> GeneratorStates]
    BY <1>0, <1>10 DEF Generate
  <2>2. sends' \in Seq(Inputs) /\ requests' \subseteq Ids
    BY <1>5, <1>7, <1>10 DEF Generate
  <2> QED BY <1>10, <2>1, <2>2 DEF Generate, stateVars
<1>11. ASSUME NEW id \in Ids, GenerateSent(id) \/ GenerateAborted(id) \/ AbortSent(id)
       PROVE  ClientTypeOK'
  <2>1. generator' \in [Ids -> GeneratorStates]
    BY <1>0, <1>11 DEF GenerateSent, GenerateAborted, AbortSent
  <2>2. sends' \in Seq(Inputs) /\ aborter' \in [Ids -> {"new", "sending", "done"}]
    BY <1>6, <1>11 DEF GenerateSent, GenerateAborted, AbortSent
  <2> QED BY <1>11, <2>1, <2>2 DEF GenerateSent, GenerateAborted, AbortSent, stateVars
<1>12. ASSUME NEW id \in Ids, GenerateGets(id) PROVE ClientTypeOK'
  <2>1. Tail(queue[id]) \in Seq(Items)
    BY <1>1, <1>12 DEF GenerateGets
  <2>2. queue' \in [Ids -> Seq(Items)]
    BY <1>1, <1>12, <2>1 DEF GenerateGets
  <2>3. /\ generator' \in [Ids -> GeneratorStates]
        /\ consumed' \in [Ids -> Nat] /\ final' \subseteq Ids /\ requests' \subseteq Ids
    <3>1. CASE Head(queue[id]) \in {EngineDied, None}
      BY <1>0, <1>12, <3>1, ItemsDiffer DEF GenerateGets
    <3>2. CASE Head(queue[id]) \notin {EngineDied, None}
      <4>1. /\ generator' = [generator EXCEPT ![id] = "yielded"]
            /\ consumed' = [consumed EXCEPT ![id] = @ + 1]
            /\ final' = IF Head(queue[id]).final THEN final \cup {id} ELSE final
            /\ requests' = IF Head(queue[id]).final THEN requests \ {id} ELSE requests
        BY <1>12, <3>2 DEF GenerateGets, RegisteredAfter
      <4> QED BY <1>0, <4>1
    <3> QED BY <3>1, <3>2
  <2> QED BY <1>2, <1>12, <2>2, <2>3 DEF GenerateGets, stateVars
<1>13. ASSUME NEW id \in Ids, GenerateGoesOn(id) PROVE ClientTypeOK'
  <2>1. generator' \in [Ids -> GeneratorStates]
    BY <1>0, <1>13 DEF GenerateGoesOn
  <2> QED BY <1>13, <2>1 DEF GenerateGoesOn, stateVars, requestVars
<1>14. ASSUME NEW id \in Ids, CancelGenerate(id) PROVE ClientTypeOK'
  <2>1. generator' \in [Ids -> GeneratorStates]
    BY <1>0, <1>14 DEF CancelGenerate
  <2> QED BY <1>2, <1>9, <1>14, <2>1 DEF CancelGenerate, stateVars
<1>15. ASSUME NEW id \in Ids, CallAbort(id) PROVE ClientTypeOK'
  BY <1>2, <1>8, <1>15 DEF CallAbort, stateVars
<1>16. CASE SendNext
  <2>1. Tail(sends) \in Seq(Inputs)
    BY <1>16 DEF SendNext
  <2> QED BY <1>16, <2>1 DEF SendNext, stateVars, taskVars
<1>17. CASE ReadReady
  BY <1>17 DEF ReadReady, requestVars
<1>18. CASE ReadOutputs
  <2> DEFINE answers == Head(outbox).outputs
  <2>1. outbox \in Seq(Messages) /\ outbox # <<>> /\ queue' = Deliver(answers)
    BY <1>18 DEF ReadOutputs, ServiceTypeOK
  <2>2. queue' \in [Ids -> Seq(Items)]
    <3>1. Head(outbox) \in Messages /\ Head(outbox) = outbox[1] /\ 1 \in 1 .. Len(outbox)
      BY <2>1
    <3>2. Head(outbox) # Ready
      BY <1>18, <3>1 DEF EngineOK, ReadOutputs
    <3>3. answers \subseteq Answers
      BY <3>1, <3>2, ItemsDiffer DEF Messages
    <3> HIDE DEF answers
    <3>4. ASSUME NEW id \in Ids, \E a \in answers : a.id = id PROVE OutputOf(answers, id) \in Items
      BY <1>2, <3>3, <3>4 DEF OutputOf
    <3> QED BY <1>1, <2>1, <3>4 DEF Deliver
  <2> QED BY <1>2, <1>18, <2>2 DEF ReadOutputs, stateVars, taskVars
<1>19. MarkDead => /\ error' \in BOOLEAN /\ ready' \in {"pending", "set", "failed", "cancelled"}
                   /\ requests' \subseteq Ids /\ queue' \in [Ids -> Seq(Items)]
  BY <1>1, FailRequestsType DEF MarkDead, FailRequests
<1>20. CASE ReaderFails
  BY <1>2, <1>19, <1>20 DEF ReaderFails
<1>21. CASE OnExit
  BY <1>2, <1>19, <1>21 DEF OnExit
<1>22. CASE CloseBegins
  <2>1. sends' \in Seq(Inputs)
    BY <1>7, <1>22, MessagesDiffer DEF CloseBegins
  <2>2. queue' \in [Ids -> Seq(Items)] /\ requests' = {}
    BY <1>22, FailRequestsType DEF CloseBegins, FailRequests
  <2>3. closer' \in {"gathering", "sending", "exiting"} /\ closing' = TRUE
    BY <1>22 DEF CloseBegins
  <2> QED BY <1>2, <1>22, <2>1, <2>2, <2>3 DEF CloseBegins
<1>23. CASE CloseTimesOut
  BY <1>6, <1>23 DEF CloseTimesOut, stateVars
<1>24. ASSUME NEW id \in Ids, SendCancelled(id) PROVE ClientTypeOK'
  <2>1. generator' \in [Ids -> GeneratorStates]
    BY <1>0, <1>24 DEF SendCancelled
  <2>2. sends' \in Seq(Inputs)
    <3>1. sends' = Withdrawn(Add(id)) \/ sends' = Withdrawn(Abort(id))
      BY <1>24 DEF SendCancelled
    <3> QED BY <1>6, <3>1
  <2>3. aborter' = aborter \/ aborter' = [aborter EXCEPT ![id] = "done"]
    BY <1>24, Zenon DEF SendCancelled
  <2>4. aborter' \in [Ids -> {"new", "sending", "done"}]
    BY <2>3
  <2> QED BY <1>24, <2>1, <2>2, <2>4 DEF SendCancelled, stateVars
<1> QED
  BY <1>3, <1>4, <1>10, <1>11, <1>12, <1>13, <1>14, <1>15, <1>16, <1>17, <1>18, <1>20, <1>21,
     <1>22, <1>23, <1>24 DEF LoopStep, UserStep

LEMMA TypeStep ==
    ASSUME TypeOK, EngineOK, [ClientNext]_allVars PROVE TypeOK'
<1>1. CASE EngineStep \/ EngineDies
  BY <1>1, EngineTypeStep
<1>2. CASE LoopStep \/ UserStep \/ \E id \in Ids : GenerateGoesOn(id)
  <2>1. ClientTypeOK'
    BY <1>2, ClientTypeStep
  <2>2. ServiceTypeOK'
    <3>1. CASE SendNext
      <4>1. sends # <<>> /\ inbox' = Append(inbox, Head(sends))
        BY <3>1 DEF SendNext
      <4>2. inbox' \in Seq(Inputs)
        BY <4>1 DEF TypeOK, ServiceTypeOK, ClientTypeOK
      <4> QED BY <3>1, <4>2 DEF SendNext, TypeOK, ServiceTypeOK
    <3>2. CASE ReadReady \/ ReadOutputs
      <4>1. outbox # <<>> /\ outbox' = Tail(outbox)
        BY <3>2 DEF ReadReady, ReadOutputs
      <4>2. outbox' \in Seq(Messages)
        BY <4>1 DEF TypeOK, ServiceTypeOK
      <4> QED BY <3>2, <4>2 DEF ReadReady, ReadOutputs, TypeOK, ServiceTypeOK
    <3>3. CASE CloseTimesOut
      <4>1. CASE UNCHANGED serviceVars
        BY <4>1 DEF serviceVars, TypeOK, ServiceTypeOK
      <4>2. CASE Die
        <5>1. outbox' \in Seq(Messages)
          BY <4>2 DEF Die, TypeOK, ServiceTypeOK
        <5> QED BY <4>2, <5>1 DEF Die, TypeOK, ServiceTypeOK
      <4> QED BY <3>3, <4>1, <4>2 DEF CloseTimesOut
    <3>4. UNCHANGED serviceVars => ServiceTypeOK'
      BY DEF serviceVars, TypeOK, ServiceTypeOK
    <3>5. SendNext \/ ReadReady \/ ReadOutputs \/ CloseTimesOut \/ UNCHANGED serviceVars
      BY <1>2 DEF LoopStep, UserStep, StartProcess, StartReturns, StartFails, StartRaises,
         StartCancelled, StartGivesUp, Generate, GenerateSent, GenerateGets, GenerateGoesOn,
         GenerateAborted, CancelGenerate, CallAbort, AbortSent, SendCancelled, OnExit, ReaderFails,
         Close, CloseBegins, CloseSent, CloseSeesExit, CloseEnds
    <3> QED BY <3>1, <3>2, <3>3, <3>4, <3>5
  <2> QED BY <2>1, <2>2 DEF TypeOK
<1>3. CASE UNCHANGED allVars
  BY <1>3 DEF allVars, serviceVars, clientVars, taskVars, stateVars, requestVars, TypeOK,
     ClientTypeOK, ServiceTypeOK
<1> QED
  BY <1>1, <1>2, <1>3 DEF ClientNext

-----------------------------------------------------------------------------
(* The engine and the life of the client.                                   *)

LEMMA LifeStep ==
    ASSUME TypeOK, LifeOK, [ClientNext]_allVars PROVE LifeOK'
<1> USE DEF LifeOK
<1>0. generator \in [Ids -> GeneratorStates]
  BY DEF TypeOK, ClientTypeOK
<1>1. CASE UNCHANGED <<started, ready, error, closing, starter, generator, closer>> /\ requests' \subseteq requests
  BY <1>1
<1>2. CASE StartProcess \/ StartReturns \/ StartFails \/ StartRaises \/ StartCancelled
  BY <1>2 DEF StartProcess, StartReturns, StartFails, StartRaises, StartCancelled, StartGivesUp,
     stateVars, requestVars
<1>3. CASE Close \/ CloseSent \/ CloseSeesExit \/ CloseEnds
  BY <1>3 DEF Close, CloseSent, CloseSeesExit, CloseEnds, stateVars, requestVars
<1>4. ASSUME NEW id \in Ids, Generate(id) PROVE LifeOK'
  BY <1>0, <1>4 DEF Generate, stateVars, Alive
<1>5. ASSUME NEW id \in Ids,
             \/ GenerateSent(id) \/ GenerateAborted(id) \/ AbortSent(id) \/ SendCancelled(id)
             \/ GenerateGets(id) \/ GenerateGoesOn(id) \/ CancelGenerate(id) \/ CallAbort(id)
      PROVE  LifeOK'
  <2>1. UNCHANGED <<started, ready, error, closing, starter, closer>>
    BY <1>5 DEF GenerateSent, GenerateAborted, AbortSent, SendCancelled, GenerateGets,
       GenerateGoesOn, CancelGenerate, CallAbort, stateVars
  <2>2. requests' \subseteq requests
    BY <1>5 DEF GenerateSent, GenerateAborted, AbortSent, SendCancelled, GenerateGets,
       GenerateGoesOn, CancelGenerate, CallAbort, requestVars, CleanUp, StartAbort, RegisteredAfter
  <2>3. \A other \in Ids : generator'[other] # "new" => generator[other] # "new"
    <3>1. CASE UNCHANGED generator
      BY <3>1
    <3>2. generator[id] # "new" \/ UNCHANGED generator
      BY <1>5 DEF GenerateSent, GenerateAborted, AbortSent, SendCancelled, GenerateGets,
         GenerateGoesOn, CancelGenerate, CallAbort
    <3>3. \A other \in Ids : other # id => generator'[other] = generator[other]
      BY <1>0, <1>5 DEF GenerateSent, GenerateAborted, AbortSent, SendCancelled, GenerateGets,
         GenerateGoesOn, CancelGenerate, CallAbort
    <3> QED BY <3>1, <3>2, <3>3
  <2> QED BY <2>1, <2>2, <2>3
<1>6. CASE ReaderFails \/ OnExit
  BY <1>6 DEF ReaderFails, OnExit, MarkDead, FailRequests
<1>7. CASE CloseBegins
  BY <1>7 DEF CloseBegins, FailRequests
<1>8. CASE CloseTimesOut
  BY <1>8 DEF CloseTimesOut, stateVars, InTimeout
<1>9. CASE ReadReady
  BY <1>9 DEF ReadReady, requestVars
<1>10. CASE EngineStep \/ EngineDies \/ SendNext \/ ReadOutputs \/ UNCHANGED allVars
  BY <1>10, <1>1 DEF EngineStep, EngineDies, SendNext, ReadOutputs, allVars, clientVars, taskVars,
     stateVars, requestVars
<1> QED
  BY <1>2, <1>3, <1>4, <1>5, <1>6, <1>7, <1>8, <1>9, <1>10 DEF ClientNext, LoopStep, UserStep

LEMMA EngineOKStep ==
    ASSUME TypeOK, EngineOK, [ClientNext]_allVars PROVE EngineOK'
<1> USE DEF EngineOK
<1>1. outbox \in Seq(Messages) /\ Len(outbox) \in Nat
  BY DEF TypeOK, ServiceTypeOK
<1>2. CASE engine' = engine /\ outbox' = outbox /\ working' = working /\ inbox' = inbox
           /\ (reader' = "reading" => reader = "reading")
  BY <1>2
<1>3. CASE EngineStep \/ EngineDies \/ CloseTimesOut
  <2>1. reader' = reader
    BY <1>3 DEF EngineStep, EngineDies, CloseTimesOut, clientVars, taskVars
  <2>2. CASE BecomeReady
    BY <1>1, <2>1, <2>2 DEF BecomeReady
  <2>3. CASE TakeInput
    BY <2>1, <2>3 DEF TakeInput, TakeAdd, TakeAbort, TakeShutdown
  <2>4. ASSUME NEW some \in SUBSET working, NEW last \in SUBSET some, Answer(some, last)
        PROVE  EngineOK'
    <3>1. PICK answers : outbox' = Append(outbox, Outputs(answers))
      BY <2>4 DEF Answer
    <3>2. Outputs(answers) # Ready
      BY ItemsDiffer
    <3>3. engine = "serving" /\ engine' = "serving"
      BY <2>4 DEF Answer
    <3> QED BY <1>1, <2>1, <3>1, <3>2, <3>3
  <2>5. CASE Die
    <3>1. PICK n \in 0 .. Len(outbox) : outbox' = SubSeq(outbox, 1, n)
      BY <2>5 DEF Die
    <3>2. \A i \in 1 .. Len(outbox') : i \in 1 .. Len(outbox) /\ outbox'[i] = outbox[i]
      BY <1>1, <3>1
    <3> QED BY <2>1, <2>5, <3>2 DEF Die
  <2>6. CASE UNCHANGED serviceVars
    BY <2>1, <2>6 DEF serviceVars
  <2> QED BY <1>3, <2>2, <2>3, <2>4, <2>5, <2>6 DEF EngineStep, EngineDies, CloseTimesOut, ServiceStep
<1>4. CASE ReadReady \/ ReadOutputs
  <2>1. outbox # <<>> /\ outbox' = Tail(outbox) /\ UNCHANGED <<engine, working, inbox>>
    BY <1>4 DEF ReadReady, ReadOutputs
  <2>2. \A i \in 1 .. Len(outbox') : i + 1 \in 1 .. Len(outbox) /\ outbox'[i] = outbox[i + 1]
    BY <1>1, <2>1
  <2>3. \A i \in 1 .. Len(outbox') : outbox'[i] # Ready
    BY <1>1, <2>2
  <2> QED BY <2>1, <2>3
<1>5. CASE SendNext
  BY <1>5 DEF SendNext, taskVars
<1>6. ASSUME LoopStep \/ UserStep \/ \E id \in Ids : GenerateGoesOn(id),
             ~ SendNext, ~ ReadReady, ~ ReadOutputs, ~ CloseTimesOut
      PROVE  EngineOK'
  <2>1. UNCHANGED serviceVars
    BY <1>6 DEF LoopStep, UserStep, StartProcess, StartReturns, StartFails, StartRaises,
       StartCancelled, StartGivesUp, Generate, GenerateSent, GenerateGets, GenerateGoesOn,
       GenerateAborted, CancelGenerate, CallAbort, AbortSent, SendCancelled, OnExit, ReaderFails,
       Close, CloseBegins, CloseSent, CloseSeesExit, CloseEnds
  <2>2. reader' \in {reader, "waiting", "ended", "none"}
    BY <1>6 DEF LoopStep, UserStep, StartProcess, StartReturns, StartFails, StartRaises,
       StartCancelled, StartGivesUp, Generate, GenerateSent, GenerateGets, GenerateGoesOn,
       GenerateAborted, CancelGenerate, CallAbort, AbortSent, SendCancelled, OnExit, ReaderFails,
       Close, CloseBegins, CloseSent, CloseSeesExit, CloseEnds, taskVars
  <2> QED BY <1>2, <2>1, <2>2 DEF serviceVars
<1>7. CASE UNCHANGED allVars
  BY <1>2, <1>7 DEF allVars, serviceVars, clientVars, taskVars
<1> QED
  BY <1>3, <1>4, <1>5, <1>6, <1>7 DEF ClientNext

-----------------------------------------------------------------------------
(* What a step has to leave alone for each part of the invariant.           *)

WantedKept(id) == WantedOK(id) => WantedOK(id)'

Keeps(id) == PerRequest(id)' /\ WantedKept(id)

LEMMA PipeFrame ==
    ASSUME NEW id, PipeOK(id), Ordered(Pipe', id), id \in working' => id \in working,
           generator'[id] = "new" => generator[id] = "new",
           Contains(Pipe', Add(id)) => Contains(Pipe, Add(id)),
           Contains(Pipe', Abort(id)) => Contains(Pipe, Abort(id)), answered'[id] = answered[id]
    PROVE  /\ PipeOK(id)'
           /\ AtEngine(id)' => AtEngine(id)
BY DEF PipeOK, AtEngine

LEMMA WantedFrame ==
    ASSUME NEW id, AtEngine(id)' => AtEngine(id),
           engine' # "stopped" => engine # "stopped",
           id \in requests => id \in requests' \/ error' \/ closing',
           Contains(Pipe, Abort(id)) => Contains(Pipe', Abort(id)) \/ error' \/ closing',
           error => error', closing => closing'
    PROVE  WantedKept(id)
BY DEF WantedKept, WantedOK

LEMMA QueueFrame ==
    ASSUME NEW id, QueueOK(id), queue'[id] = queue[id], id \in requests' => id \in requests,
           error => error', closing => closing'
    PROVE  QueueOK(id)'
BY DEF QueueOK

LEMMA WaitFrame ==
    ASSUME NEW id, WaitOK(id), queue'[id] = queue[id], generator'[id] = generator[id],
           id \in requests' <=> id \in requests, id \in final' <=> id \in final,
           error => error', closing => closing'
    PROVE  WaitOK(id)'
BY DEF WaitOK

LEMMA OutboxFrame ==
    ASSUME NEW id, OutboxOK(id), outbox' = outbox, AtEngine(id)' => AtEngine(id)
    PROVE  OutboxOK(id)'
BY DEF OutboxOK

LEMMA CountFrame ==
    ASSUME NEW id, CountOK(id), AtEngine(id)' => AtEngine(id),
           outbox' = outbox, queue'[id] = queue[id],
           consumed'[id] = consumed[id], answered'[id] = answered[id],
           id \in requests' => id \in requests, id \in final' => id \in final,
           engine' # "stopped" => engine # "stopped",
           generator'[id] # "cancelled" => generator[id] # "cancelled"
    PROVE  CountOK(id)'
BY DEF CountOK, Delivered

LEMMA FreshFrame ==
    ASSUME NEW id, FreshOK(id), generator'[id] = "new" => generator[id] = "new",
           outbox' = outbox, queue'[id] = queue[id],
           consumed'[id] = consumed[id], answered'[id] = answered[id],
           id \in requests' => id \in requests, id \in working' => id \in working
    PROVE  FreshOK(id)'
BY DEF FreshOK

\* The steps of start() and close(), and what is none, concern no request.
LEMMA QuietStep ==
    ASSUME \A id \in Ids : PerRequest(id),
           UNCHANGED <<serviceVars, error, closing, requestVars, generator>>
    PROVE  \A id \in Ids : Keeps(id)
<1>1. UNCHANGED <<engine, inbox, outbox, working, answered, error, closing, requests, queue,
                  sends, consumed, final, generator>>
  BY DEF serviceVars, requestVars
<1>2. Pipe' = Pipe
  BY <1>1 DEF Pipe
<1> SUFFICES ASSUME NEW id \in Ids PROVE Keeps(id)
  OBVIOUS
<1>3. PipeOK(id)' /\ (AtEngine(id)' => AtEngine(id))
  BY <1>1, <1>2 DEF PerRequest, PipeOK, AtEngine
<1>4. WantedKept(id) /\ QueueOK(id)' /\ WaitOK(id)'
  BY <1>1, <1>2, <1>3, WantedFrame, QueueFrame, WaitFrame DEF PerRequest
<1>5. OutboxOK(id)' /\ CountOK(id)' /\ FreshOK(id)'
  BY <1>1, <1>2, <1>3, OutboxFrame, CountFrame, FreshFrame DEF PerRequest
<1> QED
  BY <1>3, <1>4, <1>5 DEF PerRequest, Keeps

-----------------------------------------------------------------------------
(* The steps that withdraw a send, because it has gone out or never will.   *)

LEMMA SendsWithdrawn ==
    ASSUME TypeOK, NEW m, sends' = Withdrawn(m), inbox' = inbox
    PROVE  /\ \A id : Ordered(Pipe, id) => Ordered(Pipe', id)
           /\ \A x : Contains(Pipe', x) => Contains(Pipe, x)
           /\ \A x : x # m /\ Contains(Pipe, x) => Contains(Pipe', x)
           /\ ~ Waiting(m) => Pipe' = Pipe
<1>1. inbox \in Seq(Inputs) /\ sends \in Seq(Inputs)
  BY DEF TypeOK, ServiceTypeOK, ClientTypeOK
<1>2. Pipe = inbox \o sends /\ Pipe' = inbox \o RemoveFirst(sends, m)
  BY DEF Pipe, Withdrawn
<1>3. Waiting(m) <=> Contains(sends, m)
  BY DEF Waiting
<1> QED
  BY <1>1, <1>2, <1>3, PipeWithdrawn, Zenon

LEMMA SendEnds ==
    ASSUME ClientCore, NEW id \in Ids, NEW m \in {Add(id), Abort(id)}, sends' = Withdrawn(m),
           UNCHANGED <<serviceVars, error, closing, requests, queue, consumed, final>>,
           \/ UNCHANGED generator
           \/ generator' = [generator EXCEPT ![id] = "cancelled"] /\ generator[id] # "new"
              /\ id \notin requests
           \/ generator' = [generator EXCEPT ![id] = "getting"] /\ generator[id] = "sending"
           \/ generator' = [generator EXCEPT ![id] = "died"] /\ error /\ generator[id] = "sending"
    PROVE  \A other \in Ids :
              /\ PerRequest(other)'
              /\ (m = Abort(id) => error \/ closing \/ ~ Waiting(m)) => WantedKept(other)
<1>1. TypeOK /\ \A other \in Ids : PerRequest(other)
  BY DEF ClientCore, TypeOK
<1>2. UNCHANGED <<engine, inbox, outbox, working, answered>>
  BY DEF serviceVars
<1>3. /\ \A other : Ordered(Pipe, other) => Ordered(Pipe', other)
      /\ \A x : Contains(Pipe', x) => Contains(Pipe, x)
      /\ \A x : x # m /\ Contains(Pipe, x) => Contains(Pipe', x)
      /\ ~ Waiting(m) => Pipe' = Pipe
  BY <1>1, <1>2, SendsWithdrawn
<1>4. \A other \in Ids : other # id => generator'[other] = generator[other]
  BY <1>1 DEF TypeOK, ClientTypeOK
<1>5. \/ generator'[id] = generator[id]
      \/ generator'[id] = "cancelled" /\ generator[id] # "new" /\ id \notin requests
      \/ generator'[id] = "getting" /\ generator[id] = "sending"
      \/ generator'[id] = "died" /\ error /\ generator[id] = "sending"
  BY <1>1 DEF TypeOK, ClientTypeOK
<1> SUFFICES ASSUME NEW other \in Ids
             PROVE  /\ PerRequest(other)'
                    /\ (m = Abort(id) => error \/ closing \/ ~ Waiting(m)) => WantedKept(other)
  OBVIOUS
<1>6. PipeOK(other)' /\ (AtEngine(other)' => AtEngine(other))
  <2>1. Ordered(Pipe', other)
    BY <1>1, <1>3 DEF PerRequest, PipeOK
  <2>2. generator'[other] = "new" => generator[other] = "new"
    BY <1>4, <1>5
  <2> QED BY <1>1, <1>2, <1>3, <2>1, <2>2, PipeFrame DEF PerRequest
<1>7. ASSUME m = Abort(id) => error \/ closing \/ ~ Waiting(m) PROVE WantedKept(other)
  <2>1. Contains(Pipe, Abort(other)) => Contains(Pipe', Abort(other)) \/ error' \/ closing'
    BY <1>3, <1>7, MessagesDiffer
  <2> QED BY <1>1, <1>2, <1>6, <2>1, WantedFrame DEF PerRequest
<1>8. QueueOK(other)'
  BY <1>1, QueueFrame DEF PerRequest
<1>9. WaitOK(other)'
  <2>1. CASE generator'[other] = generator[other]
    BY <1>1, <2>1, WaitFrame DEF PerRequest
  <2>2. CASE other = id
    <3>1. error => id \notin requests
      BY DEF ClientCore, LifeOK
    <3> QED BY <1>1, <1>5, <2>2, <3>1 DEF PerRequest, WaitOK
  <2> QED BY <1>4, <2>1, <2>2
<1>10. OutboxOK(other)' /\ CountOK(other)' /\ FreshOK(other)'
  <2>1. /\ generator'[other] = "new" => generator[other] = "new"
        /\ generator'[other] # "cancelled" => generator[other] # "cancelled"
    BY <1>4, <1>5
  <2> QED BY <1>1, <1>2, <1>6, <2>1, OutboxFrame, CountFrame, FreshFrame DEF PerRequest
<1> QED
  BY <1>6, <1>7, <1>8, <1>9, <1>10 DEF PerRequest

LEMMA SendEndsSteps ==
    ASSUME ClientCore, NEW id \in Ids,
           GenerateSent(id) \/ GenerateAborted(id) \/ AbortSent(id) \/ SendCancelled(id)
    PROVE  \A other \in Ids : Keeps(other)
<1>1. (closer = "done" => closing /\ requests = {})
      /\ (id \in requests => generator[id] # "aborting")
  BY DEF ClientCore, LifeOK, PerRequest, WaitOK
<1>2. generator \in [Ids -> GeneratorStates]
  BY DEF ClientCore, ClientTypeOK
<1>3. CASE GenerateSent(id)
  BY <1>2, <1>3, SendEnds, MessagesDiffer DEF Keeps, GenerateSent, stateVars
<1>4. CASE GenerateAborted(id)
  BY <1>1, <1>2, <1>4, SendEnds, MessagesDiffer DEF Keeps, GenerateAborted, stateVars
<1>5. CASE AbortSent(id)
  BY <1>2, <1>5, SendEnds, MessagesDiffer DEF Keeps, AbortSent, stateVars
<1>6. CASE SendCancelled(id)
  BY <1>1, <1>2, <1>6, SendEnds, MessagesDiffer DEF Keeps, SendCancelled, stateVars
<1> QED
  BY <1>3, <1>4, <1>5, <1>6

-----------------------------------------------------------------------------
(* The steps that register a request and that give it up.                   *)

\* While a request is registered and the engine lives, the client is alive, so
\* that its ABORT is sent.
LEMMA RegisteredAlive ==
    ASSUME ClientCore, NEW id \in Ids, id \in requests, engine # "stopped"
    PROVE  Alive
<1>1. FreshOK(id) /\ LifeOK
  BY DEF ClientCore, PerRequest
<1>2. generator[id] # "new" /\ ~ error /\ ~ closing
  BY <1>1 DEF FreshOK, LifeOK
<1> QED
  BY <1>1, <1>2 DEF LifeOK, Alive, IsAlive

LEMMA AbortStarts ==
    ASSUME ClientCore, NEW id \in Ids, id \in requests,
           NEW kept, kept = sends \/ kept = Withdrawn(Add(id)), StartAbort(id, kept),
           UNCHANGED <<serviceVars, error, closing, consumed, final>>,
           \/ UNCHANGED generator
           \/ \E state \in {"aborting", "cancelled"} : generator' = [generator EXCEPT ![id] = state]
    PROVE  \A other \in Ids : Keeps(other)
<1>1. TypeOK /\ \A other \in Ids : PerRequest(other)
  BY DEF ClientCore, TypeOK
<1>2. UNCHANGED <<engine, inbox, outbox, working, answered>>
  BY DEF serviceVars
<1>3. inbox \in Seq(Inputs) /\ sends \in Seq(Inputs) /\ Abort(id) \in Inputs
  BY <1>1, MessagesDiffer DEF TypeOK, ServiceTypeOK, ClientTypeOK
<1> DEFINE rest == inbox \o kept
<1>4. /\ kept \in Seq(Inputs) /\ rest \in Seq(Inputs)
      /\ \A other \in Ids : Ordered(rest, other)
      /\ \A x : Contains(rest, x) => Contains(Pipe, x)
      /\ \A x : x # Add(id) /\ Contains(Pipe, x) => Contains(rest, x)
  <2>1. \A other \in Ids : Ordered(Pipe, other)
    BY <1>1 DEF PerRequest, PipeOK
  <2>2. CASE kept = sends
    BY <1>3, <2>1, <2>2 DEF Pipe
  <2>3. CASE kept = RemoveFirst(sends, Add(id))
    BY <1>3, <2>1, <2>3, PipeWithdrawn, Zenon DEF Pipe
  <2> QED BY <2>2, <2>3 DEF Withdrawn
<1>5. Pipe' = IF Alive THEN Append(rest, Abort(id)) ELSE rest
  <2>1. sends' = IF Alive THEN Append(kept, Abort(id)) ELSE kept
    BY DEF StartAbort
  <2>2. inbox \o Append(kept, Abort(id)) = Append(inbox \o kept, Abort(id))
    BY <1>3, <1>4
  <2> QED BY <1>2, <2>1, <2>2 DEF Pipe
<1> HIDE DEF rest
<1>6. /\ \A other \in Ids : Ordered(Pipe', other)
      /\ \A x : Contains(Pipe', x) => Contains(Pipe, x) \/ x = Abort(id)
      /\ \A x : x # Add(id) /\ Contains(Pipe, x) => Contains(Pipe', x)
      /\ Alive => Contains(Pipe', Abort(id))
  <2>1. CASE Alive
    <3>1. Pipe' = Append(rest, Abort(id))
      BY <1>5, <2>1
    <3>2. /\ \A m : Contains(Pipe', m) <=> Contains(rest, m) \/ m = Abort(id)
          /\ \A other \in Ids : Ordered(Pipe', other)
      BY <1>3, <1>4, <3>1, PipeExtended, MessagesDiffer
    <3> QED BY <1>4, <3>2
  <2>2. CASE ~ Alive
    BY <1>4, <1>5, <2>2
  <2> QED BY <2>1, <2>2
<1>7. /\ requests' = requests \ {id}
      /\ queue'[id] = <<None>> /\ \A other \in Ids : other # id => queue'[other] = queue[other]
  BY <1>1 DEF StartAbort, TypeOK, ClientTypeOK
<1>8. generator[id] # "new"
  BY <1>1 DEF PerRequest, FreshOK
<1>9. /\ \A other \in Ids : other # id => generator'[other] = generator[other]
      /\ generator'[id] = generator[id] \/ generator'[id] \in {"aborting", "cancelled"}
  BY <1>1 DEF TypeOK, ClientTypeOK
<1>10. Len(<<None>>) = 1 /\ <<None>>[1] = None /\ <<None>> # <<>> /\ Last(<<None>>) = None
       /\ None \notin Answers /\ None # EngineDied
  BY ItemsDiffer DEF Last
<1>11. ASSUME NEW other \in Ids
       PROVE  AtEngine(other)' => AtEngine(other)
  BY <1>2, <1>6, MessagesDiffer DEF AtEngine
<1>12. Keeps(id)
  <2>1. PipeOK(id)'
    BY <1>1, <1>2, <1>6, <1>8, <1>9, MessagesDiffer DEF PerRequest, PipeOK
  <2>2. WantedKept(id)
    BY <1>2, <1>6, RegisteredAlive DEF WantedKept, WantedOK
  <2>3. QueueOK(id)'
    BY <1>7, <1>10 DEF QueueOK
  <2>4. WaitOK(id)'
    BY <1>1, <1>7, <1>9, <1>10 DEF PerRequest, WaitOK
  <2>5. OutboxOK(id)'
    BY <1>1, <1>2, <1>11, OutboxFrame DEF PerRequest
  <2>6. CountOK(id)'
    <3>1. id \notin requests'
      BY <1>7
    <3>2. \A i \in 1 .. Len(queue'[id]) : queue'[id][i] \notin FinalAnswers
      BY <1>7, <1>10 DEF FinalAnswers
    <3>3. CountIn(queue'[id], Answers) = 0
      <4>1. <<None>> \in Seq(Items)
        BY DEF Items
      <4>2. \A i \in 1 .. Len(<<None>>) : <<None>>[i] \notin Answers
        BY <1>10
      <4> QED BY <1>7, <4>1, <4>2, CountInType
    <3>4. /\ consumed[id] \in Nat /\ CountIn(queue[id], Answers) \in Nat
          /\ CountIn(outbox, About(id)) \in Nat /\ answered[id] \in Nat
      <4>1. queue[id] \in Seq(Items) /\ outbox \in Seq(Messages)
        BY <1>1 DEF TypeOK, ClientTypeOK, ServiceTypeOK, Items
      <4> QED BY <1>1, <4>1, CountInType DEF TypeOK, ClientTypeOK, ServiceTypeOK
    <3>5. Delivered(id)' + CountIn(outbox', About(id)) <= answered'[id]
      <4>1. Delivered(id) + CountIn(outbox, About(id)) <= answered[id]
        BY <1>1 DEF PerRequest, CountOK
      <4> QED BY <1>2, <3>3, <3>4, <4>1 DEF Delivered
    <3> QED BY <1>1, <1>2, <1>11, <3>1, <3>2, <3>5 DEF PerRequest, CountOK
  <2>7. FreshOK(id)'
    BY <1>8, <1>9 DEF FreshOK
  <2> QED BY <2>1, <2>2, <2>3, <2>4, <2>5, <2>6, <2>7 DEF PerRequest, Keeps
<1>13. ASSUME NEW other \in Ids, other # id PROVE Keeps(other)
  <2>1. /\ queue'[other] = queue[other] /\ generator'[other] = generator[other]
        /\ other \in requests' <=> other \in requests
    BY <1>7, <1>9, <1>13
  <2>2. Contains(Pipe', Abort(other)) <=> Contains(Pipe, Abort(other))
    BY <1>6, <1>13, MessagesDiffer
  <2>3. Contains(Pipe', Add(other)) => Contains(Pipe, Add(other))
    BY <1>6, MessagesDiffer
  <2>4. PipeOK(other)'
    BY <1>1, <1>2, <1>6, <2>1, <2>2, <2>3, PipeFrame DEF PerRequest
  <2>5. WantedKept(other) /\ QueueOK(other)' /\ WaitOK(other)'
    BY <1>1, <1>2, <1>11, <2>1, <2>2, WantedFrame, QueueFrame, WaitFrame DEF PerRequest
  <2>6. OutboxOK(other)' /\ CountOK(other)' /\ FreshOK(other)'
    BY <1>1, <1>2, <1>11, <2>1, OutboxFrame, CountFrame, FreshFrame DEF PerRequest
  <2> QED BY <2>4, <2>5, <2>6 DEF PerRequest, Keeps
<1> QED
  BY <1>12, <1>13

LEMMA GiveUpSteps ==
    ASSUME ClientCore, NEW id \in Ids, CancelGenerate(id) \/ CallAbort(id)
    PROVE  \A other \in Ids : Keeps(other)
<1>1. CASE CallAbort(id)
  BY <1>1, AbortStarts DEF CallAbort, stateVars
<1>2. CASE CancelGenerate(id) /\ id \in requests
  BY <1>2, AbortStarts DEF CancelGenerate, CleanUp, stateVars
<1>3. CASE CancelGenerate(id) /\ id \notin requests
  <2>1. generator' = [generator EXCEPT ![id] = "cancelled"] /\ generator[id] # "new"
    BY <1>3 DEF CancelGenerate
  <2>2. sends' = Withdrawn(Add(id)) /\ UNCHANGED <<requests, queue>>
    BY <1>3 DEF CancelGenerate, CleanUp
  <2>3. Add(id) # Abort(id)
    BY MessagesDiffer
  <2> QED BY <1>3, <2>1, <2>2, <2>3, SendEnds DEF Keeps, CancelGenerate, stateVars
<1> QED
  BY <1>1, <1>2, <1>3

LEMMA GenerateStep ==
    ASSUME ClientCore, NEW id \in Ids, Generate(id)
    PROVE  \A other \in Ids : Keeps(other)
<1>1. TypeOK /\ LifeOK /\ \A other \in Ids : PerRequest(other)
  BY DEF ClientCore, TypeOK
<1>2. /\ UNCHANGED <<engine, inbox, outbox, working, answered, error, closing,
                     queue, consumed, final>>
      /\ generator[id] = "new"
  BY DEF Generate, serviceVars, stateVars
<1>3. inbox \in Seq(Inputs) /\ sends \in Seq(Inputs) /\ Add(id) \in Inputs
  BY <1>1, MessagesDiffer DEF TypeOK, ServiceTypeOK, ClientTypeOK
<1>4. CASE Alive
  <2>1. /\ requests' = requests \cup {id} /\ generator'[id] = "sending"
        /\ \A other \in Ids : other # id => generator'[other] = generator[other]
        /\ sends' = Append(sends, Add(id))
    BY <1>1, <1>4 DEF Generate, TypeOK, ClientTypeOK
  <2>2. Pipe \in Seq(Inputs) /\ Pipe' = Append(Pipe, Add(id))
    BY <1>2, <1>3, <2>1 DEF Pipe
  <2>3. ~ Contains(Pipe, Add(id)) /\ ~ Contains(Pipe, Abort(id))
    BY <1>1, <1>2 DEF PerRequest, PipeOK
  <2>4. \A other \in Ids : Ordered(Pipe, other)
    BY <1>1 DEF PerRequest, PipeOK
  <2>5. /\ \A m : Contains(Pipe', m) <=> Contains(Pipe, m) \/ m = Add(id)
        /\ \A other \in Ids : Ordered(Pipe', other)
    BY <1>3, <2>2, <2>3, <2>4, PipeExtended, MessagesDiffer
  <2>6. ~ error /\ ~ closing
    BY <1>4 DEF Alive
  <2>7. Keeps(id)
    <3>1. /\ id \notin working /\ queue[id] = <<>> /\ consumed[id] = 0 /\ answered[id] = 0
          /\ \A i \in 1 .. Len(outbox) : outbox[i] \notin About(id)
      BY <1>1, <1>2 DEF PerRequest, FreshOK
    <3>2. id \notin final
      BY <1>1, <1>2 DEF PerRequest, WaitOK
    <3>3. LastOf(id) \subseteq About(id)
      BY DEF LastOf, About
    <3>4. PipeOK(id)'
      BY <1>2, <2>1, <2>5, <3>1, MaxOutputsAssumption DEF PipeOK
    <3>5. WantedKept(id)
      BY <2>1 DEF WantedKept, WantedOK
    <3>6. QueueOK(id)'
      BY <1>2, <3>1 DEF QueueOK
    <3>7. WaitOK(id)'
      BY <1>2, <2>1, <3>2 DEF WaitOK
    <3>8. OutboxOK(id)'
      BY <1>1, <1>2, <3>1, <3>3 DEF PerRequest, OutboxOK
    <3>9. CountOK(id)'
      <4>1. CountIn(queue[id], Answers) = 0
        <5>1. queue[id] \in Seq(Items) /\ Len(queue[id]) = 0
          BY <1>1, <3>1 DEF TypeOK, ClientTypeOK, Items
        <5>2. \A i \in 1 .. Len(queue[id]) : queue[id][i] \notin Answers
          BY <5>1
        <5> QED BY <5>1, <5>2, CountInType
      <4>2. CountIn(outbox, About(id)) = 0
        BY <1>1, <3>1, CountInType DEF TypeOK, ServiceTypeOK
      <4>3. Len(queue[id]) = 0
        BY <3>1
      <4> QED BY <1>2, <3>1, <3>2, <4>1, <4>2, <4>3 DEF CountOK, Delivered
    <3>10. FreshOK(id)'
      BY <2>1 DEF FreshOK
    <3> QED BY <3>4, <3>5, <3>6, <3>7, <3>8, <3>9, <3>10 DEF PerRequest, Keeps
  <2>8. ASSUME NEW other \in Ids, other # id PROVE Keeps(other)
    <3>1. generator'[other] = generator[other] /\ (other \in requests' <=> other \in requests)
      BY <2>1, <2>8
    <3>2. Add(other) # Add(id) /\ Add(id) # Abort(other)
      BY <2>8, MessagesDiffer
    <3>3. PipeOK(other)' /\ (AtEngine(other)' => AtEngine(other))
      BY <1>1, <1>2, <2>5, <3>1, <3>2, PipeFrame DEF PerRequest
    <3>4. WantedKept(other) /\ QueueOK(other)' /\ WaitOK(other)'
      BY <1>1, <1>2, <2>5, <3>1, <3>3, WantedFrame, QueueFrame, WaitFrame DEF PerRequest
    <3>5. OutboxOK(other)' /\ CountOK(other)' /\ FreshOK(other)'
      BY <1>1, <1>2, <3>1, <3>3, OutboxFrame, CountFrame, FreshFrame DEF PerRequest
    <3> QED BY <3>3, <3>4, <3>5 DEF PerRequest, Keeps
  <2> QED BY <2>7, <2>8
<1>5. CASE ~ Alive
  <2>1. /\ UNCHANGED <<requests, sends>> /\ generator'[id] = "rejected"
        /\ \A other \in Ids : other # id => generator'[other] = generator[other]
    BY <1>1, <1>5 DEF Generate, TypeOK, ClientTypeOK
  <2>2. Pipe' = Pipe
    BY <1>2, <2>1 DEF Pipe
  <2> SUFFICES ASSUME NEW other \in Ids PROVE Keeps(other)
    OBVIOUS
  <2>3. PipeOK(other)' /\ (AtEngine(other)' => AtEngine(other))
    BY <1>1, <1>2, <2>1, <2>2 DEF PerRequest, PipeOK, AtEngine
  <2>4. WantedKept(other) /\ QueueOK(other)'
    BY <1>1, <1>2, <2>1, <2>2, <2>3, WantedFrame, QueueFrame DEF PerRequest
  <2>5. WaitOK(other)'
    <3>1. CASE other = id
      BY <1>1, <1>2, <2>1, <3>1 DEF PerRequest, WaitOK
    <3>2. CASE other # id
      BY <1>1, <1>2, <2>1, <3>2, WaitFrame DEF PerRequest
    <3> QED BY <3>1, <3>2
  <2>6. OutboxOK(other)' /\ CountOK(other)' /\ FreshOK(other)'
    <3>1. generator'[other] = "new" => generator[other] = "new"
      BY <2>1
    <3> QED BY <1>1, <1>2, <2>1, <2>3, <3>1, OutboxFrame, CountFrame, FreshFrame DEF PerRequest
  <2> QED BY <2>3, <2>4, <2>5, <2>6 DEF PerRequest, Keeps
<1> QED
  BY <1>4, <1>5

\* The queues when the requests fail: an end is put into those of the registered.
LEMMA RequestsFail ==
    ASSUME ClientCore, FailRequests, UNCHANGED <<serviceVars, generator, consumed, final>>,
           error' \/ closing', error => error', closing => closing',
           sends' = sends \/ sends' = Append(sends, Shutdown)
    PROVE  \A id \in Ids : Keeps(id)
<1>1. TypeOK /\ \A id \in Ids : PerRequest(id)
  BY DEF ClientCore, TypeOK
<1>2. UNCHANGED <<engine, inbox, outbox, working, answered>>
  BY DEF serviceVars
<1>3. inbox \in Seq(Inputs) /\ sends \in Seq(Inputs) /\ Shutdown \in Inputs
  BY <1>1, MessagesDiffer DEF TypeOK, ServiceTypeOK, ClientTypeOK
<1> SUFFICES ASSUME NEW id \in Ids PROVE Keeps(id)
  OBVIOUS
<1>4. /\ Ordered(Pipe', id)
      /\ \A m : m # Shutdown => (Contains(Pipe', m) <=> Contains(Pipe, m))
  <2>1. Ordered(Pipe, id) /\ Pipe \in Seq(Inputs)
    BY <1>1, <1>3 DEF PerRequest, PipeOK, Pipe
  <2>2. CASE sends' = sends
    BY <1>2, <2>1, <2>2 DEF Pipe
  <2>3. CASE sends' = Append(sends, Shutdown)
    <3>1. Pipe' = Append(Pipe, Shutdown)
      BY <1>2, <1>3, <2>3 DEF Pipe
    <3> QED BY <1>3, <2>1, <3>1, PipeExtended, MessagesDiffer
  <2> QED BY <2>2, <2>3
<1>5. PipeOK(id)' /\ (AtEngine(id)' => AtEngine(id))
  BY <1>1, <1>2, <1>4, PipeFrame, MessagesDiffer DEF PerRequest
<1>6. WantedKept(id)
  BY DEF WantedKept, WantedOK
<1>7. requests' = {}
  BY DEF FailRequests
<1>8. OutboxOK(id)'
  BY <1>1, <1>2, <1>5, OutboxFrame DEF PerRequest
<1>9. CASE id \notin requests
  <2>1. queue'[id] = queue[id]
    BY <1>9 DEF FailRequests
  <2> QED BY <1>1, <1>2, <1>5, <1>6, <1>7, <1>8, <1>9, <2>1, QueueFrame, WaitFrame, CountFrame,
             FreshFrame DEF PerRequest, Keeps
<1>10. CASE id \in requests
  <2>1. queue[id] \in Seq(Items) /\ EngineDied \in Items /\ EngineDied \notin Answers
    BY <1>1, ItemsDiffer DEF TypeOK, ClientTypeOK, Items
  <2>2. queue'[id] = Append(queue[id], EngineDied)
    BY <1>10 DEF FailRequests
  <2> DEFINE n == Len(queue[id])
  <2>3. /\ n \in Nat /\ Len(queue'[id]) = n + 1 /\ queue'[id][n + 1] = EngineDied
        /\ \A i \in 1 .. n : queue'[id][i] = queue[id][i]
    BY <2>1, <2>2
  <2>4. \A i \in 1 .. n : queue[id][i] \in Answers
    BY <1>1, <1>10 DEF PerRequest, QueueOK
  <2> HIDE DEF n
  <2>5. QueueOK(id)'
    <3>1. \A i \in 1 .. Len(queue'[id]) : i # n + 1 =>
              i \in 1 .. n /\ queue'[id][i] = queue[id][i] /\ queue'[id][i] \in Answers
      BY <2>3, <2>4
    <3>2. \A i \in 1 .. Len(queue'[id]) : queue'[id][i] \notin Answers =>
              i = Len(queue'[id]) /\ id \notin requests'
      BY <1>7, <2>3, <3>1
    <3>3. ASSUME NEW i \in 1 .. Len(queue'[id]), NEW j \in 1 .. Len(queue'[id]),
                 queue'[id][i] \in Answers, queue'[id][i].final, queue'[id][j] \in Answers
          PROVE  j <= i
      <4>1. i # n + 1 /\ j # n + 1
        BY <2>1, <2>3, <3>3
      <4>2. i \in 1 .. n /\ j \in 1 .. n /\ queue[id][i] \in Answers /\ queue[id][i].final
            /\ queue[id][j] \in Answers
        BY <3>1, <3>3, <4>1
      <4> QED BY <1>1, <4>2 DEF PerRequest, QueueOK, n
    <3> QED BY <3>2, <3>3 DEF QueueOK
  <2>6. WaitOK(id)'
    <3>1. queue'[id] # <<>> /\ Last(queue'[id]) \notin Answers
      BY <2>1, <2>2, <2>3 DEF Last
    <3> QED BY <1>1, <1>7, <3>1 DEF PerRequest, WaitOK
  <2>7. CountIn(queue'[id], Answers) = CountIn(queue[id], Answers)
    <3>1. CountIn(queue[id], Answers) \in Nat
      BY <2>1, CountInType
    <3> QED BY <2>1, <2>2, <3>1, CountInAppend
  <2>8. CountOK(id)'
    <3>1. EngineDied \notin FinalAnswers
      BY <2>1 DEF FinalAnswers
    <3>2. (\E i \in 1 .. Len(queue'[id]) : queue'[id][i] \in FinalAnswers)
              => \E i \in 1 .. Len(queue[id]) : queue[id][i] \in FinalAnswers
      BY <2>3, <3>1 DEF n
    <3>3. Delivered(id)' = Delivered(id)
      BY <2>7 DEF Delivered
    <3>4. id \notin requests'
      BY <1>7
    <3> QED BY <1>1, <1>2, <1>5, <3>2, <3>3, <3>4 DEF PerRequest, CountOK
  <2>9. FreshOK(id)'
    BY <1>1, <1>10 DEF PerRequest, FreshOK
  <2> QED BY <1>5, <1>6, <1>8, <2>5, <2>6, <2>8, <2>9 DEF PerRequest, Keeps
<1> QED
  BY <1>9, <1>10

LEMMA FailSteps ==
    ASSUME ClientCore, ReaderFails \/ OnExit \/ CloseBegins
    PROVE  \A id \in Ids : Keeps(id)
<1>1. \A id \in Ids : PerRequest(id)
  BY DEF ClientCore
<1>2. CASE MarkDead /\ (ReaderFails \/ OnExit)
  <2>1. /\ UNCHANGED <<serviceVars, closing, sends, consumed, final, generator>>
    BY <1>2 DEF ReaderFails, OnExit
  <2>2. CASE error
    BY <1>1, <1>2, <2>1, <2>2, QuietStep DEF MarkDead, requestVars
  <2>3. CASE ~ error
    BY <1>2, <2>1, <2>3, RequestsFail DEF MarkDead
  <2> QED BY <2>2, <2>3
<1>3. CASE OnExit /\ closing
  BY <1>1, <1>3, QuietStep DEF OnExit, requestVars
<1>4. CASE CloseBegins
  BY <1>4, RequestsFail DEF CloseBegins
<1> QED
  BY <1>2, <1>3, <1>4 DEF ReaderFails, OnExit

-----------------------------------------------------------------------------
(* The steps that consume outputs.                                          *)

\* A request that a step does not concern.
LEMMA KeptFrame ==
    ASSUME NEW id, PerRequest(id), UNCHANGED <<engine, outbox, error, closing>>, Pipe' = Pipe,
           id \in working' <=> id \in working, id \in requests' <=> id \in requests,
           id \in final' <=> id \in final, answered'[id] = answered[id],
           queue'[id] = queue[id], generator'[id] = generator[id], consumed'[id] = consumed[id]
    PROVE  Keeps(id)
<1>1. PipeOK(id)' /\ (AtEngine(id)' => AtEngine(id))
  BY DEF PerRequest, PipeOK, AtEngine
<1>2. WantedKept(id) /\ QueueOK(id)' /\ WaitOK(id)'
  BY <1>1, WantedFrame, QueueFrame, WaitFrame DEF PerRequest
<1>3. OutboxOK(id)' /\ CountOK(id)' /\ FreshOK(id)'
  BY <1>1, OutboxFrame, CountFrame, FreshFrame DEF PerRequest
<1> QED
  BY <1>1, <1>2, <1>3 DEF PerRequest, Keeps

\* The first item of a queue is taken out.
LEMMA QueueShrinks ==
    ASSUME NEW id, queue[id] \in Seq(Items), queue[id] # <<>>, queue'[id] = Tail(queue[id]),
           QueueOK(id), requests' \subseteq requests, UNCHANGED <<error, closing>>
    PROVE  QueueOK(id)'
<1> DEFINE q == queue[id]
           n == Len(q)
<1>1. /\ n \in Nat \ {0} /\ Len(queue'[id]) = n - 1
      /\ \A i \in 1 .. Len(queue'[id]) : i + 1 \in 1 .. n /\ queue'[id][i] = q[i + 1]
  OBVIOUS
<1> HIDE DEF n, q
<1>2. \A i \in 1 .. Len(queue'[id]) : queue'[id][i] \notin Answers =>
          i = Len(queue'[id]) /\ id \notin requests'
  BY <1>1 DEF QueueOK, q, n
<1>3. ASSUME NEW i \in 1 .. Len(queue'[id]), NEW j \in 1 .. Len(queue'[id]),
             queue'[id][i] \in Answers, queue'[id][i].final, queue'[id][j] \in Answers
      PROVE  j <= i
  <2>1. j + 1 <= i + 1
    BY <1>1, <1>3 DEF QueueOK, q, n
  <2> QED BY <1>1, <2>1
<1>4. \A i \in 1 .. Len(queue'[id]) : queue'[id][i] = EngineDied => error' \/ closing'
  BY <1>1 DEF QueueOK, q, n
<1> QED
  BY <1>2, <1>3, <1>4 DEF QueueOK

\* An item is taken from a queue: an end, or an output, after which the consumer
\* has its turn or asks for the next one at once.
TakesEnd(id) ==
    LET item == Head(queue[id])
    IN  /\ item \in {EngineDied, None}
        /\ generator' = [generator EXCEPT ![id] = IF item = EngineDied THEN "died" ELSE "stopped"]
        /\ UNCHANGED <<requests, consumed, final>>

TakesOutput(id) ==
    LET item == Head(queue[id])
    IN  /\ item \in Answers
        /\ \E state \in {"yielded", IF item.final THEN "finished" ELSE "getting"} :
              generator' = [generator EXCEPT ![id] = state]
        /\ consumed' = [consumed EXCEPT ![id] = @ + 1]
        /\ final' = IF item.final THEN final \cup {id} ELSE final
        /\ requests' = IF item.final THEN requests \ {id} ELSE requests

TakesItem(id) ==
    /\ generator[id] = "getting" /\ queue[id] # <<>>
    /\ queue' = [queue EXCEPT ![id] = Tail(@)]
    /\ TakesEnd(id) \/ TakesOutput(id)
    /\ UNCHANGED <<serviceVars, error, closing, sends>>

LEMMA ItemTaken ==
    ASSUME ClientCore, NEW id \in Ids, TakesItem(id)
    PROVE  \A other \in Ids : Keeps(other)
<1>1. TypeOK /\ \A other \in Ids : PerRequest(other)
  BY DEF ClientCore, TypeOK
<1>2. UNCHANGED <<engine, inbox, outbox, working, answered, error, closing, sends>>
  BY DEF TakesItem, serviceVars
<1>3. Pipe' = Pipe
  BY <1>2 DEF Pipe
<1> DEFINE q == queue[id]
           n == Len(q)
           item == Head(q)
<1>4. /\ q \in Seq(Items) /\ q # <<>> /\ queue'[id] = Tail(q)
      /\ n \in Nat \ {0} /\ item = q[1] /\ item \in Items
      /\ Len(queue'[id]) = n - 1
      /\ \A i \in 1 .. (n - 1) : i + 1 \in 1 .. n /\ queue'[id][i] = q[i + 1]
  BY <1>1 DEF TakesItem, TypeOK, ClientTypeOK, Items
<1>5. generator[id] = "getting" /\ id \notin final
  BY <1>1 DEF TakesItem, PerRequest, WaitOK
<1>6. consumed[id] \in Nat /\ CountIn(q, Answers) \in Nat /\ CountIn(queue'[id], Answers) \in Nat
  <2>1. queue'[id] \in Seq(Items)
    BY <1>4
  <2> QED BY <1>1, <1>4, <2>1, CountInType DEF TypeOK, ClientTypeOK
<1>7. CountIn(q, Answers) = CountIn(queue'[id], Answers) + IF item \in Answers THEN 1 ELSE 0
  BY <1>4, CountInTail
<1>8. \A other \in Ids : other # id =>
          /\ queue'[other] = queue[other] /\ generator'[other] = generator[other]
          /\ consumed'[other] = consumed[other]
          /\ other \in requests' <=> other \in requests
          /\ other \in final' <=> other \in final
  <2>1. CASE TakesEnd(id)
    BY <1>1, <2>1 DEF TakesItem, TakesEnd, TypeOK, ClientTypeOK
  <2>2. CASE TakesOutput(id)
    BY <1>1, <2>2 DEF TakesItem, TakesOutput, TypeOK, ClientTypeOK
  <2> QED BY <2>1, <2>2 DEF TakesItem
<1> DEFINE Kept ==
        /\ Delivered(id)' = Delivered(id) /\ WantedKept(id) /\ WaitOK(id)' /\ FreshOK(id)'
        /\ requests' \subseteq requests
        /\ id \in final' => item \in FinalAnswers
        /\ generator'[id] # "new"
<1>9. ASSUME TakesEnd(id) PROVE Kept
  <2>1. /\ UNCHANGED <<requests, consumed, final>>
        /\ generator'[id] = IF item = EngineDied THEN "died" ELSE "stopped"
        /\ item \in {EngineDied, None}
    BY <1>1, <1>9 DEF TakesEnd, TypeOK, ClientTypeOK
  <2>2. Delivered(id)' = Delivered(id)
    BY <1>6, <1>7, <2>1, ItemsDiffer DEF Delivered
  <2>3. (item = EngineDied => error \/ closing) /\ id \notin requests
    BY <1>1, <1>4, <2>1, ItemsDiffer DEF PerRequest, QueueOK
  <2>4. WaitOK(id)' /\ FreshOK(id)'
    BY <1>2, <1>5, <2>1, <2>3 DEF WaitOK, FreshOK
  <2>5. WantedKept(id)
    BY <1>1, <1>2, <1>3, <2>1 DEF PerRequest, WantedKept, WantedOK, AtEngine
  <2>6. requests' \subseteq requests /\ id \notin final'
    BY <1>5, <2>1
  <2> QED BY <2>1, <2>2, <2>4, <2>5, <2>6
<1>10. ASSUME TakesOutput(id) PROVE Kept
  <2>1. /\ generator'[id] \in {"yielded", IF item.final THEN "finished" ELSE "getting"}
        /\ consumed'[id] = consumed[id] + 1
        /\ final' = IF item.final THEN final \cup {id} ELSE final
        /\ requests' = IF item.final THEN requests \ {id} ELSE requests
        /\ item \in Answers
    BY <1>1, <1>10 DEF TakesOutput, TypeOK, ClientTypeOK
  <2>2. Delivered(id)' = Delivered(id)
    BY <1>6, <1>7, <2>1 DEF Delivered
  <2>3. item.final => ~ AtEngine(id)
    BY <1>1, <1>4, <1>5, <2>1 DEF PerRequest, CountOK, FinalAnswers
  <2>4. WantedKept(id)
    BY <1>1, <1>2, <1>3, <2>1, <2>3 DEF PerRequest, WantedKept, WantedOK, AtEngine
  <2>5. WaitOK(id)'
    <3>1. item.final => id \in final'
      BY <2>1
    <3>2. ASSUME ~ item.final, id \notin requests
          PROVE  queue'[id] # <<>> /\ Last(queue'[id]) \notin Answers
      <4>1. Last(q) \notin Answers
        BY <1>1, <1>5, <3>2 DEF PerRequest, WaitOK
      <4>2. Last(q) = q[n] /\ n # 1
        BY <1>4, <2>1, <4>1 DEF Last
      <4>3. Len(queue'[id]) = n - 1 /\ n - 1 \in 1 .. (n - 1) /\ queue'[id][n - 1] = q[n]
        <5> HIDE DEF n, q
        <5> QED BY <1>4, <4>2
      <4>4. queue'[id] # <<>>
        BY <4>3
      <4> QED BY <4>1, <4>2, <4>3, <4>4 DEF Last
    <3>3. id \in requests' => id \in requests /\ ~ item.final
      BY <2>1
    <3>4. id \in final' <=> item.final
      BY <1>5, <2>1
    <3> HIDE DEF item
    <3> QED BY <2>1, <3>1, <3>2, <3>3, <3>4 DEF WaitOK
  <2>6. FreshOK(id)' /\ requests' \subseteq requests
        /\ (id \in final' => item \in FinalAnswers)
    BY <1>5, <2>1 DEF FreshOK, FinalAnswers
  <2> QED BY <2>1, <2>2, <2>4, <2>5, <2>6
<1>11. Kept
  BY <1>9, <1>10 DEF TakesItem
<1> HIDE DEF n, item, q
<1>12. QueueOK(id)'
  BY <1>1, <1>2, <1>4, <1>11, QueueShrinks DEF PerRequest, q
<1>13. CountOK(id)'
  <2>1. AtEngine(id)' <=> AtEngine(id)
    BY <1>2, <1>3 DEF AtEngine
  <2>2. (\E i \in 1 .. Len(queue'[id]) : queue'[id][i] \in FinalAnswers)
            => \E i \in 1 .. Len(q) : q[i] \in FinalAnswers
    BY <1>4 DEF n
  <2>3. ASSUME item \in FinalAnswers
        PROVE  consumed'[id] = answered[id] /\ ~ AtEngine(id)
    <3>1. 1 \in 1 .. n /\ item = q[1]
      BY <1>4
    <3>2. Delivered(id) = answered[id] /\ ~ AtEngine(id)
      BY <1>1, <1>5, <2>3, <3>1 DEF PerRequest, CountOK, q, n
    <3>3. \A i \in 1 .. Len(queue'[id]) : queue'[id][i] \notin Answers
      <4>1. \A j \in 1 .. n : q[j] \in Answers => j <= 1
        BY <1>1, <2>3, <3>1 DEF PerRequest, QueueOK, FinalAnswers, q, n
      <4> QED BY <1>4, <4>1
    <3>4. CountIn(queue'[id], Answers) = 0
      <4>1. queue'[id] \in Seq(Items)
        BY <1>4
      <4> QED BY <3>3, <4>1, CountInType
    <3>5. consumed'[id] + 0 = Delivered(id) /\ consumed'[id] \in Nat
      <4>1. consumed'[id] \in Nat
        BY <1>1 DEF TakesItem, TakesEnd, TakesOutput, TypeOK, ClientTypeOK
      <4> QED BY <1>11, <3>4, <4>1 DEF Delivered
    <3> QED BY <3>2, <3>5
  <2> QED BY <1>1, <1>2, <1>5, <1>11, <2>1, <2>2, <2>3 DEF PerRequest, CountOK, q
<1>14. PipeOK(id)' /\ OutboxOK(id)'
  <2>1. AtEngine(id)' <=> AtEngine(id)
    BY <1>2, <1>3 DEF AtEngine
  <2> QED BY <1>1, <1>2, <1>3, <1>11, <2>1, OutboxFrame DEF PerRequest, PipeOK
<1>15. Keeps(id)
  BY <1>11, <1>12, <1>13, <1>14 DEF PerRequest, Keeps
<1>16. \A other \in Ids : other # id => Keeps(other)
  BY <1>1, <1>2, <1>3, <1>8, KeptFrame
<1> QED
  BY <1>15, <1>16

LEMMA GetsStep ==
    ASSUME ClientCore, NEW id \in Ids, GenerateGets(id)
    PROVE  \A other \in Ids : Keeps(other)
<1> DEFINE item == Head(queue[id])
<1>1. queue[id] \in Seq(Items) /\ queue[id] # <<>>
  BY DEF GenerateGets, ClientCore, ClientTypeOK, Items
<1>2. item \in Answers \/ item \in {EngineDied, None}
  BY <1>1 DEF Items
<1>3. CASE item \in Answers
  <2>1. item # EngineDied /\ item # None
    BY <1>3, ItemsDiffer
  <2>2. TakesOutput(id)
    BY <1>3, <2>1 DEF GenerateGets, TakesOutput, RegisteredAfter
  <2> QED BY <2>2, ItemTaken DEF GenerateGets, TakesItem, stateVars
<1>4. CASE item \in {EngineDied, None}
  <2>1. TakesEnd(id)
    BY <1>4, ItemsDiffer DEF GenerateGets, TakesEnd
  <2> QED BY <2>1, ItemTaken DEF GenerateGets, TakesItem, stateVars
<1> QED
  BY <1>2, <1>3, <1>4

LEMMA GoesOnStep ==
    ASSUME ClientCore, NEW id \in Ids, GenerateGoesOn(id)
    PROVE  \A other \in Ids : Keeps(other)
<1>1. TypeOK /\ \A other \in Ids : PerRequest(other)
  BY DEF ClientCore, TypeOK
<1>2. UNCHANGED <<engine, inbox, outbox, working, answered, error, closing, requests, queue,
                  sends, consumed, final>>
  BY DEF GenerateGoesOn, serviceVars, stateVars, requestVars
<1>3. Pipe' = Pipe
  BY <1>2 DEF Pipe
<1>4. /\ generator'[id] = IF id \in final THEN "finished" ELSE "getting"
      /\ generator[id] = "yielded"
      /\ \A other \in Ids : other # id => generator'[other] = generator[other]
  BY <1>1 DEF GenerateGoesOn, TypeOK, ClientTypeOK
<1>5. \A other \in Ids : other # id => Keeps(other)
  BY <1>1, <1>2, <1>3, <1>4, KeptFrame
<1>6. WaitOK(id)'
  BY <1>1, <1>2, <1>4 DEF PerRequest, WaitOK
<1>7. PipeOK(id)' /\ (AtEngine(id)' => AtEngine(id))
  BY <1>1, <1>2, <1>3, <1>4 DEF PerRequest, PipeOK, AtEngine
<1>8. WantedKept(id) /\ QueueOK(id)'
  BY <1>1, <1>2, <1>3, <1>7, WantedFrame, QueueFrame DEF PerRequest
<1>9. OutboxOK(id)' /\ CountOK(id)' /\ FreshOK(id)'
  BY <1>1, <1>2, <1>4, <1>7, OutboxFrame, CountFrame, FreshFrame DEF PerRequest
<1> QED
  BY <1>5, <1>6, <1>7, <1>8, <1>9 DEF PerRequest, Keeps

-----------------------------------------------------------------------------
(* The sockets.                                                             *)

LEMMA SendNextStep ==
    ASSUME ClientCore, SendNext
    PROVE  \A id \in Ids : Keeps(id)
<1>1. TypeOK /\ \A id \in Ids : PerRequest(id)
  BY DEF ClientCore, TypeOK
<1>2. UNCHANGED <<engine, outbox, working, answered, error, closing, requests, queue,
                  consumed, final, generator>>
  BY DEF SendNext, stateVars, taskVars
<1>3. Pipe' = Pipe
  <2>1. inbox \in Seq(Inputs) /\ sends \in Seq(Inputs) /\ sends # <<>>
    BY <1>1 DEF SendNext, TypeOK, ServiceTypeOK, ClientTypeOK
  <2>2. inbox' = Append(inbox, Head(sends)) /\ sends' = Tail(sends)
    BY DEF SendNext
  <2>3. Append(inbox, Head(sends)) \o Tail(sends) = inbox \o sends
    BY <2>1
  <2> QED BY <2>2, <2>3 DEF Pipe
<1> QED
  BY <1>1, <1>2, <1>3, KeptFrame

\* The reader takes the oldest message from the engine.
LEMMA OutboxTaken ==
    ASSUME NEW id, outbox \in Seq(Messages), outbox # <<>>, outbox' = Tail(outbox),
           OutboxOK(id), AtEngine(id)' => AtEngine(id)
    PROVE  /\ OutboxOK(id)'
           /\ Head(outbox) \in Messages /\ Head(outbox) = outbox[1] /\ 1 \in 1 .. Len(outbox)
           /\ outbox' \in Seq(Messages)
           /\ \A i \in 1 .. Len(outbox') : i + 1 \in 1 .. Len(outbox) /\ outbox'[i] = outbox[i + 1]
           /\ CountIn(outbox, About(id)) =
                  CountIn(outbox', About(id)) + IF Head(outbox) \in About(id) THEN 1 ELSE 0
           /\ CountIn(outbox', About(id)) \in Nat
<1>1. /\ Head(outbox) \in Messages /\ Head(outbox) = outbox[1] /\ 1 \in 1 .. Len(outbox)
      /\ outbox' \in Seq(Messages) /\ Len(outbox') \in Nat
      /\ \A i \in 1 .. Len(outbox') : i + 1 \in 1 .. Len(outbox) /\ outbox'[i] = outbox[i + 1]
  OBVIOUS
<1>2. OutboxOK(id)'
  <2>1. \A i \in 1 .. Len(outbox') : outbox'[i].type = "kOutputs" =>
            \A a, b \in outbox'[i].outputs : a.id = id /\ b.id = id => a = b
    BY <1>1 DEF OutboxOK
  <2>2. ASSUME NEW i \in 1 .. Len(outbox'), NEW j \in 1 .. Len(outbox'),
               outbox'[i] \in LastOf(id), outbox'[j] \in About(id)
        PROVE  j <= i
    <3>1. j + 1 <= i + 1
      BY <1>1, <2>2 DEF OutboxOK
    <3> QED BY <3>1, <1>1
  <2>3. (\E i \in 1 .. Len(outbox') : outbox'[i] \in LastOf(id)) => ~ AtEngine(id)'
    BY <1>1 DEF OutboxOK
  <2> HIDE DEF LastOf, About
  <2> QED BY <2>1, <2>2, <2>3 DEF OutboxOK, LastOf, About
<1>3. CountIn(outbox, About(id)) =
          CountIn(Tail(outbox), About(id)) + IF Head(outbox) \in About(id) THEN 1 ELSE 0
  BY CountInTail
<1>4. CountIn(outbox', About(id)) \in Nat
  BY <1>1, CountInType
<1> QED
  BY <1>1, <1>2, <1>3, <1>4

LEMMA ReadReadyStep ==
    ASSUME ClientCore, ReadReady
    PROVE  \A id \in Ids : Keeps(id)
<1>1. TypeOK /\ \A id \in Ids : PerRequest(id)
  BY DEF ClientCore, TypeOK
<1>2. UNCHANGED <<engine, inbox, working, answered, error, closing, requests, queue,
                  sends, consumed, final, generator>>
  BY DEF ReadReady, requestVars
<1>3. Pipe' = Pipe
  BY <1>2 DEF Pipe
<1> SUFFICES ASSUME NEW id \in Ids PROVE Keeps(id)
  OBVIOUS
<1>4. PipeOK(id)' /\ (AtEngine(id)' <=> AtEngine(id))
  BY <1>1, <1>2, <1>3 DEF PerRequest, PipeOK, AtEngine
<1>5. Ready \notin About(id)
  BY ItemsDiffer DEF About
<1>6. outbox \in Seq(Messages) /\ outbox # <<>> /\ outbox' = Tail(outbox) /\ Head(outbox) = Ready
  BY <1>1 DEF ReadReady, TypeOK, ServiceTypeOK
<1>7. /\ OutboxOK(id)'
      /\ \A i \in 1 .. Len(outbox') : i + 1 \in 1 .. Len(outbox) /\ outbox'[i] = outbox[i + 1]
      /\ CountIn(outbox, About(id)) = CountIn(outbox', About(id))
  BY <1>1, <1>4, <1>5, <1>6, OutboxTaken DEF PerRequest
<1>8. WantedKept(id) /\ QueueOK(id)' /\ WaitOK(id)'
  BY <1>1, <1>2, <1>3, <1>4, WantedFrame, QueueFrame, WaitFrame DEF PerRequest
<1>9. CountOK(id)' /\ FreshOK(id)'
  BY <1>1, <1>2, <1>4, <1>7 DEF PerRequest, CountOK, FreshOK, Delivered
<1> QED
  BY <1>4, <1>7, <1>8, <1>9 DEF PerRequest, Keeps

LEMMA ReadOutputsStep ==
    ASSUME ClientCore, ReadOutputs
    PROVE  \A id \in Ids : Keeps(id)
<1>1. TypeOK /\ EngineOK /\ \A id \in Ids : PerRequest(id)
  BY DEF ClientCore, TypeOK
<1>2. UNCHANGED <<engine, inbox, working, answered, error, closing, requests,
                  sends, consumed, final, generator>>
  BY DEF ReadOutputs, stateVars, taskVars
<1>3. Pipe' = Pipe
  BY <1>2 DEF Pipe
<1> SUFFICES ASSUME NEW id \in Ids PROVE Keeps(id)
  OBVIOUS
<1>4. PipeOK(id)' /\ (AtEngine(id)' <=> AtEngine(id))
  BY <1>1, <1>2, <1>3 DEF PerRequest, PipeOK, AtEngine
<1>5. outbox \in Seq(Messages) /\ outbox # <<>> /\ outbox' = Tail(outbox)
  BY <1>1 DEF ReadOutputs, TypeOK, ServiceTypeOK
<1> DEFINE message == Head(outbox)
           answers == message.outputs
           told == id \in requests /\ \E a \in answers : a.id = id
<1>6. /\ OutboxOK(id)'
      /\ message \in Messages /\ message = outbox[1] /\ 1 \in 1 .. Len(outbox)
      /\ outbox' \in Seq(Messages)
      /\ \A i \in 1 .. Len(outbox') : i + 1 \in 1 .. Len(outbox) /\ outbox'[i] = outbox[i + 1]
      /\ CountIn(outbox, About(id)) =
            CountIn(outbox', About(id)) + IF message \in About(id) THEN 1 ELSE 0
      /\ CountIn(outbox', About(id)) \in Nat
  BY <1>1, <1>4, <1>5, OutboxTaken DEF PerRequest
<1>7. message.type = "kOutputs" /\ answers \subseteq Answers
  <2>1. message # Ready
    BY <1>1, <1>6 DEF EngineOK, ReadOutputs
  <2> QED BY <1>6, <2>1, ItemsDiffer DEF Messages
<1>8. message \in About(id) <=> \E a \in answers : a.id = id
  BY <1>6, <1>7 DEF About
<1>9. queue'[id] = IF told THEN Append(queue[id], OutputOf(answers, id)) ELSE queue[id]
  BY DEF ReadOutputs, Deliver
<1>10. WantedKept(id)
  BY <1>1, <1>2, <1>3, <1>4, WantedFrame DEF PerRequest
<1>11. CASE ~ told
  <2>1. queue'[id] = queue[id]
    BY <1>9, <1>11
  <2>2. QueueOK(id)' /\ WaitOK(id)'
    BY <1>1, <1>2, <2>1, QueueFrame, WaitFrame DEF PerRequest
  <2>3. id \in requests => CountIn(outbox', About(id)) = CountIn(outbox, About(id))
    BY <1>6, <1>8, <1>11
  <2>4. Delivered(id)' = Delivered(id) /\ Delivered(id) \in Nat
    <3>1. CountIn(queue[id], Answers) \in Nat /\ consumed[id] \in Nat
      <4>1. queue[id] \in Seq(Items)
        BY <1>1 DEF TypeOK, ClientTypeOK, Items
      <4> QED BY <1>1, <4>1, CountInType DEF TypeOK, ClientTypeOK
    <3> QED BY <1>2, <2>1, <3>1 DEF Delivered
  <2>5. CountOK(id)'
    <3>1. Delivered(id)' + CountIn(outbox', About(id)) <= answered'[id]
      <4>1. Delivered(id) + CountIn(outbox, About(id)) <= answered[id] /\ answered[id] \in Nat
        BY <1>1 DEF PerRequest, CountOK, TypeOK, ServiceTypeOK
      <4> QED BY <1>2, <1>6, <2>4, <4>1
    <3>2. CountOK(id)
      BY <1>1 DEF PerRequest
    <3> HIDE DEF told, message, answers
    <3>3. Delivered(id)' = Delivered(id)
      BY <2>4
    <3>4. \A i \in 1 .. Len(outbox') : i + 1 \in 1 .. Len(outbox) /\ outbox'[i] = outbox[i + 1]
      BY <1>6
    <3> QED BY <1>2, <1>4, <2>1, <2>3, <3>1, <3>2, <3>3, <3>4 DEF CountOK
  <2>6. FreshOK(id)'
    BY <1>1, <1>2, <1>6, <2>1 DEF PerRequest, FreshOK
  <2> QED BY <1>4, <1>6, <1>10, <2>2, <2>5, <2>6 DEF PerRequest, Keeps
<1>12. CASE told
  <2> DEFINE a0 == OutputOf(answers, id)
             n == Len(queue[id])
  <2>1. a0 \in answers /\ a0.id = id /\ a0 \in Answers
    BY <1>7, <1>12 DEF OutputOf
  <2>2. message \in About(id) /\ id \in requests
    BY <1>8, <1>12
  <2> HIDE DEF a0
  <2>3. queue[id] \in Seq(Items) /\ a0 \in Items /\ queue'[id] = Append(queue[id], a0)
    BY <1>1, <1>9, <1>12, <2>1 DEF TypeOK, ClientTypeOK, Items, a0
  <2>4. /\ n \in Nat /\ Len(queue'[id]) = n + 1 /\ queue'[id][n + 1] = a0
        /\ \A i \in 1 .. n : queue'[id][i] = queue[id][i]
    BY <2>3
  <2>5. \A i \in 1 .. n : queue[id][i] \in Answers
    BY <1>1, <2>2 DEF PerRequest, QueueOK
  <2>6. \A i \in 1 .. n : queue[id][i] \notin FinalAnswers
    <3>1. generator[id] # "cancelled"
      BY <1>1, <2>2 DEF PerRequest, WaitOK
    <3> QED BY <1>1, <1>6, <2>2, <3>1 DEF PerRequest, CountOK
  <2>7. a0 \in FinalAnswers => message \in LastOf(id)
    BY <1>6, <1>7, <2>1 DEF LastOf, FinalAnswers
  <2> HIDE DEF n
  <2>8. QueueOK(id)'
    <3>1. \A i \in 1 .. (n + 1) : queue'[id][i] \in Answers
      BY <2>1, <2>4, <2>5
    <3>2. \A i \in 1 .. n : queue'[id][i] \notin FinalAnswers
      BY <2>4, <2>6
    <3>3. \A i \in 1 .. Len(queue'[id]) : queue'[id][i] # EngineDied
      BY <2>4, <3>1, ItemsDiffer
    <3>4. \A i, j \in 1 .. Len(queue'[id]) :
              queue'[id][i] \in Answers /\ queue'[id][i].final => j <= i
      BY <2>4, <3>2 DEF FinalAnswers
    <3> QED BY <2>4, <3>1, <3>3, <3>4 DEF QueueOK
  <2>9. WaitOK(id)'
    BY <1>1, <1>2, <2>2 DEF PerRequest, WaitOK
  <2>10. Delivered(id)' = Delivered(id) + 1
    <3>1. CountIn(queue'[id], Answers) = CountIn(queue[id], Answers) + 1
      BY <2>1, <2>3, CountInAppend
    <3>2. CountIn(queue[id], Answers) \in Nat /\ consumed[id] \in Nat
      BY <1>1, <2>3, CountInType DEF TypeOK, ClientTypeOK
    <3> QED BY <1>2, <3>1, <3>2 DEF Delivered
  <2>11. CountIn(outbox, About(id)) = CountIn(outbox', About(id)) + 1
    BY <1>6, <2>2
  <2>12. Delivered(id) \in Nat
    <3>1. CountIn(queue[id], Answers) \in Nat /\ consumed[id] \in Nat
      BY <1>1, <2>3, CountInType DEF TypeOK, ClientTypeOK
    <3> QED BY <3>1 DEF Delivered
  <2>13. CountOK(id)'
    <3>1. ASSUME \/ engine # "stopped"
                 \/ \E i \in 1 .. Len(outbox) : outbox[i] \in LastOf(id)
          PROVE  Delivered(id)' + CountIn(outbox', About(id)) = answered[id]
      <4>1. Delivered(id) + CountIn(outbox, About(id)) = answered[id]
        BY <1>1, <2>2, <3>1 DEF PerRequest, CountOK
      <4> QED BY <1>6, <2>10, <2>11, <2>12, <4>1
    <3>2. (\E i \in 1 .. Len(outbox') : outbox'[i] \in LastOf(id))
              => \E i \in 1 .. Len(outbox) : outbox[i] \in LastOf(id)
      BY <1>6
    <3>3. ASSUME a0 \in FinalAnswers
          PROVE  /\ Delivered(id)' = answered[id]
                 /\ ~ AtEngine(id)
                 /\ \A i \in 1 .. Len(outbox') : outbox'[i] \notin About(id)
      <4>1. outbox[1] \in LastOf(id) /\ 1 \in 1 .. Len(outbox)
        BY <1>6, <2>7, <3>3
      <4>2. \A j \in 1 .. Len(outbox) : outbox[j] \in About(id) => j <= 1
        BY <1>1, <4>1 DEF PerRequest, OutboxOK
      <4>3. ~ AtEngine(id)
        BY <1>1, <4>1 DEF PerRequest, OutboxOK
      <4>4. \A i \in 1 .. Len(outbox') : outbox'[i] \notin About(id)
        <5>1. \A i \in 1 .. Len(outbox') : ~(i + 1 <= 1)
          OBVIOUS
        <5> QED BY <1>6, <4>2, <5>1
      <4>5. CountIn(outbox', About(id)) = 0
        BY <1>6, <4>4, CountInType
      <4>6. Delivered(id)' + 0 = answered[id] /\ Delivered(id)' \in Nat
        BY <2>10, <2>12, <3>1, <4>1, <4>5
      <4> QED BY <4>3, <4>4, <4>6
    <3>4. \A i \in 1 .. Len(queue'[id]) : queue'[id][i] \in FinalAnswers => a0 \in FinalAnswers
      BY <2>4, <2>6
    <3>5. id \in final => consumed[id] = answered[id] /\ ~ AtEngine(id)
      BY <1>1 DEF PerRequest, CountOK
    <3>6. Delivered(id)' + CountIn(outbox', About(id)) <= answered'[id]
      <4>1. Delivered(id) + CountIn(outbox, About(id)) <= answered[id] /\ answered[id] \in Nat
        BY <1>1 DEF PerRequest, CountOK, TypeOK, ServiceTypeOK
      <4> QED BY <1>2, <1>6, <2>10, <2>11, <2>12, <4>1
    <3> QED BY <1>2, <1>4, <3>1, <3>2, <3>3, <3>4, <3>5, <3>6 DEF CountOK
  <2>14. FreshOK(id)'
    BY <1>1, <1>2, <2>2 DEF PerRequest, FreshOK
  <2> QED BY <1>4, <1>6, <1>10, <2>8, <2>9, <2>13, <2>14 DEF PerRequest, Keeps
<1> QED
  BY <1>11, <1>12

-----------------------------------------------------------------------------
(* The steps of the engine.                                                 *)

\* The engine sends a message.
LEMMA OutboxExtended ==
    ASSUME NEW id, outbox \in Seq(Messages), NEW m \in Messages, outbox' = Append(outbox, m),
           OutboxOK(id), AtEngine(id)' => AtEngine(id),
           m.type = "kOutputs" => \A a, b \in m.outputs : a.id = id /\ b.id = id => a = b,
           m \in About(id) => AtEngine(id), m \in LastOf(id) => ~ AtEngine(id)'
    PROVE  /\ OutboxOK(id)'
           /\ \A i \in 1 .. Len(outbox') : outbox'[i] = m \/ (i \in 1 .. Len(outbox) /\ outbox'[i] = outbox[i])
           /\ CountIn(outbox', About(id)) =
                  CountIn(outbox, About(id)) + IF m \in About(id) THEN 1 ELSE 0
           /\ CountIn(outbox, About(id)) \in Nat
<1> DEFINE n == Len(outbox)
<1>1. /\ n \in Nat /\ Len(outbox') = n + 1 /\ outbox'[n + 1] = m
      /\ \A i \in 1 .. n : outbox'[i] = outbox[i]
      /\ \A i \in 1 .. (n + 1) : i = n + 1 \/ i \in 1 .. n
  OBVIOUS
<1> HIDE DEF n
<1>2. OutboxOK(id)'
  <2>1. \A i \in 1 .. Len(outbox') : outbox'[i].type = "kOutputs" =>
            \A a, b \in outbox'[i].outputs : a.id = id /\ b.id = id => a = b
    BY <1>1 DEF OutboxOK, n
  <2>2. ASSUME NEW i \in 1 .. Len(outbox'), NEW j \in 1 .. Len(outbox'),
               outbox'[i] \in LastOf(id), outbox'[j] \in About(id)
        PROVE  j <= i
    <3>1. CASE i = n + 1
      BY <1>1, <3>1
    <3>2. CASE i # n + 1
      <4>1. i \in 1 .. n /\ outbox[i] \in LastOf(id)
        BY <1>1, <2>2, <3>2
      <4>2. ~ AtEngine(id)
        BY <4>1 DEF OutboxOK, n
      <4>3. j \in 1 .. n /\ outbox[j] \in About(id)
        BY <1>1, <2>2, <4>2
      <4> QED BY <4>1, <4>3 DEF OutboxOK, n
    <3> QED BY <3>1, <3>2
  <2>3. (\E i \in 1 .. Len(outbox') : outbox'[i] \in LastOf(id)) => ~ AtEngine(id)'
    BY <1>1 DEF OutboxOK, n
  <2> HIDE DEF LastOf, About
  <2> QED BY <2>1, <2>2, <2>3 DEF OutboxOK, LastOf, About
<1>3. CountIn(Append(outbox, m), About(id)) =
          CountIn(outbox, About(id)) + IF m \in About(id) THEN 1 ELSE 0
  BY CountInAppend
<1>4. CountIn(outbox, About(id)) \in Nat
  BY CountInType
<1> QED
  BY <1>1, <1>2, <1>3, <1>4 DEF n

LEMMA BecomeReadyStep ==
    ASSUME ClientCore, BecomeReady, UNCHANGED clientVars
    PROVE  \A id \in Ids : Keeps(id)
<1>1. TypeOK /\ EngineOK /\ \A id \in Ids : PerRequest(id)
  BY DEF ClientCore, TypeOK
<1>2. /\ UNCHANGED <<inbox, working, answered, error, closing, requests, queue,
                     sends, consumed, final, generator>>
      /\ engine = "loading" /\ engine' = "serving"
  BY DEF BecomeReady, clientVars, taskVars, stateVars, requestVars
<1>3. Pipe' = Pipe
  BY <1>2 DEF Pipe
<1> SUFFICES ASSUME NEW id \in Ids PROVE Keeps(id)
  OBVIOUS
<1>4. PipeOK(id)' /\ (AtEngine(id)' <=> AtEngine(id))
  BY <1>1, <1>2, <1>3 DEF PerRequest, PipeOK, AtEngine
<1>5. Ready \notin About(id) /\ Ready \notin LastOf(id) /\ Ready \in Messages
      /\ Ready.type # "kOutputs"
  BY ItemsDiffer DEF About, LastOf, Messages
<1>6. outbox \in Seq(Messages) /\ outbox' = Append(outbox, Ready)
  BY <1>1 DEF BecomeReady, TypeOK, ServiceTypeOK
<1>7. /\ OutboxOK(id)'
      /\ \A i \in 1 .. Len(outbox') :
            outbox'[i] = Ready \/ (i \in 1 .. Len(outbox) /\ outbox'[i] = outbox[i])
      /\ CountIn(outbox', About(id)) = CountIn(outbox, About(id))
  BY <1>1, <1>4, <1>5, <1>6, OutboxExtended DEF PerRequest
<1>8. WantedKept(id) /\ QueueOK(id)' /\ WaitOK(id)'
  BY <1>1, <1>2, <1>3, <1>4, WantedFrame, QueueFrame, WaitFrame DEF PerRequest
<1>9. CountOK(id)' /\ FreshOK(id)'
  BY <1>1, <1>2, <1>4, <1>5, <1>7 DEF PerRequest, CountOK, FreshOK, Delivered
<1> QED
  BY <1>4, <1>7, <1>8, <1>9 DEF PerRequest, Keeps

LEMMA AnswerStep ==
    ASSUME ClientCore, NEW some \in SUBSET working, NEW last \in SUBSET some, Answer(some, last),
           UNCHANGED clientVars
    PROVE  \A id \in Ids : Keeps(id)
<1>1. TypeOK /\ \A id \in Ids : PerRequest(id)
  BY DEF ClientCore, TypeOK
<1>2. /\ UNCHANGED <<engine, inbox, error, closing, requests, queue,
                     sends, consumed, final, generator>>
      /\ engine = "serving" /\ working' = working \ last
  BY DEF Answer, clientVars, taskVars, stateVars, requestVars
<1>3. Pipe' = Pipe
  BY <1>2 DEF Pipe
<1> SUFFICES ASSUME NEW id \in Ids PROVE Keeps(id)
  OBVIOUS
<1>4. PipeOK(id)' /\ (AtEngine(id)' => AtEngine(id))
  <2>1. PipeOK(id) /\ answered[id] \in Nat /\ (id \in some => id \in working)
    BY <1>1 DEF PerRequest, TypeOK, ServiceTypeOK
  <2>2. answered'[id] = answered[id] + IF id \in some THEN 1 ELSE 0
    BY <2>1 DEF Answer
  <2>3. id \in some => answered[id] + 1 < MaxOutputs \/ id \in last
    BY DEF Answer
  <2>4. /\ id \in working' => answered'[id] < MaxOutputs
        /\ answered'[id] <= MaxOutputs
    BY <1>2, <2>1, <2>2, <2>3, MaxOutputsAssumption DEF PipeOK
  <2>5. Contains(Pipe, Add(id)) => id \notin some /\ answered'[id] = 0
    BY <2>1, <2>2 DEF PipeOK
  <2> QED BY <1>2, <1>3, <2>1, <2>4, <2>5 DEF PipeOK, AtEngine
<1>5. id \in last => ~ AtEngine(id)'
  BY <1>1, <1>2, <1>3 DEF PerRequest, PipeOK, AtEngine
<1>6. id \in some => AtEngine(id)
  BY DEF AtEngine
<1> DEFINE answers == {[id |-> x, final |-> x \in last] : x \in some}
           m == Outputs(answers)
<1>7. answers \in SUBSET Answers
  <2>1. \A x \in Ids, b \in BOOLEAN : [id |-> x, final |-> b] \in Answers
    BY DEF Answers
  <2>2. \A x \in some : x \in Ids /\ (x \in last) \in BOOLEAN
    BY <1>1 DEF TypeOK, ServiceTypeOK
  <2> QED BY <2>1, <2>2, Zenon
<1>8. \A a \in answers : a.id = id => id \in some /\ a = [id |-> id, final |-> id \in last]
  OBVIOUS
<1>9. id \in some => \E a \in answers : a.id = id
  <2>1. id \in some => [id |-> id, final |-> id \in last] \in answers
    OBVIOUS
  <2> QED BY <2>1
<1>10. \A a \in answers : a.id = id /\ a.final => id \in last
  <2>1. \A a \in answers : a.id = id => a.final = (id \in last)
    BY <1>8
  <2> QED BY <2>1
<1>11. outbox \in Seq(Messages) /\ outbox' = Append(outbox, m)
  BY <1>1 DEF Answer, TypeOK, ServiceTypeOK
<1> HIDE DEF answers
<1>12. m \in Messages /\ m.type = "kOutputs" /\ m.outputs = answers
  BY <1>7, ItemsDiffer DEF Messages
<1> HIDE DEF m
<1>13. /\ m \in About(id) <=> id \in some
       /\ m \in LastOf(id) => id \in last
  BY <1>8, <1>9, <1>10, <1>12 DEF About, LastOf
<1>14. \A a, b \in m.outputs : a.id = id /\ b.id = id => a = b
  BY <1>8, <1>12
<1>15. /\ OutboxOK(id)'
       /\ \A i \in 1 .. Len(outbox') :
             outbox'[i] = m \/ (i \in 1 .. Len(outbox) /\ outbox'[i] = outbox[i])
       /\ CountIn(outbox', About(id)) =
             CountIn(outbox, About(id)) + IF id \in some THEN 1 ELSE 0
       /\ CountIn(outbox, About(id)) \in Nat
  BY <1>1, <1>4, <1>5, <1>6, <1>11, <1>12, <1>13, <1>14, OutboxExtended DEF PerRequest
<1>16. /\ answered[id] \in Nat
       /\ answered'[id] = answered[id] + IF id \in some THEN 1 ELSE 0
  BY <1>1 DEF Answer, TypeOK, ServiceTypeOK
<1>17. WantedKept(id) /\ QueueOK(id)' /\ WaitOK(id)'
  BY <1>1, <1>2, <1>3, <1>4, WantedFrame, QueueFrame, WaitFrame DEF PerRequest
<1>18. CountOK(id)'
  <2>1. Delivered(id) \in Nat /\ Delivered(id)' = Delivered(id)
    <3>1. CountIn(queue[id], Answers) \in Nat /\ consumed[id] \in Nat
      <4>1. queue[id] \in Seq(Items)
        BY <1>1 DEF TypeOK, ClientTypeOK, Items
      <4> QED BY <1>1, <4>1, CountInType DEF TypeOK, ClientTypeOK
    <3> QED BY <1>2, <3>1 DEF Delivered
  <2>2. id \in requests => Delivered(id)' + CountIn(outbox', About(id)) = answered'[id]
    <3>1. ASSUME id \in requests PROVE Delivered(id) + CountIn(outbox, About(id)) = answered[id]
      BY <1>1, <1>2, <3>1 DEF PerRequest, CountOK
    <3> QED BY <1>15, <1>16, <2>1, <3>1
  <2>3. ~ AtEngine(id) => answered'[id] = answered[id] /\ m \notin About(id)
    BY <1>6, <1>13, <1>16
  <2>4. Delivered(id)' + CountIn(outbox', About(id)) <= answered'[id]
    <3>1. Delivered(id) + CountIn(outbox, About(id)) <= answered[id]
      BY <1>1 DEF PerRequest, CountOK
    <3> QED BY <1>15, <1>16, <2>1, <3>1
  <2> QED BY <1>1, <1>2, <1>4, <1>15, <2>1, <2>2, <2>3, <2>4 DEF PerRequest, CountOK
<1>19. FreshOK(id)'
  <2>1. CASE generator[id] # "new"
    BY <1>2, <2>1 DEF FreshOK
  <2>2. CASE generator[id] = "new"
    <3>1. /\ id \notin requests /\ id \notin working
          /\ queue[id] = <<>> /\ consumed[id] = 0 /\ answered[id] = 0
          /\ \A i \in 1 .. Len(outbox) : outbox[i] \notin About(id)
      BY <1>1, <2>2 DEF PerRequest, FreshOK
    <3>2. id \notin some
      BY <3>1
    <3>3. \A i \in 1 .. Len(outbox') : outbox'[i] \notin About(id)
      BY <1>13, <1>15, <3>1, <3>2
    <3>4. answered'[id] = 0 /\ id \notin working'
      BY <1>2, <1>16, <3>1, <3>2
    <3> QED BY <1>2, <3>1, <3>3, <3>4 DEF FreshOK
  <2> QED BY <2>1, <2>2
<1> QED
  BY <1>4, <1>15, <1>17, <1>18, <1>19 DEF PerRequest, Keeps

\* The engine takes the oldest message and leaves the others where they are.
LEMMA InboxTaken ==
    ASSUME TypeOK, inbox # <<>>, inbox' = Tail(inbox), sends' = sends
    PROVE  /\ Pipe \in Seq(Inputs) /\ Pipe # <<>>
           /\ Pipe' = Tail(Pipe) /\ Head(Pipe) = Head(inbox)
<1>1. inbox \in Seq(Inputs) /\ sends \in Seq(Inputs)
  BY DEF TypeOK, ServiceTypeOK, ClientTypeOK
<1>2. /\ inbox \o sends \in Seq(Inputs) /\ inbox \o sends # <<>>
      /\ Tail(inbox) \o sends = Tail(inbox \o sends)
      /\ Head(inbox \o sends) = Head(inbox)
  BY <1>1
<1> QED
  BY <1>2 DEF Pipe

LEMMA TakeStep ==
    ASSUME ClientCore, inbox # <<>>, NEW x \in Ids,
           \/ Head(inbox) = Add(x) /\ TakeAdd(x)
           \/ Head(inbox) = Abort(x) /\ TakeAbort(x),
           UNCHANGED clientVars
    PROVE  \A id \in Ids : Keeps(id)
<1>1. TypeOK /\ \A id \in Ids : PerRequest(id)
  BY DEF ClientCore, TypeOK
<1>2. /\ UNCHANGED <<engine, outbox, answered, error, closing, requests, queue,
                     sends, consumed, final, generator>>
      /\ inbox' = Tail(inbox)
  BY DEF TakeAdd, TakeAbort, clientVars, taskVars, stateVars, requestVars
<1>3. /\ Pipe \in Seq(Inputs) /\ Pipe # <<>>
      /\ Pipe' = Tail(Pipe) /\ Head(Pipe) = Head(inbox)
  BY <1>1, <1>2, InboxTaken
<1>4. Head(Pipe) \in {Add(x), Abort(x)}
  BY <1>3
<1>5. \A id \in Ids : Ordered(Pipe, id)
  BY <1>1 DEF PerRequest, PipeOK
<1>6. /\ \A id \in Ids : Ordered(Pipe', id)
      /\ \A m : Contains(Pipe', m) => Contains(Pipe, m)
      /\ \A m : m # Head(Pipe) => (Contains(Pipe, m) => Contains(Pipe', m))
      /\ Contains(Pipe, Head(Pipe))
      /\ ~ Contains(Pipe', Add(x))
  BY <1>3, <1>4, <1>5, PipeTaken
<1>7. \/ Head(Pipe) = Add(x) /\ working' = working \cup {x}
      \/ Head(Pipe) = Abort(x) /\ working' = working \ {x}
  BY <1>3 DEF TakeAdd, TakeAbort
<1> SUFFICES ASSUME NEW id \in Ids PROVE Keeps(id)
  OBVIOUS
<1>8. AtEngine(id)' => AtEngine(id)
  BY <1>6, <1>7 DEF AtEngine
<1>9. PipeOK(id)'
  <2>1. CASE id = x
    <3>1. Head(Pipe) = Add(x) => answered[x] = 0 /\ answered[x] < MaxOutputs
      BY <1>1, <1>6, MaxOutputsAssumption DEF PerRequest, PipeOK
    <3>2. id \in working' => answered[id] < MaxOutputs
      BY <1>7, <2>1, <3>1
    <3> QED BY <1>1, <1>2, <1>6, <2>1, <3>2 DEF PerRequest, PipeOK
  <2>2. CASE id # x
    <3>1. id \in working' <=> id \in working
      BY <1>7, <2>2
    <3> QED BY <1>1, <1>2, <1>6, <3>1 DEF PerRequest, PipeOK
  <2> QED BY <2>1, <2>2
<1>10. WantedKept(id)
  <2>1. CASE Head(Pipe) = Abort(id)
    <3>1. id = x /\ id \notin working'
      BY <1>4, <1>7, <2>1, MessagesDiffer
    <3> QED BY <1>6, <3>1 DEF WantedKept, WantedOK, AtEngine
  <2>2. CASE Head(Pipe) # Abort(id)
    BY <1>1, <1>2, <1>6, <1>8, <2>2, WantedFrame DEF PerRequest
  <2> QED BY <2>1, <2>2
<1>11. QueueOK(id)' /\ WaitOK(id)' /\ OutboxOK(id)' /\ CountOK(id)'
  BY <1>1, <1>2, <1>8, QueueFrame, WaitFrame, OutboxFrame, CountFrame DEF PerRequest
<1>12. FreshOK(id)'
  <2>1. generator[id] = "new" => id \notin working'
    <3>1. generator[id] = "new" => ~ AtEngine(id)
      BY <1>1 DEF PerRequest, FreshOK, PipeOK, AtEngine
    <3> QED BY <1>8, <3>1 DEF AtEngine
  <2> QED BY <1>1, <1>2, <2>1 DEF PerRequest, FreshOK
<1> QED
  BY <1>9, <1>10, <1>11, <1>12 DEF PerRequest, Keeps

\* What waits in the inbox is lost with the engine.
LEMMA PipeLost ==
    ASSUME NEW front \in Seq(Inputs), NEW back \in Seq(Inputs)
    PROVE  /\ \A id : Ordered(front \o back, id) => Ordered(back, id)
           /\ \A m : Contains(back, m) => Contains(front \o back, m)
<1> DEFINE pipe == front \o back
           p == Len(front)
           n == Len(back)
           f == [i \in 1 .. n |-> p + i]
<1>1. /\ p \in Nat /\ n \in Nat
      /\ pipe \in Seq(Inputs) /\ Len(pipe) = p + n
      /\ \A i \in 1 .. n : pipe[p + i] = back[i]
  OBVIOUS
<1> HIDE DEF pipe, p
<1>2. Shorter(back, pipe)
  <2>1. f \in [1 .. Len(back) -> 1 .. Len(pipe)]
    BY <1>1
  <2>2. /\ \A i, j \in 1 .. Len(back) : i < j => f[i] < f[j]
        /\ \A i \in 1 .. Len(back) : back[i] = pipe[f[i]]
    BY <1>1
  <2> HIDE DEF f
  <2> QED BY <2>1, <2>2 DEF Shorter
<1>3. /\ \A id : Ordered(pipe, id) => Ordered(back, id)
      /\ \A m : Contains(back, m) => Contains(pipe, m)
  BY <1>1, <1>2, ShorterOrdered
<1> QED
  BY <1>3 DEF pipe

\* The engine stops: by its SHUTDOWN, or it dies.
LEMMA EngineStops ==
    ASSUME ClientCore, engine' = "stopped", inbox' = <<>>, working' = {},
           NEW n \in 0 .. Len(outbox), outbox' = SubSeq(outbox, 1, n),
           sends' = sends \/ sends' = Withdrawn(Shutdown),
           UNCHANGED <<answered, error, closing, requests, queue, consumed, final, generator>>
    PROVE  \A id \in Ids : Keeps(id)
<1>1. TypeOK /\ \A id \in Ids : PerRequest(id)
  BY DEF ClientCore, TypeOK
<1>2. /\ inbox \in Seq(Inputs) /\ sends \in Seq(Inputs) /\ outbox \in Seq(Messages)
      /\ sends' \in Seq(Inputs) /\ Pipe' = sends' /\ Pipe = inbox \o sends
  <2>1. inbox \in Seq(Inputs) /\ sends \in Seq(Inputs) /\ outbox \in Seq(Messages)
    BY <1>1 DEF TypeOK, ServiceTypeOK, ClientTypeOK
  <2>2. sends' \in Seq(Inputs)
    BY <2>1, WithdrawnType
  <2>3. <<>> \o sends' = sends'
    BY <2>2
  <2> QED BY <2>1, <2>2, <2>3 DEF Pipe
<1> SUFFICES ASSUME NEW id \in Ids PROVE Keeps(id)
  OBVIOUS
<1>3. /\ Ordered(Pipe', id)
      /\ \A m : Contains(Pipe', m) => Contains(Pipe, m)
  <2>1. /\ Ordered(sends, id)
        /\ \A m : Contains(sends, m) => Contains(Pipe, m)
    BY <1>1, <1>2, PipeLost DEF PerRequest, PipeOK
  <2>2. CASE sends' = sends
    BY <1>2, <2>1, <2>2
  <2>3. CASE sends' = RemoveFirst(sends, Shutdown)
    <3>1. <<>> \o sends = sends /\ <<>> \o sends' = sends' /\ <<>> \in Seq(Inputs)
      BY <1>2
    <3> DEFINE before == <<>> \o sends
               after == <<>> \o RemoveFirst(sends, Shutdown)
    <3>2. /\ \A other : Ordered(before, other) => Ordered(after, other)
          /\ \A m : Contains(after, m) => Contains(before, m)
      BY <1>2, <3>1, PipeWithdrawn, Zenon
    <3>3. before = sends /\ after = sends'
      BY <2>3, <3>1
    <3> HIDE DEF before, after
    <3> QED BY <1>2, <2>1, <3>2, <3>3
  <2> QED BY <2>2, <2>3 DEF Withdrawn
<1>4. PipeOK(id)' /\ (AtEngine(id)' => AtEngine(id))
  BY <1>1, <1>3, PipeFrame DEF PerRequest
<1>5. WantedKept(id) /\ QueueOK(id)' /\ WaitOK(id)'
  BY <1>1, QueueFrame, WaitFrame DEF PerRequest, WantedKept, WantedOK
<1>6. /\ Len(outbox') = n /\ n \in Nat /\ Len(outbox) \in Nat /\ n <= Len(outbox)
      /\ \A i \in 1 .. n : i \in 1 .. Len(outbox) /\ outbox'[i] = outbox[i]
  BY <1>2
<1>7. OutboxOK(id)'
  <2> HIDE DEF LastOf, About
  <2> QED BY <1>1, <1>4, <1>6 DEF PerRequest, OutboxOK
<1>8. CountOK(id)'
  <2>1. ASSUME id \in requests, NEW k \in 1 .. n, outbox'[k] \in LastOf(id)
        PROVE  Delivered(id)' + CountIn(outbox', About(id)) = answered[id]
    <3>1. k \in 1 .. Len(outbox) /\ outbox[k] \in LastOf(id)
      BY <1>6, <2>1
    <3>2. \A j \in 1 .. Len(outbox) : outbox[j] \in About(id) => j <= n
      <4>1. \A j \in 1 .. Len(outbox) : outbox[j] \in About(id) => j <= k
        BY <1>1, <3>1 DEF PerRequest, OutboxOK
      <4> QED BY <1>6, <4>1
    <3>3. CountIn(outbox', About(id)) = CountIn(outbox, About(id))
      BY <1>2, <3>2, CountInPrefix
    <3>4. Delivered(id) + CountIn(outbox, About(id)) = answered[id]
      BY <1>1, <2>1, <3>1 DEF PerRequest, CountOK
    <3> QED BY <3>3, <3>4 DEF Delivered
  <2>2. Delivered(id)' = Delivered(id)
    BY DEF Delivered
  <2>3. Delivered(id)' + CountIn(outbox', About(id)) <= answered'[id]
    <3>1. /\ CountIn(outbox', About(id)) <= CountIn(outbox, About(id))
          /\ CountIn(outbox', About(id)) \in Nat /\ CountIn(outbox, About(id)) \in Nat
      <4>1. outbox' \in Seq(Messages)
        BY <1>2
      <4> QED BY <1>2, <4>1, CountInCut, CountInType
    <3>2. Delivered(id) + CountIn(outbox, About(id)) <= answered[id]
      BY <1>1 DEF PerRequest, CountOK
    <3>3. Delivered(id) \in Nat /\ answered[id] \in Nat
      <4>1. queue[id] \in Seq(Items)
        BY <1>1 DEF TypeOK, ClientTypeOK, Items
      <4>2. CountIn(queue[id], Answers) \in Nat
        BY <4>1, CountInType
      <4>3. consumed[id] \in Nat /\ answered[id] \in Nat
        BY <1>1 DEF TypeOK, ClientTypeOK, ServiceTypeOK
      <4> QED BY <4>2, <4>3 DEF Delivered
    <3> QED BY <2>2, <3>1, <3>2, <3>3
  <2> QED BY <1>1, <1>4, <1>6, <2>1, <2>2, <2>3 DEF PerRequest, CountOK
<1>9. FreshOK(id)'
  BY <1>1, <1>6 DEF PerRequest, FreshOK
<1> QED
  BY <1>4, <1>5, <1>7, <1>8, <1>9 DEF PerRequest, Keeps

LEMMA TimesOutStep ==
    ASSUME ClientCore, CloseTimesOut
    PROVE  \A id \in Ids : Keeps(id)
<1>1. TypeOK /\ \A id \in Ids : PerRequest(id)
  BY DEF ClientCore, TypeOK
<1>2. /\ sends' = Withdrawn(Shutdown)
      /\ UNCHANGED <<error, closing, requests, queue, consumed, final, generator>>
  BY DEF CloseTimesOut, stateVars
<1>3. CASE Die
  <2>1. /\ engine' = "stopped" /\ inbox' = <<>> /\ working' = {} /\ UNCHANGED answered
        /\ \E n \in 0 .. Len(outbox) : outbox' = SubSeq(outbox, 1, n)
    BY <1>3 DEF Die
  <2> QED BY <1>2, <2>1, EngineStops
<1>4. CASE UNCHANGED serviceVars
  <2>1. UNCHANGED <<engine, inbox, outbox, working, answered>>
    BY <1>4 DEF serviceVars
  <2>2. /\ \A id : Ordered(Pipe, id) => Ordered(Pipe', id)
        /\ \A x : Contains(Pipe', x) => Contains(Pipe, x)
        /\ \A x : x # Shutdown /\ Contains(Pipe, x) => Contains(Pipe', x)
    BY <1>1, <1>2, <2>1, SendsWithdrawn
  <2> SUFFICES ASSUME NEW id \in Ids PROVE Keeps(id)
    OBVIOUS
  <2>3. PipeOK(id)' /\ (AtEngine(id)' => AtEngine(id))
    BY <1>1, <1>2, <2>1, <2>2 DEF PerRequest, PipeOK, AtEngine
  <2>4. WantedKept(id)
    BY <1>1, <1>2, <2>1, <2>2, <2>3, MessagesDiffer, WantedFrame DEF PerRequest
  <2>5. QueueOK(id)' /\ WaitOK(id)' /\ OutboxOK(id)' /\ CountOK(id)' /\ FreshOK(id)'
    BY <1>1, <1>2, <2>1, <2>3, QueueFrame, WaitFrame, OutboxFrame, CountFrame, FreshFrame
       DEF PerRequest
  <2> QED BY <2>3, <2>4, <2>5 DEF PerRequest, Keeps
<1> QED
  BY <1>3, <1>4 DEF CloseTimesOut

LEMMA EngineSteps ==
    ASSUME ClientCore, EngineStep \/ EngineDies
    PROVE  \A id \in Ids : Keeps(id)
<1>1. UNCHANGED clientVars
  BY DEF EngineStep, EngineDies
<1>2. UNCHANGED <<sends, error, closing, requests, queue, consumed, final, generator>>
  BY <1>1 DEF clientVars, taskVars, stateVars, requestVars
<1>3. CASE BecomeReady
  BY <1>1, <1>3, BecomeReadyStep
<1>4. CASE TakeInput
  <2>1. CASE \E x \in Ids : \/ Head(inbox) = Add(x) /\ TakeAdd(x)
                            \/ Head(inbox) = Abort(x) /\ TakeAbort(x)
    BY <1>1, <1>4, <2>1, TakeStep DEF TakeInput
  <2>2. CASE TakeShutdown
    <3>1. outbox \in Seq(Messages)
      BY DEF ClientCore, ServiceTypeOK
    <3>2. Len(outbox) \in 0 .. Len(outbox) /\ SubSeq(outbox, 1, Len(outbox)) = outbox
      BY <3>1
    <3> QED BY <1>2, <2>2, <3>2, EngineStops DEF TakeShutdown
  <2> QED BY <1>4, <2>1, <2>2 DEF TakeInput
<1>5. CASE \E some \in SUBSET working : \E last \in SUBSET some : Answer(some, last)
  BY <1>1, <1>5, AnswerStep
<1>6. CASE Die
  <2>1. /\ engine' = "stopped" /\ inbox' = <<>> /\ working' = {} /\ UNCHANGED answered
        /\ \E n \in 0 .. Len(outbox) : outbox' = SubSeq(outbox, 1, n)
    BY <1>6 DEF Die
  <2> QED BY <1>2, <2>1, EngineStops
<1> QED
  BY <1>3, <1>4, <1>5, <1>6 DEF EngineStep, EngineDies, ServiceStep

-----------------------------------------------------------------------------
(* The invariant and what follows from it.                                  *)

LEMMA RequestStep ==
    ASSUME ClientCore, [ClientNext]_allVars
    PROVE  \A id \in Ids : Keeps(id)
<1>1. \A id \in Ids : PerRequest(id)
  BY DEF ClientCore
<1>2. CASE StartProcess \/ StartReturns \/ StartFails \/ StartRaises \/ StartCancelled
           \/ Close \/ CloseSent \/ CloseSeesExit \/ CloseEnds
  <2>1. UNCHANGED <<serviceVars, error, closing, requestVars, generator>>
    BY <1>2 DEF StartProcess, StartReturns, StartFails, StartRaises, StartCancelled, StartGivesUp,
       Close, CloseSent, CloseSeesExit, CloseEnds, stateVars
  <2> QED BY <1>1, <2>1, QuietStep
<1>3. CASE UNCHANGED allVars
  <2>1. UNCHANGED <<serviceVars, error, closing, requestVars, generator>>
    BY <1>3 DEF allVars, clientVars, taskVars, stateVars
  <2> QED BY <1>1, <2>1, QuietStep
<1>4. CASE \E id \in Ids : \/ GenerateSent(id) \/ GenerateAborted(id) \/ AbortSent(id)
                           \/ SendCancelled(id)
  BY <1>4, SendEndsSteps
<1>5. CASE \E id \in Ids : CancelGenerate(id) \/ CallAbort(id)
  BY <1>5, GiveUpSteps
<1>6. CASE \E id \in Ids : Generate(id)
  BY <1>6, GenerateStep
<1>7. CASE \E id \in Ids : GenerateGets(id)
  BY <1>7, GetsStep
<1>8. CASE \E id \in Ids : GenerateGoesOn(id)
  BY <1>8, GoesOnStep
<1>9. CASE SendNext \/ ReadReady \/ ReadOutputs
  BY <1>9, SendNextStep, ReadReadyStep, ReadOutputsStep
<1>10. CASE ReaderFails \/ OnExit \/ CloseBegins
  BY <1>10, FailSteps
<1>11. CASE CloseTimesOut
  BY <1>11, TimesOutStep
<1>12. CASE EngineStep \/ EngineDies
  BY <1>12, EngineSteps
<1> QED
  BY <1>2, <1>3, <1>4, <1>5, <1>6, <1>7, <1>8, <1>9, <1>10, <1>11, <1>12
     DEF ClientNext, LoopStep, UserStep

LEMMA ClientStarts == ClientInit => ClientInv
<1> SUFFICES ASSUME ClientInit PROVE ClientInv
  OBVIOUS
<1>1. /\ engine = "loading" /\ inbox = <<>> /\ outbox = <<>> /\ working = {}
      /\ answered = [id \in Ids |-> 0]
  BY DEF ClientInit, ServiceInit
<1>2. TypeOK
  <2>1. \A S : <<>> \in Seq(S)
    OBVIOUS
  <2> QED BY <1>1, <2>1 DEF ClientInit, TypeOK, ClientTypeOK, ServiceTypeOK, GeneratorStates
<1>3. EngineOK /\ LifeOK
  BY <1>1 DEF ClientInit, EngineOK, LifeOK
<1> SUFFICES ASSUME NEW id \in Ids PROVE PerRequest(id) /\ WantedOK(id)
  BY <1>2, <1>3 DEF ClientInv, ClientCore, TypeOK
<1>4. /\ queue[id] = <<>> /\ consumed[id] = 0 /\ answered[id] = 0 /\ generator[id] = "new"
      /\ id \notin requests /\ id \notin final /\ id \notin working
  BY <1>1 DEF ClientInit
<1>5. Len(Pipe) = 0 /\ Len(queue[id]) = 0 /\ Len(outbox) = 0
  BY <1>1, <1>4 DEF ClientInit, Pipe
<1>6. PipeOK(id) /\ ~ AtEngine(id)
  BY <1>4, <1>5, MaxOutputsAssumption DEF PipeOK, Ordered, Contains, AtEngine
<1>7. WantedOK(id) /\ QueueOK(id) /\ WaitOK(id)
  BY <1>4, <1>5, <1>6 DEF WantedOK, QueueOK, WaitOK
<1>8. OutboxOK(id) /\ FreshOK(id)
  BY <1>4, <1>5 DEF OutboxOK, FreshOK
<1>9. CountOK(id)
  <2>1. CountIn(queue[id], Answers) = 0 /\ CountIn(outbox, About(id)) = 0
    <3>1. queue[id] \in Seq(Items) /\ outbox \in Seq(Messages)
      BY <1>2 DEF TypeOK, ClientTypeOK, ServiceTypeOK, Items
    <3>2. /\ \A i \in 1 .. Len(queue[id]) : queue[id][i] \notin Answers
          /\ \A i \in 1 .. Len(outbox) : outbox[i] \notin About(id)
      BY <1>5
    <3> QED BY <3>1, <3>2, CountInType
  <2> QED BY <1>4, <1>5, <2>1 DEF CountOK, Delivered
<1> QED
  BY <1>6, <1>7, <1>8, <1>9 DEF PerRequest

LEMMA ClientInvStep ==
    ASSUME ClientInv, [ClientNext]_allVars PROVE ClientInv'
<1>1. ClientCore /\ TypeOK /\ EngineOK /\ LifeOK
  BY DEF ClientInv, ClientCore, TypeOK
<1>2. TypeOK'
  BY <1>1, TypeStep
<1>3. EngineOK'
  BY <1>1, EngineOKStep
<1>4. LifeOK'
  BY <1>1, LifeStep
<1>5. \A id \in Ids : Keeps(id)
  BY <1>1, RequestStep
<1> QED
  BY <1>2, <1>3, <1>4, <1>5 DEF ClientInv, ClientCore, TypeOK, Keeps, WantedKept

\* The invariant of the client and its engine holds in every state: a request is
\* followed from generate() through the two sockets and back to its consumer
\* (engine.py:134-236).
THEOREM ClientInvariant == ClientSpec => []ClientInv
BY ClientStarts, ClientInvStep, PTL DEF ClientSpec

\* The counts of EngineClientProperties are those of the invariant.
LEMMA SameCounts ==
    ASSUME NEW id, outbox \in Seq(Messages)
    PROVE  /\ InQueue(id) = CountIn(queue[id], Answers)
           /\ InOutbox(id) = CountIn(outbox, About(id))
<1>1. InQueue(id) = CountIn(queue[id], Answers)
  BY Zenon DEF InQueue, CountIn
<1> DEFINE told == {i \in DOMAIN outbox :
                       outbox[i].type = "kOutputs" /\ \E a \in outbox[i].outputs : a.id = id}
           counted == {i \in DOMAIN outbox : outbox[i] \in About(id)}
<1>2. told = counted
  <2>1. \A i \in DOMAIN outbox : outbox[i] \in Messages
    OBVIOUS
  <2> QED BY <2>1 DEF About
<1>3. InOutbox(id) = Cardinality(told) /\ CountIn(outbox, About(id)) = Cardinality(counted)
  BY Zenon DEF InOutbox, CountIn
<1> QED
  BY <1>1, <1>2, <1>3, Zenon

\* A registered request has lost no output, and none came twice, while the
\* engine lives: what it answered has been consumed, waits in the queue or is on
\* its way (_read_outputs and generate, engine.py:134-198).
THEOREM OutputsKept == ClientSpec => []NoOutputLost
<1>1. ClientInv => NoOutputLost
  <2> SUFFICES ASSUME ClientInv, NEW id \in requests, engine # "stopped"
               PROVE  consumed[id] + InQueue(id) + InOutbox(id) = answered[id]
    BY DEF NoOutputLost
  <2>1. id \in Ids /\ outbox \in Seq(Messages)
    BY DEF ClientInv, ClientCore, ClientTypeOK, ServiceTypeOK
  <2>2. Delivered(id) + CountIn(outbox, About(id)) = answered[id]
    BY <2>1 DEF ClientInv, ClientCore, PerRequest, CountOK
  <2> QED BY <2>1, <2>2, SameCounts DEF Delivered
<1> QED
  BY <1>1, ClientInvariant, PTL

\* Whoever waits for an output is registered or finds an item in the queue, and
\* a client that is dead or closing has nothing registered (_fail_requests,
\* _mark_dead and _close, engine.py:108-120 and :214-216).
THEOREM NobodyWaits == ClientSpec => []NobodyWaitsForTheDead
<1>1. ClientInv => NobodyWaitsForTheDead
  BY DEF ClientInv, ClientCore, PerRequest, WaitOK, LifeOK, NobodyWaitsForTheDead
<1> QED
  BY <1>1, ClientInvariant, PTL

\* What the engine has not read is in its inbox, or waits to be sent.
LEMMA InPipe ==
    ASSUME inbox \in Seq(Inputs), sends \in Seq(Inputs), NEW message, Contains(Pipe, message)
    PROVE  Contains(inbox, message) \/ Waiting(message)
<1>1. PICK i \in 1 .. (Len(inbox) + Len(sends)) : (inbox \o sends)[i] = message
  BY DEF Pipe, Contains
<1>2. CASE i <= Len(inbox)
  BY <1>1, <1>2 DEF Contains
<1>3. CASE i > Len(inbox)
  <2>1. i - Len(inbox) \in 1 .. Len(sends) /\ sends[i - Len(inbox)] = message
    BY <1>1, <1>3
  <2> QED BY <2>1 DEF Waiting, Contains
<1> QED
  BY <1>1, <1>2, <1>3

\* The engine works on nothing that nobody wants: the request is registered, or
\* its ABORT is on the way, or the client is dead or closing (the finally
\* block of generate, and abort, engine.py:195-207).
THEOREM NoOrphans == ClientSpec => []NoOrphanRequest
<1>1. ClientInv => NoOrphanRequest
  <2> SUFFICES ASSUME ClientInv, NEW id \in working
               PROVE  id \in requests \/ OnTheWay(Abort(id)) \/ error \/ closing
    BY DEF NoOrphanRequest
  <2>1. /\ id \in Ids /\ inbox \in Seq(Inputs) /\ sends \in Seq(Inputs)
        /\ engine # "stopped"
    BY DEF ClientInv, ClientCore, ClientTypeOK, ServiceTypeOK, EngineOK
  <2>2. id \in requests \/ Contains(Pipe, Abort(id)) \/ error \/ closing
    BY <2>1 DEF ClientInv, WantedOK, AtEngine
  <2>3. Contains(Pipe, Abort(id)) => OnTheWay(Abort(id))
    BY <2>1, InPipe DEF OnTheWay
  <2> QED BY <2>2, <2>3
<1> QED
  BY <1>1, ClientInvariant, PTL

\* A generate() that ends by itself has yielded every output of its request, the
\* last one final; one that raises EngineDied does so because the engine is dead
\* or the client closing (generate, engine.py:178-194).
THEOREM OutcomesAreJustified == ClientSpec => []OutcomesJustified
<1>1. ClientInv => OutcomesJustified
  BY DEF ClientInv, ClientCore, PerRequest, WaitOK, CountOK, OutcomesJustified
<1> QED
  BY <1>1, ClientInvariant, PTL

-----------------------------------------------------------------------------
(* The client as a service of calls (GenerationService).                    *)

OpenStates == {"sending", "getting", "yielded"}

\* The request has gone to the engine, or is going there.
Added(id) == id \in working \/ Contains(inbox, Add(id)) \/ Contains(sends, Add(id))

\* What ClientInv leaves open: a refused call has added nothing, an aborted one
\* finds no output any more, and only an aborted one that is still open finds
\* the end without an error.
CallOK(id) ==
    /\ generator[id] = "rejected" => ~ Added(id)
    /\ aborter[id] # "new" =>
            /\ generator[id] # "new" /\ id \notin requests
            /\ \A i \in 1 .. Len(queue[id]) : queue[id][i] \notin Answers
    /\ generator[id] \in OpenStates /\ (\E i \in 1 .. Len(queue[id]) : queue[id][i] = None) =>
            aborter[id] # "new"

GenerationInv == ClientInv /\ \A id \in Ids : CallOK(id)

LEMMA AddedSends ==
    ASSUME TypeOK, NEW id \in Ids, ~ Contains(sends, Add(id)),
           \/ UNCHANGED sends
           \/ \E m \in Inputs \ {Add(id)} : sends' = Append(sends, m)
           \/ \E x : sends' = Withdrawn(x)
           \/ \E x : \E m \in Inputs \ {Add(id)} : sends' = Append(Withdrawn(x), m)
           \/ sends # <<>> /\ sends' = Tail(sends)
    PROVE  ~ Contains(sends', Add(id))
<1>1. sends \in Seq(Inputs) /\ <<>> \in Seq(Inputs)
  BY DEF TypeOK, ClientTypeOK
<1>2. ASSUME NEW x
      PROVE  Withdrawn(x) \in Seq(Inputs) /\ ~ Contains(Withdrawn(x), Add(id))
  <2> DEFINE t == RemoveFirst(sends, x)
  <2>1. /\ t \in Seq(Inputs)
        /\ \A m : Contains(<<>> \o t, m) => Contains(<<>> \o sends, m)
    BY <1>1, PipeWithdrawn
  <2> HIDE DEF t
  <2>2. <<>> \o t = t /\ <<>> \o sends = sends
    BY <1>1, <2>1
  <2> QED BY <2>1, <2>2 DEF Withdrawn, t
<1>3. CASE \E m \in Inputs \ {Add(id)} : sends' = Append(sends, m)
  BY <1>1, <1>3, PipeExtended
<1>4. CASE \E x : \E m \in Inputs \ {Add(id)} : sends' = Append(Withdrawn(x), m)
  <2>1. PICK x : \E m \in Inputs \ {Add(id)} : sends' = Append(Withdrawn(x), m)
    BY <1>4
  <2> QED BY <1>2, <2>1, PipeExtended
<1>5. CASE sends # <<>> /\ sends' = Tail(sends)
  BY <1>1, <1>5, PipeTaken
<1> QED
  BY <1>2, <1>3, <1>4, <1>5

LEMMA AddedEngine ==
    ASSUME TypeOK, NEW id \in Ids, ~ Added(id), ServiceStep \/ Die
    PROVE  id \notin working' /\ ~ Contains(inbox', Add(id))
<1>1. inbox \in Seq(Inputs) /\ ~ Contains(<<>>, Add(id))
  BY DEF TypeOK, ServiceTypeOK, Contains
<1>2. CASE TakeInput
  <2>1. inbox # <<>>
    BY <1>2 DEF TakeInput
  <2>2. ~ Contains(Tail(inbox), Add(id)) /\ Head(inbox) # Add(id)
    BY <1>1, <2>1, PipeTaken DEF Added
  <2> QED BY <1>1, <1>2, <2>2 DEF TakeInput, TakeAdd, TakeAbort, TakeShutdown, Added
<1>3. CASE BecomeReady \/ \E some \in SUBSET working : \E last \in SUBSET some : Answer(some, last)
  BY <1>3 DEF BecomeReady, Answer, Added
<1>4. CASE Die
  BY <1>1, <1>4 DEF Die
<1> QED
  BY <1>2, <1>3, <1>4 DEF ServiceStep

LEMMA AddedStep ==
    ASSUME ClientInv, NEW id \in Ids, generator[id] # "new", ~ Added(id), [ClientNext]_allVars
    PROVE  ~ Added(id)'
<1>1. TypeOK
  BY DEF ClientInv, ClientCore, TypeOK
<1>2. \A x \in Ids : Abort(x) \in Inputs \ {Add(id)} /\ (x # id => Add(x) \in Inputs \ {Add(id)})
  BY MessagesDiffer
<1>3. Shutdown \in Inputs \ {Add(id)}
  BY MessagesDiffer
<1>4. CASE EngineStep \/ EngineDies
  <2>1. UNCHANGED sends
    BY <1>4 DEF EngineStep, EngineDies, clientVars, requestVars
  <2> QED BY <1>1, <1>4, <2>1, AddedEngine DEF EngineStep, EngineDies, Added
<1>5. CASE SendNext
  <2>1. sends # <<>> /\ sends' = Tail(sends) /\ inbox' = Append(inbox, Head(sends)) /\ working' = working
    BY <1>5 DEF SendNext
  <2>2. Head(sends) \in Inputs /\ Head(sends) # Add(id) /\ inbox \in Seq(Inputs)
    BY <1>1, <2>1, PipeTaken DEF TypeOK, ServiceTypeOK, ClientTypeOK, Added
  <2>3. ~ Contains(inbox', Add(id))
    BY <2>1, <2>2, PipeExtended DEF Added
  <2> QED BY <1>1, <2>1, <2>3, AddedSends DEF Added
<1>6. CASE CloseTimesOut
  <2>1. sends' = Withdrawn(Shutdown)
    BY <1>6 DEF CloseTimesOut
  <2>2. CASE UNCHANGED serviceVars
    BY <1>1, <2>1, <2>2, AddedSends DEF serviceVars, Added
  <2>3. CASE Die
    BY <1>1, <2>1, <2>3, AddedSends, AddedEngine DEF Added
  <2> QED BY <1>6, <2>2, <2>3 DEF CloseTimesOut
<1>7. CASE UNCHANGED <<working, inbox>>
  <2>1. CASE UNCHANGED sends
    BY <1>7, <2>1 DEF Added
  <2>2. ASSUME NEW x \in Ids, Generate(x) PROVE ~ Added(id)'
    <3>1. x # id /\ (UNCHANGED sends \/ sends' = Append(sends, Add(x)))
      BY <2>2 DEF Generate
    <3> QED BY <1>1, <1>2, <1>7, <3>1, AddedSends DEF Added
  <2>3. ASSUME NEW x \in Ids,
               GenerateSent(x) \/ GenerateAborted(x) \/ AbortSent(x) \/ SendCancelled(x)
        PROVE  ~ Added(id)'
    <3>1. \E m : sends' = Withdrawn(m)
      BY <2>3 DEF GenerateSent, GenerateAborted, AbortSent, SendCancelled
    <3> QED BY <1>1, <1>7, <3>1, AddedSends DEF Added
  <2>4. ASSUME NEW x \in Ids, CancelGenerate(x) \/ CallAbort(x) PROVE ~ Added(id)'
    <3>1. \/ UNCHANGED sends \/ sends' = Append(sends, Abort(x))
          \/ sends' = Withdrawn(Add(x)) \/ sends' = Append(Withdrawn(Add(x)), Abort(x))
      BY <2>4 DEF CancelGenerate, CallAbort, CleanUp, StartAbort
    <3>2. ~ Contains(sends', Add(id))
      BY <1>1, <1>2, <3>1, AddedSends DEF Added
    <3> QED BY <1>7, <3>2 DEF Added
  <2>5. CASE CloseBegins
    <3>1. UNCHANGED sends \/ sends' = Append(sends, Shutdown)
      BY <2>5 DEF CloseBegins
    <3> QED BY <1>1, <1>3, <1>7, <3>1, AddedSends DEF Added
  <2>6. \/ UNCHANGED sends \/ SendNext \/ CloseTimesOut \/ CloseBegins
        \/ EngineStep \/ EngineDies
        \/ \E x \in Ids : \/ Generate(x) \/ GenerateSent(x) \/ GenerateAborted(x) \/ AbortSent(x)
                          \/ SendCancelled(x) \/ CancelGenerate(x) \/ CallAbort(x)
    BY DEF ClientNext, LoopStep, UserStep, allVars, clientVars, requestVars, StartProcess,
       StartReturns, StartFails, StartRaises, StartCancelled, StartGivesUp, GenerateGets,
       GenerateGoesOn, ReadReady, ReadOutputs, OnExit, ReaderFails, Close, CloseSent,
       CloseSeesExit, CloseEnds
  <2> QED BY <1>4, <1>5, <1>6, <2>1, <2>2, <2>3, <2>4, <2>5, <2>6
<1>8. SendNext \/ CloseTimesOut \/ EngineStep \/ EngineDies \/ UNCHANGED <<working, inbox>>
  BY DEF ClientNext, LoopStep, UserStep, allVars, clientVars, serviceVars, StartProcess,
     StartReturns, StartFails, StartRaises, StartCancelled, StartGivesUp, Generate, GenerateSent,
     GenerateGets, GenerateGoesOn, GenerateAborted, CancelGenerate, CallAbort, AbortSent,
     SendCancelled, ReadReady, ReadOutputs, OnExit, ReaderFails, Close, CloseBegins, CloseSent,
     CloseSeesExit, CloseEnds
<1> QED
  BY <1>4, <1>5, <1>6, <1>7, <1>8

\* The steps that touch neither the calls nor the requests and their queues.
CallsAside == UNCHANGED <<generator, aborter, requests, queue, consumed, final>>

LEMMA ClientSteps ==
    ASSUME [ClientNext]_allVars
    PROVE  \/ CallsAside
           \/ ReadOutputs \/ ReaderFails \/ OnExit \/ CloseBegins
           \/ \E x \in Ids :
                \/ Generate(x) \/ GenerateSent(x) \/ GenerateGets(x) \/ GenerateGoesOn(x)
                \/ CancelGenerate(x) \/ GenerateAborted(x)
                \/ CallAbort(x) \/ AbortSent(x) \/ SendCancelled(x)
<1> USE DEF CallsAside
<1>1. CASE StartProcess \/ StartReturns \/ StartFails \/ StartRaises \/ StartCancelled
           \/ Close \/ CloseSent \/ CloseSeesExit \/ CloseEnds
  BY <1>1 DEF StartProcess, StartReturns, StartFails, StartRaises, StartCancelled, StartGivesUp,
     Close, CloseSent, CloseSeesExit, CloseEnds, requestVars
<1>2. CASE SendNext \/ ReadReady \/ CloseTimesOut
  BY <1>2 DEF SendNext, ReadReady, CloseTimesOut, taskVars, requestVars
<1>3. CASE EngineStep \/ EngineDies \/ UNCHANGED allVars
  BY <1>3 DEF EngineStep, EngineDies, allVars, clientVars, taskVars, requestVars
<1> QED
  BY <1>1, <1>2, <1>3 DEF ClientNext, LoopStep, UserStep

LEMMA CallFrame ==
    ASSUME NEW id \in Ids, ClientInv, CallOK(id), [ClientNext]_allVars,
           queue'[id] = queue[id], id \in requests' => id \in requests,
           aborter'[id] = "new" <=> aborter[id] = "new",
           \/ generator'[id] = generator[id]
           \/ /\ generator[id] # "new" /\ generator'[id] \notin {"new", "rejected"}
              /\ generator'[id] \in OpenStates => generator[id] \in OpenStates
    PROVE  CallOK(id)'
<1>1. generator'[id] = "rejected" => generator[id] = "rejected"
  OBVIOUS
<1>2. generator[id] = "rejected" => ~ Added(id)'
  BY AddedStep DEF CallOK
<1>3. aborter'[id] # "new" =>
          /\ generator'[id] # "new" /\ id \notin requests'
          /\ \A i \in 1 .. Len(queue'[id]) : queue'[id][i] \notin Answers
  BY DEF CallOK
<1>4. generator'[id] \in OpenStates /\ (\E i \in 1 .. Len(queue'[id]) : queue'[id][i] = None) =>
          aborter'[id] # "new"
  BY DEF CallOK
<1> QED
  BY <1>1, <1>2, <1>3, <1>4 DEF CallOK

LEMMA CallItemAdded ==
    ASSUME NEW id \in Ids, ClientInv, CallOK(id), [ClientNext]_allVars,
           generator'[id] = generator[id], aborter'[id] = aborter[id],
           NEW item \in Items \ {None}, queue'[id] = Append(queue[id], item),
           id \in requests
    PROVE  CallOK(id)'
<1>1. generator[id] = "rejected" => ~ Added(id)'
  BY AddedStep DEF CallOK
<1>2. aborter[id] = "new"
  BY DEF CallOK
<1>3. queue[id] \in Seq(Items)
  BY DEF ClientInv, ClientCore, ClientTypeOK, Items
<1>4. (\E i \in 1 .. Len(queue'[id]) : queue'[id][i] = None)
          => \E i \in 1 .. Len(queue[id]) : queue[id][i] = None
  BY <1>3
<1> QED
  BY <1>1, <1>2, <1>4 DEF CallOK

LEMMA CallDelivered ==
    ASSUME ClientInv, \A x \in Ids : CallOK(x), NEW id \in Ids, ReadOutputs
    PROVE  CallOK(id)'
<1>1. UNCHANGED <<generator, aborter, requests>>
  BY DEF ReadOutputs, taskVars
<1> DEFINE answers == Head(outbox).outputs
           told == id \in requests /\ \E a \in answers : a.id = id
<1>2. queue'[id] = IF told THEN Append(queue[id], OutputOf(answers, id)) ELSE queue[id]
  BY DEF ReadOutputs, Deliver
<1>3. answers \subseteq Answers
  <2>1. outbox \in Seq(Messages) /\ outbox # <<>> /\ EngineOK /\ reader = "reading"
    BY DEF ReadOutputs, ClientInv, ClientCore, ServiceTypeOK
  <2>2. Head(outbox) \in Messages /\ Head(outbox) = outbox[1] /\ 1 \in 1 .. Len(outbox)
    BY <2>1
  <2>3. Head(outbox) # Ready
    BY <2>1, <2>2 DEF EngineOK
  <2> QED BY <2>2, <2>3, ItemsDiffer DEF Messages
<1>4. [ClientNext]_allVars
  BY DEF ClientNext, LoopStep
<1>5. CASE told
  <2>1. OutputOf(answers, id) \in answers
    BY <1>5 DEF OutputOf
  <2>2. OutputOf(answers, id) \in Items \ {None}
    BY <1>3, <2>1, ItemsDiffer DEF Items
  <2> HIDE DEF answers
  <2>3. queue'[id] = Append(queue[id], OutputOf(answers, id)) /\ id \in requests
    BY <1>2, <1>5
  <2> QED BY <1>1, <1>4, <2>2, <2>3, CallItemAdded
<1>6. CASE ~ told
  BY <1>1, <1>2, <1>4, <1>6, CallFrame
<1> QED
  BY <1>5, <1>6

LEMMA CallFailed ==
    ASSUME ClientInv, \A x \in Ids : CallOK(x), NEW id \in Ids, ReaderFails \/ OnExit \/ CloseBegins
    PROVE  CallOK(id)'
<1>1. UNCHANGED <<generator, aborter>>
  BY DEF ReaderFails, OnExit, CloseBegins
<1>2. UNCHANGED <<queue, requests>> \/ FailRequests
  BY DEF ReaderFails, OnExit, CloseBegins, MarkDead
<1>3. [ClientNext]_allVars
  BY DEF ClientNext, LoopStep, UserStep
<1>4. EngineDied \in Items \ {None}
  BY ItemsDiffer DEF Items
<1>5. CASE FailRequests /\ id \in requests
  BY <1>1, <1>3, <1>4, <1>5, CallItemAdded DEF FailRequests
<1>6. CASE FailRequests /\ id \notin requests
  BY <1>1, <1>3, <1>6, CallFrame DEF FailRequests
<1>7. CASE UNCHANGED <<queue, requests>>
  BY <1>1, <1>3, <1>7, CallFrame
<1> QED
  BY <1>2, <1>5, <1>6, <1>7

LEMMA CallMoves ==
    ASSUME ClientInv, \A other \in Ids : CallOK(other), NEW x \in Ids,
           \/ Generate(x) \/ GenerateSent(x) \/ GenerateGets(x) \/ GenerateGoesOn(x)
           \/ CancelGenerate(x) \/ GenerateAborted(x)
           \/ CallAbort(x) \/ AbortSent(x) \/ SendCancelled(x)
    PROVE  \A id \in Ids : CallOK(id)'
<1>1. TypeOK /\ \A id \in Ids : PerRequest(id)
  BY DEF ClientInv, ClientCore, TypeOK
<1>2. /\ generator \in [Ids -> GeneratorStates] /\ queue \in [Ids -> Seq(Items)]
      /\ aborter \in [Ids -> {"new", "sending", "done"}]
  BY <1>1 DEF TypeOK, ClientTypeOK, Items
<1>3. [ClientNext]_allVars
  BY DEF ClientNext, LoopStep, UserStep
<1>4. ASSUME NEW id \in Ids, id # x PROVE CallOK(id)'
  <2>1. /\ generator'[id] = generator[id] /\ aborter'[id] = aborter[id]
        /\ queue'[id] = queue[id]
    BY <1>2, <1>4 DEF Generate, GenerateSent, GenerateGets, GenerateGoesOn, CancelGenerate,
       GenerateAborted, CallAbort, AbortSent, SendCancelled, CleanUp, StartAbort, requestVars
  <2>2. id \in requests' => id \in requests
    BY <1>4 DEF Generate, GenerateSent, GenerateGets, GenerateGoesOn, CancelGenerate,
       GenerateAborted, CallAbort, AbortSent, SendCancelled, CleanUp, StartAbort, requestVars,
       RegisteredAfter
  <2> QED BY <1>3, <2>1, <2>2, CallFrame
<1>5. CASE Generate(x)
  <2>1. /\ generator[x] = "new" /\ UNCHANGED <<queue, aborter, inbox, working>>
        /\ generator'[x] = (IF Alive THEN "sending" ELSE "rejected")
        /\ (~ Alive => UNCHANGED sends)
    BY <1>2, <1>5 DEF Generate, serviceVars
  <2>2. queue[x] = <<>> /\ Len(queue[x]) = 0 /\ x \notin working
    BY <1>1, <2>1 DEF PerRequest, FreshOK
  <2>3. aborter[x] = "new"
    BY <2>1 DEF CallOK
  <2>4. generator'[x] = "rejected" => ~ Added(x)'
    <3>1. ~ Contains(Pipe, Add(x)) /\ inbox \in Seq(Inputs) /\ sends \in Seq(Inputs)
      BY <1>1, <2>1 DEF PerRequest, PipeOK, TypeOK, ServiceTypeOK, ClientTypeOK
    <3>2. ~ Contains(inbox, Add(x)) /\ ~ Contains(sends, Add(x))
      <4>1. \A i \in 1 .. Len(inbox) : (inbox \o sends)[i] = inbox[i] /\ i \in 1 .. Len(inbox \o sends)
        BY <3>1
      <4>2. \A i \in 1 .. Len(sends) : /\ (inbox \o sends)[Len(inbox) + i] = sends[i]
                                       /\ Len(inbox) + i \in 1 .. Len(inbox \o sends)
        BY <3>1
      <4> QED BY <3>1, <4>1, <4>2 DEF Pipe, Contains
    <3> QED BY <2>1, <2>2, <3>2 DEF Added
  <2> QED BY <1>4, <2>1, <2>2, <2>3, <2>4 DEF CallOK
<1>6. CASE GenerateGets(x)
  <2>1. /\ generator[x] = "getting" /\ generator'[x] \in {"died", "stopped", "yielded"}
        /\ queue[x] # <<>> /\ queue'[x] = Tail(queue[x])
        /\ UNCHANGED aborter
    BY <1>2, <1>6 DEF GenerateGets
  <2>2. x \in requests' => x \in requests
    BY <1>6 DEF GenerateGets, RegisteredAfter
  <2>3. \A i \in 1 .. Len(queue'[x]) : i + 1 \in 1 .. Len(queue[x]) /\ queue'[x][i] = queue[x][i + 1]
    <3>1. queue[x] \in Seq(Items)
      BY <1>2
    <3> QED BY <2>1, <3>1
  <2>4. CallOK(x)
    OBVIOUS
  <2>5. aborter'[x] # "new" => \A i \in 1 .. Len(queue'[x]) : queue'[x][i] \notin Answers
    BY <2>1, <2>3, <2>4 DEF CallOK
  <2>6. generator'[x] \in OpenStates /\ (\E i \in 1 .. Len(queue'[x]) : queue'[x][i] = None) =>
            aborter'[x] # "new"
    BY <2>1, <2>3, <2>4 DEF CallOK, OpenStates
  <2>7. CallOK(x)'
    BY <2>1, <2>2, <2>4, <2>5, <2>6 DEF CallOK
  <2> QED BY <1>4, <2>7
<1>7. CASE (CancelGenerate(x) /\ x \in requests) \/ CallAbort(x)
  <2>1. /\ x \in requests /\ x \notin requests' /\ queue'[x] = <<None>>
        /\ generator[x] \in OpenStates
    BY <1>1, <1>2, <1>7 DEF CancelGenerate, CallAbort, CleanUp, StartAbort, PerRequest, WaitOK,
       OpenStates
  <2>2. \A i \in 1 .. Len(queue'[x]) : queue'[x][i] = None
    BY <2>1
  <2>3. \/ generator'[x] \in {"aborting", "cancelled"}
        \/ generator'[x] = generator[x] /\ aborter'[x] # "new"
    BY <1>2, <1>7 DEF CancelGenerate, CallAbort
  <2>4. CallOK(x)'
    BY <2>1, <2>2, <2>3, ItemsDiffer DEF CallOK, OpenStates
  <2> QED BY <1>4, <2>4
<1>8. CASE \/ GenerateSent(x) \/ GenerateGoesOn(x) \/ (CancelGenerate(x) /\ x \notin requests)
           \/ GenerateAborted(x) \/ AbortSent(x) \/ SendCancelled(x)
  <2>1. queue' = queue /\ requests' = requests
    BY <1>8 DEF GenerateSent, GenerateGoesOn, CancelGenerate, GenerateAborted, AbortSent,
       SendCancelled, CleanUp, requestVars
  <2>2. aborter'[x] = "new" <=> aborter[x] = "new"
    BY <1>2, <1>8 DEF GenerateSent, GenerateGoesOn, CancelGenerate, GenerateAborted, AbortSent,
       SendCancelled
  <2>3. \/ generator'[x] = generator[x]
        \/ /\ generator[x] # "new" /\ generator'[x] \notin {"new", "rejected"}
           /\ generator'[x] \in OpenStates => generator[x] \in OpenStates
    BY <1>2, <1>8 DEF GenerateSent, GenerateGoesOn, CancelGenerate, GenerateAborted, AbortSent,
       SendCancelled, OpenStates
  <2>4. CallOK(x)'
    BY <1>3, <2>1, <2>2, <2>3, CallFrame
  <2> QED BY <1>4, <2>4
<1> QED
  BY <1>5, <1>6, <1>7, <1>8

LEMMA GenerationInvStep ==
    ASSUME GenerationInv, [ClientNext]_allVars PROVE GenerationInv'
<1>1. ClientInv' /\ ClientInv
  BY ClientInvStep DEF GenerationInv
<1>2. \A id \in Ids : CallOK(id)
  BY DEF GenerationInv
<1> SUFFICES \A id \in Ids : CallOK(id)'
  BY <1>1 DEF GenerationInv
<1>3. CASE CallsAside
  BY <1>1, <1>2, <1>3, CallFrame DEF CallsAside
<1>4. CASE ReadOutputs \/ ReaderFails \/ OnExit \/ CloseBegins
  BY <1>1, <1>2, <1>4, CallDelivered, CallFailed
<1>5. ASSUME NEW x \in Ids,
             \/ Generate(x) \/ GenerateSent(x) \/ GenerateGets(x) \/ GenerateGoesOn(x)
             \/ CancelGenerate(x) \/ GenerateAborted(x)
             \/ CallAbort(x) \/ AbortSent(x) \/ SendCancelled(x)
      PROVE  \A id \in Ids : CallOK(id)'
  BY <1>1, <1>2, <1>5, CallMoves
<1> QED
  BY <1>3, <1>4, <1>5, ClientSteps

LEMMA GenerationStarts == ClientInit => GenerationInv
<1> SUFFICES ASSUME ClientInit PROVE \A id \in Ids : CallOK(id)
  BY ClientStarts DEF GenerationInv
<1>1. \A id \in Ids : generator[id] = "new" /\ aborter[id] = "new" /\ Len(queue[id]) = 0
  BY DEF ClientInit
<1> QED
  BY <1>1 DEF CallOK

\* What the call, the aborted requests and the client are to GenerationService.
CallMap == [id \in Ids |-> CallState[generator[id]]]
AbortedIds == {id \in Ids : aborter[id] # "new"}
Gone == engine = "stopped"
Down == error \/ closing

LEMMA CallStates ==
    /\ CallState["new"] = "new" /\ CallState["finished"] = "finished"
    /\ CallState["stopped"] = "stopped" /\ CallState["died"] = "failed"
    /\ CallState["rejected"] = "refused"
    /\ CallState["aborting"] = "cancelled" /\ CallState["cancelled"] = "cancelled"
    /\ \A state \in OpenStates : CallState[state] = "open"
    /\ \A state \in GeneratorStates :
          /\ CallState[state] = "new" <=> state = "new"
          /\ CallState[state] = "refused" <=> state = "rejected"
BY DEF CallState, OpenStates, GeneratorStates

LEMMA CallMapMoves ==
    ASSUME TypeOK, NEW x \in Ids, NEW state, generator' = [generator EXCEPT ![x] = state]
    PROVE  CallMap' = [CallMap EXCEPT ![x] = CallState[state]]
<1>1. generator \in [Ids -> GeneratorStates]
  BY DEF TypeOK, ClientTypeOK
<1>2. \A id \in Ids : generator'[id] = IF id = x THEN state ELSE generator[id]
  BY <1>1
<1>3. CallMap' = [id \in Ids |-> CallState[generator'[id]]]
  BY DEF CallMap
<1>4. \A id \in Ids : CallState[generator'[id]] = IF id = x THEN CallState[state] ELSE CallState[generator[id]]
  BY <1>2
<1> QED
  BY <1>3, <1>4, Zenon DEF CallMap

\* A step that no caller sees, but that the engine may be gone or the client down
\* after it.
LEMMA UnseenStep ==
    ASSUME UNCHANGED <<CallMap, answered, consumed, final, AbortedIds>>,
           Gone => Gone', Down => Down'
    PROVE  Generation!GenerationNext
<1>1. Gone' \in {Gone, TRUE} /\ Down' \in {Down, TRUE}
  BY DEF Gone, Down
<1>2. Generation!Fail
  BY <1>1 DEF Generation!Fail, CallMap, AbortedIds, Gone, Down
<1> QED
  BY <1>2 DEF Generation!GenerationNext

LEMMA AnswerSeen ==
    ASSUME GenerationInv, EngineStep, NEW some \in SUBSET working, NEW last \in SUBSET some,
           Answer(some, last)
    PROVE  Generation!GenerationNext
<1>1. TypeOK /\ \A id \in Ids : PerRequest(id) /\ CallOK(id)
  BY DEF GenerationInv, ClientInv, ClientCore, TypeOK
<1>2. /\ UNCHANGED <<generator, consumed, final, aborter, error, closing, engine>>
      /\ answered' = [id \in Ids |-> IF id \in some THEN answered[id] + 1 ELSE answered[id]]
  BY DEF EngineStep, Answer, clientVars, taskVars, stateVars, requestVars
<1>3. ASSUME NEW id \in some
      PROVE  id \in Ids /\ CallMap[id] \notin {"new", "refused"} /\ id \notin final
  <2>1. id \in Ids /\ id \in working
    BY <1>1 DEF TypeOK, ServiceTypeOK
  <2>2. generator[id] \notin {"new", "rejected"} /\ generator[id] \in GeneratorStates
    BY <1>1, <2>1 DEF PerRequest, FreshOK, CallOK, Added, TypeOK, ClientTypeOK
  <2>3. id \notin final
    BY <1>1, <2>1 DEF PerRequest, CountOK, AtEngine
  <2> QED BY <2>1, <2>2, <2>3, CallStates DEF CallMap
<1>4. CallMap' = CallMap /\ AbortedIds' = AbortedIds /\ (Gone' <=> Gone) /\ (Down' <=> Down)
  BY <1>2 DEF CallMap, AbortedIds, Gone, Down
<1>5. Generation!Make(some)
  BY <1>2, <1>3, <1>4 DEF Generation!Make, CallMap, AbortedIds, Gone, Down
<1>6. some \in SUBSET Ids
  BY <1>3
<1> QED
  BY <1>5, <1>6 DEF Generation!GenerationNext

\* What the engine, the sockets, start() and close() do apart from the answers.
LEMMA AsideSeen ==
    ASSUME GenerationInv, [ClientNext]_allVars, CallsAside
    PROVE  [Generation!GenerationNext]_Generation!generationVars
<1>1. CallMap' = CallMap /\ AbortedIds' = AbortedIds /\ UNCHANGED <<consumed, final>>
  BY DEF CallsAside, CallMap, AbortedIds
<1>2. CASE EngineStep /\ \E some \in SUBSET working : \E last \in SUBSET some : Answer(some, last)
  BY <1>2, AnswerSeen
<1>3. CASE UNCHANGED answered /\ (Gone => Gone') /\ (Down => Down')
  BY <1>1, <1>3, UnseenStep
<1>4. (Gone => Gone') /\ (Down => Down') /\ (UNCHANGED answered \/ EngineStep)
  <2>1. CASE EngineStep \/ EngineDies
    <3>1. UNCHANGED <<error, closing>>
      BY <2>1 DEF EngineStep, EngineDies, clientVars, stateVars
    <3>2. engine = "stopped" => engine' = "stopped"
      BY <2>1 DEF EngineStep, EngineDies, ServiceStep, BecomeReady, TakeInput, Answer, Die
    <3> QED BY <2>1, <3>1, <3>2 DEF EngineDies, Die, Gone, Down
  <2>2. CASE StartProcess \/ StartReturns \/ StartFails \/ StartRaises \/ StartCancelled
             \/ Close \/ CloseSent \/ CloseSeesExit \/ CloseEnds \/ SendNext \/ ReadReady
             \/ UNCHANGED allVars
    BY <2>2 DEF StartProcess, StartReturns, StartFails, StartRaises, StartCancelled, StartGivesUp,
       Close, CloseSent, CloseSeesExit, CloseEnds, SendNext, ReadReady, stateVars, serviceVars,
       allVars, clientVars, Gone, Down
  <2>3. CASE CloseTimesOut
    <3>1. UNCHANGED <<error, closing, answered>> /\ (engine = "stopped" => engine' = "stopped")
      BY <2>3 DEF CloseTimesOut, stateVars, serviceVars, Die
    <3> QED BY <3>1 DEF Gone, Down
  <2>4. CASE ReadOutputs \/ ReaderFails \/ OnExit \/ CloseBegins
    BY <2>4 DEF ReadOutputs, ReaderFails, OnExit, CloseBegins, MarkDead, stateVars, serviceVars, Gone, Down
  <2>5. CASE \E x \in Ids : \/ Generate(x) \/ GenerateSent(x) \/ GenerateGets(x)
                            \/ GenerateGoesOn(x) \/ CancelGenerate(x) \/ GenerateAborted(x)
                            \/ CallAbort(x) \/ AbortSent(x) \/ SendCancelled(x)
    BY <2>5 DEF Generate, GenerateSent, GenerateGets, GenerateGoesOn, CancelGenerate,
       GenerateAborted, CallAbort, AbortSent, SendCancelled, stateVars, serviceVars, Gone, Down
  <2> QED BY <2>1, <2>2, <2>3, <2>4, <2>5 DEF ClientNext, LoopStep, UserStep
<1>5. EngineStep => UNCHANGED answered \/
                    \E some \in SUBSET working : \E last \in SUBSET some : Answer(some, last)
  BY DEF EngineStep, ServiceStep, BecomeReady, TakeInput, TakeAdd, TakeAbort, TakeShutdown
<1> QED
  BY <1>2, <1>3, <1>4, <1>5

LEMMA NoticeSeen ==
    ASSUME ReadOutputs \/ ReaderFails \/ OnExit \/ CloseBegins
    PROVE  [Generation!GenerationNext]_Generation!generationVars
<1>1. UNCHANGED <<generator, aborter, answered, consumed, final>> /\ (Gone => Gone') /\ (Down => Down')
  BY DEF ReadOutputs, ReaderFails, OnExit, CloseBegins, MarkDead, taskVars, stateVars,
     serviceVars, Gone, Down
<1>2. CallMap' = CallMap /\ AbortedIds' = AbortedIds
  BY <1>1 DEF CallMap, AbortedIds
<1> QED
  BY <1>1, <1>2, UnseenStep

\* A call ends: by the final output, an abort, an error or a cancellation.
LEMMA EndSeen ==
    ASSUME GenerationInv, NEW x \in Ids, NEW state,
           generator[x] \in OpenStates, generator' = [generator EXCEPT ![x] = state],
           UNCHANGED <<aborter, answered, consumed, final, error, closing, engine>>,
           \/ state = "finished" /\ x \in final
           \/ state = "stopped" /\ aborter[x] # "new"
           \/ state = "died" /\ (error \/ closing) /\ x \notin final
           \/ state \in {"aborting", "cancelled"}
    PROVE  Generation!GenerationNext
<1>1. TypeOK
  BY DEF GenerationInv, ClientInv, ClientCore, TypeOK
<1>2. CallMap' = [CallMap EXCEPT ![x] = CallState[state]]
  BY <1>1, CallMapMoves
<1>3. CallMap[x] = "open"
  BY CallStates DEF CallMap
<1>4. AbortedIds' = AbortedIds /\ (Gone' <=> Gone) /\ (Down' <=> Down)
  BY DEF AbortedIds, Gone, Down
<1>5. \/ x \in final /\ CallState[state] = "finished"
      \/ x \in AbortedIds /\ CallState[state] = "stopped"
      \/ Down /\ x \notin final /\ CallState[state] = "failed"
      \/ CallState[state] = "cancelled"
  BY CallStates DEF AbortedIds, Gone, Down
<1>6. Generation!End(x)
  BY <1>2, <1>3, <1>4, <1>5 DEF Generation!End, CallMap, AbortedIds, Gone, Down
<1> QED
  BY <1>6 DEF Generation!GenerationNext

LEMMA AskSeen ==
    ASSUME GenerationInv, NEW x \in Ids, Generate(x)
    PROVE  Generation!GenerationNext
<1>1. TypeOK /\ LifeOK
  BY DEF GenerationInv, ClientInv, ClientCore, TypeOK
<1>2. /\ generator[x] = "new" /\ starter = "returned"
      /\ UNCHANGED <<aborter, answered, consumed, final, error, closing, engine>>
      /\ generator' = [generator EXCEPT ![x] = IF Alive THEN "sending" ELSE "rejected"]
  BY DEF Generate, serviceVars, stateVars
<1>3. CallMap[x] = "new" /\ AbortedIds' = AbortedIds /\ (Gone' <=> Gone) /\ (Down' <=> Down)
  BY <1>2, CallStates DEF CallMap, AbortedIds, Gone, Down
<1>4. CASE Alive
  <2>1. CallMap' = [CallMap EXCEPT ![x] = "open"]
    <3>1. generator' = [generator EXCEPT ![x] = "sending"]
      BY <1>2, <1>4
    <3>2. CallState["sending"] = "open"
      BY CallStates DEF OpenStates
    <3> QED BY <1>1, <3>1, <3>2, CallMapMoves
  <2>2. Generation!Ask(x)
    BY <1>2, <1>3, <2>1 DEF Generation!Ask, CallMap, AbortedIds, Gone, Down
  <2> QED BY <2>2 DEF Generation!GenerationNext
<1>5. CASE ~ Alive
  <2>1. CallMap' = [CallMap EXCEPT ![x] = "refused"]
    <3>1. generator' = [generator EXCEPT ![x] = "rejected"]
      BY <1>2, <1>5
    <3>2. CallState["rejected"] = "refused"
      BY CallStates
    <3> QED BY <1>1, <3>1, <3>2, CallMapMoves
  <2>2. Gone \/ Down
    BY <1>1, <1>2, <1>5 DEF LifeOK, Alive, IsAlive, Gone, Down
  <2>3. Generation!Ask(x)
    BY <1>2, <1>3, <2>1, <2>2 DEF Generation!Ask, CallMap, AbortedIds, Gone, Down
  <2> QED BY <2>3 DEF Generation!GenerationNext
<1> QED
  BY <1>4, <1>5

LEMMA AbortSeen ==
    ASSUME GenerationInv, NEW x \in Ids, CallAbort(x)
    PROVE  Generation!GenerationNext
<1>1. TypeOK /\ WaitOK(x)
  BY DEF GenerationInv, ClientInv, ClientCore, PerRequest, TypeOK
<1>2. /\ x \in requests
      /\ UNCHANGED <<generator, answered, consumed, final, error, closing, engine>>
      /\ aborter' = [aborter EXCEPT ![x] = IF Alive THEN "sending" ELSE "done"]
  BY DEF CallAbort, serviceVars, stateVars
<1>3. CallMap[x] = "open" /\ x \notin final
  BY <1>1, <1>2, CallStates DEF WaitOK, CallMap, OpenStates
<1>4. AbortedIds' = AbortedIds \cup {x}
  <2>1. \A id \in Ids : aborter'[id] # "new" <=> aborter[id] # "new" \/ id = x
    BY <1>1, <1>2 DEF TypeOK, ClientTypeOK
  <2> QED BY <2>1 DEF AbortedIds
<1>5. CallMap' = CallMap /\ (Gone' <=> Gone) /\ (Down' <=> Down)
  BY <1>2 DEF CallMap, Gone, Down
<1>6. Generation!AbortCall(x)
  BY <1>2, <1>3, <1>4, <1>5 DEF Generation!AbortCall, CallMap, AbortedIds, Gone, Down
<1> QED
  BY <1>6 DEF Generation!GenerationNext

\* An output that is taken from the queue is given to the consumer.
LEMMA GiveSeen ==
    ASSUME GenerationInv, NEW x \in Ids, GenerateGets(x),
           Head(queue[x]) \notin {EngineDied, None}
    PROVE  Generation!GenerationNext
<1>1. TypeOK /\ CallOK(x) /\ WaitOK(x) /\ CountOK(x)
  BY DEF GenerationInv, ClientInv, ClientCore, PerRequest, TypeOK
<1>2. TypeOK' /\ CountOK(x)'
  <2>1. ClientInv'
    BY ClientInvStep DEF GenerationInv, ClientNext, LoopStep
  <2> QED BY <2>1 DEF ClientInv, ClientCore, PerRequest, TypeOK
<1> DEFINE item == Head(queue[x])
<1>3. /\ generator[x] = "getting" /\ generator' = [generator EXCEPT ![x] = "yielded"]
      /\ consumed' = [consumed EXCEPT ![x] = @ + 1]
      /\ final' = IF item.final THEN final \cup {x} ELSE final
      /\ UNCHANGED <<aborter, answered, error, closing, engine>>
  BY DEF GenerateGets, stateVars, serviceVars
<1>4. item \in Answers /\ item = queue[x][1] /\ 1 \in 1 .. Len(queue[x])
  <2>1. queue[x] \in Seq(Items) /\ queue[x] # <<>>
    BY <1>1 DEF GenerateGets, TypeOK, ClientTypeOK, Items
  <2> QED BY <2>1 DEF Items
<1>5. aborter[x] = "new"
  BY <1>1, <1>4 DEF CallOK
<1>6. consumed[x] + 1 <= answered[x] /\ (item.final => consumed[x] + 1 = answered[x])
  <2>1. consumed'[x] = consumed[x] + 1 /\ answered'[x] = answered[x] /\ consumed[x] \in Nat /\ answered[x] \in Nat
    BY <1>1, <1>3 DEF TypeOK, ClientTypeOK, ServiceTypeOK
  <2>2. CountIn(queue'[x], Answers) \in Nat /\ CountIn(outbox', About(x)) \in Nat
    <3>1. queue'[x] \in Seq(Items) /\ outbox' \in Seq(Messages)
      BY <1>2 DEF TypeOK, ClientTypeOK, ServiceTypeOK, Items
    <3> QED BY <3>1, CountInType
  <2>3. consumed'[x] + CountIn(queue'[x], Answers) + CountIn(outbox', About(x)) <= answered'[x]
    BY <1>2 DEF CountOK, Delivered
  <2>4. item.final => x \in final'
    BY <1>3
  <2>5. x \in final' => consumed'[x] = answered'[x]
    BY <1>2 DEF CountOK
  <2> QED BY <2>1, <2>2, <2>3, <2>4, <2>5
<1>7. CallMap' = CallMap /\ AbortedIds' = AbortedIds /\ (Gone' <=> Gone) /\ (Down' <=> Down) /\ CallMap[x] = "open"
  <2>1. \A id \in Ids : CallState[generator'[id]] = CallState[generator[id]]
    BY <1>1, <1>3, CallStates DEF TypeOK, ClientTypeOK, OpenStates
  <2>2. CallMap' = CallMap
    BY <2>1, Zenon DEF CallMap
  <2> QED BY <1>3, <2>2, CallStates DEF CallMap, AbortedIds, Gone, Down, OpenStates
<1>8. x \notin final /\ x \notin AbortedIds
  BY <1>1, <1>3, <1>5 DEF WaitOK, AbortedIds
<1>9. consumed[x] < answered[x]
  BY <1>1, <1>6 DEF TypeOK, ClientTypeOK, ServiceTypeOK
<1> HIDE DEF item
<1>10. Generation!Give(x)
  BY <1>3, <1>6, <1>7, <1>8, <1>9 DEF Generation!Give, CallMap, AbortedIds, Gone, Down
<1> QED
  BY <1>10 DEF Generation!GenerationNext

LEMMA CallsSeen ==
    ASSUME GenerationInv, NEW x \in Ids,
           \/ Generate(x) \/ GenerateSent(x) \/ GenerateGets(x) \/ GenerateGoesOn(x)
           \/ CancelGenerate(x) \/ GenerateAborted(x)
           \/ CallAbort(x) \/ AbortSent(x) \/ SendCancelled(x)
    PROVE  [Generation!GenerationNext]_Generation!generationVars
<1>1. TypeOK /\ CallOK(x) /\ WaitOK(x) /\ QueueOK(x)
  BY DEF GenerationInv, ClientInv, ClientCore, PerRequest, TypeOK
<1>2. /\ generator \in [Ids -> GeneratorStates] /\ aborter \in [Ids -> {"new", "sending", "done"}]
      /\ queue[x] \in Seq(Items)
  BY <1>1 DEF TypeOK, ClientTypeOK, Items
<1>3. ASSUME UNCHANGED <<answered, consumed, final, error, closing, engine>>,
             \A id \in Ids : aborter'[id] = "new" <=> aborter[id] = "new",
             \A id \in Ids : CallState[generator'[id]] = CallState[generator[id]]
      PROVE  [Generation!GenerationNext]_Generation!generationVars
  <2>1. CallMap' = CallMap
    BY <1>3, Zenon DEF CallMap
  <2>2. AbortedIds' = AbortedIds /\ (Gone' <=> Gone) /\ (Down' <=> Down)
    BY <1>3 DEF AbortedIds, Gone, Down
  <2> QED BY <1>3, <2>1, <2>2, UnseenStep
<1>4. CASE GenerateSent(x)
  <2>1. /\ generator[x] = "sending"
        /\ generator' = [generator EXCEPT ![x] = IF error THEN "died" ELSE "getting"]
        /\ UNCHANGED <<aborter, answered, consumed, final, error, closing, engine>>
    BY <1>4 DEF GenerateSent, stateVars, serviceVars
  <2>2. x \notin final /\ generator[x] \in OpenStates
    BY <1>1, <2>1 DEF WaitOK, OpenStates
  <2>3. CASE error
    <3>1. generator' = [generator EXCEPT ![x] = "died"]
      BY <2>1, <2>3
    <3> QED BY <2>1, <2>2, <2>3, <3>1, EndSeen
  <2>4. CASE ~ error
    <3>1. \A id \in Ids : CallState[generator'[id]] = CallState[generator[id]]
      BY <1>2, <2>1, <2>4, CallStates DEF OpenStates
    <3> QED BY <1>3, <2>1, <3>1
  <2> QED BY <2>3, <2>4
<1>5. CASE GenerateGets(x)
  <2>1. /\ generator[x] = "getting"
        /\ UNCHANGED <<aborter, answered, error, closing, engine>>
    BY <1>5 DEF GenerateGets, stateVars, serviceVars
  <2>2. x \notin final /\ generator[x] \in OpenStates
    BY <1>1, <2>1 DEF WaitOK, OpenStates
  <2>3. Head(queue[x]) = queue[x][1] /\ 1 \in 1 .. Len(queue[x])
    BY <1>2, <1>5 DEF GenerateGets
  <2>4. CASE Head(queue[x]) = EngineDied
    <3>1. UNCHANGED <<consumed, final>> /\ generator' = [generator EXCEPT ![x] = "died"]
      BY <1>5, <2>4, ItemsDiffer DEF GenerateGets
    <3>2. error \/ closing
      BY <1>1, <2>3, <2>4 DEF QueueOK
    <3> QED BY <2>1, <2>2, <3>1, <3>2, EndSeen
  <2>5. CASE Head(queue[x]) = None
    <3>1. UNCHANGED <<consumed, final>> /\ generator' = [generator EXCEPT ![x] = "stopped"]
      BY <1>5, <2>5, ItemsDiffer DEF GenerateGets
    <3>2. aborter[x] # "new"
      BY <1>1, <2>2, <2>3, <2>5 DEF CallOK
    <3> QED BY <2>1, <2>2, <3>1, <3>2, EndSeen
  <2>6. CASE Head(queue[x]) \notin {EngineDied, None}
    BY <1>5, <2>6, GiveSeen
  <2> QED BY <2>4, <2>5, <2>6
<1>6. CASE GenerateGoesOn(x)
  <2>1. /\ generator[x] = "yielded" /\ generator[x] \in OpenStates
        /\ generator' = [generator EXCEPT ![x] = IF x \in final THEN "finished" ELSE "getting"]
        /\ UNCHANGED <<aborter, answered, consumed, final, error, closing, engine>>
    BY <1>6 DEF GenerateGoesOn, stateVars, serviceVars, requestVars, OpenStates
  <2>2. CASE x \in final
    <3>1. generator' = [generator EXCEPT ![x] = "finished"]
      BY <2>1, <2>2
    <3> QED BY <2>1, <2>2, <3>1, EndSeen
  <2>3. CASE x \notin final
    <3>1. \A id \in Ids : CallState[generator'[id]] = CallState[generator[id]]
      BY <1>2, <2>1, <2>3, CallStates DEF OpenStates
    <3> QED BY <1>3, <2>1, <3>1
  <2> QED BY <2>2, <2>3
<1>7. CASE CancelGenerate(x)
  <2>1. /\ generator[x] \in OpenStates
        /\ UNCHANGED <<aborter, answered, consumed, final, error, closing, engine>>
    BY <1>7 DEF CancelGenerate, stateVars, serviceVars, OpenStates
  <2>2. PICK state \in {"aborting", "cancelled"} : generator' = [generator EXCEPT ![x] = state]
    BY <1>7 DEF CancelGenerate
  <2> QED BY <2>1, <2>2, EndSeen
<1>8. CASE GenerateAborted(x) \/ AbortSent(x)
  <2>1. UNCHANGED <<answered, consumed, final, error, closing, engine>>
    BY <1>8 DEF GenerateAborted, AbortSent, stateVars, serviceVars
  <2>2. /\ \A id \in Ids : aborter'[id] = "new" <=> aborter[id] = "new"
        /\ \A id \in Ids : CallState[generator'[id]] = CallState[generator[id]]
    BY <1>2, <1>8, CallStates DEF GenerateAborted, AbortSent
  <2> QED BY <1>3, <2>1, <2>2
<1>9. CASE SendCancelled(x)
  <2>1. UNCHANGED <<answered, consumed, final, error, closing, engine>>
    BY <1>9 DEF SendCancelled, stateVars, serviceVars
  <2>2. CASE generator[x] = "sending" /\ generator' = [generator EXCEPT ![x] = "cancelled"] /\ UNCHANGED aborter
    <3>1. generator[x] \in OpenStates /\ UNCHANGED aborter
      BY <2>2 DEF OpenStates
    <3>2. generator' = [generator EXCEPT ![x] = "cancelled"]
      BY <2>2
    <3> QED BY <2>1, <3>1, <3>2, EndSeen
  <2>3. CASE /\ \A id \in Ids : aborter'[id] = "new" <=> aborter[id] = "new"
             /\ \A id \in Ids : CallState[generator'[id]] = CallState[generator[id]]
    BY <1>3, <2>1, <2>3
  <2>4. CASE generator[x] = "aborting" /\ generator' = [generator EXCEPT ![x] = "cancelled"] /\ UNCHANGED aborter
    BY <1>2, <2>3, <2>4, CallStates
  <2>5. CASE aborter[x] = "sending" /\ aborter' = [aborter EXCEPT ![x] = "done"] /\ UNCHANGED generator
    BY <1>2, <2>3, <2>5
  <2> QED BY <1>9, <2>2, <2>4, <2>5 DEF SendCancelled
<1> QED
  BY <1>4, <1>5, <1>6, <1>7, <1>8, <1>9, AskSeen, AbortSeen

\* The client with its engine is a generation service: whatever its tasks, its
\* callbacks and the engine do in between, a caller sees outputs once each and up
\* to the final one, none after an abort, and an error or a refusal only of a
\* client that is down (start, generate, abort and close, engine.py:78-236).
THEOREM ClientImplementsGeneration == ClientSpec => ImplementsGeneration
<1>1. ClientInit => Generation!GenerationInit
  <2> SUFFICES ASSUME ClientInit PROVE Generation!GenerationInit
    OBVIOUS
  <2>1. \A id \in Ids : CallState[generator[id]] = "new"
    BY CallStates DEF ClientInit
  <2>2. CallMap = [id \in Ids |-> "new"]
    BY <2>1, Zenon DEF CallMap
  <2>3. AbortedIds = {} /\ ~ Gone /\ ~ Down /\ answered = [id \in Ids |-> 0]
    BY DEF AbortedIds, Gone, Down, ClientInit, ServiceInit
  <2> QED BY <2>2, <2>3 DEF ClientInit, Generation!GenerationInit, CallMap, AbortedIds, Gone, Down
<1>2. GenerationInv /\ [ClientNext]_allVars => [Generation!GenerationNext]_Generation!generationVars
  BY ClientSteps, AsideSeen, NoticeSeen, CallsSeen
<1> QED
  BY <1>1, <1>2, GenerationStarts, GenerationInvStep, PTL
     DEF ClientSpec, ImplementsGeneration, Generation!GenerationSpec

-----------------------------------------------------------------------------
(* The server: what is left when a response ends.                           *)

HandlerStates ==
    {"new", "opening", "streaming", "collecting", "erring", "trailing", "cleaning", "ended"}
Frames == {"text", "final", "error", "[DONE]", "invalid", "unavailable", "completion"}

ServerTypeOK ==
    /\ handler \in [Ids -> HandlerStates]
    /\ streaming \subseteq Ids
    /\ frames \in [Ids -> Seq(Frames)]
    /\ cancelled \subseteq Ids
    /\ serve \in {"starting", "serving", "draining", "closing", "ended"}

\* The close task is created by a start() that failed or by the end of serve(),
\* which is also what cancels handlers; and close() outlives the engine.
ServeOK ==
    /\ starter \in {"new", "waiting"} => closer = "none"
    /\ starter \in {"new", "waiting", "closing"} => serve = "starting"
    /\ starter = "raised" => closer = "done" /\ serve \in {"starting", "ended"}
    /\ starter = "returned" /\ closer # "none" => serve \in {"closing", "ended"}
    /\ serve = "ended" => closer = "done"
    /\ cancelled # {} \/ closing => closer # "none"
    /\ closer \in {"gathering", "done"} => started = "no" \/ engine = "stopped"
    /\ exited => engine = "stopped"

\* Where the generate() of a handler is.  An end without an error is put only in
\* the queue of a request that is given up; and nobody else aborts one.
HandlerOK(id) ==
    /\ handler[id] = "new" => generator[id] = "new" /\ id \notin streaming
    /\ handler[id] = "opening" => generator[id] = "new" /\ id \in streaming
    /\ handler[id] = "streaming" =>
          generator[id] \in {"sending", "getting", "yielded"} /\ id \in streaming
    /\ handler[id] = "collecting" =>
          generator[id] \in {"sending", "getting"} /\ id \notin streaming
    /\ handler[id] = "erring" => generator[id] \in {"died", "rejected"} /\ id \in streaming
    /\ handler[id] = "trailing" =>
          generator[id] \in {"finished", "died", "rejected"} /\ id \in streaming
    /\ handler[id] = "cleaning" => generator[id] = "aborting"
    /\ handler[id] = "ended" => generator[id] \in GeneratorEnds \cup {"new"}
    /\ generator[id] \in {"new", "sending", "getting", "yielded"} =>
          \A i \in 1 .. Len(queue[id]) : queue[id][i] # None
    /\ aborter[id] = "new"

\* What was sent of a stream: one frame per output; these and the last frame;
\* and all of it.
TextsTo(some, n) == n \in 0 .. MaxOutputs /\ \A i \in 1 .. n : some[i] = "text"
LastFrames == {"final", "error"}

OnlyTexts(some) == TextsTo(some, Len(some))

WithTail(some) ==
    /\ Len(some) >= 1 /\ TextsTo(some, Len(some) - 1)
    /\ some[Len(some)] \in LastFrames

Whole(some) ==
    /\ Len(some) >= 2 /\ TextsTo(some, Len(some) - 2)
    /\ some[Len(some) - 1] \in LastFrames /\ some[Len(some)] = "[DONE]"

FramesOK(id) ==
    /\ handler[id] \in {"new", "opening", "collecting"} => frames[id] = <<>>
    /\ handler[id] = "streaming" =>
          IF id \in final THEN generator[id] = "yielded" /\ WithTail(frames[id])
                          ELSE OnlyTexts(frames[id]) /\ Len(frames[id]) = consumed[id]
    /\ handler[id] = "erring" => WithTail(frames[id])
    /\ id \in streaming => OnlyTexts(frames[id]) \/ WithTail(frames[id]) \/ Whole(frames[id])
    /\ id \notin streaming =>
          frames[id] \in {<<>>, <<"invalid">>, <<"unavailable">>, <<"completion">>}
    /\ Contains(frames[id], "final") \/ Contains(frames[id], "completion") => id \in final
    /\ Contains(frames[id], "error") => error \/ closing \/ engine = "stopped"

\* A handler cancelled once more drops its ABORT only when close() will follow.
ServerWanted(id) == WantedOK(id) \/ closer = "created"

ServerInv ==
    /\ ClientCore /\ ServerTypeOK /\ ServeOK
    /\ \A id \in Ids : ServerWanted(id) /\ HandlerOK(id) /\ FramesOK(id)

-----------------------------------------------------------------------------
(* Frames.                                                                  *)

LEMMA FrameAdded ==
    ASSUME NEW some \in Seq(Frames), NEW f \in Frames
    PROVE  LET t == Append(some, f)
           IN  /\ t \in Seq(Frames) /\ Len(t) = Len(some) + 1
               /\ \A x : Contains(t, x) <=> Contains(some, x) \/ x = f
               /\ OnlyTexts(some) /\ f = "text" /\ Len(t) <= MaxOutputs => OnlyTexts(t)
               /\ OnlyTexts(some) /\ f \in LastFrames => WithTail(t)
               /\ WithTail(some) /\ f = "[DONE]" => Whole(t)
<1> DEFINE t == Append(some, f)
           n == Len(some)
<1>1. /\ n \in Nat /\ t \in Seq(Frames) /\ Len(t) = n + 1 /\ t[n + 1] = f
      /\ \A i \in 1 .. n : t[i] = some[i]
  OBVIOUS
<1> HIDE DEF t
<1>2. \A x : Contains(t, x) <=> Contains(some, x) \/ x = f
  BY <1>1 DEF Contains
<1>3. OnlyTexts(some) /\ f = "text" /\ Len(t) <= MaxOutputs => OnlyTexts(t)
  BY <1>1, MaxOutputsAssumption DEF OnlyTexts, TextsTo
<1>4. OnlyTexts(some) /\ f \in LastFrames => WithTail(t)
  BY <1>1, MaxOutputsAssumption DEF OnlyTexts, WithTail, TextsTo
<1>5. WithTail(some) /\ f = "[DONE]" => Whole(t)
  <2>1. ASSUME WithTail(some), f = "[DONE]" PROVE Whole(t)
    <3>1. n >= 1 /\ n - 1 \in 0 .. MaxOutputs /\ some[n] \in LastFrames
          /\ \A i \in 1 .. (n - 1) : some[i] = "text"
      BY <2>1 DEF WithTail, TextsTo
    <3>2. Len(t) - 1 = n /\ Len(t) - 2 = n - 1 /\ t[n] = some[n]
      BY <1>1, <3>1
    <3>3. \A i \in 1 .. (n - 1) : t[i] = "text"
      BY <1>1, <3>1
    <3> QED BY <1>1, <2>1, <3>1, <3>2, <3>3 DEF Whole, TextsTo
  <2> QED BY <2>1
<1> QED
  BY <1>1, <1>2, <1>3, <1>4, <1>5 DEF t

\* What a stream has sent begins a response.
LEMMA ResponseBegun ==
    ASSUME NEW some \in Seq(Frames), OnlyTexts(some) \/ WithTail(some) \/ Whole(some)
    PROVE  IsResponse(some)
<1>1. \E n \in 0 .. MaxOutputs : \E tail \in LastFrames :
          /\ Len(some) <= n + 2
          /\ \A i \in 1 .. Len(some) : i <= n => some[i] = "text"
          /\ n + 1 \in 1 .. Len(some) => some[n + 1] = tail
          /\ n + 2 \in 1 .. Len(some) => some[n + 2] = "[DONE]"
  <2>1. Len(some) \in Nat
    OBVIOUS
  <2>2. CASE OnlyTexts(some)
    <3>1. "final" \in LastFrames
      BY DEF LastFrames
    <3> DEFINE n == Len(some)
    <3>2. n \in 0 .. MaxOutputs /\ ~(n + 1 \in 1 .. n) /\ ~(n + 2 \in 1 .. n) /\ n <= n + 2
          /\ \A i \in 1 .. n : some[i] = "text"
      BY <2>1, <2>2 DEF OnlyTexts, TextsTo
    <3> QED BY <3>1, <3>2
  <2>3. CASE WithTail(some)
    <3> DEFINE n == Len(some) - 1
    <3>1. n \in 0 .. MaxOutputs /\ Len(some) = n + 1 /\ some[n + 1] \in LastFrames
          /\ \A i \in 1 .. n : some[i] = "text"
      BY <2>1, <2>3 DEF WithTail, TextsTo
    <3> HIDE DEF n
    <3>2. ~(n + 2 \in 1 .. Len(some)) /\ Len(some) <= n + 2
          /\ \A i \in 1 .. Len(some) : i <= n => some[i] = "text"
      BY <3>1
    <3> QED BY <3>1, <3>2
  <2>4. CASE Whole(some)
    <3> DEFINE n == Len(some) - 2
    <3>1. n \in 0 .. MaxOutputs /\ Len(some) = n + 2 /\ some[n + 1] \in LastFrames
          /\ some[n + 2] = "[DONE]" /\ \A i \in 1 .. n : some[i] = "text"
      <4>1. n + 1 = Len(some) - 1 /\ n + 2 = Len(some)
        BY <2>1
      <4> QED BY <2>1, <2>4, <4>1 DEF Whole, TextsTo
    <3> HIDE DEF n
    <3>2. Len(some) <= n + 2 /\ \A i \in 1 .. Len(some) : i <= n => some[i] = "text"
      BY <3>1
    <3> QED BY <3>1, <3>2
  <2> QED BY <2>2, <2>3, <2>4
<1>2. PICK n \in 0 .. MaxOutputs, tail \in LastFrames :
          /\ Len(some) <= n + 2
          /\ \A i \in 1 .. Len(some) : i <= n => some[i] = "text"
          /\ n + 1 \in 1 .. Len(some) => some[n + 1] = tail
          /\ n + 2 \in 1 .. Len(some) => some[n + 2] = "[DONE]"
  BY <1>1
<1> DEFINE front == [i \in 1 .. n |-> "text"]
           t == front \o <<tail, "[DONE]">>
           m == Len(some)
<1>3. n \in Nat /\ m \in Nat /\ m <= n + 2
  BY <1>2, MaxOutputsAssumption
<1>4. /\ front \in Seq(Frames) /\ Len(front) = n /\ <<tail, "[DONE]">> \in Seq(Frames)
      /\ Len(<<tail, "[DONE]">>) = 2
      /\ <<tail, "[DONE]">>[1] = tail /\ <<tail, "[DONE]">>[2] = "[DONE]"
      /\ \A i \in 1 .. n : front[i] = "text"
  BY <1>3 DEF Frames, LastFrames
<1>5. /\ t \in Seq(Frames) /\ Len(t) = n + 2
      /\ \A i \in 1 .. n : t[i] = "text"
      /\ t[n + 1] = tail /\ t[n + 2] = "[DONE]"
  <2> HIDE DEF front
  <2> QED BY <1>3, <1>4
<1> HIDE DEF t
<1>6. \A i \in 1 .. m : some[i] = t[i]
  <2> SUFFICES ASSUME NEW i \in 1 .. m PROVE some[i] = t[i]
    OBVIOUS
  <2>1. i <= n \/ i = n + 1 \/ i = n + 2
    BY <1>3
  <2> QED BY <1>2, <1>3, <1>5, <2>1
<1>7. SubSeq(some, 1, m) = SubSeq(t, 1, m)
  <2>1. /\ SubSeq(some, 1, m) \in Seq(Frames) /\ SubSeq(t, 1, m) \in Seq(Frames)
        /\ Len(SubSeq(some, 1, m)) = m /\ Len(SubSeq(t, 1, m)) = m
        /\ \A i \in 1 .. m : SubSeq(some, 1, m)[i] = some[i] /\ SubSeq(t, 1, m)[i] = t[i]
    BY <1>3, <1>5
  <2> QED BY <1>6, <2>1, SeqEqual
<1>8. IsPrefix(some, t)
  BY <1>3, <1>5, <1>7 DEF IsPrefix
<1> QED
  BY <1>8 DEF IsResponse, LastFrames, t

-----------------------------------------------------------------------------
(* Client steps that only the server's handlers make.                       *)

\* The engine and the life of the client stay as they are.
LEMMA ClientAside ==
    ASSUME ClientCore, UNCHANGED <<serviceVars, stateVars, starter, reader, aborter, closer>>,
           ClientTypeOK', requests' \subseteq requests,
           \A id \in Ids : generator'[id] # "new" => generator[id] # "new",
           \A id \in Ids : Keeps(id)
    PROVE  ClientCore' /\ \A id \in Ids : WantedKept(id)
<1>1. ServiceTypeOK' /\ EngineOK'
  BY DEF ClientCore, ServiceTypeOK, EngineOK, serviceVars
<1>2. LifeOK'
  BY DEF ClientCore, LifeOK, stateVars, serviceVars
<1> QED
  BY <1>1, <1>2 DEF ClientCore, Keeps

LEMMA ClientCoreStep ==
    ASSUME ClientCore, [ClientNext]_allVars
    PROVE  ClientCore' /\ \A id \in Ids : WantedKept(id)
<1>1. TypeOK /\ EngineOK /\ LifeOK
  BY DEF ClientCore, TypeOK
<1>2. TypeOK' /\ EngineOK' /\ LifeOK'
  BY <1>1, TypeStep, EngineOKStep, LifeStep
<1>3. \A id \in Ids : Keeps(id)
  BY RequestStep
<1> QED
  BY <1>2, <1>3 DEF ClientCore, TypeOK, Keeps

\* An output is taken from the queue and given to nobody.
LEMMA ItemDropped ==
    ASSUME ClientCore, NEW id \in Ids, generator[id] = "getting",
           queue[id] # <<>>, Head(queue[id]) \in Answers,
           id \notin requests \/ Head(queue[id]).final,
           requests' = requests \ {id},
           queue' = [queue EXCEPT ![id] = Tail(@)],
           generator' = [generator EXCEPT ![id] = "cancelled"],
           UNCHANGED <<serviceVars, error, closing, sends, consumed, final>>
    PROVE  \A other \in Ids : Keeps(other)
<1>1. /\ \A other \in Ids : PerRequest(other)
      /\ queue \in [Ids -> Seq(Items)] /\ generator \in [Ids -> GeneratorStates]
      /\ consumed \in [Ids -> Nat] /\ outbox \in Seq(Messages) /\ answered \in [Ids -> Nat]
  BY DEF ClientCore, ClientTypeOK, ServiceTypeOK, Items
<1>2. UNCHANGED <<engine, inbox, outbox, working, answered, error, closing, sends, consumed, final>>
  BY DEF serviceVars
<1>3. Pipe' = Pipe
  BY <1>2 DEF Pipe
<1>4. \A other \in Ids : other # id => queue'[other] = queue[other] /\ generator'[other] = generator[other]
  BY <1>1
<1>5. queue'[id] = Tail(queue[id]) /\ generator'[id] = "cancelled" /\ requests' \subseteq requests
      /\ id \notin requests'
  BY <1>1
<1>6. ASSUME NEW other \in Ids, other # id PROVE Keeps(other)
  <2>1. other \in requests' <=> other \in requests
    BY <1>6
  <2> QED BY <1>1, <1>2, <1>3, <1>4, <1>6, <2>1, KeptFrame
<1>7. Head(queue[id]).final => ~ AtEngine(id)
  <2>1. Len(queue[id]) \in Nat \ {0} /\ Head(queue[id]) = queue[id][1] /\ 1 \in 1 .. Len(queue[id])
    BY <1>1
  <2> QED BY <1>1, <2>1 DEF PerRequest, CountOK, FinalAnswers
<1>8. AtEngine(id)' <=> AtEngine(id)
  BY <1>2, <1>3 DEF AtEngine
<1>9. PipeOK(id)' /\ OutboxOK(id)' /\ FreshOK(id)'
  BY <1>1, <1>2, <1>3, <1>5, <1>8, OutboxFrame DEF PerRequest, PipeOK, FreshOK
<1>10. QueueOK(id)'
  BY <1>1, <1>2, <1>5, QueueShrinks DEF PerRequest
<1>11. id \notin final /\ WaitOK(id)'
  BY <1>1, <1>2, <1>5 DEF PerRequest, WaitOK
<1>12. WantedKept(id)
  BY <1>1, <1>2, <1>3, <1>5, <1>7, <1>8 DEF WantedKept, WantedOK
<1>13. CountOK(id)'
  <2>1. /\ CountIn(queue[id], Answers) = CountIn(queue'[id], Answers) + 1
        /\ CountIn(queue'[id], Answers) \in Nat /\ CountIn(outbox, About(id)) \in Nat
    <3>1. queue[id] \in Seq(Items) /\ Tail(queue[id]) \in Seq(Items)
      BY <1>1
    <3> QED BY <1>1, <1>5, <3>1, CountInTail, CountInType
  <2>2. Delivered(id)' + CountIn(outbox', About(id)) <= answered'[id]
    <3>1. Delivered(id) + CountIn(outbox, About(id)) <= answered[id]
      BY <1>1 DEF PerRequest, CountOK
    <3>2. consumed[id] \in Nat /\ answered[id] \in Nat /\ consumed'[id] = consumed[id]
          /\ answered'[id] = answered[id] /\ outbox' = outbox
      BY <1>1, <1>2
    <3> QED BY <2>1, <3>1, <3>2 DEF Delivered
  <2> QED BY <1>2, <1>5, <1>11, <2>2 DEF CountOK
<1>14. Keeps(id)
  BY <1>9, <1>10, <1>11, <1>12, <1>13 DEF PerRequest, Keeps
<1> QED
  BY <1>6, <1>14

-----------------------------------------------------------------------------
(* What a step has to leave alone.                                          *)

\* No end is put in the queue of a request that is not given up.
NoEndAdded(id) ==
    \A i \in 1 .. Len(queue'[id]) : queue'[id][i] = None =>
        \E j \in 1 .. Len(queue[id]) : queue[id][j] = None

\* The engine does not come back, nor does the client.
OneWay ==
    /\ error => error'
    /\ closing => closing'
    /\ engine = "stopped" => engine' = "stopped"

LEMMA HandlerFrame ==
    ASSUME NEW id, HandlerOK(id), FramesOK(id), OneWay, NoEndAdded(id),
           handler'[id] = handler[id], frames'[id] = frames[id],
           id \in streaming' <=> id \in streaming,
           generator'[id] = generator[id], consumed'[id] = consumed[id],
           aborter'[id] = aborter[id], id \in final' <=> id \in final
    PROVE  HandlerOK(id)' /\ FramesOK(id)'
<1>1. HandlerOK(id)'
  BY DEF HandlerOK, NoEndAdded
<1>2. FramesOK(id)'
  BY DEF FramesOK, OneWay
<1> QED
  BY <1>1, <1>2

\* A step of a handler and its generate(), seen from the other requests.
LocalTo(id) ==
    /\ \A other \in Ids : other # id =>
          /\ generator'[other] = generator[other] /\ consumed'[other] = consumed[other]
          /\ queue'[other] = queue[other] /\ (other \in final' <=> other \in final)
    /\ UNCHANGED <<serviceVars, stateVars, starter, aborter, closer>>

\* What a handler does besides: it goes on, with a frame or without.
Moves(id) ==
    /\ \E state \in HandlerStates : handler' = [handler EXCEPT ![id] = state]
    /\ \/ UNCHANGED frames
       \/ \E f \in Frames : frames' = [frames EXCEPT ![id] = Append(@, f)]
    /\ streaming' = streaming \/ streaming' = streaming \cup {id}
    /\ cancelled' \subseteq cancelled
    /\ serve' = serve

LEMMA HandlerMoves ==
    ASSUME ServerInv, NEW id \in Ids, LocalTo(id), Moves(id),
           ClientCore', \A other \in Ids : ServerWanted(other)',
           HandlerOK(id)', FramesOK(id)'
    PROVE  ServerInv'
<1>1. ServerTypeOK /\ ServeOK /\ \A other \in Ids : HandlerOK(other) /\ FramesOK(other)
  BY DEF ServerInv
<1>2. UNCHANGED <<engine, error, closing, started, exited, starter, aborter, closer>>
  BY DEF LocalTo, serviceVars, stateVars
<1>3. ServerTypeOK'
  <2>1. handler' \in [Ids -> HandlerStates]
    BY <1>1 DEF Moves, ServerTypeOK
  <2>2. frames' \in [Ids -> Seq(Frames)]
    <3>1. frames \in [Ids -> Seq(Frames)]
      BY <1>1 DEF ServerTypeOK
    <3>2. \A f \in Frames : Append(frames[id], f) \in Seq(Frames)
      BY <3>1
    <3>3. \A f \in Frames : [frames EXCEPT ![id] = Append(@, f)] \in [Ids -> Seq(Frames)]
      BY <3>1, <3>2
    <3>4. frames' = frames \/ \E f \in Frames : frames' = [frames EXCEPT ![id] = Append(@, f)]
      BY Zenon DEF Moves
    <3> QED BY <3>1, <3>3, <3>4
  <2> QED BY <1>1, <2>1, <2>2 DEF Moves, ServerTypeOK
<1>4. ServeOK'
  BY <1>1, <1>2 DEF ServeOK, Moves
<1>5. ASSUME NEW other \in Ids, other # id PROVE HandlerOK(other)' /\ FramesOK(other)'
  <2>1. /\ handler'[other] = handler[other] /\ frames'[other] = frames[other]
        /\ other \in streaming' <=> other \in streaming
    BY <1>1, <1>5 DEF Moves, ServerTypeOK
  <2>2. /\ generator'[other] = generator[other] /\ consumed'[other] = consumed[other]
        /\ queue'[other] = queue[other] /\ (other \in final' <=> other \in final)
    BY <1>5 DEF LocalTo
  <2>3. NoEndAdded(other) /\ OneWay
    BY <1>2, <2>2 DEF NoEndAdded, OneWay
  <2> QED BY <1>1, <1>2, <2>1, <2>2, <2>3, HandlerFrame
<1> QED
  BY <1>3, <1>4, <1>5 DEF ServerInv

\* The request is still wanted by somebody after a step that leaves it so.
LEMMA WantedStays ==
    ASSUME NEW id, ServerWanted(id), WantedKept(id), closer' = closer
    PROVE  ServerWanted(id)'
BY DEF ServerWanted, WantedKept

\* The steps of generate() concern its own request.
LEMMA GenerateLocal ==
    ASSUME ClientCore, NEW id \in Ids, aborter[id] = "new",
           \/ Generate(id) \/ GenerateSent(id) \/ GenerateGets(id) \/ GenerateGoesOn(id)
           \/ GenerateAborted(id) \/ SendCancelled(id) \/ CancelGenerate(id)
    PROVE  /\ LocalTo(id)
           /\ ClientCore' /\ \A other \in Ids : WantedKept(other)
<1>1. ClientNext
  BY DEF ClientNext, LoopStep, UserStep
<1>2. ClientCore' /\ \A other \in Ids : WantedKept(other)
  BY <1>1, ClientCoreStep
<1>3. /\ queue \in [Ids -> Seq(Items)] /\ generator \in [Ids -> GeneratorStates]
      /\ consumed \in [Ids -> Nat]
  BY DEF ClientCore, ClientTypeOK, Items
<1>4. LocalTo(id)
  <2>1. CASE Generate(id)
    BY <1>3, <2>1 DEF Generate, LocalTo
  <2>2. CASE GenerateSent(id) \/ GenerateAborted(id)
    BY <1>3, <2>2 DEF GenerateSent, GenerateAborted, LocalTo
  <2>3. CASE GenerateGets(id)
    <3> DEFINE item == Head(queue[id])
    <3>1. UNCHANGED <<serviceVars, stateVars, starter, aborter, closer>>
          /\ queue' = [queue EXCEPT ![id] = Tail(@)]
      BY <2>3 DEF GenerateGets
    <3>2. \/ UNCHANGED <<consumed, final>>
          \/ /\ consumed' = [consumed EXCEPT ![id] = @ + 1]
             /\ final' = final \/ final' = final \cup {id}
      BY <2>3 DEF GenerateGets
    <3>3. \E state : generator' = [generator EXCEPT ![id] = state]
      BY <2>3 DEF GenerateGets
    <3> QED BY <1>3, <3>1, <3>2, <3>3 DEF LocalTo
  <2>4. CASE GenerateGoesOn(id)
    BY <1>3, <2>4 DEF GenerateGoesOn, LocalTo, requestVars
  <2>5. CASE SendCancelled(id)
    BY <1>3, <2>5 DEF SendCancelled, LocalTo
  <2>6. CASE CancelGenerate(id)
    <3>1. \A other \in Ids : other # id => queue'[other] = queue[other]
      BY <1>3, <2>6 DEF CancelGenerate, CleanUp, StartAbort
    <3> QED BY <1>3, <2>6, <3>1 DEF CancelGenerate, LocalTo
  <2> QED BY <2>1, <2>2, <2>3, <2>4, <2>5, <2>6
<1> QED
  BY <1>2, <1>4

-----------------------------------------------------------------------------
(* The ends of a handler.                                                   *)

\* A handler that is left keeps the frames it has sent.
LEMMA HandlerLeft ==
    ASSUME ServerInv, NEW id \in Ids, aborter' = aborter, frames' = frames,
           streaming' = streaming, final' = final, OneWay,
           \/ handler'[id] = "cleaning" /\ generator'[id] = "aborting"
           \/ handler'[id] = "ended" /\ generator'[id] \in GeneratorEnds
           \/ handler'[id] = "ended" /\ generator'[id] = "new" /\ queue' = queue
              /\ generator[id] = "new"
    PROVE  HandlerOK(id)' /\ FramesOK(id)'
<1>1. HandlerOK(id) /\ FramesOK(id)
  BY DEF ServerInv
<1>2. {"new", "sending", "getting", "yielded", "aborting"} \cap GeneratorEnds = {}
  BY DEF GeneratorEnds
<1>3. HandlerOK(id)'
  BY <1>1, <1>2 DEF HandlerOK
<1>4. FramesOK(id)'
  BY <1>1 DEF FramesOK, OneWay
<1> QED
  BY <1>3, <1>4

\* A step that is the handler's alone.
LEMMA HandlerAlone ==
    ASSUME ServerInv, NEW id \in Ids, UNCHANGED allVars, Moves(id), HandlerOK(id)', FramesOK(id)'
    PROVE  ServerInv'
<1>1. ClientCore' /\ \A other \in Ids : WantedKept(other)
  BY ClientCoreStep DEF ServerInv
<1>2. LocalTo(id) /\ closer' = closer
  BY DEF LocalTo, allVars, clientVars, serviceVars, taskVars, stateVars, requestVars
<1>3. \A other \in Ids : ServerWanted(other)'
  BY <1>1, <1>2, WantedStays DEF ServerInv
<1> QED
  BY <1>1, <1>2, <1>3, HandlerMoves

\* A step of generate() that a handler makes.
LEMMA HandlerGenerates ==
    ASSUME ServerInv, NEW id \in Ids,
           \/ Generate(id) \/ GenerateSent(id) \/ GenerateGets(id) \/ GenerateGoesOn(id)
           \/ GenerateAborted(id) \/ SendCancelled(id) \/ CancelGenerate(id),
           Moves(id), HandlerOK(id)', FramesOK(id)'
    PROVE  ServerInv'
<1>1. ClientCore /\ aborter[id] = "new"
  BY DEF ServerInv, HandlerOK
<1>2. LocalTo(id) /\ ClientCore' /\ \A other \in Ids : WantedKept(other)
  BY <1>1, GenerateLocal
<1>3. \A other \in Ids : ServerWanted(other)'
  BY <1>2, WantedStays DEF ServerInv, LocalTo
<1> QED
  BY <1>2, <1>3, HandlerMoves

LEMMA MovesTo ==
    ASSUME NEW id, NEW state \in HandlerStates, MoveTo(id, state),
           UNCHANGED <<frames, streaming, serve>>, cancelled' \subseteq cancelled
    PROVE  Moves(id)
BY DEF MoveTo, Moves

LEMMA LeaveStep ==
    ASSUME ServerInv, NEW id \in Ids, Leave(id), UNCHANGED <<streaming, frames, serve>>,
           cancelled' \subseteq cancelled
    PROVE  ServerInv'
<1>1. /\ handler \in [Ids -> HandlerStates] /\ generator \in [Ids -> GeneratorStates]
      /\ HandlerOK(id) /\ {"cleaning", "ended"} \subseteq HandlerStates
      /\ {"finished", "died", "cancelled", "rejected"} \subseteq GeneratorEnds
  BY DEF ServerInv, ServerTypeOK, ClientCore, ClientTypeOK, HandlerStates, GeneratorEnds
<1>2. CASE CancelGenerate(id) /\ LeaveAfterCleanup(id)
  <2>1. /\ generator'[id] \in {"aborting", "cancelled"}
        /\ UNCHANGED <<aborter, final, error, closing, engine>>
    BY <1>1, <1>2 DEF CancelGenerate, stateVars, serviceVars
  <2>2. PICK state \in {"cleaning", "ended"} :
            MoveTo(id, state) /\ (state = "cleaning" <=> generator'[id] = "aborting")
    BY <1>2 DEF LeaveAfterCleanup
  <2>3. handler'[id] = state /\ Moves(id)
    BY <1>1, <2>2, MovesTo DEF MoveTo
  <2>4. HandlerOK(id)' /\ FramesOK(id)'
    BY <1>1, <2>1, <2>2, <2>3, HandlerLeft DEF OneWay
  <2> QED BY <1>2, <2>3, <2>4, HandlerGenerates
<1>3. CASE MoveTo(id, "ended") /\ UNCHANGED allVars /\ handler[id] \in {"opening", "erring", "trailing"}
  <2>1. UNCHANGED <<aborter, final, error, closing, engine, generator, queue>>
    BY <1>3 DEF allVars, clientVars, serviceVars, taskVars, stateVars, requestVars
  <2>2. handler'[id] = "ended" /\ Moves(id)
    BY <1>1, <1>3, MovesTo DEF MoveTo
  <2>3. generator[id] = "new" \/ generator[id] \in GeneratorEnds
    BY <1>1, <1>3 DEF HandlerOK
  <2>4. HandlerOK(id)' /\ FramesOK(id)'
    BY <2>1, <2>2, <2>3, HandlerLeft DEF OneWay
  <2> QED BY <1>3, <2>2, <2>4, HandlerAlone
<1> QED
  BY <1>2, <1>3 DEF Leave

LEMMA DropAbortStep ==
    ASSUME ServerInv, NEW id \in cancelled, DropAbort(id), UNCHANGED <<streaming, frames, serve>>,
           cancelled' \subseteq cancelled
    PROVE  ServerInv'
<1>1. /\ id \in Ids /\ ClientCore /\ LifeOK /\ HandlerOK(id)
      /\ handler \in [Ids -> HandlerStates] /\ generator \in [Ids -> GeneratorStates]
      /\ sends \in Seq(Inputs)
  BY DEF ServerInv, ServerTypeOK, ClientCore, ClientTypeOK
<1>2. /\ UNCHANGED <<serviceVars, error, closing, requests, queue, consumed, final>>
      /\ UNCHANGED <<starter, aborter, reader, closer, stateVars>>
      /\ generator' = [generator EXCEPT ![id] = "cancelled"] /\ sends' = Withdrawn(Abort(id))
      /\ handler[id] = "cleaning" /\ MoveTo(id, "ended")
  BY DEF DropAbort, stateVars
<1>3. generator[id] = "aborting" /\ id \notin requests
  BY <1>1, <1>2 DEF HandlerOK, ClientCore, PerRequest, WaitOK
<1>4. closer # "none" /\ (closer # "created" => closing)
  BY <1>1 DEF ServerInv, ServeOK, LifeOK
<1>5. \A other \in Ids : PerRequest(other)' /\ (error \/ closing => WantedKept(other))
  BY <1>1, <1>2, <1>3, SendEnds
<1>6. ClientCore'
  <2>1. ClientTypeOK'
    <3>1. sends' \in Seq(Inputs)
      BY <1>1, <1>2, WithdrawnType
    <3>2. generator' \in [Ids -> GeneratorStates]
      BY <1>1, <1>2 DEF GeneratorStates
    <3> QED BY <1>1, <1>2, <3>1, <3>2 DEF ClientCore, ClientTypeOK, stateVars
  <2>2. ServiceTypeOK' /\ EngineOK' /\ LifeOK'
    BY <1>1, <1>2, <1>3 DEF ClientCore, ServiceTypeOK, EngineOK, LifeOK, stateVars, serviceVars
  <2> QED BY <1>5, <2>1, <2>2 DEF ClientCore
<1>7. \A other \in Ids : ServerWanted(other)'
  BY <1>2, <1>4, <1>5, WantedStays DEF ServerInv, ServerWanted
<1>8. handler'[id] = "ended" /\ Moves(id)
  BY <1>1, <1>2, MovesTo DEF MoveTo, HandlerStates
<1>9. HandlerOK(id)' /\ FramesOK(id)'
  <2>1. generator'[id] \in GeneratorEnds
    BY <1>1, <1>2 DEF GeneratorEnds
  <2>2. UNCHANGED <<aborter, final, error, closing, engine>>
    BY <1>2 DEF serviceVars
  <2> QED BY <1>1, <1>8, <2>1, <2>2, HandlerLeft DEF OneWay
<1>10. LocalTo(id)
  BY <1>1, <1>2 DEF LocalTo
<1> QED
  BY <1>1, <1>6, <1>7, <1>8, <1>9, <1>10, HandlerMoves

LEMMA CancelStep ==
    ASSUME ServerInv, NEW id \in Ids, CancelArrives(id) PROVE ServerInv'
<1>1. id \in cancelled /\ cancelled' \subseteq cancelled /\ UNCHANGED <<streaming, frames, serve>>
  BY DEF CancelArrives
<1>2. CASE Leave(id)
  BY <1>1, <1>2, LeaveStep
<1>3. CASE DropAbort(id)
  BY <1>1, <1>3, DropAbortStep
<1>4. CASE UNCHANGED <<allVars, handler>>
  <2>1. handler \in [Ids -> HandlerStates] /\ HandlerOK(id) /\ FramesOK(id)
    BY DEF ServerInv, ServerTypeOK
  <2>2. UNCHANGED <<aborter, final, error, closing, engine, generator, queue, consumed>>
    BY <1>4 DEF allVars, clientVars, serviceVars, taskVars, stateVars, requestVars
  <2>3. handler' = [handler EXCEPT ![id] = handler[id]] /\ handler[id] \in HandlerStates
    BY <1>4, <2>1
  <2>4. Moves(id)
    BY <1>1, <2>3 DEF Moves
  <2>5. HandlerOK(id)' /\ FramesOK(id)'
    BY <1>1, <1>4, <2>1, <2>2, HandlerFrame DEF OneWay, NoEndAdded
  <2> QED BY <1>4, <2>4, <2>5, HandlerAlone
<1> QED
  BY <1>2, <1>3, <1>4 DEF CancelArrives

LEMMA CleanedStep ==
    ASSUME ServerInv, NEW id \in Ids, CleanedUp(id) PROVE ServerInv'
<1>1. /\ handler \in [Ids -> HandlerStates] /\ generator \in [Ids -> GeneratorStates]
      /\ HandlerOK(id)
  BY DEF ServerInv, ServerTypeOK, ClientCore, ClientTypeOK
<1>2. handler'[id] = "ended" /\ Moves(id)
  BY <1>1, MovesTo DEF CleanedUp, MoveTo, HandlerStates
<1>3. generator[id] = "aborting" /\ aborter[id] = "new"
  BY <1>1 DEF CleanedUp, HandlerOK
<1>4. generator'[id] = "cancelled" /\ aborter' = aborter /\ UNCHANGED <<final, error, closing, engine>>
  BY <1>1, <1>3 DEF CleanedUp, GenerateAborted, SendCancelled, serviceVars, stateVars
<1>5. HandlerOK(id)' /\ FramesOK(id)'
  BY <1>2, <1>4, HandlerLeft DEF CleanedUp, OneWay, GeneratorEnds
<1> QED
  BY <1>2, <1>5, HandlerGenerates DEF CleanedUp

\* A step of generate() that only a handler makes.
LEMMA HandlerAside ==
    ASSUME ServerInv, NEW id \in Ids, ClientTypeOK', LocalTo(id), reader' = reader,
           requests' \subseteq requests, generator[id] # "new",
           \A other \in Ids : Keeps(other), Moves(id), HandlerOK(id)', FramesOK(id)'
    PROVE  ServerInv'
<1>1. \A other \in Ids : generator'[other] # "new" => generator[other] # "new"
  BY DEF LocalTo
<1>2. ClientCore' /\ \A other \in Ids : WantedKept(other)
  BY <1>1, ClientAside DEF ServerInv, LocalTo
<1>3. \A other \in Ids : ServerWanted(other)'
  BY <1>2, WantedStays DEF ServerInv, LocalTo
<1> QED
  BY <1>2, <1>3, HandlerMoves

LEMMA DecodeFailsStep ==
    ASSUME ServerInv, NEW id \in Ids, DecodeFails(id) PROVE ServerInv'
<1>1. /\ handler \in [Ids -> HandlerStates] /\ generator \in [Ids -> GeneratorStates]
      /\ queue \in [Ids -> Seq(Items)] /\ requests \subseteq Ids
      /\ sends \in Seq(Inputs) /\ ClientCore /\ HandlerOK(id)
  BY DEF ServerInv, ServerTypeOK, ClientCore, ClientTypeOK, Items
<1>2. /\ UNCHANGED <<serviceVars, stateVars, consumed, final, starter, aborter, reader, closer>>
      /\ UNCHANGED <<streaming, frames, cancelled, serve>>
      /\ generator[id] = "getting" /\ queue[id] # <<>> /\ Head(queue[id]) \in Answers
      /\ LeaveAfterCleanup(id)
  BY DEF DecodeFails
<1>3. UNCHANGED <<engine, error, closing>>
  BY <1>2 DEF serviceVars, stateVars
<1>4. /\ requests' = requests \ {id}
      /\ \E state \in {"aborting", "cancelled"} : generator' = [generator EXCEPT ![id] = state]
      /\ queue' \in [Ids -> Seq(Items)] /\ sends' \in Seq(Inputs)
      /\ \A other \in Ids : other # id => queue'[other] = queue[other]
      /\ \A other \in Ids : Keeps(other)
  <2>1. CASE id \in requests /\ ~ Head(queue[id]).final
    <3>1. /\ StartAbort(id, sends)
          /\ \E state \in {"aborting", "cancelled"} : generator' = [generator EXCEPT ![id] = state]
      BY <2>1 DEF DecodeFails
    <3>2. \A other \in Ids : Keeps(other)
      BY <1>1, <1>2, <1>3, <2>1, <3>1, AbortStarts
    <3>3. sends' \in Seq(Inputs) /\ <<None>> \in Seq(Items)
      <4>1. Append(sends, Abort(id)) \in Seq(Inputs)
        BY <1>1, MessagesDiffer
      <4>2. None \in Items
        BY DEF Items
      <4> QED BY <1>1, <3>1, <4>1, <4>2 DEF StartAbort
    <3> QED BY <1>1, <3>1, <3>2, <3>3 DEF StartAbort
  <2>2. CASE ~(id \in requests /\ ~ Head(queue[id]).final)
    <3>1. /\ requests' = requests \ {id} /\ queue' = [queue EXCEPT ![id] = Tail(@)]
          /\ generator' = [generator EXCEPT ![id] = "cancelled"] /\ sends' = sends
      BY <2>2 DEF DecodeFails
    <3>2. \A other \in Ids : Keeps(other)
      BY <1>1, <1>2, <1>3, <2>2, <3>1, ItemDropped
    <3>3. Tail(queue[id]) \in Seq(Items)
      BY <1>1, <1>2
    <3> QED BY <1>1, <3>1, <3>2, <3>3
  <2> QED BY <2>1, <2>2
<1>5. ClientTypeOK'
  <2>1. generator' \in [Ids -> GeneratorStates]
    BY <1>1, <1>4 DEF GeneratorStates
  <2> QED BY <1>1, <1>2, <1>4, <2>1 DEF ClientCore, ClientTypeOK, stateVars, Items
<1>6. LocalTo(id)
  BY <1>1, <1>2, <1>4 DEF LocalTo
<1>7. generator'[id] \in {"aborting", "cancelled"}
  BY <1>1, <1>4
<1>8. PICK state \in {"cleaning", "ended"} :
          MoveTo(id, state) /\ (state = "cleaning" <=> generator'[id] = "aborting")
  BY <1>2 DEF LeaveAfterCleanup
<1>9. handler'[id] = state /\ Moves(id)
  BY <1>1, <1>2, <1>8, MovesTo DEF MoveTo, HandlerStates
<1>10. HandlerOK(id)' /\ FramesOK(id)'
  BY <1>2, <1>3, <1>7, <1>8, <1>9, HandlerLeft DEF OneWay, GeneratorEnds
<1> QED
  BY <1>2, <1>4, <1>5, <1>6, <1>9, <1>10, HandlerAside

-----------------------------------------------------------------------------
(* The begin of a response.                                                 *)

LEMMA NothingSent ==
    /\ <<>> \in Seq(Frames) /\ Len(<<>>) = 0 /\ OnlyTexts(<<>>)
    /\ \A x : ~ Contains(<<>>, x)
<1>1. <<>> \in Seq(Frames) /\ Len(<<>>) = 0
  OBVIOUS
<1> QED
  BY <1>1, MaxOutputsAssumption DEF OnlyTexts, TextsTo, Contains

\* A frame is handed to the web server.
LEMMA Responded ==
    ASSUME ServerTypeOK, NEW id \in Ids, NEW f \in Frames, NEW state \in HandlerStates,
           Respond(id, f, state), streaming' = streaming, cancelled' \subseteq cancelled,
           serve' = serve
    PROVE  /\ Moves(id) /\ handler'[id] = state
           /\ frames[id] \in Seq(Frames) /\ frames'[id] = Append(frames[id], f)
           /\ \A x : Contains(frames'[id], x) <=> Contains(frames[id], x) \/ x = f
<1>1. handler \in [Ids -> HandlerStates] /\ frames \in [Ids -> Seq(Frames)]
  BY DEF ServerTypeOK
<1>2. /\ handler' = [handler EXCEPT ![id] = state]
      /\ frames' = [frames EXCEPT ![id] = Append(@, f)]
  BY DEF Respond, MoveTo
<1>3. Moves(id)
  BY <1>2 DEF Moves
<1>4. frames[id] \in Seq(Frames) /\ frames'[id] = Append(frames[id], f)
  BY <1>1, <1>2
<1>5. \A x : Contains(Append(frames[id], f), x) <=> Contains(frames[id], x) \/ x = f
  BY <1>4, FrameAdded
<1> QED
  BY <1>1, <1>2, <1>3, <1>4, <1>5

LEMMA CompleteStep ==
    ASSUME ServerInv, NEW id \in Ids, Complete(id) PROVE ServerInv'
<1>1. /\ ServerTypeOK /\ handler \in [Ids -> HandlerStates] /\ generator \in [Ids -> GeneratorStates]
      /\ HandlerOK(id) /\ FramesOK(id) /\ FreshOK(id) /\ WaitOK(id)
  BY DEF ServerInv, ServerTypeOK, ClientCore, ClientTypeOK, PerRequest
<1>2. /\ handler[id] = "new" /\ generator[id] = "new" /\ id \notin streaming /\ frames[id] = <<>>
      /\ UNCHANGED <<cancelled, serve>>
  BY <1>1 DEF Complete, HandlerOK, FramesOK
<1>3. CASE Refuse(id)
  <2>1. PICK f \in {"invalid", "unavailable"} : Respond(id, f, "ended")
    BY <1>3 DEF Refuse
  <2>2. UNCHANGED allVars /\ streaming' = streaming
    BY <1>3 DEF Refuse
  <2>3. f \in Frames /\ "ended" \in HandlerStates
    BY DEF Frames, HandlerStates
  <2>4. /\ Moves(id) /\ handler'[id] = "ended" /\ frames'[id] = Append(<<>>, f)
        /\ \A x : Contains(frames'[id], x) <=> Contains(frames[id], x) \/ x = f
    BY <1>1, <1>2, <2>1, <2>2, <2>3, Responded
  <2>5. frames'[id] \in {<<"invalid">>, <<"unavailable">>}
    BY <2>4
  <2>6. UNCHANGED <<generator, queue, aborter, final, error, closing, engine>>
    BY <2>2 DEF allVars, clientVars, serviceVars, taskVars, stateVars, requestVars
  <2>7. HandlerOK(id)'
    BY <1>1, <1>2, <2>4, <2>6 DEF HandlerOK
  <2>8. FramesOK(id)'
    BY <1>1, <1>2, <2>2, <2>4, <2>5, <2>6 DEF FramesOK
  <2> QED BY <2>2, <2>4, <2>7, <2>8, HandlerAlone
<1>4. CASE OpenStream(id)
  <2>1. /\ UNCHANGED <<allVars, frames>> /\ streaming' = streaming \cup {id}
        /\ handler' = [handler EXCEPT ![id] = "opening"]
    BY <1>4 DEF OpenStream, MoveTo
  <2>2. Moves(id) /\ handler'[id] = "opening"
    BY <1>1, <1>2, <2>1 DEF Moves, HandlerStates
  <2>3. UNCHANGED <<generator, queue, aborter, final, error, closing, engine>>
    BY <2>1 DEF allVars, clientVars, serviceVars, taskVars, stateVars, requestVars
  <2>4. HandlerOK(id)'
    BY <1>1, <1>2, <2>1, <2>2, <2>3 DEF HandlerOK
  <2>5. FramesOK(id)'
    BY <1>1, <1>2, <2>1, <2>2, <2>3, NothingSent DEF FramesOK
  <2> QED BY <2>1, <2>2, <2>4, <2>5, HandlerAlone
<1>5. CASE BeginCollecting(id)
  <2>1. /\ UNCHANGED <<streaming, frames>> /\ Generate(id) /\ Alive
        /\ handler' = [handler EXCEPT ![id] = "collecting"]
    BY <1>5 DEF BeginCollecting, MoveTo
  <2>2. Moves(id) /\ handler'[id] = "collecting"
    BY <1>1, <1>2, <2>1 DEF Moves, HandlerStates
  <2>3. /\ generator'[id] = "sending"
        /\ UNCHANGED <<queue, aborter, final, error, closing, engine>>
    BY <1>1, <2>1 DEF Generate, stateVars, serviceVars
  <2>4. HandlerOK(id)'
    BY <1>1, <1>2, <2>1, <2>2, <2>3 DEF HandlerOK
  <2>5. FramesOK(id)'
    BY <1>1, <1>2, <2>1, <2>2, <2>3 DEF FramesOK
  <2> QED BY <2>1, <2>2, <2>4, <2>5, HandlerGenerates
<1> QED
  BY <1>3, <1>4, <1>5 DEF Complete

LEMMA OpenedStep ==
    ASSUME ServerInv, NEW id \in Ids, StreamOpened(id) PROVE ServerInv'
<1>1. /\ ServerTypeOK /\ handler \in [Ids -> HandlerStates] /\ generator \in [Ids -> GeneratorStates]
      /\ HandlerOK(id) /\ FramesOK(id) /\ FreshOK(id) /\ WaitOK(id) /\ LifeOK
  BY DEF ServerInv, ServerTypeOK, ClientCore, ClientTypeOK, PerRequest
<1>2. /\ handler[id] = "opening" /\ generator[id] = "new" /\ id \in streaming /\ frames[id] = <<>>
      /\ UNCHANGED <<streaming, cancelled, serve>> /\ Generate(id)
  BY <1>1 DEF StreamOpened, HandlerOK, FramesOK
<1>3. UNCHANGED <<queue, aborter, final, consumed, error, closing, engine>>
  BY <1>2 DEF Generate, stateVars, serviceVars
<1>4. id \notin final /\ consumed[id] = 0
  BY <1>1, <1>2 DEF WaitOK, FreshOK
<1>5. CASE generator'[id] = "rejected"
  <2>1. Respond(id, "error", "erring")
    BY <1>2, <1>5 DEF StreamOpened, Digest
  <2>2. "error" \in Frames /\ "erring" \in HandlerStates /\ "error" \in LastFrames
    BY DEF Frames, HandlerStates, LastFrames
  <2>3. /\ Moves(id) /\ handler'[id] = "erring" /\ frames'[id] = Append(<<>>, "error")
        /\ \A x : Contains(frames'[id], x) <=> Contains(frames[id], x) \/ x = "error"
    BY <1>1, <1>2, <2>1, <2>2, Responded
  <2>4. WithTail(frames'[id])
    BY <2>2, <2>3, NothingSent, FrameAdded
  <2>5. error \/ closing \/ engine = "stopped"
    <3>1. ~ Alive /\ starter = "returned"
      BY <1>1, <1>2, <1>5 DEF Generate
    <3> QED BY <1>1, <3>1 DEF LifeOK, Alive, IsAlive
  <2>6. HandlerOK(id)'
    BY <1>1, <1>2, <1>3, <1>5, <2>3 DEF HandlerOK
  <2>7. FramesOK(id)'
    BY <1>1, <1>2, <1>3, <2>3, <2>4, <2>5 DEF FramesOK
  <2> QED BY <1>2, <2>3, <2>6, <2>7, HandlerGenerates
<1>6. CASE generator'[id] # "rejected"
  <2>1. handler' = [handler EXCEPT ![id] = "streaming"] /\ frames' = frames
    BY <1>6 DEF StreamOpened, MoveTo
  <2>2. Moves(id) /\ handler'[id] = "streaming"
    BY <1>1, <1>2, <2>1 DEF Moves, HandlerStates
  <2>3. generator'[id] = "sending"
    BY <1>1, <1>2, <1>6 DEF Generate
  <2>4. HandlerOK(id)'
    BY <1>1, <1>2, <1>3, <2>2, <2>3 DEF HandlerOK
  <2>5. FramesOK(id)'
    BY <1>1, <1>2, <1>3, <1>4, <2>1, <2>2, NothingSent DEF FramesOK
  <2> QED BY <1>2, <2>2, <2>4, <2>5, HandlerGenerates
<1> QED
  BY <1>5, <1>6

-----------------------------------------------------------------------------
(* The middle and the end of a response.                                    *)

\* A handler that only waits on.
LEMMA Unmoved ==
    ASSUME ServerTypeOK, NEW id \in Ids, UNCHANGED <<handler, frames, streaming, cancelled, serve>>
    PROVE  Moves(id)
<1>1. handler[id] \in HandlerStates /\ handler' = [handler EXCEPT ![id] = handler[id]]
  BY DEF ServerTypeOK
<1> QED
  BY <1>1 DEF Moves

LEMMA SentStep ==
    ASSUME ServerInv, NEW id \in Ids, FrameSent(id) PROVE ServerInv'
<1>1. /\ ServerTypeOK /\ handler \in [Ids -> HandlerStates] /\ generator \in [Ids -> GeneratorStates]
      /\ HandlerOK(id) /\ FramesOK(id)
      /\ UNCHANGED <<streaming, cancelled, serve>>
  BY DEF ServerInv, ServerTypeOK, ClientCore, ClientTypeOK, FrameSent
<1>2. /\ "[DONE]" \in Frames /\ {"trailing", "ended"} \subseteq HandlerStates
      /\ "[DONE]" \notin {"final", "completion", "error"}
  BY DEF Frames, HandlerStates
<1>3. CASE handler[id] = "streaming" /\ GenerateGoesOn(id) /\ Digest(id)
  <2>1. /\ generator'[id] = IF id \in final THEN "finished" ELSE "getting"
        /\ UNCHANGED <<queue, aborter, final, consumed, error, closing, engine>>
        /\ id \in streaming /\ generator[id] = "yielded"
    BY <1>1, <1>3 DEF GenerateGoesOn, HandlerOK, serviceVars, stateVars, requestVars
  <2>2. CASE id \in final
    <3>1. Respond(id, "[DONE]", "trailing")
      BY <1>3, <2>1, <2>2 DEF Digest
    <3>2. /\ Moves(id) /\ handler'[id] = "trailing" /\ frames[id] \in Seq(Frames)
          /\ frames'[id] = Append(frames[id], "[DONE]")
          /\ \A x : Contains(frames'[id], x) <=> Contains(frames[id], x) \/ x = "[DONE]"
      BY <1>1, <1>2, <3>1, Responded
    <3>3. Whole(frames'[id])
      BY <1>1, <1>2, <1>3, <2>2, <3>2, FrameAdded DEF FramesOK
    <3>4. HandlerOK(id)'
      BY <1>1, <2>1, <2>2, <3>2 DEF HandlerOK
    <3>5. FramesOK(id)'
      BY <1>1, <1>2, <2>1, <3>2, <3>3 DEF FramesOK
    <3> QED BY <1>3, <3>2, <3>4, <3>5, HandlerGenerates
  <2>3. CASE id \notin final
    <3>1. UNCHANGED <<handler, frames>>
      BY <1>3, <2>1, <2>3 DEF Digest
    <3>2. Moves(id)
      BY <1>1, <3>1, Unmoved
    <3>3. HandlerOK(id)'
      BY <1>1, <1>3, <2>1, <2>3, <3>1 DEF HandlerOK
    <3>4. FramesOK(id)'
      BY <1>1, <1>3, <2>1, <2>3, <3>1 DEF FramesOK
    <3> QED BY <1>3, <3>2, <3>3, <3>4, HandlerGenerates
  <2> QED BY <2>2, <2>3
<1>4. CASE handler[id] = "erring" /\ Respond(id, "[DONE]", "trailing") /\ UNCHANGED allVars
  <2>1. UNCHANGED <<generator, queue, aborter, final, error, closing, engine>>
    BY <1>4 DEF allVars, clientVars, serviceVars, taskVars, stateVars, requestVars
  <2>2. /\ Moves(id) /\ handler'[id] = "trailing" /\ frames[id] \in Seq(Frames)
        /\ frames'[id] = Append(frames[id], "[DONE]")
        /\ \A x : Contains(frames'[id], x) <=> Contains(frames[id], x) \/ x = "[DONE]"
    BY <1>1, <1>2, <1>4, Responded
  <2>3. Whole(frames'[id])
    BY <1>1, <1>2, <1>4, <2>2, FrameAdded DEF FramesOK
  <2>4. HandlerOK(id)'
    BY <1>1, <1>4, <2>1, <2>2 DEF HandlerOK
  <2>5. FramesOK(id)'
    BY <1>1, <1>2, <1>4, <2>1, <2>2, <2>3 DEF FramesOK, HandlerOK
  <2> QED BY <1>4, <2>2, <2>4, <2>5, HandlerAlone
<1>5. CASE handler[id] = "trailing" /\ MoveTo(id, "ended") /\ UNCHANGED <<allVars, frames>>
  <2>1. UNCHANGED <<generator, queue, aborter, final, error, closing, engine>>
    BY <1>5 DEF allVars, clientVars, serviceVars, taskVars, stateVars, requestVars
  <2>2. handler'[id] = "ended" /\ Moves(id)
    BY <1>1, <1>2, <1>5, MovesTo DEF MoveTo
  <2>3. generator'[id] \in GeneratorEnds
    BY <1>1, <1>5, <2>1 DEF HandlerOK, GeneratorEnds
  <2>4. HandlerOK(id)' /\ FramesOK(id)'
    BY <1>1, <1>5, <2>1, <2>2, <2>3, HandlerLeft DEF OneWay
  <2> QED BY <1>5, <2>2, <2>4, HandlerAlone
<1> QED
  BY <1>3, <1>4, <1>5 DEF FrameSent

\* The frames that answer the death of the engine.
LEMMA DiedResponse ==
    ASSUME ServerInv, NEW id \in Ids, handler[id] \in {"streaming", "collecting"}, Digest(id),
           generator'[id] = "died", generator[id] \in {"sending", "getting"},
           UNCHANGED <<streaming, cancelled, serve, aborter, final, error, closing, engine>>,
           error \/ closing
    PROVE  Moves(id) /\ HandlerOK(id)' /\ FramesOK(id)'
<1>1. /\ ServerTypeOK /\ HandlerOK(id) /\ FramesOK(id)
      /\ {"error", "unavailable"} \subseteq Frames /\ {"erring", "ended"} \subseteq HandlerStates
      /\ "error" \in LastFrames
  BY DEF ServerInv, Frames, HandlerStates, LastFrames
<1>2. CASE id \in streaming
  <2>1. Respond(id, "error", "erring")
    BY <1>2 DEF Digest
  <2>2. /\ Moves(id) /\ handler'[id] = "erring" /\ frames[id] \in Seq(Frames)
        /\ frames'[id] = Append(frames[id], "error")
        /\ \A x : Contains(frames'[id], x) <=> Contains(frames[id], x) \/ x = "error"
    BY <1>1, <2>1, Responded
  <2>3. OnlyTexts(frames[id])
    BY <1>1, <1>2 DEF HandlerOK, FramesOK
  <2>4. WithTail(frames'[id])
    BY <1>1, <2>2, <2>3, FrameAdded
  <2>5. HandlerOK(id)'
    BY <1>1, <1>2, <2>2 DEF HandlerOK
  <2>6. FramesOK(id)'
    BY <1>1, <1>2, <2>2, <2>4 DEF FramesOK
  <2> QED BY <2>2, <2>5, <2>6
<1>3. CASE id \notin streaming
  <2>1. Respond(id, "unavailable", "ended")
    BY <1>3 DEF Digest
  <2>2. frames[id] = <<>>
    BY <1>1, <1>3 DEF HandlerOK, FramesOK
  <2>3. /\ Moves(id) /\ handler'[id] = "ended" /\ frames'[id] = Append(<<>>, "unavailable")
        /\ \A x : Contains(frames'[id], x) <=> Contains(frames[id], x) \/ x = "unavailable"
    BY <1>1, <2>1, <2>2, Responded
  <2>4. frames'[id] = <<"unavailable">>
    BY <2>3
  <2>5. HandlerOK(id)'
    BY <1>1, <1>3, <2>3 DEF HandlerOK, GeneratorEnds
  <2>6. FramesOK(id)'
    BY <1>1, <1>3, <2>2, <2>3, <2>4, NothingSent DEF FramesOK
  <2> QED BY <2>3, <2>5, <2>6
<1> QED
  BY <1>2, <1>3

LEMMA SendingStep ==
    ASSUME ServerInv, NEW id \in Ids, handler[id] \in {"streaming", "collecting"},
           GenerateSent(id), Digest(id), UNCHANGED <<streaming, cancelled, serve>>
    PROVE  ServerInv'
<1>1. ServerTypeOK /\ generator \in [Ids -> GeneratorStates] /\ HandlerOK(id) /\ FramesOK(id)
  BY DEF ServerInv, ClientCore, ClientTypeOK
<1>2. /\ UNCHANGED <<queue, aborter, final, consumed, error, closing, engine>>
      /\ generator[id] = "sending"
      /\ generator'[id] = IF error THEN "died" ELSE "getting"
  BY <1>1 DEF GenerateSent, serviceVars, stateVars
<1>3. CASE error
  <2>1. Moves(id) /\ HandlerOK(id)' /\ FramesOK(id)'
    BY <1>2, <1>3, DiedResponse
  <2> QED BY <2>1, HandlerGenerates
<1>4. CASE ~ error
  <2>1. UNCHANGED <<handler, frames>>
    BY <1>2, <1>4 DEF Digest
  <2>2. HandlerOK(id)'
    BY <1>1, <1>2, <1>4, <2>1 DEF HandlerOK
  <2>3. FramesOK(id)'
    BY <1>1, <1>2, <1>4, <2>1 DEF FramesOK
  <2> QED BY <1>1, <2>1, <2>2, <2>3, Unmoved, HandlerGenerates
<1> QED
  BY <1>3, <1>4

\* What a handler that waits for an item finds.
LEMMA FoundItem ==
    ASSUME ServerInv, NEW id \in Ids, generator[id] = "getting", queue[id] # <<>>
    PROVE  LET item == Head(queue[id])
           IN  /\ item \in Answers \/ item = EngineDied
               /\ item = EngineDied => (error \/ closing) /\ id \notin requests
               /\ queue[id] \in Seq(Items)
               /\ \A i \in 1 .. Len(Tail(queue[id])) : Tail(queue[id])[i] # None
<1>1. HandlerOK(id) /\ QueueOK(id) /\ queue[id] \in Seq(Items)
  BY DEF ServerInv, ClientCore, PerRequest, ClientTypeOK, Items
<1>2. /\ Head(queue[id]) = queue[id][1] /\ 1 \in 1 .. Len(queue[id]) /\ Head(queue[id]) \in Items
      /\ \A i \in 1 .. Len(Tail(queue[id])) :
            i + 1 \in 1 .. Len(queue[id]) /\ Tail(queue[id])[i] = queue[id][i + 1]
  BY <1>1
<1>3. \A i \in 1 .. Len(queue[id]) : queue[id][i] # None
  BY <1>1 DEF HandlerOK
<1>4. Head(queue[id]) \in Answers \/ Head(queue[id]) = EngineDied
  BY <1>2, <1>3 DEF Items
<1>5. Head(queue[id]) = EngineDied => (error \/ closing) /\ id \notin requests
  BY <1>1, <1>2, ItemsDiffer DEF QueueOK
<1> QED
  BY <1>1, <1>2, <1>3, <1>4, <1>5

LEMMA StreamGetsStep ==
    ASSUME ServerInv, NEW id \in Ids, handler[id] = "streaming", GenerateGets(id), Digest(id),
           UNCHANGED <<streaming, cancelled, serve>>
    PROVE  ServerInv'
<1> DEFINE item == Head(queue[id])
<1>1. /\ ServerTypeOK /\ generator \in [Ids -> GeneratorStates] /\ consumed \in [Ids -> Nat]
      /\ queue \in [Ids -> Seq(Items)] /\ outbox \in Seq(Messages) /\ answered \in [Ids -> Nat]
      /\ HandlerOK(id) /\ FramesOK(id) /\ PerRequest(id)
  BY DEF ServerInv, ClientCore, ClientTypeOK, ServiceTypeOK, Items
<1>2. /\ UNCHANGED <<aborter, error, closing, engine>> /\ queue'[id] = Tail(queue[id])
      /\ generator[id] = "getting" /\ queue[id] # <<>>
  BY <1>1 DEF GenerateGets, serviceVars, stateVars
<1>3. /\ id \in streaming /\ id \notin final
      /\ OnlyTexts(frames[id]) /\ Len(frames[id]) = consumed[id]
  BY <1>1, <1>2 DEF HandlerOK, FramesOK
<1>4. /\ item \in Answers \/ item = EngineDied
      /\ item = EngineDied => (error \/ closing) /\ id \notin requests
      /\ \A i \in 1 .. Len(Tail(queue[id])) : Tail(queue[id])[i] # None
  BY <1>2, FoundItem
<1>5. CASE item = EngineDied
  <2>1. generator' = [generator EXCEPT ![id] = "died"] /\ final' = final
    BY <1>5, ItemsDiffer DEF GenerateGets
  <2>2. Moves(id) /\ HandlerOK(id)' /\ FramesOK(id)'
    <3>1. generator'[id] = "died"
      BY <1>1, <2>1
    <3> QED BY <1>2, <1>4, <1>5, <2>1, <3>1, DiedResponse
  <2> QED BY <2>2, HandlerGenerates
<1>6. CASE item \in Answers
  <2>1. item # EngineDied /\ item # None
    BY <1>6, ItemsDiffer
  <2>2. /\ generator'[id] = "yielded" /\ consumed'[id] = consumed[id] + 1
        /\ final' = IF item.final THEN final \cup {id} ELSE final
    BY <1>1, <2>1 DEF GenerateGets
  <2>3. consumed[id] + 1 <= MaxOutputs
    <3>1. /\ CountIn(queue[id], Answers) = CountIn(Tail(queue[id]), Answers) + 1
          /\ CountIn(Tail(queue[id]), Answers) \in Nat /\ CountIn(outbox, About(id)) \in Nat
      <4>1. queue[id] \in Seq(Items) /\ Tail(queue[id]) \in Seq(Items)
        BY <1>1, <1>2
      <4> QED BY <1>1, <1>2, <1>6, <4>1, CountInTail, CountInType
    <3>2. Delivered(id) + CountIn(outbox, About(id)) <= answered[id] /\ answered[id] <= MaxOutputs
      BY <1>1 DEF PerRequest, CountOK, PipeOK
    <3>3. consumed[id] \in Nat /\ answered[id] \in Nat
      BY <1>1
    <3> QED BY <3>1, <3>2, <3>3, MaxOutputsAssumption DEF Delivered
  <2> DEFINE f == IF id \in final' THEN "final" ELSE "text"
  <2>4. Respond(id, f, "streaming")
    BY <2>2 DEF Digest
  <2>5. f \in Frames /\ "streaming" \in HandlerStates /\ "final" \in LastFrames
    BY DEF Frames, HandlerStates, LastFrames
  <2>6. /\ Moves(id) /\ handler'[id] = "streaming" /\ frames[id] \in Seq(Frames)
        /\ frames'[id] = Append(frames[id], f)
        /\ \A x : Contains(frames'[id], x) <=> Contains(frames[id], x) \/ x = f
    BY <1>1, <2>4, <2>5, Responded
  <2>7. /\ id \in final' => WithTail(frames'[id])
        /\ id \notin final' => OnlyTexts(frames'[id]) /\ Len(frames'[id]) = consumed'[id]
    <3>1. LET t == Append(frames[id], f)
          IN  /\ Len(t) = Len(frames[id]) + 1
              /\ f = "text" /\ Len(t) <= MaxOutputs => OnlyTexts(t)
              /\ f \in LastFrames => WithTail(t)
      BY <1>3, <2>5, <2>6, FrameAdded
    <3> QED BY <1>3, <2>2, <2>3, <2>5, <2>6, <3>1
  <2>8. HandlerOK(id)'
    BY <1>1, <1>2, <1>3, <1>4, <2>2, <2>6 DEF HandlerOK
  <2>9. FramesOK(id)'
    <3>1. /\ Contains(frames'[id], "final") \/ Contains(frames'[id], "completion") => id \in final'
          /\ Contains(frames'[id], "error") => error' \/ closing' \/ engine' = "stopped"
      BY <1>1, <1>2, <1>3, <2>6 DEF FramesOK
    <3> HIDE DEF f
    <3> QED BY <1>3, <2>2, <2>6, <2>7, <3>1 DEF FramesOK
  <2> QED BY <2>6, <2>8, <2>9, HandlerGenerates
<1> QED
  BY <1>4, <1>5, <1>6

LEMMA CollectStep ==
    ASSUME ServerInv, NEW id \in Ids, handler[id] = "collecting", CollectNext(id), Digest(id),
           UNCHANGED <<streaming, cancelled, serve>>
    PROVE  ServerInv'
<1> DEFINE item == Head(queue[id])
<1>1. /\ ServerTypeOK /\ generator \in [Ids -> GeneratorStates] /\ consumed \in [Ids -> Nat]
      /\ queue \in [Ids -> Seq(Items)] /\ final \subseteq Ids /\ requests \subseteq Ids
      /\ ClientCore /\ ClientTypeOK /\ HandlerOK(id) /\ FramesOK(id)
  BY DEF ServerInv, ClientCore, ClientTypeOK, Items
<1>2. /\ UNCHANGED <<serviceVars, stateVars, sends, starter, aborter, reader, closer>>
      /\ queue' = [queue EXCEPT ![id] = Tail(@)]
      /\ generator[id] = "getting" /\ queue[id] # <<>>
  BY DEF CollectNext
<1>3. UNCHANGED <<aborter, error, closing, engine>> /\ queue'[id] = Tail(queue[id])
  BY <1>1, <1>2 DEF serviceVars, stateVars
<1>4. id \notin streaming /\ frames[id] = <<>> /\ id \notin final
  BY <1>1, <1>2 DEF HandlerOK, FramesOK, ClientCore, PerRequest, WaitOK
<1>5. /\ item \in Answers \/ item = EngineDied
      /\ item = EngineDied => (error \/ closing) /\ id \notin requests
      /\ \A i \in 1 .. Len(Tail(queue[id])) : Tail(queue[id])[i] # None
  BY <1>2, FoundItem
<1>6. /\ TakesEnd(id) \/ TakesOutput(id)
      /\ \/ item = EngineDied /\ generator'[id] = "died" /\ final' = final
         \/ /\ item \in Answers
            /\ generator'[id] = IF item.final THEN "finished" ELSE "getting"
            /\ final' = IF item.final THEN final \cup {id} ELSE final
  <2>1. CASE item = EngineDied
    BY <1>1, <2>1 DEF CollectNext, TakesEnd
  <2>2. CASE item \in Answers
    <3>1. item # EngineDied
      BY <2>2, ItemsDiffer
    <3>2. /\ generator' = [generator EXCEPT ![id] = IF item.final THEN "finished" ELSE "getting"]
          /\ consumed' = [consumed EXCEPT ![id] = @ + 1]
          /\ final' = IF item.final THEN final \cup {id} ELSE final
          /\ requests' = IF item.final THEN requests \ {id} ELSE requests
      BY <3>1 DEF CollectNext, RegisteredAfter
    <3>3. TakesOutput(id)
      BY <2>2, <3>2 DEF TakesOutput
    <3> QED BY <1>1, <2>2, <3>2, <3>3
  <2> QED BY <1>5, <2>1, <2>2
<1>7. \A other \in Ids : Keeps(other)
  BY <1>1, <1>2, <1>3, <1>6, ItemTaken DEF TakesItem
<1>8. \/ UNCHANGED <<consumed, final, requests>>
      \/ /\ consumed' = [consumed EXCEPT ![id] = @ + 1]
         /\ final' = final \/ final' = final \cup {id}
         /\ requests' = requests \/ requests' = requests \ {id}
  BY <1>6 DEF TakesEnd, TakesOutput
<1>9. \E state \in GeneratorStates : generator' = [generator EXCEPT ![id] = state]
  BY DEF CollectNext, GeneratorStates
<1>10. ClientTypeOK' /\ requests' \subseteq requests
  <2>1. queue' \in [Ids -> Seq(Items)]
    <3>1. Tail(queue[id]) \in Seq(Items)
      BY <1>1, <1>2
    <3> QED BY <1>1, <1>2, <3>1
  <2>2. generator' \in [Ids -> GeneratorStates]
    BY <1>1, <1>9
  <2>3. consumed' \in [Ids -> Nat] /\ final' \subseteq Ids /\ requests' \subseteq requests
    BY <1>1, <1>8
  <2> QED BY <1>1, <1>2, <2>1, <2>2, <2>3 DEF ClientTypeOK, stateVars, Items
<1>11. LocalTo(id)
  <2>1. \A other \in Ids : other # id =>
            /\ consumed'[other] = consumed[other] /\ (other \in final' <=> other \in final)
    BY <1>1, <1>8
  <2> QED BY <1>1, <1>2, <1>9, <2>1 DEF LocalTo
<1>12. Moves(id) /\ HandlerOK(id)' /\ FramesOK(id)'
  <2>1. CASE item = EngineDied /\ generator'[id] = "died" /\ final' = final
    BY <1>2, <1>3, <1>5, <2>1, DiedResponse
  <2>2. CASE generator'[id] = "finished" /\ final' = final \cup {id}
    <3>1. Respond(id, "completion", "ended")
      BY <1>4, <2>2 DEF Digest
    <3>2. "completion" \in Frames /\ "ended" \in HandlerStates
      BY DEF Frames, HandlerStates
    <3>3. /\ Moves(id) /\ handler'[id] = "ended" /\ frames'[id] = Append(<<>>, "completion")
          /\ \A x : Contains(frames'[id], x) <=> Contains(frames[id], x) \/ x = "completion"
      BY <1>1, <1>4, <3>1, <3>2, Responded
    <3>4. frames'[id] = <<"completion">>
      BY <3>3
    <3>5. HandlerOK(id)'
      BY <1>1, <1>3, <2>2, <3>3 DEF HandlerOK, GeneratorEnds
    <3>6. FramesOK(id)'
      BY <1>1, <1>3, <1>4, <2>2, <3>3, <3>4 DEF FramesOK
    <3> QED BY <3>3, <3>5, <3>6
  <2>3. CASE generator'[id] = "getting" /\ final' = final
    <3>1. UNCHANGED <<handler, frames>>
      BY <2>3 DEF Digest
    <3>2. Moves(id)
      BY <1>1, <3>1, Unmoved
    <3>3. HandlerOK(id)'
      BY <1>1, <1>3, <1>5, <2>3, <3>1 DEF HandlerOK
    <3>4. FramesOK(id)'
      BY <1>1, <1>3, <1>4, <2>3, <3>1 DEF FramesOK
    <3> QED BY <3>2, <3>3, <3>4
  <2> QED BY <1>6, <2>1, <2>2, <2>3
<1> QED
  BY <1>2, <1>7, <1>10, <1>11, <1>12, HandlerAside

-----------------------------------------------------------------------------
(* The steps of the client, of the engine and of serve().                   *)

LEMMA ServeStep ==
    ASSUME ServerInv, UNCHANGED serverVars,
           ClientStep \/ StartCancelled \/ ReaderFails \/ EngineStep \/ EngineDies
    PROVE  ServeOK' /\ OneWay
<1> USE DEF ServeOK, OneWay
<1>1. ServeOK /\ UNCHANGED <<serve, cancelled>>
  BY DEF ServerInv, serverVars
<1>2. CASE StartProcess \/ StartReturns \/ StartFails \/ StartRaises \/ StartCancelled
  BY <1>1, <1>2 DEF StartProcess, StartReturns, StartFails, StartRaises, StartCancelled,
     StartGivesUp, serviceVars, stateVars
<1>3. CASE SendNext \/ ReadReady \/ ReadOutputs
  BY <1>1, <1>3 DEF SendNext, ReadReady, ReadOutputs, taskVars, stateVars
<1>4. CASE OnExit \/ ReaderFails
  BY <1>1, <1>4 DEF OnExit, ReaderFails, MarkDead, serviceVars
<1>5. CASE CloseBegins
  BY <1>1, <1>5 DEF CloseBegins, serviceVars
<1>6. CASE CloseSent \/ CloseSeesExit \/ CloseEnds
  BY <1>1, <1>6 DEF CloseSent, CloseSeesExit, CloseEnds, serviceVars, stateVars
<1>7. CASE CloseTimesOut
  <2>1. engine' = "stopped"
    BY <1>7 DEF CloseTimesOut, Die, serviceVars
  <2> QED BY <1>1, <1>7, <2>1 DEF CloseTimesOut, InTimeout, stateVars
<1>8. CASE EngineStep \/ EngineDies
  <2>1. UNCHANGED <<starter, started, closer, closing, exited, error>>
    BY <1>8 DEF EngineStep, EngineDies, clientVars, taskVars, stateVars
  <2>2. engine = "stopped" => engine' = "stopped"
    BY <1>8 DEF EngineStep, EngineDies, ServiceStep, BecomeReady, TakeInput, Answer, Die
  <2> QED BY <1>1, <2>1, <2>2
<1> QED
  BY <1>2, <1>3, <1>4, <1>5, <1>6, <1>7, <1>8 DEF ClientStep

\* Nothing is put in a queue but outputs and, from now on, the death of the engine.
LEMMA NoEndComes ==
    ASSUME ServerInv, NEW id \in Ids,
           ClientStep \/ StartCancelled \/ ReaderFails \/ EngineStep \/ EngineDies
    PROVE  NoEndAdded(id)
<1>1. /\ queue \in [Ids -> Seq(Items)] /\ outbox \in Seq(Messages) /\ EngineOK
  BY DEF ServerInv, ClientCore, ClientTypeOK, ServiceTypeOK, Items
<1>2. ASSUME NEW item \in Items, item # None, queue'[id] = Append(queue[id], item)
      PROVE  NoEndAdded(id)
  <2>1. /\ Len(queue'[id]) = Len(queue[id]) + 1 /\ Len(queue[id]) \in Nat
        /\ queue'[id][Len(queue[id]) + 1] = item
        /\ \A i \in 1 .. Len(queue[id]) : queue'[id][i] = queue[id][i]
    BY <1>1, <1>2
  <2> QED BY <1>2, <2>1 DEF NoEndAdded
<1>3. queue'[id] = queue[id] => NoEndAdded(id)
  BY DEF NoEndAdded
<1>4. CASE FailRequests \/ UNCHANGED queue
  <2>1. queue'[id] = Append(queue[id], EngineDied) \/ queue'[id] = queue[id]
    BY <1>4 DEF FailRequests
  <2> QED BY <1>2, <1>3, <2>1, ItemsDiffer DEF Items
<1>5. CASE ReadOutputs
  <2> DEFINE message == Head(outbox)
             answers == message.outputs
             told == id \in requests /\ \E a \in answers : a.id = id
  <2>1. message \in Messages /\ message # Ready
    <3>1. outbox # <<>> /\ reader = "reading"
      BY <1>5 DEF ReadOutputs
    <3>2. message = outbox[1] /\ message \in Messages /\ 1 \in 1 .. Len(outbox)
      BY <1>1, <3>1
    <3> QED BY <1>1, <3>1, <3>2 DEF EngineOK
  <2>2. answers \subseteq Answers
    BY <2>1, ItemsDiffer DEF Messages
  <2>3. queue'[id] = IF told THEN Append(queue[id], OutputOf(answers, id)) ELSE queue[id]
    BY <1>5 DEF ReadOutputs, Deliver
  <2>4. told => OutputOf(answers, id) \in Answers
    BY <2>2 DEF OutputOf
  <2> QED BY <1>2, <1>3, <2>3, <2>4, ItemsDiffer DEF Items
<1>6. ASSUME ~ ReadOutputs PROVE FailRequests \/ UNCHANGED queue
  <2>1. CASE StartProcess \/ StartReturns \/ StartFails \/ StartRaises \/ StartCancelled
    BY <2>1 DEF StartProcess, StartReturns, StartFails, StartRaises, StartCancelled,
       StartGivesUp, requestVars
  <2>2. CASE SendNext \/ ReadReady \/ CloseBegins \/ CloseTimesOut
    BY <2>2 DEF SendNext, ReadReady, CloseBegins, CloseTimesOut, requestVars
  <2>3. CASE OnExit \/ ReaderFails
    BY <2>3 DEF OnExit, ReaderFails, MarkDead
  <2>4. CASE CloseSent \/ CloseSeesExit \/ CloseEnds
    BY <2>4 DEF CloseSent, CloseSeesExit, CloseEnds, requestVars
  <2>5. CASE EngineStep \/ EngineDies
    BY <2>5 DEF EngineStep, EngineDies, clientVars, requestVars
  <2> QED BY <1>6, <2>1, <2>2, <2>3, <2>4, <2>5 DEF ClientStep
<1> QED
  BY <1>4, <1>5, <1>6

\* Who consumes the outputs is left alone; and a task that closes the client does
\* not end before the client is closing.
LEMMA ConsumersLeft ==
    ASSUME ClientStep \/ StartCancelled \/ ReaderFails \/ EngineStep \/ EngineDies
    PROVE  /\ UNCHANGED <<generator, consumed, final, aborter>>
           /\ closer = "created" => closer' = "created" \/ closing'
<1>1. CASE StartProcess \/ StartReturns \/ StartFails \/ StartRaises \/ StartCancelled
  BY <1>1 DEF StartProcess, StartReturns, StartFails, StartRaises, StartCancelled,
     StartGivesUp, requestVars
<1>2. CASE SendNext \/ ReadReady \/ ReadOutputs
  BY <1>2 DEF SendNext, ReadReady, ReadOutputs, requestVars, taskVars
<1>3. CASE OnExit \/ ReaderFails
  BY <1>3 DEF OnExit, ReaderFails
<1>4. CASE CloseBegins \/ CloseTimesOut
  BY <1>4 DEF CloseBegins, CloseTimesOut, InTimeout
<1>5. CASE CloseSent \/ CloseSeesExit \/ CloseEnds
  BY <1>5 DEF CloseSent, CloseSeesExit, CloseEnds, requestVars
<1>6. CASE EngineStep \/ EngineDies
  BY <1>6 DEF EngineStep, EngineDies, clientVars, requestVars, taskVars
<1> QED
  BY <1>1, <1>2, <1>3, <1>4, <1>5, <1>6 DEF ClientStep

LEMMA ClientSide ==
    ASSUME ServerInv, UNCHANGED serverVars,
           ClientStep \/ StartCancelled \/ ReaderFails \/ EngineStep \/ EngineDies
    PROVE  ServerInv'
<1>1. ClientCore /\ ClientNext
  BY DEF ServerInv, ClientStep, ClientNext, LoopStep, UserStep
<1>2. ClientCore' /\ \A id \in Ids : WantedKept(id)
  BY <1>1, ClientCoreStep
<1>3. UNCHANGED <<handler, streaming, frames, cancelled, serve>>
  BY DEF serverVars
<1>4. ServeOK' /\ OneWay
  BY ServeStep
<1>5. ServerTypeOK'
  BY <1>3 DEF ServerInv, ServerTypeOK
<1>6. ASSUME NEW id \in Ids PROVE ServerWanted(id)' /\ HandlerOK(id)' /\ FramesOK(id)'
  <2>1. ServerWanted(id) /\ HandlerOK(id) /\ FramesOK(id)
    BY DEF ServerInv
  <2>2. /\ UNCHANGED <<generator, consumed, final, aborter>>
        /\ closer = "created" => closer' = "created" \/ closing'
    BY ConsumersLeft
  <2>3. ServerWanted(id)'
    BY <1>2, <2>1, <2>2 DEF ServerWanted, WantedKept, WantedOK
  <2> QED BY <1>3, <1>4, <2>1, <2>2, <2>3, NoEndComes, HandlerFrame
<1> QED
  BY <1>2, <1>4, <1>5, <1>6 DEF ServerInv

\* What serve() does leaves every request as it is.
LEMMA ServeMoves ==
    ASSUME ServerInv, [ClientNext]_allVars, UNCHANGED <<handler, streaming, frames>>,
           UNCHANGED <<serviceVars, stateVars, requestVars, generator, aborter>>,
           closer = "created" => closer' = "created",
           cancelled' \subseteq Ids,
           serve' \in {"starting", "serving", "draining", "closing", "ended"}, ServeOK'
    PROVE  ServerInv'
<1>1. ClientCore' /\ \A id \in Ids : WantedKept(id)
  BY ClientCoreStep DEF ServerInv
<1>2. UNCHANGED <<engine, error, closing, queue, consumed, final>>
  BY DEF serviceVars, stateVars, requestVars
<1>3. ServerTypeOK'
  BY DEF ServerInv, ServerTypeOK
<1>4. ASSUME NEW id \in Ids PROVE ServerWanted(id)' /\ HandlerOK(id)' /\ FramesOK(id)'
  <2>1. ServerWanted(id)'
    BY <1>1 DEF ServerInv, ServerWanted, WantedKept
  <2>2. OneWay /\ NoEndAdded(id)
    BY <1>2 DEF OneWay, NoEndAdded
  <2> QED BY <1>2, <2>1, <2>2, HandlerFrame DEF ServerInv
<1> QED
  BY <1>1, <1>3, <1>4 DEF ServerInv

LEMMA ServeSteps ==
    ASSUME ServerInv,
           Started \/ StopSignal \/ WatchEngine \/ ShutDown \/ ServeReturns \/ UNCHANGED systemVars
    PROVE  ServerInv'
<1>1. ServeOK /\ ServerTypeOK /\ LifeOK
  BY DEF ServerInv, ClientCore
<1>2. CASE Started \/ StopSignal \/ ServeReturns \/ UNCHANGED systemVars
  <2>1. UNCHANGED allVars /\ UNCHANGED <<handler, streaming, frames, cancelled>>
    BY <1>2 DEF Started, StopSignal, ServeReturns, systemVars, serverVars
  <2>2. /\ UNCHANGED <<serviceVars, stateVars, requestVars, generator, aborter>>
        /\ UNCHANGED <<starter, started, engine, exited, closing, closer>>
    BY <2>1 DEF allVars, clientVars, taskVars, stateVars, serviceVars
  <2>3. /\ serve' \in {"starting", "serving", "draining", "closing", "ended"}
        /\ ServeOK'
    <3>1. CASE Started
      BY <1>1, <2>1, <2>2, <3>1 DEF Started, ServeOK
    <3>2. CASE StopSignal
      BY <1>1, <2>1, <2>2, <3>2 DEF StopSignal, ServeOK
    <3>3. CASE ServeReturns
      BY <1>1, <2>1, <2>2, <3>3 DEF ServeReturns, ServeOK
    <3>4. CASE UNCHANGED serve
      BY <1>1, <2>1, <2>2, <3>4 DEF ServerTypeOK, ServeOK
    <3> QED BY <1>2, <3>1, <3>2, <3>3, <3>4 DEF systemVars, serverVars
  <2> QED BY <1>1, <2>1, <2>2, <2>3, ServeMoves DEF ServerTypeOK
<1>3. CASE ShutDown
  <2>1. /\ Close /\ UNCHANGED <<handler, streaming, frames>>
        /\ cancelled' = Active /\ serve = "draining" /\ serve' = "closing"
    BY <1>3 DEF ShutDown
  <2>2. /\ UNCHANGED <<serviceVars, stateVars, requestVars, starter, generator, aborter>>
        /\ UNCHANGED <<started, engine, exited, closing>>
        /\ starter = "returned" /\ closer = "none" /\ closer' = "created"
    BY <2>1 DEF Close, stateVars, serviceVars
  <2>3. ClientNext
    BY <2>1 DEF ClientNext, UserStep
  <2>4. ServeOK'
    BY <1>1, <2>1, <2>2 DEF ServeOK
  <2>5. cancelled' \subseteq Ids
    BY <2>1 DEF Active
  <2> QED BY <2>1, <2>2, <2>3, <2>4, <2>5, ServeMoves
<1>4. WatchEngine => StopSignal
  BY DEF WatchEngine
<1> QED
  BY <1>2, <1>3, <1>4

-----------------------------------------------------------------------------

LEMMA HandlerGoesOnStep ==
    ASSUME ServerInv, NEW id \in Ids, HandlerGoesOn(id) PROVE ServerInv'
<1>1. Digest(id) /\ UNCHANGED <<streaming, cancelled, serve>>
  BY DEF HandlerGoesOn
<1>2. CASE handler[id] \in {"streaming", "collecting"} /\ GenerateSent(id)
  BY <1>1, <1>2, SendingStep
<1>3. CASE handler[id] = "streaming" /\ GenerateGets(id)
  BY <1>1, <1>3, StreamGetsStep
<1>4. CASE handler[id] = "collecting" /\ CollectNext(id)
  BY <1>1, <1>4, CollectStep
<1> QED
  BY <1>2, <1>3, <1>4 DEF HandlerGoesOn

LEMMA HandlersStep ==
    ASSUME ServerInv, NEW id \in Ids,
           \/ HandlerStep(id)
           \/ Complete(id) \/ StreamOpened(id) \/ FrameSent(id) \/ DecodeFails(id) \/ Disconnect(id)
    PROVE  ServerInv'
<1>1. CASE HandlerStep(id)
  <2>1. CancelArrives(id) \/ HandlerGoesOn(id) \/ CleanedUp(id)
    BY <1>1 DEF HandlerStep
  <2> QED BY <2>1, CancelStep, HandlerGoesOnStep, CleanedStep
<1>2. CASE Disconnect(id)
  BY <1>2, LeaveStep DEF Disconnect
<1> QED
  BY <1>1, <1>2, CompleteStep, OpenedStep, SentStep, DecodeFailsStep

LEMMA ServerStarts == ServerInit => ServerInv
<1> SUFFICES ASSUME ServerInit PROVE ServerInv
  OBVIOUS
<1>1. /\ ClientInit /\ handler = [id \in Ids |-> "new"] /\ streaming = {}
      /\ frames = [id \in Ids |-> <<>>] /\ cancelled = {} /\ serve = "starting"
  BY DEF ServerInit
<1>2. ClientInv
  BY <1>1, ClientStarts
<1>3. ServerTypeOK
  BY <1>1, NothingSent DEF ServerTypeOK, HandlerStates
<1>4. ServeOK
  BY <1>1 DEF ServeOK, ClientInit
<1>5. ASSUME NEW id \in Ids PROVE ServerWanted(id) /\ HandlerOK(id) /\ FramesOK(id)
  <2>1. /\ handler[id] = "new" /\ id \notin streaming /\ frames[id] = <<>>
        /\ generator[id] = "new" /\ queue[id] = <<>> /\ aborter[id] = "new"
    BY <1>1 DEF ClientInit
  <2>2. HandlerOK(id)
    BY <2>1 DEF HandlerOK
  <2>3. FramesOK(id)
    BY <2>1, NothingSent DEF FramesOK
  <2>4. ServerWanted(id)
    BY <1>2 DEF ServerWanted, ClientInv
  <2> QED BY <2>2, <2>3, <2>4
<1> QED
  BY <1>2, <1>3, <1>4, <1>5 DEF ServerInv, ClientInv

LEMMA ServerInvStep ==
    ASSUME ServerInv, [ServerNext]_systemVars PROVE ServerInv'
<1>1. CASE ServerStep
  BY <1>1, ClientSide, HandlersStep, ServeSteps DEF ServerStep, ClientStep
<1>2. CASE OutsideStep
  BY <1>2, ClientSide, HandlersStep, ServeSteps DEF OutsideStep
<1> QED
  BY <1>1, <1>2, ServeSteps DEF ServerNext

\* The invariant of the server, its client and their engine holds in every state:
\* a handler and its generate() go together, and so do the frames sent and the
\* outputs consumed (server.py:76-83, :105-235).
THEOREM ServerInvariant == ServerSpec => []ServerInv
BY ServerStarts, ServerInvStep, PTL DEF ServerSpec

\* A stream carries one frame per output, the last with the reason of the finish,
\* or stops with an error, and then [DONE]; a response whose end is marked has
\* everything the engine answered; and an error is reported only when the engine
\* is dead or the server ends (test_server.py:278-297).
THEOREM ResponsesAreFaithful == ServerSpec => []ResponseFaithful
<1>1. ServerInv => ResponseFaithful
  <2> SUFFICES ASSUME ServerInv, NEW id \in Ids
               PROVE  /\ id \in streaming => IsResponse(frames[id])
                      /\ Contains(frames[id], "final") \/ Contains(frames[id], "completion") =>
                            id \in final /\ consumed[id] = answered[id]
                      /\ Contains(frames[id], "error") => error \/ closing \/ engine = "stopped"
    BY DEF ResponseFaithful
  <2>1. frames[id] \in Seq(Frames) /\ FramesOK(id) /\ CountOK(id)
    BY DEF ServerInv, ServerTypeOK, ClientCore, PerRequest
  <2>2. id \in streaming => IsResponse(frames[id])
    BY <2>1, ResponseBegun DEF FramesOK
  <2> QED BY <2>1, <2>2 DEF FramesOK, CountOK
<1> QED
  BY <1>1, ServerInvariant, PTL

\* However a handler ends, its generate() has ended too, the request is no longer
\* registered, and the engine does not go on with it: its ABORT is on the way,
\* or, when a second cancellation broke through the shield, the engine is about
\* to be closed (server.py:76-83, :174-178, engine.py:195-198,
\* test_server.py:300-357).  And the engine process does not outlive serve().
THEOREM NothingIsLeftBehind == ServerSpec => []NothingLeftBehind
<1>1. ServerInv => NothingLeftBehind
  <2> SUFFICES ASSUME ServerInv PROVE NothingLeftBehind
    OBVIOUS
  <2>1. ServeOK /\ LifeOK /\ EngineOK /\ inbox \in Seq(Inputs) /\ sends \in Seq(Inputs)
    BY DEF ServerInv, ClientCore, ClientTypeOK, ServiceTypeOK
  <2>2. serve = "ended" => engine = "stopped" \/ started = "no"
    BY <2>1 DEF ServeOK
  <2>3. ASSUME NEW id \in Ids, handler[id] = "ended"
        PROVE  generator[id] \in GeneratorEnds \cup {"new"} /\ id \notin requests
    BY <2>3 DEF ServerInv, HandlerOK, ClientCore, PerRequest, WaitOK, FreshOK, GeneratorEnds
  <2>4. ASSUME NEW id \in Ids, handler[id] = "ended", id \in working
        PROVE  Waiting(Abort(id)) \/ Contains(inbox, Abort(id)) \/ error \/ serve = "closing"
    <3>1. FreshOK(id) /\ ServerWanted(id)
      BY DEF ServerInv, ClientCore, PerRequest
    <3>2. engine # "stopped" /\ starter = "returned" /\ started = "yes"
      BY <2>1, <2>4, <3>1 DEF EngineOK, LifeOK, FreshOK
    <3>3. closing \/ closer = "created" => serve = "closing"
      BY <2>1, <3>2 DEF ServeOK
    <3>4. Contains(Pipe, Abort(id)) \/ error \/ closing \/ closer = "created"
      BY <2>3, <2>4, <3>1, <3>2 DEF ServerWanted, WantedOK, AtEngine
    <3>5. Contains(Pipe, Abort(id)) => Waiting(Abort(id)) \/ Contains(inbox, Abort(id))
      BY <2>1, InPipe
    <3> QED BY <3>3, <3>4, <3>5
  <2> QED BY <2>2, <2>3, <2>4 DEF NothingLeftBehind
<1> QED
  BY <1>1, ServerInvariant, PTL

-----------------------------------------------------------------------------
(* The detokenizer.  A character may be split between two pushes, and the   *)
(* text of a token depends on what precedes it.  What carries the proof is  *)
(* that two texts are continued alike when as many bytes are open at their  *)
(* end and neither or both are empty: the tokens that push decodes then get *)
(* the pieces that a single decode of everything would.                     *)

Units == {Word, Space, Character, Replacement}

Scans == [text : Seq(Units), open : 0 .. 2]

NothingRead == [text |-> <<>>, open |-> 0]

LEMMA ClosedText ==
    ASSUME NEW d \in Scans
    PROVE  /\ Closed(d) \in Seq(Units)
           /\ d.open = 0 => Closed(d) = d.text
           /\ d.open # 0 => Closed(d) = d.text \o <<Replacement>>
<1>1. d.text \in Seq(Units) /\ Replacement \in Units
  BY DEF Scans, Units
<1>2. Append(d.text, Replacement) = d.text \o <<Replacement>>
  BY <1>1, AppendIsConcat
<1> QED BY <1>1, <1>2 DEF Closed

LEMMA DecodeTokenCases ==
    ASSUME NEW d
    PROVE  /\ DecodeToken(d, Special) = d
           /\ DecodeToken(d, Lead) = [text |-> Closed(d), open |-> 1]
           /\ d.open = 0 => DecodeToken(d, Rest) = [d EXCEPT !.text = Append(@, Replacement)]
           /\ d.open = 1 => DecodeToken(d, Rest) = [d EXCEPT !.open = 2]
           /\ d.open = 2 => DecodeToken(d, Rest) = [text |-> Append(d.text, Character), open |-> 0]
           /\ DecodeToken(d, Word) =
                 [text |-> Closed(d) \o (IF Closed(d) = <<>> THEN <<Word>> ELSE <<Space, Word>>),
                  open |-> 0]
BY DEF DecodeToken, Special, Lead, Rest, Word

LEMMA DecodeTokenType ==
    ASSUME NEW d \in Scans, NEW token \in Tokens PROVE DecodeToken(d, token) \in Scans
<1>1. /\ Closed(d) \in Seq(Units) /\ d.text \in Seq(Units) /\ d.open \in 0 .. 2
      /\ {Word, Space, Character, Replacement} \subseteq Units
  BY ClosedText DEF Scans, Units
<1>2. d = [text |-> d.text, open |-> d.open]
  BY DEF Scans
<1>3. CASE token = Special
  BY <1>3, DecodeTokenCases
<1>4. CASE token = Lead
  BY <1>1, <1>4, DecodeTokenCases DEF Scans
<1>5. CASE token = Rest
  <2>1. CASE d.open = 0
    <3>1. DecodeToken(d, token) = [text |-> Append(d.text, Replacement), open |-> 0]
      BY <1>2, <1>5, <2>1, DecodeTokenCases
    <3> QED BY <1>1, <3>1 DEF Scans
  <2>2. CASE d.open = 1
    <3>1. DecodeToken(d, token) = [d EXCEPT !.open = 2]
      BY <1>5, <2>2, DecodeTokenCases
    <3> QED BY <3>1 DEF Scans
  <2>3. CASE d.open = 2
    <3>1. DecodeToken(d, token) = [text |-> Append(d.text, Character), open |-> 0]
      BY <1>5, <2>3, DecodeTokenCases
    <3> QED BY <1>1, <3>1 DEF Scans
  <2> QED BY <1>1, <2>1, <2>2, <2>3
<1>6. CASE token = Word
  <2> DEFINE e == IF Closed(d) = <<>> THEN <<Word>> ELSE <<Space, Word>>
  <2>1. DecodeToken(d, token) = [text |-> Closed(d) \o e, open |-> 0]
    BY <1>6, DecodeTokenCases
  <2>2. e \in Seq(Units)
    BY <1>1
  <2> HIDE DEF e
  <2>3. Closed(d) \o e \in Seq(Units)
    BY <1>1, <2>2, ConcatProperties
  <2> QED BY <2>1, <2>3 DEF Scans
<1> QED BY <1>3, <1>4, <1>5, <1>6 DEF Tokens

\* Scan as the function it is made of.
LEMMA ScanSteps ==
    ASSUME NEW tokens \in Seq(Tokens)
    PROVE  \E f \in [0 .. Len(tokens) -> Scans] :
              /\ Scan(tokens) = f[Len(tokens)]
              /\ f[0] = NothingRead
              /\ \A i \in 1 .. Len(tokens) : f[i] = DecodeToken(f[i - 1], tokens[i])
<1> DEFINE n == Len(tokens)
           h == [i \in 1 .. n |-> [d \in Scans |-> DecodeToken(d, tokens[i])]]
           Solves(f) == f = [i \in 0 .. n |->
                                IF i = 0 THEN NothingRead ELSE DecodeToken(f[i - 1], tokens[i])]
<1>1. n \in Nat /\ \A i \in 1 .. n : tokens[i] \in Tokens
  OBVIOUS
<1>2. NothingRead \in Scans
  BY DEF NothingRead, Scans
<1>3. h \in [1 .. n -> [Scans -> Scans]]
  BY <1>1, DecodeTokenType
<1>4. PICK g \in [0 .. n -> Scans] :
          \A i \in 0 .. n : g[i] = IF i = 0 THEN NothingRead ELSE h[i][g[i - 1]]
  <2> HIDE DEF h, n
  <2>1. \E g \in [0 .. n -> Scans] : Recursion(g, n, NothingRead, h)
    BY <1>1, <1>2, <1>3, RecursionUpTo
  <2> QED BY <2>1 DEF Recursion
<1>5. \A i \in 0 .. n : g[i] = IF i = 0 THEN NothingRead ELSE DecodeToken(g[i - 1], tokens[i])
  <2> SUFFICES ASSUME NEW i \in 0 .. n, i # 0 PROVE g[i] = DecodeToken(g[i - 1], tokens[i])
    BY <1>4
  <2>1. i \in 1 .. n /\ i - 1 \in 0 .. n
    BY <1>1
  <2>2. g[i - 1] \in Scans
    BY <1>4, <2>1
  <2> QED BY <1>4, <2>1, <2>2
<1>6. Solves(g)
  <2>1. g = [i \in 0 .. n |-> g[i]]
    BY <1>4
  <2> QED BY <1>5, <2>1, Zenon
<1> DEFINE f == CHOOSE f : Solves(f)
<1>7. Scan(tokens) = f[n]
  BY Zenon DEF Scan, NothingRead
<1>8. Solves(f)
  <2> HIDE DEF Solves
  <2> QED BY <1>6
<1> HIDE DEF f, h
<1>9. f[0] = NothingRead /\ \A i \in 1 .. n : f[i] = DecodeToken(f[i - 1], tokens[i])
  <2>1. \A i \in 0 .. n : f[i] = IF i = 0 THEN NothingRead ELSE DecodeToken(f[i - 1], tokens[i])
    BY <1>8
  <2> QED BY <1>1, <2>1
<1>10. DOMAIN f = 0 .. n /\ f = [i \in 0 .. n |-> f[i]]
  BY <1>8
<1> HIDE DEF Solves, n
<1>11. \A i \in 0 .. n : f[i] \in Scans
  <2> DEFINE T == {i \in 0 .. n : f[i] \in Scans}
  <2>1. 0 \in T
    BY <1>1, <1>2, <1>9
  <2>2. ASSUME NEW i \in 0 .. (n - 1), i \in T PROVE i + 1 \in T
    <3>1. i + 1 \in 1 .. n /\ (i + 1) - 1 = i /\ f[i] \in Scans
      BY <1>1, <2>2
    <3>2. f[i + 1] = DecodeToken(f[i], tokens[i + 1]) /\ tokens[i + 1] \in Tokens
      BY <1>1, <1>9, <3>1
    <3> QED BY <3>1, <3>2, DecodeTokenType
  <2> HIDE DEF T
  <2>3. \A i \in 0 .. n : i \in T
    BY <1>1, <2>1, <2>2, InductionUpTo
  <2> QED BY <2>3 DEF T
<1>12. f \in [0 .. n -> Scans]
  BY <1>10, <1>11
<1> QED BY <1>7, <1>9, <1>12 DEF n

\* A text is read from left to right.
LEMMA ScanAppend ==
    /\ Scan(<<>>) = NothingRead
    /\ \A s \in Seq(Tokens) : Scan(s) \in Scans
    /\ \A s \in Seq(Tokens), token \in Tokens :
          Scan(Append(s, token)) = DecodeToken(Scan(s), token)
<1>1. Scan(<<>>) = NothingRead
  <2>1. <<>> \in Seq(Tokens) /\ Len(<<>>) = 0
    OBVIOUS
  <2> QED BY <2>1, ScanSteps
<1>2. ASSUME NEW s \in Seq(Tokens) PROVE Scan(s) \in Scans
  <2>1. Len(s) \in Nat
    OBVIOUS
  <2> QED BY <2>1, ScanSteps
<1>3. ASSUME NEW s \in Seq(Tokens), NEW token \in Tokens
      PROVE  Scan(Append(s, token)) = DecodeToken(Scan(s), token)
  <2> DEFINE n == Len(s)
             t == Append(s, token)
  <2>1. n \in Nat /\ t \in Seq(Tokens) /\ Len(t) = n + 1 /\ t[n + 1] = token
        /\ \A i \in 1 .. n : t[i] = s[i]
    BY AppendProperties
  <2>2. PICK f \in [0 .. n -> Scans] :
            /\ Scan(s) = f[n] /\ f[0] = NothingRead
            /\ \A i \in 1 .. n : f[i] = DecodeToken(f[i - 1], s[i])
    BY ScanSteps
  <2> HIDE DEF n, t
  <2>3. PICK g \in [0 .. n + 1 -> Scans] :
            /\ Scan(t) = g[n + 1] /\ g[0] = NothingRead
            /\ \A i \in 1 .. n + 1 : g[i] = DecodeToken(g[i - 1], t[i])
    <3>1. \E g \in [0 .. Len(t) -> Scans] :
            /\ Scan(t) = g[Len(t)] /\ g[0] = NothingRead
            /\ \A i \in 1 .. Len(t) : g[i] = DecodeToken(g[i - 1], t[i])
      BY <2>1, ScanSteps
    <3>2. Len(t) = n + 1
      BY <2>1
    <3> QED BY <3>1, <3>2, Zenon
  <2> DEFINE T == {i \in 0 .. n : f[i] = g[i]}
  <2>4. 0 \in T
    BY <2>1, <2>2, <2>3
  <2>5. ASSUME NEW i \in 0 .. (n - 1), i \in T PROVE i + 1 \in T
    <3>1. i + 1 \in 1 .. n /\ i + 1 \in 1 .. n + 1 /\ (i + 1) - 1 = i /\ f[i] = g[i]
      BY <2>1, <2>5
    <3>2. f[i + 1] = DecodeToken(f[i], s[i + 1]) /\ g[i + 1] = DecodeToken(g[i], t[i + 1])
      BY <2>2, <2>3, <3>1
    <3> QED BY <2>1, <3>1, <3>2
  <2>6. n \in T
    <3> HIDE DEF T
    <3>1. \A i \in 0 .. n : i \in T
      BY <2>1, <2>4, <2>5, InductionUpTo
    <3> QED BY <2>1, <3>1
  <2>7. n + 1 \in 1 .. n + 1 /\ (n + 1) - 1 = n
    BY <2>1
  <2>8. g[n + 1] = DecodeToken(g[n], t[n + 1])
    BY <2>3, <2>7
  <2> QED BY <2>1, <2>2, <2>3, <2>6, <2>8 DEF t
<1> QED BY <1>1, <1>2, <1>3

\* What is decoded alike from two places: the bytes of an open character and
\* whether a text has begun are all that what follows depends on.
Alike(a, b) == a.open = b.open /\ (Closed(a) = <<>> <=> Closed(b) = <<>>)

Closing(open) == IF open = 0 THEN <<>> ELSE <<Replacement>>

LEMMA ClosingText ==
    ASSUME NEW d \in Scans
    PROVE  /\ d.text \in Seq(Units) /\ Closing(d.open) \in Seq(Units)
           /\ Closed(d) = d.text \o Closing(d.open) /\ Closed(d) \in Seq(Units)
           /\ Len(Closing(d.open)) = IF d.open = 0 THEN 0 ELSE 1
           /\ Len(Closed(d)) = Len(d.text) + (IF d.open = 0 THEN 0 ELSE 1)
<1>1. d.text \in Seq(Units) /\ d.open \in 0 .. 2 /\ Replacement \in Units
  BY DEF Scans, Units
<1>2. CASE d.open = 0
  <2>1. Closing(d.open) = <<>> /\ Closed(d) = d.text
    BY <1>2, ClosedText DEF Closing
  <2>2. d.text \o <<>> = d.text /\ <<>> \in Seq(Units) /\ Len(<<>>) = 0
    BY <1>1, ConcatEmptySeq
  <2>3. Len(d.text) + 0 = Len(d.text)
    BY <1>1
  <2> QED BY <1>1, <1>2, <2>1, <2>2, <2>3
<1>3. CASE d.open # 0
  <2>1. Closing(d.open) = <<Replacement>> /\ Closed(d) = d.text \o <<Replacement>>
    BY <1>3, ClosedText DEF Closing
  <2>2. <<Replacement>> \in Seq(Units) /\ Len(<<Replacement>>) = 1
    BY <1>1
  <2> QED BY <1>1, <1>3, <2>1, <2>2
<1> QED BY <1>2, <1>3

LEMMA AlikeToken ==
    ASSUME NEW a \in Scans, NEW b \in Scans, Alike(a, b), NEW token \in Tokens
    PROVE  \E e \in Seq(Units) :
              /\ DecodeToken(a, token).text = a.text \o e
              /\ DecodeToken(b, token).text = b.text \o e
              /\ Alike(DecodeToken(a, token), DecodeToken(b, token))
<1> DEFINE a2 == DecodeToken(a, token)
           b2 == DecodeToken(b, token)
           c == Closing(a.open)
<1>1. /\ a2 \in Scans /\ b2 \in Scans /\ c \in Seq(Units)
      /\ a.text \in Seq(Units) /\ b.text \in Seq(Units)
      /\ Closed(a) = a.text \o c /\ Closed(b) = b.text \o c
  BY DecodeTokenType, ClosingText DEF Alike
<1>2. {Word, Space, Character, Replacement} \subseteq Units /\ a.open \in 0 .. 2
  BY DEF Units, Scans
<1> HIDE DEF c, a2, b2
<1> SUFFICES \E e \in Seq(Units) :
                 a2.text = a.text \o e /\ b2.text = b.text \o e /\ Alike(a2, b2)
  BY Zenon DEF a2, b2
<1>3. ASSUME NEW e \in Seq(Units), a2.text = a.text \o e, b2.text = b.text \o e,
             a2.open = b2.open, a2.open # 0 \/ e # <<>>
      PROVE  \E f \in Seq(Units) :
                 a2.text = a.text \o f /\ b2.text = b.text \o f /\ Alike(a2, b2)
  <2>1. /\ Len(Closed(a2)) = Len(a2.text) + (IF a2.open = 0 THEN 0 ELSE 1)
        /\ Len(Closed(b2)) = Len(b2.text) + (IF b2.open = 0 THEN 0 ELSE 1)
    BY <1>1, ClosingText
  <2>2. Len(a2.text) = Len(a.text) + Len(e) /\ Len(b2.text) = Len(b.text) + Len(e)
        /\ Len(a.text) \in Nat /\ Len(b.text) \in Nat /\ Len(e) \in Nat
    BY <1>1, <1>3
  <2>3. e # <<>> => Len(e) > 0
    BY <1>3, EmptySeq
  <2>4. Len(Closed(a2)) > 0 /\ Len(Closed(b2)) > 0
    <3>1. CASE a2.open = 0
      BY <1>3, <2>1, <2>2, <2>3, <3>1
    <3>2. CASE a2.open # 0
      BY <1>3, <2>1, <2>2, <3>2
    <3> QED BY <3>1, <3>2
  <2>5. Closed(a2) # <<>> /\ Closed(b2) # <<>>
    BY <2>4
  <2> QED BY <1>3, <2>5 DEF Alike
<1>4. CASE token = Special
  <2>1. a2 = a /\ b2 = b
    BY <1>4, DecodeTokenCases DEF a2, b2
  <2>2. a.text = a.text \o <<>> /\ b.text = b.text \o <<>> /\ <<>> \in Seq(Units)
    BY <1>1
  <2>3. Alike(a2, b2)
    BY <2>1 DEF Alike
  <2> QED BY <2>1, <2>2, <2>3
<1>5. CASE token = Lead
  <2>1. a2 = [text |-> Closed(a), open |-> 1] /\ b2 = [text |-> Closed(b), open |-> 1]
    BY <1>5, DecodeTokenCases DEF a2, b2
  <2>2. a2.text = a.text \o c /\ b2.text = b.text \o c 
        /\ a2.open = b2.open /\ a2.open # 0
    BY <1>1, <2>1
  <2> QED BY <1>1, <1>3, <2>2, Zenon
<1>6. CASE token = Rest /\ a.open = 0
  <2>1. a2.text = Append(a.text, Replacement) /\ b2.text = Append(b.text, Replacement)
        /\ a2.open = 0 /\ b2.open = 0
    BY <1>6, DecodeTokenCases DEF a2, b2, Alike, Scans
  <2>2. a2.text = a.text \o <<Replacement>> /\ b2.text = b.text \o <<Replacement>>
        /\ <<Replacement>> \in Seq(Units) /\ <<Replacement>> # <<>>
    BY <1>1, <1>2, <2>1, AppendIsConcat
  <2> QED BY <1>3, <2>1, <2>2
<1>7. CASE token = Rest /\ a.open = 1
  <2>1. a2 = [a EXCEPT !.open = 2] /\ b2 = [b EXCEPT !.open = 2]
    BY <1>7, DecodeTokenCases DEF a2, b2, Alike
  <2>2. a2.text = a.text \o <<>> /\ b2.text = b.text \o <<>> 
        /\ a2.open = b2.open /\ a2.open # 0 /\ <<>> \in Seq(Units)
    BY <1>1, <2>1 DEF Scans
  <2> QED BY <1>3, <2>2, Zenon
<1>8. CASE token = Rest /\ a.open = 2
  <2>1. a2.text = Append(a.text, Character) /\ b2.text = Append(b.text, Character)
        /\ a2.open = 0 /\ b2.open = 0
    <3>1. a2 = [text |-> Append(a.text, Character), open |-> 0]
          /\ b2 = [text |-> Append(b.text, Character), open |-> 0]
      BY <1>8, DecodeTokenCases DEF a2, b2, Alike
    <3> QED BY <3>1
  <2>2. a2.text = a.text \o <<Character>> /\ b2.text = b.text \o <<Character>>
        /\ <<Character>> \in Seq(Units) /\ <<Character>> # <<>>
    BY <1>1, <1>2, <2>1, AppendIsConcat
  <2> QED BY <1>3, <2>1, <2>2
<1>9. CASE token = Word
  <2> DEFINE w == IF Closed(a) = <<>> THEN <<Word>> ELSE <<Space, Word>>
             e == c \o w
  <2>1. a2 = [text |-> Closed(a) \o w, open |-> 0] /\ b2 = [text |-> Closed(b) \o w, open |-> 0]
    BY <1>9, DecodeTokenCases DEF a2, b2, Alike
  <2>2. w \in Seq(Units) /\ w # <<>>
    BY <1>2
  <2> HIDE DEF w
  <2>3. e \in Seq(Units) /\ e # <<>>
    BY <1>1, <2>2
  <2>4. a2.text = a.text \o e /\ b2.text = b.text \o e /\ a2.open = 0 /\ b2.open = 0
    <3>1. \A t \in Seq(Units) : (t \o c) \o w = t \o (c \o w)
      <4> SUFFICES ASSUME NEW t \in Seq(Units) PROVE (t \o c) \o w = t \o (c \o w)
        OBVIOUS
      <4> QED BY <1>1, <2>2, ConcatAssociative
    <3> QED BY <1>1, <2>1, <3>1
  <2> HIDE DEF e
  <2> QED BY <1>3, <2>3, <2>4
<1>10. a.open = 0 \/ a.open = 1 \/ a.open = 2
  BY <1>2
<1>11. token = Word \/ token = Lead \/ token = Rest \/ token = Special
  BY DEF Tokens
<1> QED BY <1>4, <1>5, <1>6, <1>7, <1>8, <1>9, <1>10, <1>11, Zenon

\* A sequence that is joined to another one element at a time.
LEMMA JoinedSoFar ==
    ASSUME NEW S, NEW x \in Seq(S), NEW u \in Seq(S)
    PROVE  /\ x \o SubSeq(u, 1, 0) = x
           /\ x \o SubSeq(u, 1, Len(u)) = x \o u
           /\ \A i \in 0 .. Len(u) : SubSeq(u, 1, i) \in Seq(S) /\ x \o SubSeq(u, 1, i) \in Seq(S)
           /\ \A i \in 0 .. Len(u) - 1 :
                 /\ u[i + 1] \in S
                 /\ x \o SubSeq(u, 1, i + 1) = Append(x \o SubSeq(u, 1, i), u[i + 1])
<1>1. SubSeq(u, 1, 0) = <<>> /\ SubSeq(u, 1, Len(u)) = u
  BY SubSeqEmpty, SubSeqFull
<1>2. x \o <<>> = x
  BY ConcatEmptySeq
<1>3. ASSUME NEW i \in 0 .. Len(u) PROVE SubSeq(u, 1, i) \in Seq(S)
  BY SubSeqProperties
<1>4. ASSUME NEW i \in 0 .. Len(u) - 1
      PROVE  /\ u[i + 1] \in S
             /\ x \o SubSeq(u, 1, i + 1) = Append(x \o SubSeq(u, 1, i), u[i + 1])
  <2> DEFINE t == SubSeq(u, 1, i)
             v == u[i + 1]
  <2>1. i + 1 \in 1 .. Len(u) /\ i \in 0 .. Len(u) /\ (i + 1) - 1 = i
    OBVIOUS
  <2>2. v \in S /\ t \in Seq(S)
    BY <1>3, <2>1
  <2>3. SubSeq(u, 1, i + 1) = t \o <<v>>
    <3>1. 1 \in 1 .. Len(u) /\ i + 1 \in 1 .. Len(u)
      BY <2>1
    <3>2. SubSeq(u, 1, i + 1) = SubSeq(u, 1, (i + 1) - 1) \o <<u[i + 1]>>
      BY <3>1, SubSeqRecursiveSecond
    <3> QED BY <2>1, <3>2
  <2> HIDE DEF t, v
  <2>4. x \o (t \o <<v>>) = (x \o t) \o <<v>>
    <3>1. <<v>> \in Seq(S)
      BY <2>2
    <3> QED BY <2>2, <3>1, ConcatAssociative
  <2>5. x \o t \in Seq(S)
    BY <2>2, ConcatProperties
  <2>6. Append(x \o t, v) = (x \o t) \o <<v>>
    BY <2>2, <2>5, AppendIsConcat
  <2> QED BY <2>2, <2>3, <2>4, <2>6 DEF t, v
<1>5. \A i \in 0 .. Len(u) : x \o SubSeq(u, 1, i) \in Seq(S)
  BY <1>3, ConcatProperties
<1> QED BY <1>1, <1>2, <1>3, <1>4, <1>5

LEMMA ScanSoFar ==
    ASSUME NEW x \in Seq(Tokens), NEW u \in Seq(Tokens)
    PROVE  /\ Scan(x \o SubSeq(u, 1, 0)) = Scan(x)
           /\ Scan(x \o SubSeq(u, 1, Len(u))) = Scan(x \o u)
           /\ \A i \in 0 .. Len(u) : Scan(x \o SubSeq(u, 1, i)) \in Scans
           /\ \A i \in 0 .. Len(u) - 1 :
                 /\ u[i + 1] \in Tokens
                 /\ Scan(x \o SubSeq(u, 1, i + 1))
                      = DecodeToken(Scan(x \o SubSeq(u, 1, i)), u[i + 1])
<1>1. /\ x \o SubSeq(u, 1, 0) = x
      /\ x \o SubSeq(u, 1, Len(u)) = x \o u
      /\ \A i \in 0 .. Len(u) : x \o SubSeq(u, 1, i) \in Seq(Tokens)
      /\ \A i \in 0 .. Len(u) - 1 :
            /\ u[i + 1] \in Tokens
            /\ x \o SubSeq(u, 1, i + 1) = Append(x \o SubSeq(u, 1, i), u[i + 1])
  BY JoinedSoFar
<1>2. ASSUME NEW i \in 0 .. Len(u) - 1
      PROVE  /\ u[i + 1] \in Tokens
             /\ Scan(x \o SubSeq(u, 1, i + 1))
                  = DecodeToken(Scan(x \o SubSeq(u, 1, i)), u[i + 1])
  <2>1. i \in 0 .. Len(u)
    OBVIOUS
  <2>2. /\ x \o SubSeq(u, 1, i) \in Seq(Tokens) /\ u[i + 1] \in Tokens
        /\ x \o SubSeq(u, 1, i + 1) = Append(x \o SubSeq(u, 1, i), u[i + 1])
    BY <1>1, <2>1
  <2> QED BY <2>2, ScanAppend
<1> QED BY <1>1, <1>2, ScanAppend

LEMMA AlikeTokens ==
    ASSUME NEW x \in Seq(Tokens), NEW y \in Seq(Tokens), Alike(Scan(x), Scan(y)),
           NEW u \in Seq(Tokens)
    PROVE  \E e \in Seq(Units) :
              /\ Scan(x \o u).text = Scan(x).text \o e
              /\ Scan(y \o u).text = Scan(y).text \o e
              /\ Alike(Scan(x \o u), Scan(y \o u))
<1> DEFINE n == Len(u)
           X(i) == Scan(x \o SubSeq(u, 1, i))
           Y(i) == Scan(y \o SubSeq(u, 1, i))
           T == {i \in 0 .. n : \E e \in Seq(Units) :
                    /\ X(i).text = Scan(x).text \o e
                    /\ Y(i).text = Scan(y).text \o e
                    /\ Alike(X(i), Y(i))}
<1>1. n \in Nat /\ <<>> \in Seq(Units) /\ Scan(x) \in Scans /\ Scan(y) \in Scans
  BY ScanAppend
<1>2. /\ X(0) = Scan(x) /\ Y(0) = Scan(y) /\ X(n) = Scan(x \o u) /\ Y(n) = Scan(y \o u)
  BY ScanSoFar
<1>3. \A i \in 0 .. n : X(i) \in Scans /\ Y(i) \in Scans
  BY ScanSoFar
<1>4. \A i \in 0 .. n - 1 : /\ u[i + 1] \in Tokens
                            /\ X(i + 1) = DecodeToken(X(i), u[i + 1])
                            /\ Y(i + 1) = DecodeToken(Y(i), u[i + 1])
  BY ScanSoFar
<1> HIDE DEF X, Y, n
<1>5. 0 \in T
  <2>1. Scan(x).text \in Seq(Units) /\ Scan(y).text \in Seq(Units)
    BY <1>1 DEF Scans
  <2>2. Scan(x).text \o <<>> = Scan(x).text /\ Scan(y).text \o <<>> = Scan(y).text
    BY <2>1, ConcatEmptySeq
  <2>3. \E e \in Seq(Units) : /\ X(0).text = Scan(x).text \o e
                              /\ Y(0).text = Scan(y).text \o e
                              /\ Alike(X(0), Y(0))
    BY <1>1, <1>2, <2>2, Zenon
  <2>4. 0 \in 0 .. n
    BY <1>1
  <2> QED BY <2>3, <2>4, Zenon
<1>6. ASSUME NEW i \in 0 .. (n - 1), i \in T PROVE i + 1 \in T
  <2>1. PICK e \in Seq(Units) : /\ X(i).text = Scan(x).text \o e
                                /\ Y(i).text = Scan(y).text \o e
                                /\ Alike(X(i), Y(i))
    BY <1>6
  <2>2. i \in 0 .. n /\ i + 1 \in 0 .. n
    BY <1>1
  <2>3. PICK f \in Seq(Units) : /\ X(i + 1).text = X(i).text \o f
                                /\ Y(i + 1).text = Y(i).text \o f
                                /\ Alike(X(i + 1), Y(i + 1))
    <3>1. X(i) \in Scans /\ Y(i) \in Scans /\ u[i + 1] \in Tokens
      BY <1>3, <1>4, <2>2, Zenon
    <3>2. \E f \in Seq(Units) : /\ DecodeToken(X(i), u[i + 1]).text = X(i).text \o f
                                /\ DecodeToken(Y(i), u[i + 1]).text = Y(i).text \o f
                                /\ Alike(DecodeToken(X(i), u[i + 1]), DecodeToken(Y(i), u[i + 1]))
      BY <2>1, <3>1, AlikeToken
    <3> QED BY <1>4, <3>2, Zenon
  <2>4. e \o f \in Seq(Units)
    BY ConcatProperties
  <2>5. \A t \in Seq(Units) : (t \o e) \o f = t \o (e \o f)
    <3> SUFFICES ASSUME NEW t \in Seq(Units) PROVE (t \o e) \o f = t \o (e \o f)
      OBVIOUS
    <3> QED BY ConcatAssociative
  <2>6. Scan(x).text \in Seq(Units) /\ Scan(y).text \in Seq(Units)
    BY <1>1 DEF Scans
  <2>7. X(i + 1).text = Scan(x).text \o (e \o f) /\ Y(i + 1).text = Scan(y).text \o (e \o f)
    BY <2>1, <2>3, <2>5, <2>6, Zenon
  <2> QED BY <2>2, <2>3, <2>4, <2>7
<1> HIDE DEF T
<1>7. n \in T
  <2>1. \A i \in 0 .. n : i \in T
    BY <1>1, <1>5, <1>6, InductionUpTo
  <2> QED BY <1>1, <2>1
<1> QED BY <1>2, <1>7, Zenon DEF T

\* What more tokens add to a text: the same behind places that are alike.
LEMMA AlikeTexts ==
    ASSUME NEW x \in Seq(Tokens), NEW y \in Seq(Tokens), Alike(Scan(x), Scan(y)),
           NEW u \in Seq(Tokens)
    PROVE  /\ Len(Decode(x \o u)) - Len(Decode(x)) = Len(Decode(y \o u)) - Len(Decode(y))
           /\ \A i \in Nat \ {0} :
                 Len(Decode(x)) + i <= Len(Decode(x \o u)) =>
                    Decode(x \o u)[Len(Decode(x)) + i] = Decode(y \o u)[Len(Decode(y)) + i]
<1> DEFINE a == Scan(x)
           b == Scan(y)
           a2 == Scan(x \o u)
           b2 == Scan(y \o u)
           p == Len(a.text)
           q == Len(b.text)
           r == IF a.open = 0 THEN 0 ELSE 1
<1>1. PICK e \in Seq(Units) : a2.text = a.text \o e /\ b2.text = b.text \o e /\ Alike(a2, b2)
  <2>1. \E e \in Seq(Units) : /\ Scan(x \o u).text = Scan(x).text \o e
                              /\ Scan(y \o u).text = Scan(y).text \o e
                              /\ Alike(Scan(x \o u), Scan(y \o u))
    BY AlikeTokens, ZenonT(30)
  <2> QED BY <2>1, Zenon
<1>2. a \in Scans /\ b \in Scans /\ a2 \in Scans /\ b2 \in Scans
  <2>1. x \o u \in Seq(Tokens) /\ y \o u \in Seq(Tokens)
    BY ConcatProperties
  <2> QED BY <2>1, ScanAppend
<1>3. Decode(x) = Closed(a) /\ Decode(y) = Closed(b)
      /\ Decode(x \o u) = Closed(a2) /\ Decode(y \o u) = Closed(b2)
  BY Zenon DEF Decode
<1>4. a.open = b.open /\ a2.open = b2.open
  BY <1>1 DEF Alike
<1> HIDE DEF a, b, a2, b2
<1> DEFINE c == Closing(a2.open)
           f == e \o c
<1>5. /\ a.text \in Seq(Units) /\ b.text \in Seq(Units) /\ c \in Seq(Units) /\ f \in Seq(Units)
      /\ Closed(a2) = a2.text \o c /\ Closed(b2) = b2.text \o c
      /\ Len(Closed(a)) = p + r /\ Len(Closed(b)) = q + r
  BY <1>2, <1>4, ClosingText, ConcatProperties
<1> HIDE DEF c
<1>6. Closed(a2) = a.text \o f /\ Closed(b2) = b.text \o f
  <2>1. \A t \in Seq(Units) : (t \o e) \o c = t \o (e \o c)
    <3> SUFFICES ASSUME NEW t \in Seq(Units) PROVE (t \o e) \o c = t \o (e \o c)
      OBVIOUS
    <3>1. c \in Seq(Units)
      BY <1>5
    <3> QED BY <3>1, ConcatAssociative
  <2> QED BY <1>1, <1>5, <2>1, Zenon
<1> HIDE DEF f
<1>7. /\ Len(Closed(a2)) = p + Len(f) /\ Len(Closed(b2)) = q + Len(f)
      /\ \A i \in 1 .. p + Len(f) :
            (a.text \o f)[i] = IF i <= p THEN a.text[i] ELSE f[i - p]
      /\ \A i \in 1 .. q + Len(f) :
            (b.text \o f)[i] = IF i <= q THEN b.text[i] ELSE f[i - q]
  BY <1>5, <1>6, ConcatProperties
<1>8. p \in Nat /\ q \in Nat /\ r \in Nat /\ Len(f) \in Nat
  BY <1>5
<1> HIDE DEF p, q, r
<1>9. ASSUME NEW i \in Nat \ {0}, p + r + i <= p + Len(f)
      PROVE  Closed(a2)[p + r + i] = Closed(b2)[q + r + i]
  <2>1. /\ p + r + i \in 1 .. p + Len(f) /\ ~(p + r + i <= p) /\ (p + r + i) - p = r + i
        /\ q + r + i \in 1 .. q + Len(f) /\ ~(q + r + i <= q) /\ (q + r + i) - q = r + i
    BY <1>8, <1>9
  <2>2. (a.text \o f)[p + r + i] = f[(p + r + i) - p] /\ (b.text \o f)[q + r + i] = f[(q + r + i) - q]
    BY <1>7, <2>1
  <2> QED BY <1>6, <2>1, <2>2
<1>10. Len(Closed(a2)) - Len(Closed(a)) = Len(Closed(b2)) - Len(Closed(b))
  BY <1>5, <1>7, <1>8
<1>11. ASSUME NEW i \in Nat \ {0}, Len(Closed(a)) + i <= Len(Closed(a2))
       PROVE  Closed(a2)[Len(Closed(a)) + i] = Closed(b2)[Len(Closed(b)) + i]
  <2>1. p + r + i <= p + Len(f)
    BY <1>5, <1>7, <1>11
  <2>2. Closed(a2)[p + r + i] = Closed(b2)[q + r + i]
    BY <1>9, <2>1
  <2>3. Len(Closed(a)) + i = p + r + i /\ Len(Closed(b)) + i = q + r + i
    BY <1>5
  <2> QED BY <2>2, <2>3, Zenon
<1> QED BY <1>3, <1>10, <1>11, Zenon

LEMMA TokenLengths ==
    ASSUME NEW d \in Scans
    PROVE  /\ Len(Closed(d)) \in Nat
           /\ d.open # 0 => Len(Closed(d)) > 0
           /\ Len(Closed(DecodeToken(d, Lead))) > 0 /\ DecodeToken(d, Lead).open = 1
           /\ Len(Closed(DecodeToken(d, Word))) > 0 /\ DecodeToken(d, Word).open = 0
           /\ d.open = 0 => /\ DecodeToken(d, Rest).open = 0
                            /\ Len(Closed(DecodeToken(d, Rest))) > 0
                            /\ Last(Closed(DecodeToken(d, Rest))) = Replacement
           /\ d.open = 1 => /\ DecodeToken(d, Rest).open = 2
                            /\ Len(Closed(DecodeToken(d, Rest))) = Len(Closed(d))
           /\ d.open = 2 => /\ DecodeToken(d, Rest).open = 0
                            /\ Len(Closed(DecodeToken(d, Rest))) = Len(Closed(d))
<1>1. /\ d.text \in Seq(Units) /\ Len(d.text) \in Nat /\ d.open \in 0 .. 2
      /\ Closed(d) \in Seq(Units) /\ Len(Closed(d)) \in Nat
      /\ Len(Closed(d)) = Len(d.text) + (IF d.open = 0 THEN 0 ELSE 1)
  <2>1. /\ d.text \in Seq(Units) /\ d.open \in 0 .. 2
    BY DEF Scans
  <2>2. /\ Closed(d) \in Seq(Units)
        /\ Len(Closed(d)) = Len(d.text) + (IF d.open = 0 THEN 0 ELSE 1)
    BY ClosingText
  <2>3. Len(d.text) \in Nat /\ Len(Closed(d)) \in Nat
    <3>1. \A t \in Seq(Units) : Len(t) \in Nat
      OBVIOUS
    <3> QED BY <2>1, <2>2, <3>1, Zenon
  <2> QED BY <2>1, <2>2, <2>3
<1>2. /\ DecodeToken(d, Lead) \in Scans /\ DecodeToken(d, Word) \in Scans
      /\ DecodeToken(d, Rest) \in Scans
  BY DecodeTokenType DEF Tokens
<1>3. \A c \in Scans : Len(Closed(c)) = Len(c.text) + (IF c.open = 0 THEN 0 ELSE 1)
  BY ClosingText
<1>4. {Word, Space, Character, Replacement} \subseteq Units
  BY DEF Units
<1>5. Len(Closed(DecodeToken(d, Lead))) > 0 /\ DecodeToken(d, Lead).open = 1
  <2> DEFINE c == DecodeToken(d, Lead)
  <2>1. c.text = Closed(d) /\ c.open = 1
    <3>1. c = [text |-> Closed(d), open |-> 1]
      BY DecodeTokenCases
    <3> QED BY <3>1
  <2>2. Len(Closed(c)) = Len(c.text) + (IF c.open = 0 THEN 0 ELSE 1)
    BY <1>2, <1>3
  <2> HIDE DEF c
  <2>3. Len(Closed(c)) = Len(Closed(d)) + 1
    BY <2>1, <2>2
  <2>4. Len(Closed(c)) > 0 /\ c.open = 1
    <3>1. Len(Closed(d)) \in Nat
      BY <1>1
    <3>2. Len(Closed(d)) + 1 > 0
      BY <3>1
    <3> QED BY <2>1, <2>3, <3>2, Zenon
  <2> QED BY <2>4 DEF c
<1>6. Len(Closed(DecodeToken(d, Word))) > 0 /\ DecodeToken(d, Word).open = 0
  <2> DEFINE c == DecodeToken(d, Word)
             w == IF Closed(d) = <<>> THEN <<Word>> ELSE <<Space, Word>>
  <2>1. c.text = Closed(d) \o w /\ c.open = 0
    <3>1. c = [text |-> Closed(d) \o w, open |-> 0]
      BY DecodeTokenCases
    <3> QED BY <3>1
  <2>2. Len(Closed(c)) = Len(c.text) + (IF c.open = 0 THEN 0 ELSE 1)
    BY <1>2, <1>3
  <2>3. w \in Seq(Units) /\ Len(w) > 0 /\ Len(w) \in Nat
    BY <1>4
  <2> HIDE DEF c, w
  <2>4. Len(Closed(d) \o w) = Len(Closed(d)) + Len(w)
    BY <1>1, <2>3, ConcatProperties
  <2>5. Len(Closed(c)) = Len(Closed(d)) + Len(w) + 0
    BY <2>1, <2>2, <2>4
  <2>6. Len(Closed(c)) > 0 /\ c.open = 0
    <3>1. Len(Closed(d)) \in Nat
      BY <1>1
    <3>2. Len(Closed(d)) + Len(w) + 0 > 0
      BY <2>3, <3>1
    <3> QED BY <2>1, <2>5, <3>2, Zenon
  <2> QED BY <2>6 DEF c
<1>7. ASSUME d.open = 0
      PROVE  /\ DecodeToken(d, Rest).open = 0
             /\ Len(Closed(DecodeToken(d, Rest))) > 0
             /\ Last(Closed(DecodeToken(d, Rest))) = Replacement
  <2> DEFINE c == DecodeToken(d, Rest)
  <2>1. c = [d EXCEPT !.text = Append(@, Replacement)]
    BY <1>7, DecodeTokenCases
  <2>2. c.text = Append(d.text, Replacement) /\ c.open = 0
    BY <1>7, <2>1 DEF Scans
  <2> HIDE DEF c
  <2>3. Closed(c) = Append(d.text, Replacement)
    BY <2>2 DEF Closed
  <2>4. Len(Append(d.text, Replacement)) = Len(d.text) + 1
        /\ Append(d.text, Replacement)[Len(d.text) + 1] = Replacement
    BY <1>1, <1>4, AppendProperties
  <2>5. Len(Closed(c)) > 0 /\ Last(Closed(c)) = Replacement
    BY <1>1, <2>3, <2>4 DEF Last
  <2> QED BY <2>2, <2>5 DEF c
<1>8. ASSUME d.open = 1
      PROVE  /\ DecodeToken(d, Rest).open = 2
             /\ Len(Closed(DecodeToken(d, Rest))) = Len(Closed(d))
  <2> DEFINE c == DecodeToken(d, Rest)
  <2>1. c = [d EXCEPT !.open = 2]
    BY <1>8, DecodeTokenCases
  <2>2. c.text = d.text /\ c.open = 2
    BY <2>1 DEF Scans
  <2>3. Len(Closed(c)) = Len(c.text) + (IF c.open = 0 THEN 0 ELSE 1)
    BY <1>2, <1>3
  <2> HIDE DEF c
  <2>4. Len(Closed(c)) = Len(Closed(d))
    BY <1>1, <1>8, <2>2, <2>3
  <2> QED BY <2>2, <2>4 DEF c
<1>9. ASSUME d.open = 2
      PROVE  /\ DecodeToken(d, Rest).open = 0
             /\ Len(Closed(DecodeToken(d, Rest))) = Len(Closed(d))
  <2> DEFINE c == DecodeToken(d, Rest)
  <2>1. c.text = Append(d.text, Character) /\ c.open = 0
    <3>1. c = [text |-> Append(d.text, Character), open |-> 0]
      BY <1>9, DecodeTokenCases
    <3> QED BY <3>1
  <2>2. Len(Closed(c)) = Len(c.text) + (IF c.open = 0 THEN 0 ELSE 1)
    BY <1>2, <1>3
  <2> HIDE DEF c
  <2>3. Len(Append(d.text, Character)) = Len(d.text) + 1
    BY <1>1, <1>4, AppendProperties
  <2>4. Len(Closed(c)) = Len(Closed(d))
    BY <1>1, <1>9, <2>1, <2>2, <2>3
  <2> QED BY <2>1, <2>4 DEF c
<1>10. d.open # 0 => Len(Closed(d)) > 0
  BY <1>1
<1> QED BY <1>1, <1>5, <1>6, <1>7, <1>8, <1>9, <1>10

\* a comes after a0 and b after nothing at all, on the same tokens: unless nothing
\* was added to a0 that is whole, both have come to be alike.
Resumed(a0, a, b) ==
    /\ b.open = 0 \/ a.open = b.open
    /\ Len(Closed(b)) > 0 => Len(Closed(a)) > 0
    /\ \/ a.open = b.open /\ Len(Closed(b)) > 0
       \/ Len(Closed(a)) <= Len(Closed(a0))
       \/ a.open = 0 /\ Len(Closed(a)) > 0 /\ Last(Closed(a)) = Replacement

LEMMA ResumedToken ==
    ASSUME NEW a0 \in Scans, NEW a \in Scans, NEW b \in Scans, Resumed(a0, a, b),
           NEW token \in Tokens
    PROVE  Resumed(a0, DecodeToken(a, token), DecodeToken(b, token))
<1>1. a.open \in 0 .. 2 /\ b.open \in 0 .. 2 /\ Len(Closed(a0)) \in Nat
  BY TokenLengths DEF Scans
<1>2. CASE token = Special
  BY <1>2, DecodeTokenCases
<1>3. CASE token = Lead
  BY <1>3, TokenLengths DEF Resumed
<1>4. CASE token = Word
  BY <1>4, TokenLengths DEF Resumed
<1>5. CASE token = Rest
  <2> DEFINE a2 == DecodeToken(a, token)
             b2 == DecodeToken(b, token)
  <2>1. /\ Len(Closed(a)) \in Nat /\ (a.open # 0 => Len(Closed(a)) > 0)
        /\ a.open = 0 => a2.open = 0 /\ Len(Closed(a2)) > 0 /\ Last(Closed(a2)) = Replacement
        /\ a.open = 1 => a2.open = 2 /\ Len(Closed(a2)) = Len(Closed(a))
        /\ a.open = 2 => a2.open = 0 /\ Len(Closed(a2)) = Len(Closed(a))
    BY <1>5, TokenLengths
  <2>2. /\ Len(Closed(b)) \in Nat /\ (b.open # 0 => Len(Closed(b)) > 0)
        /\ b.open = 0 => b2.open = 0 /\ Len(Closed(b2)) > 0
        /\ b.open = 1 => b2.open = 2 /\ Len(Closed(b2)) = Len(Closed(b))
        /\ b.open = 2 => b2.open = 0 /\ Len(Closed(b2)) = Len(Closed(b))
    BY <1>5, TokenLengths
  <2> HIDE DEF a2, b2
  <2>3. Resumed(a0, a2, b2)
    BY <1>1, <2>1, <2>2 DEF Resumed
  <2> QED BY <2>3 DEF a2, b2
<1> QED BY <1>2, <1>3, <1>4, <1>5 DEF Tokens

LEMMA ResumedTokens ==
    ASSUME NEW x \in Seq(Tokens), NEW u \in Seq(Tokens)
    PROVE  Resumed(Scan(x), Scan(x \o u), Scan(u))
<1> DEFINE n == Len(u)
           X(i) == Scan(x \o SubSeq(u, 1, i))
           Y(i) == Scan(<<>> \o SubSeq(u, 1, i))
           T == {i \in 0 .. n : Resumed(Scan(x), X(i), Y(i))}
<1>1. n \in Nat /\ <<>> \in Seq(Tokens) /\ Scan(x) \in Scans /\ <<>> \o u = u
  BY ScanAppend, ConcatEmptySeq
<1>2. /\ X(0) = Scan(x) /\ Y(0) = Scan(<<>>) /\ X(n) = Scan(x \o u) /\ Y(n) = Scan(<<>> \o u)
  BY <1>1, ScanSoFar
<1>3. \A i \in 0 .. n : X(i) \in Scans /\ Y(i) \in Scans
  BY <1>1, ScanSoFar
<1>4. \A i \in 0 .. n - 1 : /\ u[i + 1] \in Tokens
                            /\ X(i + 1) = DecodeToken(X(i), u[i + 1])
                            /\ Y(i + 1) = DecodeToken(Y(i), u[i + 1])
  BY <1>1, ScanSoFar
<1> HIDE DEF X, Y, n
<1>5. 0 \in T
  <2>1. Y(0) = NothingRead /\ Closed(NothingRead) = <<>> /\ NothingRead.open = 0
    BY <1>2, ScanAppend DEF Closed, NothingRead
  <2>2. Len(Closed(Scan(x))) \in Nat
    BY <1>1, TokenLengths
  <2>3. Len(<<>>) = 0
    OBVIOUS
  <2>4. Resumed(Scan(x), X(0), Y(0))
    BY <1>2, <2>1, <2>2, <2>3 DEF Resumed
  <2> QED BY <1>1, <2>4
<1>6. ASSUME NEW i \in 0 .. (n - 1), i \in T PROVE i + 1 \in T
  <2>1. i \in 0 .. n /\ i + 1 \in 0 .. n
    BY <1>1
  <2>2. X(i) \in Scans /\ Y(i) \in Scans /\ u[i + 1] \in Tokens /\ Resumed(Scan(x), X(i), Y(i))
    BY <1>3, <1>4, <1>6, <2>1, Zenon
  <2>3. Resumed(Scan(x), DecodeToken(X(i), u[i + 1]), DecodeToken(Y(i), u[i + 1]))
    BY <1>1, <2>2, ResumedToken
  <2>4. Resumed(Scan(x), X(i + 1), Y(i + 1))
    BY <1>4, <2>3, Zenon
  <2> QED BY <2>1, <2>4
<1> HIDE DEF T
<1>7. n \in T
  <2>1. \A i \in 0 .. n : i \in T
    BY <1>1, <1>5, <1>6, InductionUpTo
  <2> QED BY <1>1, <2>1
<1> QED BY <1>1, <1>2, <1>7 DEF T

LEMMA DecodeType ==
    ASSUME NEW x \in Seq(Tokens)
    PROVE  /\ Scan(x) \in Scans /\ Decode(x) = Closed(Scan(x))
           /\ Decode(x) \in Seq(Units) /\ Len(Decode(x)) \in Nat
<1>1. Scan(x) \in Scans
  BY ScanAppend
<1>2. Decode(x) = Closed(Scan(x))
  BY Zenon DEF Decode
<1>3. Closed(Scan(x)) \in Seq(Units)
  BY <1>1, ClosingText
<1> QED BY <1>1, <1>2, <1>3

\* The same piece of text is new behind both.
LEMMA AlikePieces ==
    ASSUME NEW x \in Seq(Tokens), NEW y \in Seq(Tokens), Alike(Scan(x), Scan(y)),
           NEW u \in Seq(Tokens)
    PROVE  LET A == Decode(x)  A2 == Decode(x \o u)  B == Decode(y)  B2 == Decode(y \o u)
           IN  /\ Len(A2) > Len(A) <=> Len(B2) > Len(B)
               /\ SubSeq(A2, Len(A) + 1, Len(A2)) = SubSeq(B2, Len(B) + 1, Len(B2))
               /\ Len(B2) > Len(B) => Last(A2) = Last(B2)
<1> DEFINE A == Decode(x)
           A2 == Decode(x \o u)
           B == Decode(y)
           B2 == Decode(y \o u)
           a == Len(A)
           a2 == Len(A2)
           b == Len(B)
           b2 == Len(B2)
<1>1. x \o u \in Seq(Tokens) /\ y \o u \in Seq(Tokens)
  BY ConcatProperties
<1>2. /\ A2 \in Seq(Units) /\ B2 \in Seq(Units)
      /\ a \in Nat /\ a2 \in Nat /\ b \in Nat /\ b2 \in Nat
  BY <1>1, DecodeType
<1>3. /\ a2 - a = b2 - b
      /\ \A i \in Nat \ {0} : a + i <= a2 => A2[a + i] = B2[b + i]
  BY AlikeTexts
<1>4. a2 = Len(A2) /\ b2 = Len(B2)
  OBVIOUS
<1> HIDE DEF A, A2, B, B2, a, b, a2, b2
<1>5. a2 > a <=> b2 > b
  BY <1>2, <1>3
<1>6. SubSeq(A2, a + 1, a2) = SubSeq(B2, b + 1, b2)
  <2>1. CASE a2 > a
    <3> DEFINE s == SubSeq(A2, a + 1, a2)
               t == SubSeq(B2, b + 1, b2)
    <3>1. /\ \A i \in a + 1 .. a2 : A2[i] \in Units
          /\ \A i \in b + 1 .. b2 : B2[i] \in Units
      BY <1>2, <1>4
    <3>2. s \in Seq(Units) /\ Len(s) = a2 - a /\ \A i \in 1 .. a2 - a : s[i] = A2[a + i]
      <4>1. /\ s \in Seq(Units)
            /\ Len(s) = IF a + 1 <= a2 THEN a2 - (a + 1) + 1 ELSE 0
            /\ \A i \in 1 .. a2 - (a + 1) + 1 : s[i] = A2[(a + 1) + i - 1]
        BY <1>2, <3>1, SubSeqProperties
      <4>2. a2 - (a + 1) + 1 = a2 - a /\ a + 1 <= a2
        BY <1>2, <2>1
      <4>3. \A i \in 1 .. a2 - a : (a + 1) + i - 1 = a + i
        BY <1>2
      <4> HIDE DEF s
      <4> QED BY <4>1, <4>2, <4>3
    <3>3. t \in Seq(Units) /\ Len(t) = b2 - b /\ \A i \in 1 .. b2 - b : t[i] = B2[b + i]
      <4>1. /\ t \in Seq(Units)
            /\ Len(t) = IF b + 1 <= b2 THEN b2 - (b + 1) + 1 ELSE 0
            /\ \A i \in 1 .. b2 - (b + 1) + 1 : t[i] = B2[(b + 1) + i - 1]
        BY <1>2, <3>1, SubSeqProperties
      <4>2. b2 - (b + 1) + 1 = b2 - b /\ b + 1 <= b2
        BY <1>2, <1>5, <2>1
      <4>3. \A i \in 1 .. b2 - b : (b + 1) + i - 1 = b + i
        BY <1>2
      <4> HIDE DEF t
      <4> QED BY <4>1, <4>2, <4>3
    <3> HIDE DEF s, t
    <3>4. \A i \in 1 .. a2 - a : s[i] = t[i]
      <4> SUFFICES ASSUME NEW i \in 1 .. a2 - a PROVE s[i] = t[i]
        OBVIOUS
      <4>1. i \in Nat \ {0} /\ a + i <= a2 /\ i \in 1 .. b2 - b
        BY <1>2, <1>3
      <4> QED BY <1>3, <3>2, <3>3, <4>1
    <3>5. s = t
      BY <1>3, <3>2, <3>3, <3>4, SeqEqual
    <3> QED BY <3>5 DEF s, t
  <2>2. CASE ~(a2 > a)
    <3>1. a2 < a + 1 /\ b2 < b + 1 /\ {a + 1, a2, b + 1, b2} \subseteq Int
      BY <1>2, <1>5, <2>2
    <3>2. SubSeq(A2, a + 1, a2) = <<>> /\ SubSeq(B2, b + 1, b2) = <<>>
      BY <3>1, SubSeqEmpty
    <3> QED BY <3>2
  <2> QED BY <2>1, <2>2
<1>7. ASSUME b2 > b PROVE Last(A2) = Last(B2)
  <2> DEFINE i == a2 - a
  <2>1. i \in Nat \ {0} /\ a + i = a2 /\ b + i = b2 /\ a2 <= a2
    <3>1. a2 - a = b2 - b /\ a2 > a
      BY <1>3, <1>5, <1>7
    <3> QED BY <1>2, <3>1
  <2> HIDE DEF i
  <2>2. A2[a + i] = B2[b + i]
    BY <1>3, <2>1
  <2> QED BY <1>4, <2>1, <2>2 DEF Last
<1> QED BY <1>5, <1>6, <1>7 DEF A, A2, B, B2, a, b, a2, b2

\* A text that ends whole has no character that is not complete.
LEMMA WholeClosed ==
    ASSUME NEW x \in Seq(Tokens), EndsWhole(Decode(x))
    PROVE  Scan(x).open = 0
<1> DEFINE a == Scan(x)
<1>1. a \in Scans /\ Decode(x) = Closed(a)
  BY DecodeType
<1> SUFFICES ASSUME a.open # 0 PROVE FALSE
  OBVIOUS
<1>2. Closed(a) = Append(a.text, Replacement)
  BY DEF Closed
<1>3. a.text \in Seq(Units) /\ Replacement \in Units
  BY <1>1 DEF Scans, Units
<1> HIDE DEF a
<1>4. Closed(a) # <<>> /\ Last(Closed(a)) = Replacement
  BY <1>2, <1>3, AppendProperties DEF Last
<1> QED BY <1>1, <1>4 DEF EndsWhole

LEMMA WholeTexts ==
    ASSUME NEW x \in Seq(Tokens), NEW u \in Seq(Tokens), EndsWhole(Decode(x))
    PROVE  \E e \in Seq(Units) : Decode(x \o u) = Decode(x) \o e
<1> DEFINE a == Scan(x)
           a2 == Scan(x \o u)
<1>1. /\ a \in Scans /\ a2 \in Scans /\ Decode(x) = Closed(a) /\ Decode(x \o u) = Closed(a2)
  BY DecodeType, ConcatProperties
<1>2. a.open = 0
  BY WholeClosed
<1>3. Alike(a, a)
  BY DEF Alike
<1>4. PICK e \in Seq(Units) : a2.text = a.text \o e
  BY <1>3, AlikeTokens
<1> HIDE DEF a, a2
<1> DEFINE c == Closing(a2.open)
<1>5. Closed(a) = a.text /\ a.text \in Seq(Units)
  BY <1>1, <1>2, ClosedText DEF Scans
<1>6. c \in Seq(Units) /\ Closed(a2) = a2.text \o c
  BY <1>1, ClosingText
<1> HIDE DEF c
<1>7. (a.text \o e) \o c = a.text \o (e \o c)
  <2>1. c \in Seq(Units)
    BY <1>6
  <2>2. \A t \in Seq(Units) : (t \o e) \o c = t \o (e \o c)
    <3> SUFFICES ASSUME NEW t \in Seq(Units) PROVE (t \o e) \o c = t \o (e \o c)
      OBVIOUS
    <3> QED BY <2>1, ConcatAssociative
  <2> QED BY <1>5, <2>2, Zenon
<1>8. e \o c \in Seq(Units)
  BY <1>6, ConcatProperties
<1> QED BY <1>1, <1>4, <1>5, <1>6, <1>7, <1>8, Zenon

-----------------------------------------------------------------------------
(* The pieces.                                                              *)

\* The text up to readOffset is returned but for what begins it, is whole, and is
\* continued alike behind the tokens that push decodes.
Pieces(start, tokens, from, to, out, kept) ==
    LET upto == start \o SubSeq(tokens, kept + 1, to)
        first == Len(Decode(start))
        last == Len(Decode(upto))
    IN  /\ Alike(Scan(upto), Scan(Slice(tokens, from, to)))
        /\ to = kept \/ EndsWhole(Decode(upto))
        /\ first <= last
        /\ out = SubSeq(Decode(upto), first + 1, last)

\* What has not been returned is not a text that is longer and whole.
Pending(tokens, from, to) ==
    LET text == Decode(Slice(tokens, from, Len(tokens)))
    IN  Len(text) <= Len(Decode(Slice(tokens, from, to))) \/ Incomplete(text)

LEMMA JoinSlices ==
    ASSUME NEW S, NEW T \in Seq(S), NEW from \in Nat, NEW to \in Nat,
           NEW n \in Nat, from <= to, to <= n, n <= Len(T)
    PROVE  /\ SubSeq(T, from + 1, to) \in Seq(S) /\ SubSeq(T, to + 1, n) \in Seq(S)
           /\ SubSeq(T, from + 1, to) \o SubSeq(T, to + 1, n) = SubSeq(T, from + 1, n)
<1> DEFINE v == SubSeq(T, from + 1, to)
           u == SubSeq(T, to + 1, n)
<1>1. (\A i \in 1 .. Len(T) : T[i] \in S) /\ Len(T) \in Nat
  OBVIOUS
<1>2. v \in Seq(S) /\ u \in Seq(S)
  <2>1. from + 1 \in Int /\ to \in Int /\ to + 1 \in Int /\ n \in Int
    OBVIOUS
  <2>2. (\A i \in from + 1 .. to : T[i] \in S) /\ (\A i \in to + 1 .. n : T[i] \in S)
    BY <1>1
  <2> QED BY <2>1, <2>2, SubSeqProperties
<1>3. v \o u = SubSeq(T, from + 1, n)
  <2>1. from + 1 \in 1 .. Len(T) + 1 /\ to \in (from + 1) - 1 .. Len(T) /\ n \in to .. Len(T)
    BY <1>1
  <2> QED BY <2>1, ConcatAdjacentSubSeq
<1> QED BY <1>2, <1>3

LEMMA PieceReturned ==
    ASSUME NEW start \in Seq(Tokens), NEW T \in Seq(Tokens), NEW from \in Nat, NEW to \in Nat,
           NEW kept \in Nat, NEW out, from <= to, kept <= to, to <= Len(T),
           Pieces(start, T, from, to, out, kept), ~ Pending(T, from, to)
    PROVE  Pieces(start, T, to, Len(T),
                  out \o Slice(Decode(Slice(T, from, Len(T))),
                               Len(Decode(Slice(T, from, to))),
                               Len(Decode(Slice(T, from, Len(T))))),
                  kept)
<1> DEFINE n == Len(T)
           x == start \o SubSeq(T, kept + 1, to)
           y == SubSeq(T, from + 1, to)
           u == SubSeq(T, to + 1, n)
           A == Decode(x)
           A2 == Decode(x \o u)
           B == Decode(y)
           B2 == Decode(y \o u)
           first == Len(Decode(start))
           piece == SubSeq(A2, Len(A) + 1, Len(A2))
<1>1. /\ x \in Seq(Tokens) /\ u \in Seq(Tokens) /\ y \in Seq(Tokens) /\ n \in Nat
      /\ x \o u = start \o SubSeq(T, kept + 1, n)
      /\ y \o u = SubSeq(T, from + 1, n)
  <2>1. n \in Nat /\ n <= Len(T) /\ to <= n
    OBVIOUS
  <2>2. /\ x \in Seq(Tokens) /\ u \in Seq(Tokens)
        /\ x \o u = start \o SubSeq(T, kept + 1, n)
    <3> DEFINE v == SubSeq(T, kept + 1, to)
    <3>1. v \in Seq(Tokens) /\ u \in Seq(Tokens) /\ v \o u = SubSeq(T, kept + 1, n)
      <4> HIDE DEF n
      <4> QED BY <2>1, JoinSlices
    <3> HIDE DEF u, v
    <3>2. start \o v \in Seq(Tokens) /\ (start \o v) \o u = start \o (v \o u)
      <4>1. v \in Seq(Tokens) /\ u \in Seq(Tokens)
        BY <3>1
      <4>2. start \o v \in Seq(Tokens)
        BY <4>1, ConcatProperties
      <4>3. (start \o v) \o u = start \o (v \o u)
        BY <4>1, ConcatAssociative
      <4> QED BY <4>2, <4>3
    <3> QED BY <3>1, <3>2 DEF v
  <2>3. y \in Seq(Tokens) /\ y \o u = SubSeq(T, from + 1, n)
    <3> HIDE DEF n
    <3> QED BY <2>1, JoinSlices
  <2> QED BY <2>1, <2>2, <2>3
<1>2. Slice(T, from, n) = y \o u /\ Slice(T, from, to) = y /\ Slice(T, to, n) = u
  BY <1>1 DEF Slice
<1>3. /\ Alike(Scan(x), Scan(y))
      /\ to = kept \/ EndsWhole(A)
      /\ first <= Len(A)
      /\ out = SubSeq(A, first + 1, Len(A))
  BY <1>2, Zenon DEF Pieces
<1>4. Len(B2) > Len(B) /\ ~ Incomplete(B2)
  <2>1. ~ (Len(B2) <= Len(B)) /\ ~ Incomplete(B2)
    BY <1>2, Zenon DEF Pending
  <2>2. Len(B2) \in Nat /\ Len(B) \in Nat
    BY <1>1, ConcatProperties, DecodeType
  <2> HIDE DEF B, B2
  <2> QED BY <2>1, <2>2
<1>5. to = kept => x = start
  <2>1. to < to + 1 /\ to + 1 \in Int /\ to \in Int
    OBVIOUS
  <2>2. SubSeq(T, to + 1, to) = <<>>
    BY <2>1, SubSeqEmpty
  <2> QED BY <2>2, ConcatEmptySeq
<1>6. x \o u \in Seq(Tokens) /\ y \o u \in Seq(Tokens)
  <2> HIDE DEF x, y, u
  <2> QED BY <1>1, ConcatProperties
<1>7. /\ A \in Seq(Units) /\ A2 \in Seq(Units) /\ B2 \in Seq(Units)
      /\ Len(A) \in Nat /\ Len(A2) \in Nat /\ Len(B2) \in Nat /\ Len(B) \in Nat /\ first \in Nat
  <2> HIDE DEF x, y, u
  <2> QED BY <1>1, <1>6, DecodeType
<1> HIDE DEF x, y, u
<1>8. /\ Len(A2) > Len(A) /\ Last(A2) = Last(B2)
      /\ piece = SubSeq(B2, Len(B) + 1, Len(B2))
  BY <1>1, <1>3, <1>4, AlikePieces
<1>9. A2 # <<>> /\ Last(A2) # Replacement /\ EndsWhole(A2)
  <2>1. B2 # <<>> /\ A2 # <<>>
    <3> HIDE DEF A, A2, B, B2
    <3> QED BY <1>4, <1>7, <1>8
  <2> QED BY <1>4, <1>8, <2>1 DEF Incomplete, EndsWhole
<1>10. Alike(Scan(x \o u), Scan(u))
  <2>1. Resumed(Scan(x), Scan(x \o u), Scan(u))
    BY <1>1, ResumedTokens
  <2>2. A = Closed(Scan(x)) /\ A2 = Closed(Scan(x \o u))
    BY <1>1, <1>6, DecodeType
  <2> HIDE DEF A, A2
  <2>3. Scan(x \o u).open = Scan(u).open /\ Len(Closed(Scan(u))) > 0
    BY <1>7, <1>8, <1>9, <2>1, <2>2 DEF Resumed
  <2>4. Len(Closed(Scan(x \o u))) > 0
    BY <2>1, <2>3 DEF Resumed
  <2>5. Closed(Scan(x \o u)) # <<>> /\ Closed(Scan(u)) # <<>>
    BY <2>3, <2>4
  <2> QED BY <2>3, <2>5 DEF Alike
<1>11. out \o piece = SubSeq(A2, first + 1, Len(A2))
  <2>1. CASE to = kept
    <3>1. A = Decode(start)
      BY <1>5, <2>1
    <3>2. Len(A) < Len(A) + 1 /\ Len(A) + 1 \in Int /\ Len(A) \in Int
      BY <1>7
    <3>3. SubSeq(A, Len(A) + 1, Len(A)) = <<>>
      BY <3>2, SubSeqEmpty
    <3>4. out = <<>>
      BY <1>3, <3>1, <3>3
    <3>5. piece \in Seq(Units)
      <4> HIDE DEF A, A2
      <4> QED BY <1>7
    <3> QED BY <3>1, <3>4, <3>5, ConcatEmptySeq
  <2>2. CASE EndsWhole(A)
    <3>1. PICK e \in Seq(Units) : A2 = A \o e
      BY <1>1, <2>2, WholeTexts
    <3> HIDE DEF A, A2, first
    <3>2. SubSeq(A2, first + 1, Len(A)) = SubSeq(A, first + 1, Len(A))
      <4>1. CASE first + 1 <= Len(A)
        <5>1. first + 1 \in 1 .. Len(A) /\ Len(A) \in 1 .. Len(A)
          BY <1>7, <4>1
        <5> QED BY <1>7, <3>1, <5>1, SubSeqOfConcat1
      <4>2. CASE ~(first + 1 <= Len(A))
        <5>1. Len(A) < first + 1 /\ first + 1 \in Int /\ Len(A) \in Int
          BY <1>7, <4>2
        <5> QED BY <5>1, SubSeqEmpty
      <4> QED BY <4>1, <4>2
    <3>3. /\ first + 1 \in 1 .. Len(A2) + 1
          /\ Len(A) \in (first + 1) - 1 .. Len(A2)
          /\ Len(A2) \in Len(A) .. Len(A2)
      BY <1>3, <1>7, <1>8
    <3>4. SubSeq(A2, first + 1, Len(A)) \o SubSeq(A2, Len(A) + 1, Len(A2))
             = SubSeq(A2, first + 1, Len(A2))
      BY <1>7, <3>3, ConcatAdjacentSubSeq
    <3> QED BY <1>3, <3>2, <3>4
  <2> QED BY <1>3, <2>1, <2>2
<1>12. first <= Len(A2)
  <2> HIDE DEF A, A2, first
  <2> QED BY <1>3, <1>7, <1>8
<1>13. Slice(B2, Len(B), Len(B2)) = piece
  BY <1>8 DEF Slice
<1> QED BY <1>1, <1>2, <1>9, <1>10, <1>11, <1>12, <1>13, Zenon DEF Pieces

LEMMA PiecesAreFaithful ==
    ASSUME NEW start \in Seq(Tokens), NEW T \in Seq(Tokens), NEW from \in Nat, NEW to \in Nat,
           NEW kept \in Nat, NEW out, from <= to, kept <= to, to <= Len(T),
           Pieces(start, T, from, to, out, kept), Pending(T, from, to)
    PROVE  LET A2 == Decode(start \o SubSeq(T, kept + 1, Len(T)))
               new == Slice(A2, Len(Decode(start)), Len(A2))
           IN  IsPrefix(out, new) /\ (EndsWhole(A2) => out = new)
<1> DEFINE n == Len(T)
           x == start \o SubSeq(T, kept + 1, to)
           y == SubSeq(T, from + 1, to)
           u == SubSeq(T, to + 1, n)
           A == Decode(x)
           A2 == Decode(x \o u)
           B == Decode(y)
           B2 == Decode(y \o u)
           first == Len(Decode(start))
           new == SubSeq(A2, first + 1, Len(A2))
<1>1. /\ x \in Seq(Tokens) /\ u \in Seq(Tokens) /\ y \in Seq(Tokens) /\ n \in Nat
      /\ x \o u = start \o SubSeq(T, kept + 1, n)
      /\ y \o u = SubSeq(T, from + 1, n)
  <2>1. n \in Nat /\ n <= Len(T) /\ to <= n
    OBVIOUS
  <2>2. /\ x \in Seq(Tokens) /\ u \in Seq(Tokens)
        /\ x \o u = start \o SubSeq(T, kept + 1, n)
    <3> DEFINE v == SubSeq(T, kept + 1, to)
    <3>1. v \in Seq(Tokens) /\ u \in Seq(Tokens) /\ v \o u = SubSeq(T, kept + 1, n)
      <4> HIDE DEF n
      <4> QED BY <2>1, JoinSlices
    <3> HIDE DEF u, v
    <3>2. start \o v \in Seq(Tokens) /\ (start \o v) \o u = start \o (v \o u)
      <4>1. v \in Seq(Tokens) /\ u \in Seq(Tokens)
        BY <3>1
      <4>2. start \o v \in Seq(Tokens)
        BY <4>1, ConcatProperties
      <4>3. (start \o v) \o u = start \o (v \o u)
        BY <4>1, ConcatAssociative
      <4> QED BY <4>2, <4>3
    <3> QED BY <3>1, <3>2 DEF v
  <2>3. y \in Seq(Tokens) /\ y \o u = SubSeq(T, from + 1, n)
    <3> HIDE DEF n
    <3> QED BY <2>1, JoinSlices
  <2> QED BY <2>1, <2>2, <2>3
<1>2. Slice(T, from, n) = y \o u /\ Slice(T, from, to) = y
  BY <1>1 DEF Slice
<1>3. /\ Alike(Scan(x), Scan(y))
      /\ to = kept \/ EndsWhole(A)
      /\ first <= Len(A)
      /\ out = SubSeq(A, first + 1, Len(A))
  BY <1>2, Zenon DEF Pieces
<1>4. Len(B2) <= Len(B) \/ Incomplete(B2)
  BY <1>2, Zenon DEF Pending
<1>5. to = kept => x = start
  <2>1. to < to + 1 /\ to + 1 \in Int /\ to \in Int
    OBVIOUS
  <2>2. SubSeq(T, to + 1, to) = <<>>
    BY <2>1, SubSeqEmpty
  <2> QED BY <2>2, ConcatEmptySeq
<1>6. x \o u \in Seq(Tokens) /\ y \o u \in Seq(Tokens)
  <2> HIDE DEF x, y, u
  <2> QED BY <1>1, ConcatProperties
<1>7. /\ A \in Seq(Units) /\ A2 \in Seq(Units) /\ B2 \in Seq(Units)
      /\ Len(A) \in Nat /\ Len(A2) \in Nat /\ Len(B2) \in Nat /\ Len(B) \in Nat /\ first \in Nat
  <2> HIDE DEF x, y, u
  <2> QED BY <1>1, <1>6, DecodeType
<1> HIDE DEF x, y, u
<1>8. EndsWhole(A2) => Len(A2) <= Len(A)
  <2> SUFFICES ASSUME EndsWhole(A2), ~(Len(A2) <= Len(A)) PROVE FALSE
    OBVIOUS
  <2>1. Len(A2) > Len(A) <=> Len(B2) > Len(B)
    BY <1>1, <1>3, AlikePieces
  <2>2. Len(B2) > Len(B) => Last(A2) = Last(B2)
    BY <1>1, <1>3, AlikePieces
  <2> HIDE DEF A, A2, B, B2
  <2>3. Len(B2) > Len(B) /\ ~(Len(B2) <= Len(B)) /\ A2 # <<>>
    BY <1>7, <2>1
  <2>4. Last(B2) = Replacement
    BY <1>4, <2>3 DEF Incomplete
  <2> QED BY <2>2, <2>3, <2>4 DEF EndsWhole
<1>9. IsPrefix(out, new) /\ (EndsWhole(A2) => out = new)
  <2>1. CASE to = kept
    <3>1. Len(A) = first
      BY <1>5, <2>1
    <3> HIDE DEF A, A2, first
    <3>2. first < first + 1 /\ first + 1 \in Int /\ first \in Int
      BY <1>7
    <3>3. out = <<>>
      BY <1>3, <3>1, <3>2, SubSeqEmpty
    <3>4. new \in Seq(Units)
      BY <1>7
    <3>5. IsPrefix(out, new)
      <4>1. Len(<<>>) = 0 /\ Len(new) \in Nat
        BY <3>4
      <4>2. SubSeq(new, 1, 0) = <<>> /\ SubSeq(<<>>, 1, 0) = <<>>
        BY SubSeqEmpty
      <4> HIDE DEF new
      <4>3. 0 <= Len(new)
        BY <4>1
      <4> QED BY <3>3, <4>1, <4>2, <4>3, Zenon DEF IsPrefix
    <3>6. ASSUME EndsWhole(A2) PROVE out = new
      <4>1. Len(A2) < first + 1 /\ Len(A2) \in Int
        BY <1>7, <1>8, <3>1, <3>6
      <4>2. new = <<>>
        BY <3>2, <4>1, SubSeqEmpty
      <4> QED BY <3>3, <4>2
    <3> QED BY <3>5, <3>6
  <2>2. CASE EndsWhole(A)
    <3>1. PICK e \in Seq(Units) : A2 = A \o e
      BY <1>1, <2>2, WholeTexts
    <3> HIDE DEF A, A2, first
    <3>2. Len(A2) = Len(A) + Len(e) /\ Len(e) \in Nat /\ \A i \in 1 .. Len(A) : A2[i] = A[i]
      BY <1>7, <3>1
    <3> DEFINE k == Len(A) - first
    <3>3. k \in Nat /\ k <= Len(A2) - first /\ Len(A2) - first \in Nat
      BY <1>3, <1>7, <3>2
    <3>4. out \in Seq(Units) /\ Len(out) = k /\ \A i \in 1 .. k : out[i] = A[first + i]
      BY <1>3, <1>7
    <3>5. /\ new \in Seq(Units) /\ Len(new) = Len(A2) - first
          /\ \A i \in 1 .. Len(A2) - first : new[i] = A2[first + i]
      BY <1>7, <3>3
    <3> HIDE DEF new
    <3>6. \A i \in 1 .. k : new[i] = out[i]
      <4> SUFFICES ASSUME NEW i \in 1 .. k PROVE new[i] = out[i]
        OBVIOUS
      <4>1. i \in 1 .. Len(A2) - first /\ first + i \in 1 .. Len(A)
        BY <1>7, <3>3
      <4> QED BY <3>2, <3>4, <3>5, <4>1
    <3> HIDE DEF k
    <3>7. IsPrefix(out, new)
      <4>1. SubSeq(new, 1, k) \in Seq(Units) /\ Len(SubSeq(new, 1, k)) = k
            /\ \A i \in 1 .. k : SubSeq(new, 1, k)[i] = new[i]
        BY <3>3, <3>5
      <4>2. SubSeq(out, 1, k) = out
        BY <3>4, SubSeqFull
      <4>3. SubSeq(new, 1, k) = out
        BY <3>3, <3>4, <3>6, <4>1, SeqEqual
      <4> QED BY <3>3, <3>4, <3>5, <4>2, <4>3 DEF IsPrefix
    <3>8. ASSUME EndsWhole(A2) PROVE out = new
      <4>1. Len(e) = 0
        BY <1>7, <1>8, <3>2, <3>8
      <4>2. Len(new) = k
        BY <1>7, <3>2, <3>5, <4>1 DEF k
      <4> QED BY <3>4, <3>5, <3>6, <4>2, SeqEqual
    <3> QED BY <3>7, <3>8
  <2> QED BY <1>3, <2>1, <2>2
<1>10. Slice(A2, first, Len(A2)) = new
  BY DEF Slice
<1> QED BY <1>1, <1>9, <1>10, Zenon

\* A text that ends whole is continued as that of its last tokens, if they have one.
LEMMA EndAlike ==
    ASSUME NEW x \in Seq(Tokens), NEW u \in Seq(Tokens), NEW xu \in Seq(Tokens),
           x \o u = xu, EndsWhole(Decode(xu)), Decode(u) # <<>>
    PROVE  Alike(Scan(xu), Scan(u))
<1>1. /\ Scan(xu) \in Scans /\ Scan(u) \in Scans
      /\ Decode(xu) = Closed(Scan(xu)) /\ Decode(u) = Closed(Scan(u))
      /\ Decode(xu) \in Seq(Units) /\ Decode(u) \in Seq(Units)
  BY DecodeType
<1>2. Resumed(Scan(x), Scan(xu), Scan(u))
  BY ResumedTokens
<1> DEFINE a == Scan(xu)
           b == Scan(u)
<1>3. a.open = 0
  BY <1>1, WholeClosed
<1>4. a.open = b.open
  BY <1>1, <1>2, <1>3, Zenon DEF Resumed
<1>5. Len(Closed(b)) > 0 => Len(Closed(a)) > 0
  BY <1>2, Zenon DEF Resumed
<1> HIDE DEF a, b
<1>6. Closed(a) # <<>> /\ Closed(b) # <<>>
  <2>1. Closed(a) \in Seq(Units) /\ Closed(b) \in Seq(Units) /\ Closed(b) # <<>>
    BY <1>1 DEF a, b
  <2> QED BY <1>5, <2>1
<1> QED BY <1>4, <1>6 DEF Alike, a, b

-----------------------------------------------------------------------------
(* The invariant.                                                           *)

Kept == Len(Context)

DetokenizerInv ==
    /\ prompt \in Seq(Tokens) /\ tokenIds \in Seq(Tokens)
    /\ prefixOffset \in Nat /\ readOffset \in Nat
    /\ prefixOffset <= readOffset /\ Kept <= readOffset /\ readOffset <= Len(tokenIds)
    /\ Pending(tokenIds, prefixOffset, readOffset)
    /\ Pieces(Context, tokenIds, prefixOffset, readOffset, emitted, Kept)
    /\ EndsWhole(Decode(prompt)) /\ Decode(Context) # <<>>
          => Pieces(prompt, tokenIds, prefixOffset, readOffset, emitted, Kept)

\* The kept tokens are tokens, and what precedes them completes the prompt.
LEMMA ContextOfPrompt ==
    ASSUME DetokenizerAssumption, prompt \in Seq(Tokens)
    PROVE  /\ Context \in Seq(Tokens) /\ Kept \in Nat
           /\ \E before \in Seq(Tokens) : before \o Context = prompt
<1> DEFINE n == Len(prompt)
           from == IF n > ContextLen THEN n - ContextLen ELSE 0
<1>1. n \in Nat /\ ContextLen \in Nat
  BY DEF DetokenizerAssumption
<1>2. from \in Nat /\ from <= n
  BY <1>1
<1>3. from + 1 = IF n > ContextLen THEN n - ContextLen + 1 ELSE 1
  BY <1>1
<1>4. Context = SubSeq(prompt, from + 1, n)
  BY <1>3 DEF Context
<1>9. n <= Len(prompt) /\ 0 \in Nat /\ 0 <= from
  BY <1>1, <1>2
<1> HIDE DEF from, n
<1>5. /\ SubSeq(prompt, 0 + 1, from) \in Seq(Tokens) /\ SubSeq(prompt, from + 1, n) \in Seq(Tokens)
      /\ SubSeq(prompt, 0 + 1, from) \o SubSeq(prompt, from + 1, n) = SubSeq(prompt, 0 + 1, n)
  BY <1>1, <1>2, <1>9, JoinSlices
<1>6. SubSeq(prompt, 0 + 1, n) = prompt
  <2>1. 0 + 1 = 1
    OBVIOUS
  <2> QED BY <2>1, SubSeqFull DEF n
<1>7. Context \in Seq(Tokens)
  BY <1>4, <1>5
<1>8. Kept \in Nat
  <2>1. \A t \in Seq(Tokens) : Len(t) \in Nat
    OBVIOUS
  <2> QED BY <1>7, <2>1 DEF Kept
<1> QED BY <1>4, <1>5, <1>6, <1>7, <1>8

\* With nothing returned, the text of "start" is continued as that of its end.
LEMMA NothingReturned ==
    ASSUME NEW start \in Seq(Tokens), NEW T \in Seq(Tokens), NEW out,
           Alike(Scan(start), Scan(T)), out = <<>>
    PROVE  Pieces(start, T, 0, Len(T), out, Len(T))
<1>1. Len(T) \in Nat /\ Len(T) < Len(T) + 1 /\ 0 + 1 = 1
  <2>1. Len(T) \in Nat
    OBVIOUS
  <2> QED BY <2>1
<1>2. SubSeq(T, Len(T) + 1, Len(T)) = <<>>
  BY <1>1, SubSeqEmpty
<1>3. start \o <<>> = start
  BY ConcatEmptySeq
<1>4. Slice(T, 0, Len(T)) = T
  BY <1>1, SubSeqFull DEF Slice
<1>5. Len(Decode(start)) \in Nat
  BY DecodeType
<1>6. /\ Len(Decode(start)) <= Len(Decode(start))
      /\ SubSeq(Decode(start), Len(Decode(start)) + 1, Len(Decode(start))) = <<>>
  BY <1>5, SubSeqEmpty
<1> QED BY <1>2, <1>3, <1>4, <1>6 DEF Pieces

LEMMA DetokenizerInitInv ==
    ASSUME DetokenizerAssumption, DetokenizerInit
    PROVE  DetokenizerInv
<1>1. prompt \in Seq(Tokens)
  <2>1. PICK n \in 1 .. MaxPrompt : prompt \in [1 .. n -> Tokens]
    BY DEF DetokenizerInit
  <2>2. n \in Nat
    BY <2>1 DEF DetokenizerAssumption
  <2> QED BY <2>1, <2>2
<1>2. Context \in Seq(Tokens) /\ Kept \in Nat
  BY <1>1, ContextOfPrompt
<1>3. tokenIds = Context /\ prefixOffset = 0 /\ readOffset = Kept /\ emitted = <<>>
  BY DEF DetokenizerInit, Kept
<1>4. Pending(tokenIds, prefixOffset, readOffset)
  <2>1. Slice(tokenIds, 0, Len(tokenIds)) = Context
    BY <1>2, <1>3, SubSeqFull DEF Slice
  <2>2. Len(Decode(Context)) \in Nat
    BY <1>2, DecodeType
  <2>3. Len(tokenIds) = readOffset
    BY <1>3 DEF Kept
  <2>4. Len(Decode(Context)) <= Len(Decode(Context))
    BY <2>2
  <2> QED BY <1>3, <2>1, <2>3, <2>4 DEF Pending
<1>5. Pieces(Context, tokenIds, prefixOffset, readOffset, emitted, Kept)
  <2>1. Alike(Scan(Context), Scan(Context))
    BY DEF Alike
  <2> QED BY <1>2, <1>3, <2>1, NothingReturned, Zenon DEF Kept
<1>6. ASSUME EndsWhole(Decode(prompt)), Decode(Context) # <<>>
      PROVE  Pieces(prompt, tokenIds, prefixOffset, readOffset, emitted, Kept)
  <2>1. PICK before \in Seq(Tokens) : before \o Context = prompt
    BY <1>1, ContextOfPrompt
  <2>2. Alike(Scan(prompt), Scan(Context))
    BY <1>1, <1>2, <1>6, <2>1, EndAlike
  <2> QED BY <1>1, <1>2, <1>3, <2>2, NothingReturned, Zenon DEF Kept
<1>7. /\ prefixOffset \in Nat /\ readOffset \in Nat
      /\ prefixOffset <= readOffset /\ Kept <= readOffset
  BY <1>2, <1>3
<1>8. readOffset <= Len(tokenIds) /\ tokenIds \in Seq(Tokens)
  <2>1. Len(tokenIds) = Kept
    BY <1>3 DEF Kept
  <2> QED BY <1>2, <1>3, <2>1
<1> QED BY <1>1, <1>4, <1>5, <1>6, <1>7, <1>8 DEF DetokenizerInv

\* Tokens that are appended change nothing before them.
LEMMA SameSlice ==
    ASSUME NEW T \in Seq(Tokens), NEW token \in Tokens, NEW from \in Nat, NEW to \in Nat,
           to <= Len(T)
    PROVE  SubSeq(Append(T, token), from + 1, to) = SubSeq(T, from + 1, to)
<1>1. Len(T) \in Nat /\ Len(Append(T, token)) = Len(T) + 1
      /\ \A i \in 1 .. Len(T) : Append(T, token)[i] = T[i]
  OBVIOUS
<1>2. \A i \in from + 1 .. to : Append(T, token)[i] = T[i]
  BY <1>1
<1> DEFINE a == SubSeq(Append(T, token), from + 1, to)
           b == SubSeq(T, from + 1, to)
           n == IF from + 1 <= to THEN to - from ELSE 0
<1>3. CASE to < from + 1
  <2>1. from + 1 \in Int /\ to \in Int
    OBVIOUS
  <2> QED BY <1>3, <2>1, SubSeqEmpty
<1>4. CASE ~(to < from + 1)
  <2>1. T \in Seq(Tokens) /\ Append(T, token) \in Seq(Tokens)
    OBVIOUS
  <2>2. from + 1 \in 1 .. Len(T) + 1 /\ to \in from .. Len(T) /\ to <= Len(T) + 1
    BY <1>1, <1>4
  <2>3. a \in Seq(Tokens) /\ Len(a) = to - from /\ \A i \in 1 .. to - from : a[i] = Append(T, token)[from + i]
    BY <1>1, <2>1, <2>2
  <2>4. b \in Seq(Tokens) /\ Len(b) = to - from /\ \A i \in 1 .. to - from : b[i] = T[from + i]
    BY <1>1, <2>1, <2>2
  <2>5. \A i \in 1 .. to - from : from + i \in from + 1 .. to
    OBVIOUS
  <2>6. \A i \in 1 .. to - from : a[i] = b[i]
    BY <1>2, <2>3, <2>4, <2>5
  <2> HIDE DEF a, b
  <2>7. Len(a) = Len(b) /\ \A i \in 1 .. Len(a) : a[i] = b[i]
    BY <2>3, <2>4, <2>6
  <2>8. a = b
    BY <2>3, <2>4, <2>7, SeqEqual
  <2> QED BY <2>8 DEF a, b
<1> QED BY <1>3, <1>4

\* So the pieces returned of the tokens are as before when one is appended.
LEMMA SamePieces ==
    ASSUME NEW start, NEW T \in Seq(Tokens), NEW token \in Tokens, NEW from \in Nat,
           NEW to \in Nat, NEW kept \in Nat, NEW out, to <= Len(T),
           Pieces(start, T, from, to, out, kept)
    PROVE  Pieces(start, Append(T, token), from, to, out, kept)
<1>1. SubSeq(Append(T, token), kept + 1, to) = SubSeq(T, kept + 1, to)
  BY SameSlice
<1>2. Slice(Append(T, token), from, to) = Slice(T, from, to)
  BY SameSlice DEF Slice
<1> QED BY <1>1, <1>2, Zenon DEF Pieces

LEMMA PushPreserves ==
    ASSUME DetokenizerAssumption, DetokenizerInv, NEW token \in Tokens, NEW stop \in BOOLEAN,
           Push(token, stop)
    PROVE  DetokenizerInv'
<1> DEFINE T == IF stop THEN tokenIds ELSE Append(tokenIds, token)
           prefix == Decode(Slice(T, prefixOffset, readOffset))
           text == Decode(Slice(T, prefixOffset, Len(T)))
           whole == EndsWhole(Decode(prompt)) /\ Decode(Context) # <<>>
<1>1. /\ prompt \in Seq(Tokens) /\ tokenIds \in Seq(Tokens)
      /\ prefixOffset \in Nat /\ readOffset \in Nat
      /\ prefixOffset <= readOffset /\ Kept <= readOffset /\ readOffset <= Len(tokenIds)
      /\ Context \in Seq(Tokens) /\ Kept \in Nat
  BY ContextOfPrompt DEF DetokenizerInv
<1>2. T \in Seq(Tokens) /\ Len(T) \in Nat /\ Len(tokenIds) <= Len(T) /\ readOffset <= Len(T)
  <2>1. CASE stop
    BY <1>1, <2>1
  <2>2. CASE ~ stop
    <3>1. Append(tokenIds, token) \in Seq(Tokens)
          /\ Len(Append(tokenIds, token)) = Len(tokenIds) + 1 /\ Len(tokenIds) \in Nat
      BY <1>1
    <3> QED BY <1>1, <2>2, <3>1
  <2> QED BY <2>1, <2>2
<1>3. ASSUME NEW start, Pieces(start, tokenIds, prefixOffset, readOffset, emitted, Kept)
      PROVE  Pieces(start, T, prefixOffset, readOffset, emitted, Kept)
  <2>1. CASE stop
    BY <1>3, <2>1
  <2>2. CASE ~ stop
    BY <1>1, <1>3, <2>2, SamePieces
  <2> QED BY <2>1, <2>2
<1>4. /\ tokenIds' = T /\ prompt' = prompt /\ Context' = Context /\ Kept' = Kept
      /\ IF Len(text) <= Len(prefix) \/ Incomplete(text)
           THEN UNCHANGED <<prefixOffset, readOffset, emitted>>
           ELSE /\ emitted' = emitted \o Slice(text, Len(prefix), Len(text))
                /\ prefixOffset' = readOffset
                /\ readOffset' = Len(T)
  BY Zenon DEF Push, Context, Kept
<1>5. /\ Pieces(Context, tokenIds, prefixOffset, readOffset, emitted, Kept)
      /\ whole => Pieces(prompt, tokenIds, prefixOffset, readOffset, emitted, Kept)
  BY Zenon DEF DetokenizerInv
<1>6. Pending(T, prefixOffset, readOffset) <=> Len(text) <= Len(prefix) \/ Incomplete(text)
  BY Zenon DEF Pending
<1> HIDE DEF T
<1>7. \E from, to \in Nat : \E out :
         /\ prefixOffset' = from /\ readOffset' = to /\ emitted' = out
         /\ from <= to /\ Kept <= to /\ to <= Len(T)
         /\ Pending(T, from, to)
         /\ Pieces(Context, T, from, to, out, Kept)
         /\ whole => Pieces(prompt, T, from, to, out, Kept)
  <2>1. CASE Pending(T, prefixOffset, readOffset)
    <3>1. prefixOffset' = prefixOffset /\ readOffset' = readOffset /\ emitted' = emitted
      BY <1>4, <1>6, <2>1
    <3>2. /\ Pieces(Context, T, prefixOffset, readOffset, emitted, Kept)
          /\ whole => Pieces(prompt, T, prefixOffset, readOffset, emitted, Kept)
      BY <1>3, <1>5
    <3> QED BY <1>1, <1>2, <2>1, <3>1, <3>2, Zenon
  <2>2. CASE ~ Pending(T, prefixOffset, readOffset)
    <3> DEFINE out == emitted \o Slice(text, Len(prefix), Len(text))
    <3>1. prefixOffset' = readOffset /\ readOffset' = Len(T) /\ emitted' = out
      BY <1>4, <1>6, <2>2
    <3>2. ASSUME NEW start \in Seq(Tokens),
                 Pieces(start, tokenIds, prefixOffset, readOffset, emitted, Kept)
          PROVE  Pieces(start, T, readOffset, Len(T), out, Kept)
      <4>1. Pieces(start, T, prefixOffset, readOffset, emitted, Kept)
        BY <1>3, <3>2
      <4> QED BY <1>1, <1>2, <2>2, <4>1, PieceReturned
    <3> HIDE DEF out, text, prefix
    <3>3. Pending(T, readOffset, Len(T))
      <4>1. Decode(Slice(T, readOffset, Len(T))) \in Seq(Units)
            /\ Len(Decode(Slice(T, readOffset, Len(T)))) \in Nat
        <5>1. SubSeq(T, readOffset + 1, Len(T)) \in Seq(Tokens)
          BY <1>1, <1>2, JoinSlices
        <5> QED BY <5>1, DecodeType DEF Slice
      <4>2. Len(Decode(Slice(T, readOffset, Len(T)))) <= Len(Decode(Slice(T, readOffset, Len(T))))
        BY <4>1
      <4> QED BY <4>2 DEF Pending
    <3>4. Kept <= Len(T)
      BY <1>1, <1>2
    <3>5. /\ Pieces(Context, T, readOffset, Len(T), out, Kept)
          /\ whole => Pieces(prompt, T, readOffset, Len(T), out, Kept)
      BY <1>1, <1>5, <3>2
    <3>6. Len(T) <= Len(T)
      BY <1>2
    <3> QED BY <1>1, <1>2, <3>1, <3>3, <3>4, <3>5, <3>6, Zenon
  <2> QED BY <2>1, <2>2
<1>8. PICK from, to \in Nat : \E out :
         /\ prefixOffset' = from /\ readOffset' = to /\ emitted' = out
         /\ from <= to /\ Kept <= to /\ to <= Len(T)
         /\ Pending(T, from, to)
         /\ Pieces(Context, T, from, to, out, Kept)
         /\ whole => Pieces(prompt, T, from, to, out, Kept)
  BY <1>7, Zenon
<1>9. PICK out :
         /\ prefixOffset' = from /\ readOffset' = to /\ emitted' = out
         /\ from <= to /\ Kept <= to /\ to <= Len(T)
         /\ Pending(T, from, to)
         /\ Pieces(Context, T, from, to, out, Kept)
         /\ whole => Pieces(prompt, T, from, to, out, Kept)
  BY <1>8, Zenon
<1> QED BY <1>1, <1>2, <1>4, <1>9, Zenon DEF DetokenizerInv

LEMMA DetokenizerStepInv ==
    ASSUME DetokenizerAssumption, DetokenizerInv, [DetokenizerNext]_detokenizerVars
    PROVE  DetokenizerInv'
<1>1. ASSUME NEW token \in Tokens, PushRunning(token) PROVE DetokenizerInv'
  BY <1>1, PushPreserves DEF PushRunning
<1>2. ASSUME NEW token \in Tokens, PushStop(token) PROVE DetokenizerInv'
  BY <1>2, PushPreserves DEF PushStop
<1>3. ASSUME NEW token \in Tokens, PushLength(token) PROVE DetokenizerInv'
  BY <1>3, PushPreserves DEF PushLength
<1>4. CASE UNCHANGED detokenizerVars
  BY <1>4, Zenon DEF DetokenizerInv, detokenizerVars, Context, Kept
<1> QED BY <1>1, <1>2, <1>3, <1>4 DEF DetokenizerNext

LEMMA DetokenizerInvFaithful ==
    ASSUME DetokenizerAssumption, DetokenizerInv
    PROVE  PiecesFaithful
<1>1. /\ prompt \in Seq(Tokens) /\ tokenIds \in Seq(Tokens)
      /\ prefixOffset \in Nat /\ readOffset \in Nat
      /\ prefixOffset <= readOffset /\ Kept <= readOffset /\ readOffset <= Len(tokenIds)
      /\ Context \in Seq(Tokens) /\ Kept \in Nat
      /\ Pending(tokenIds, prefixOffset, readOffset)
  BY ContextOfPrompt DEF DetokenizerInv
<1>2. ASSUME NEW start \in Seq(Tokens),
             Pieces(start, tokenIds, prefixOffset, readOffset, emitted, Kept)
      PROVE  FaithfulAfter(start)
  <2>1. LET A2 == Decode(start \o SubSeq(tokenIds, Kept + 1, Len(tokenIds)))
            new == Slice(A2, Len(Decode(start)), Len(A2))
        IN  IsPrefix(emitted, new) /\ (EndsWhole(A2) => emitted = new)
    BY <1>1, <1>2, PiecesAreFaithful
  <2> QED BY <2>1, Zenon DEF FaithfulAfter, TextAfter, Generated, Kept
<1>3. /\ Pieces(Context, tokenIds, prefixOffset, readOffset, emitted, Kept)
      /\ EndsWhole(Decode(prompt)) /\ Decode(Context) # <<>>
            => Pieces(prompt, tokenIds, prefixOffset, readOffset, emitted, Kept)
  BY Zenon DEF DetokenizerInv
<1> QED BY <1>1, <1>2, <1>3 DEF PiecesFaithful

\* For every prompt, the pieces joined are what a single decode gives of the
\* completion: nothing is lost, doubled or changed by decoding a few tokens at a
\* time and keeping back what ends in a part of a character (tokenizer.py:58-94).
THEOREM DetokenizerPiecesFaithful == DetokenizerSpec => []PiecesFaithful
<1> USE DetokenizerAssumption
<1>1. DetokenizerInit => DetokenizerInv
  BY DetokenizerInitInv
<1>2. DetokenizerInv /\ [DetokenizerNext]_detokenizerVars => DetokenizerInv'
  BY DetokenizerStepInv
<1>3. DetokenizerInv => PiecesFaithful
  BY DetokenizerInvFaithful
<1> QED BY <1>1, <1>2, <1>3, PTL DEF DetokenizerSpec
=============================================================================
