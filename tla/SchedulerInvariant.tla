------------------------- MODULE SchedulerInvariant -------------------------
(***************************************************************************)
(* The inductive invariant of the scheduler: what holds between any two    *)
(* iterations of its loops, in the terms the next iteration needs.         *)
(***************************************************************************)
EXTENDS SchedulerProperties

\* The tokens of a request whose keys and values are still to be computed.
Lacking(id) == request[id].numTokens - request[id].numComputed

\* A running request is in its prefill, and then every token it has is to be
\* prefilled, or past it, and then it lacks the last sampled token at most.
PrefillOrDecode(r) ==
    \/ r.numPrefill = r.numTokens
    \/ r.numPrefill <= r.numComputed /\ r.numTokens <= r.numComputed + 1

RequestSane(r) ==
    /\ r \in Requests
    /\ 0 < r.numTokens /\ r.numTokens < MaxModelLen
    /\ r.numComputed <= r.numTokens
    /\ r.status = "kRunning"  => r.numComputed > 0 /\ PrefillOrDecode(r)
    /\ r.status # "kRunning" => r.numComputed = 0

RequestsSane == \A id \in Live : RequestSane(request[id])

\* The part that concerns the requests, their queues and their blocks only.
CoreInv ==
    /\ KVTypeOK /\ ExclusiveBlocks /\ NoLeakedBlock
    /\ running \in Seq(Ids) /\ preempted \in Seq(Ids) /\ waiting \in Seq(Ids)
    /\ request \in [Ids -> Requests \cup {NoRequest}]
    /\ QueuesConsistent
    /\ BlocksMatchComputed
    /\ RequestsSane

LocalTypeOK ==
    /\ phase \in Phases
    /\ tokenBudget \in Nat /\ preemptedBefore \in Nat
    /\ scheduled \in Seq(ScheduledRequests)
    /\ outputs \in Seq([id : Ids, reason : FinishReasons])

RunningBounded ==
    Len(running) <= MaxNumSeqs /\ Len(running) <= MaxNumScheduledTokens

\* Only the youngest of the running requests from position k on may lack more
\* than the last token.
TailLacksMore(k) ==
    \A i \in k .. Len(running) :
        /\ Lacking(running[i]) >= 1
        /\ i < Len(running) => Lacking(running[i]) = 1

InIdle ==
    phase = "idle" => scheduled = <<>> /\ TailLacksMore(1)

\* The entries made so far: they follow running_, and only the last running
\* request can have been cut short, by the end of the budget.
InSchedule ==
    phase \in {"pass1", "pass2", "scheduled"} =>
        /\ Len(scheduled) <= Len(running)
        /\ \A i \in 1 .. Len(scheduled) :
              /\ scheduled[i].id = running[i]
              /\ EntryCurrent(scheduled[i])
              /\ ~ scheduled[i].sample => i = Len(running) /\ tokenBudget = 0
        /\ tokenBudget + Len(scheduled) <= MaxNumScheduledTokens
        /\ scheduled = <<>> => tokenBudget = MaxNumScheduledTokens

\* Pass 1 has budget left for one token of every running request to come, and
\* it never preempts the oldest.
InPass1 ==
    phase = "pass1" =>
        /\ Len(running) <= Len(scheduled) + tokenBudget
        /\ TailLacksMore(Len(scheduled) + 1)
        /\ running = <<>> => NobodyPreempted

AfterPass1 ==
    /\ phase \in {"pass2", "scheduled"} => Len(scheduled) = Len(running)
    /\ phase = "scheduled" /\ Live # {} => scheduled # <<>>

\* The entries left during update() are requests that run, each once; those
\* that lack nothing are among them.
InUpdate ==
    phase = "update" =>
        /\ \A i \in 1 .. Len(scheduled) :
              /\ HasStatus(scheduled[i].id, "kRunning")
              /\ scheduled[i].sample <=> Lacking(scheduled[i].id) = 0
        /\ \A i, j \in 1 .. Len(scheduled) :
              scheduled[i].id = scheduled[j].id => i = j
        /\ \A k \in 1 .. Len(running) :
              /\ k < Len(running) => Lacking(running[k]) <= 1
              /\ Lacking(running[k]) = 0 =>
                    \E i \in 1 .. Len(scheduled) : scheduled[i].id = running[k]

OutputsFresh ==
    /\ phase # "update" => outputs = <<>>
    /\ \A i \in 1 .. Len(outputs), j \in 1 .. Len(scheduled) :
          outputs[i].id # scheduled[j].id
    /\ OneOutputPerStep

SchedInv ==
    /\ CoreInv
    /\ LocalTypeOK
    /\ RunningBounded
    /\ InIdle /\ InSchedule /\ InPass1 /\ AfterPass1 /\ InUpdate
    /\ OutputsFresh
=============================================================================
