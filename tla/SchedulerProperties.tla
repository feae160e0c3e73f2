------------------------ MODULE SchedulerProperties ------------------------
(***************************************************************************)
(* What makes the scheduler correct: its three queues and its map agree,   *)
(* block tables follow the computed tokens, every step is one the model    *)
(* can execute, and requests are served first come, first served.          *)
(***************************************************************************)
EXTENDS Scheduler

\* All live requests, oldest first.
ServiceOrder == running \o preempted \o waiting

\* id_to_request_, the lists and the status fields agree and no request is in
\* two places: what add_request, schedule, update and remove_request do one
\* after the other never leaves a dangling iterator.
QueuesConsistent ==
    /\ IsInjective(running) /\ IsInjective(preempted) /\ IsInjective(waiting)
    /\ \A id \in Ids :
          /\ id \in ToSet(running)   <=> HasStatus(id, "kRunning")
          /\ id \in ToSet(preempted) <=> HasStatus(id, "kPreempted")
          /\ id \in ToSet(waiting)   <=> HasStatus(id, "kWaiting")

\* A request holds exactly the blocks its computed tokens need while it runs,
\* and none otherwise, in every state of a step: so release_blocks' .at() finds
\* its entry (kv_cache_manager.cpp:59) and allocate_slots' assertion at line 35
\* holds; preempting or aborting in the middle of a chunked prefill leaks none.
BlocksMatchComputed ==
    \A id \in Ids : Len(allocatedBlocks[id]) =
        IF HasStatus(id, "kRunning")
          THEN NumRequiredBlocks(request[id].numComputed)
          ELSE 0

\* scheduler.cpp:62 and :122 and kv_cache_manager.cpp:22 and :35 assert that a
\* request has tokens to compute when its turn comes, in either pass, and that
\* its table is never longer than it then needs to be.
AllocatesWithinContract ==
    /\ MoreRunning =>
          /\ NumToSchedule(Current) > 0
          /\ AllocateContract(Current, CurrentSlots)
    /\ MoreToAdmit =>
          /\ NumToAdmit(Candidate) > 0
          /\ AllocateContract(Candidate, CandidateSlots)

\* The entries of a step describe the requests as they now are, also after
\* later iterations preempted others: same blocks, enough of them for every
\* token to be computed, and a token is sampled exactly when the last known
\* token of the request is computed (the last chunk of a prefill, every decode,
\* the recomputation after a preemption).
EntryCurrent(e) ==
    /\ HasStatus(e.id, "kRunning")
    /\ e.blocks = allocatedBlocks[e.id]
    /\ e.count > 0
    /\ e.offset + e.count = request[e.id].numComputed
    /\ e.offset + e.count <= Len(e.blocks) * BlockSize
    /\ e.sample <=> request[e.id].numComputed = request[e.id].numTokens

ScheduledCurrent ==
    phase \in {"pass1", "pass2", "scheduled"} =>
        \A i \in DOMAIN scheduled : EntryCurrent(scheduled[i])

\* Nothing that runs is left out of a step: the entries are the running
\* requests in order.  A running request without an entry would keep its blocks
\* and produce nothing.
AllRunningScheduled ==
    phase = "scheduled" =>
        /\ Len(scheduled) = Len(running)
        /\ \A i \in DOMAIN scheduled : scheduled[i].id = running[i]

\* Between steps only the youngest running request can be in the middle of its
\* prefill; every other one lacks exactly the token sampled last.
ChunkOnlyAtTail ==
    phase = "idle" =>
        \A i \in DOMAIN running :
            LET r == request[running[i]]
            IN  /\ r.numComputed < r.numTokens
                /\ i < Len(running) => r.numComputed + 1 = r.numTokens

\* Every step of an engine that has requests advances the oldest of them: the
\* pool is never too small for it, whatever the others hold.
OldestScheduled ==
    phase = "scheduled" /\ Live # {} =>
        scheduled # <<>> /\ scheduled[1].id = Head(ServiceOrder)

\* csrc/engine/protocol.h:69: at most one output per request per step; a
\* request is gone exactly when its output says so.
OneOutputPerStep ==
    /\ \A i, j \in DOMAIN outputs : outputs[i].id = outputs[j].id => i = j
    /\ \A i \in DOMAIN outputs :
          outputs[i].reason = "kRunning" <=> outputs[i].id \in Live

\* scheduler.h:21: "FCFS, preemptive scheduling".
FCFS == INSTANCE RequestQueue WITH
            queue <- ServiceOrder, served <- Len(running), MaxServed <- MaxNumSeqs

FirstComeFirstServed == FCFS!QueueSpec
=============================================================================
