---------------------------- MODULE RequestQueue ----------------------------
(***************************************************************************)
(* What "FCFS, preemptive scheduling" (csrc/scheduler/scheduler.h:21)      *)
(* promises: requests stand in one line in order of arrival, those being   *)
(* served are always the oldest ones, and the oldest is never suspended.   *)
(***************************************************************************)
EXTENDS Integers, SequencesExt

CONSTANTS
    Ids,
    MaxServed  \* how many requests may be served at once

VARIABLES
    queue,   \* every request in the system, oldest first
    served   \* the first "served" of them are being served

queueVars == <<queue, served>>

QueueInit == queue = <<>> /\ served = 0

Arrive(id) ==
    /\ ~ Contains(queue, id)
    /\ queue' = Append(queue, id)
    /\ UNCHANGED served

\* A request finishes or is aborted, wherever it stands.
Leave(i) ==
    /\ queue' = RemoveAt(queue, i)
    /\ served' = IF i <= served THEN served - 1 ELSE served

\* The oldest request not being served starts or resumes.
Admit ==
    /\ served < Len(queue)
    /\ served < MaxServed
    /\ served' = served + 1
    /\ UNCHANGED queue

\* The youngest request being served gives way to an older one.
Suspend ==
    /\ served > 1
    /\ served' = served - 1
    /\ UNCHANGED queue

QueueNext ==
    \/ \E id \in Ids : Arrive(id)
    \/ \E i \in DOMAIN queue : Leave(i)
    \/ Admit
    \/ Suspend

QueueSpec == QueueInit /\ [][QueueNext]_queueVars
=============================================================================
