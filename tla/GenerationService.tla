------------------------- MODULE GenerationService -------------------------
(***************************************************************************)
(* What whoever calls the engine client may count on, whatever goes on in  *)
(* the sockets, the engine and the other tasks: a call of generate() gives *)
(* the outputs made for its request once each and ends after the last one; *)
(* it gives nothing more once the request is aborted; it raises only when  *)
(* the client is down, and is refused only then or when the engine is gone.*)
(***************************************************************************)
EXTENDS Integers

CONSTANT Ids

VARIABLES
    call,     \* the call of generate() for each id: "new", "open", "finished",
              \*   "stopped", "failed", "cancelled" or "refused"
    made,     \* how many outputs were made for it
    given,    \* how many the call has given to its consumer
    ended,    \* the ids whose final output was given
    aborted,  \* the ids aborted from outside the call
    gone,     \* the engine has ended
    down      \* the client is dead or closing

generationVars == <<call, made, given, ended, aborted, gone, down>>

GenerationInit ==
    /\ call = [id \in Ids |-> "new"]
    /\ made = [id \in Ids |-> 0] /\ given = [id \in Ids |-> 0]
    /\ ended = {} /\ aborted = {}
    /\ gone = FALSE /\ down = FALSE

Ask(id) ==
    /\ call[id] = "new"
    /\ \/ call' = [call EXCEPT ![id] = "open"]
       \/ (gone \/ down) /\ call' = [call EXCEPT ![id] = "refused"]
    /\ UNCHANGED <<made, given, ended, aborted, gone, down>>

\* Outputs may still be made for a call that is over; none after the final one.
Make(some) ==
    /\ made' = [id \in Ids |-> IF id \in some THEN made[id] + 1 ELSE made[id]]
    /\ \A id \in some : call[id] \notin {"new", "refused"} /\ id \notin ended
    /\ UNCHANGED <<call, given, ended, aborted, gone, down>>

Give(id) ==
    /\ call[id] = "open"
    /\ id \notin ended /\ id \notin aborted
    /\ given[id] < made[id]
    /\ given' = [given EXCEPT ![id] = @ + 1]
    /\ \/ UNCHANGED ended
       \/ given[id] + 1 = made[id] /\ ended' = ended \cup {id}
    /\ UNCHANGED <<call, made, aborted, gone, down>>

AbortCall(id) ==
    /\ call[id] = "open"
    /\ id \notin ended
    /\ aborted' = aborted \cup {id}
    /\ UNCHANGED <<call, made, given, ended, gone, down>>

End(id) ==
    /\ call[id] = "open"
    /\ \/ id \in ended /\ call' = [call EXCEPT ![id] = "finished"]
       \/ id \in aborted /\ call' = [call EXCEPT ![id] = "stopped"]
       \/ down /\ id \notin ended /\ call' = [call EXCEPT ![id] = "failed"]
       \/ call' = [call EXCEPT ![id] = "cancelled"]  \* by its consumer or the close
    /\ UNCHANGED <<made, given, ended, aborted, gone, down>>

Fail ==
    /\ gone' \in {gone, TRUE} /\ down' \in {down, TRUE}
    /\ UNCHANGED <<call, made, given, ended, aborted>>

GenerationNext ==
    \/ Fail
    \/ \E some \in SUBSET Ids : Make(some)
    \/ \E id \in Ids : Ask(id) \/ Give(id) \/ AbortCall(id) \/ End(id)

GenerationSpec == GenerationInit /\ [][GenerationNext]_generationVars
=============================================================================
