------------------------------ MODULE RpcCalls ------------------------------
(***************************************************************************)
(* What RpcChannel.call promises its callers, without ids, tables, timers  *)
(* or clean-up: a call has one outcome; it returns the answer to its own   *)
(* request, and only after that came; it reports a closed channel only if the channel   *)
(* is closed and a timeout only if it is not.                              *)
(***************************************************************************)
CONSTANTS Calls, None

VARIABLES
    phase,      \* where each call is, or how it ended
    answered,   \* the calls whose response has reached the channel
    result,     \* the call whose response each call returned
    open        \* the channel has not been closed

vars == <<phase, answered, result, open>>

Init ==
    /\ phase = [c \in Calls |-> "idle"]
    /\ answered = {}
    /\ result = [c \in Calls |-> None]
    /\ open = TRUE

Moves(c, from, o) ==
    /\ phase[c] = from
    /\ phase' = [phase EXCEPT ![c] = o]
    /\ UNCHANGED <<answered, open>>

(* No response is returned.                                                *)
Finish(c, from, o) == Moves(c, from, o) /\ UNCHANGED result

(* The request is accepted.                                                *)
Start(c) == Finish(c, "idle", "running")

(* It is refused: limit reached, bad id, or the channel is closed.         *)
Refuse(c) == \/ Finish(c, "idle", "failed")
             \/ ~open /\ Finish(c, "idle", "closed")

Answer(c) ==
    /\ phase[c] # "idle"
    /\ answered' = answered \union {c}
    /\ UNCHANGED <<phase, result, open>>

Return(c) ==
    /\ c \in answered
    /\ Moves(c, "running", "ok")
    /\ result' = [result EXCEPT ![c] = c]

Expire(c) == open /\ Finish(c, "running", "timeout")

Abort(c) == ~open /\ Finish(c, "running", "closed")

(* The send fails or the caller is cancelled.                              *)
Fail(c) == Finish(c, "running", "failed")

Shut == open' = FALSE /\ UNCHANGED <<phase, answered, result>>

Next ==
    \/ \E c \in Calls : \/ Start(c) \/ Refuse(c) \/ Answer(c) \/ Return(c)
                        \/ Expire(c) \/ Abort(c) \/ Fail(c)
    \/ Shut

Spec == Init /\ [][Next]_vars

=============================================================================
