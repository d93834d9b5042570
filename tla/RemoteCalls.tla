---------------------------- MODULE RemoteCalls -----------------------------
(***************************************************************************)
(* What two peers that call each other promise, without frames, readers or *)
(* a connection: the method of a call runs at most once, and only for a    *)
(* call that was made; a call ends once; it ends answered only after its   *)
(* own method gave an answer.  That its caller gave up does not keep the   *)
(* method from running.                                                    *)
(***************************************************************************)
CONSTANT Calls

VARIABLES
    outcome,    \* what became of the call on its caller's side
    execution   \* of its method: not begun, running, or what it gave

vars == <<outcome, execution>>

Gifts == {"answer", "empty", "noResponse"}

Init ==
    /\ outcome = [c \in Calls |-> "unused"]
    /\ execution = [c \in Calls |-> "none"]

Moves(c, from, to) ==
    /\ outcome[c] = from
    /\ outcome' = [outcome EXCEPT ![c] = to]
    /\ UNCHANGED execution

Executes(c, from, to) ==
    /\ execution[c] = from
    /\ execution' = [execution EXCEPT ![c] = to]
    /\ UNCHANGED outcome

Make(c) == Moves(c, "unused", "waiting")

Run(c) == outcome[c] # "unused" /\ Executes(c, "none", "running")

Give(c, how) == Executes(c, "running", how)

Answer(c) == execution[c] = "answer" /\ Moves(c, "waiting", "answered")

GiveUp(c) == Moves(c, "waiting", "failed")

Next ==
    \E c \in Calls :
        \/ Make(c)
        \/ Run(c)
        \/ \E how \in Gifts : Give(c, how)
        \/ Answer(c)
        \/ GiveUp(c)

Spec == Init /\ [][Next]_vars

=============================================================================
