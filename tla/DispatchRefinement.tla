------------------------- MODULE DispatchRefinement -------------------------
(***************************************************************************)
(* Two peers with their readers, frames and connection implement           *)
(* RemoteCalls.                                                            *)
(***************************************************************************)
EXTENDS Dispatch

ExecutionOf(c) ==
    IF reply[c] # "none" THEN reply[c]
    ELSE IF \E p \in Peers : handles[p] = c THEN "running" ELSE "none"

RC == INSTANCE RemoteCalls WITH
        outcome <- status,
        execution <- [c \in Calls |-> ExecutionOf(c)]

(* However requests, answers, time-outs, errors and lost connections       *)
(* interleave, a method runs at most once for a call, and a call is ended  *)
(* once and answered only with what its own method gave.                   *)
ImplementsRemoteCalls == RC!Spec

=============================================================================
