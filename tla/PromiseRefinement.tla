------------------------- MODULE PromiseRefinement --------------------------
(***************************************************************************)
(* The promise manager implements RpcCalls when ids are fresh, and the     *)
(* inductive invariant that this and the other theorems about it rest on.  *)
(***************************************************************************)
EXTENDS PromiseManager

PhaseOf(c) ==
    CASE pc[c] = "new" -> "idle"
      [] pc[c] \in InSend \union {"waiting"} -> "running"
      [] pc[c] \in {"ok", "timeout", "closed"} -> pc[c]
      [] OTHER -> "failed"

AnsweredCalls == {c \in Calls : wire[c] \notin {None, 0}}

RC == INSTANCE RpcCalls WITH
        phase <- [c \in Calls |-> PhaseOf(c)],
        answered <- AnsweredCalls,
        result <- got,
        open <- ~closed

(* With fresh ids every behaviour of the promise manager and its callers   *)
(* is one that RpcCalls allows: no call gets another call's answer, two    *)
(* outcomes, a closed-error on an open channel or a timeout on a closed    *)
(* one.                                                                    *)
ImplementsRpcCalls == RC!Spec

-----------------------------------------------------------------------------
(* The conjuncts of the inductive invariant.                               *)

(* A call has an id once create_promise succeeded, and only then is on the *)
(* wire or suspended; it is on the wire only after it was transmitted.   *)
CallsHaveIds ==
    /\ \A c \in Calls : pc[c] \in InSend \union {"waiting", "ok", "timeout"}
                          => idOf[c] # None
    /\ \A c \in Calls : wire[c] # None => idOf[c] # None
    /\ \A c \in Calls : pc[c] = "new" => idOf[c] = None
    /\ \A c \in Calls : pc[c] = "sending" => wire[c] = None

(* _requests[i] is the promise of a call with id i that has not returned.  *)
RequestsAreKeyed ==
    \A i \in Pending :
        /\ idOf[requests[i]] = i
        /\ pc[requests[i]] \notin {"new", "ok", "timeout", "rejected",
                                   "backpressure"}

(* A stored response answers some call with that id and was received.      *)
ResponsesAreKeyed ==
    \A i \in Ids : responses[i] # None =>
        /\ idOf[responses[i]] = i
        /\ wire[responses[i]] \notin {None, 0}

FreshIds ==
    ~Reuse => \A c, d \in Started : idOf[c] = idOf[d] => c = d

BornInThePast == \A c \in Calls : born[c] <= now

(* recent still shows the last use of an id, or that use is long past.     *)
RecentRemembers ==
    \A c \in Started :
        \/ recent[idOf[c]] # None /\ born[c] <= recent[idOf[c]]
        \/ now - born[c] >= Cooldown

RecentInThePast == \A i \in Ids : recent[i] # None => recent[i] <= now

(* The promise stored under an id is the newest made with it.              *)
PendingIsNewest ==
    \A i \in Pending : \A c \in Started :
        idOf[c] = i => born[c] <= born[requests[i]]

(* The next clean-up comes before any promise is too old.                  *)
SweepIsNear ==
    ~closed =>
        /\ now <= nextSweep
        /\ nextSweep - now <= SweepInterval
        /\ \A i \in Pending :
              nextSweep - born[requests[i]] <= Ttl + SweepInterval

IndInv ==
    /\ TypeOK
    /\ CallsHaveIds
    /\ RequestsAreKeyed
    /\ ResponsesAreKeyed
    /\ StoredResponseIsSignalled
    /\ FreshIds
    /\ OwnAnswer
    /\ BornInThePast
    /\ RecentInThePast
    /\ RecentRemembers
    /\ CooldownSeparatesReuse
    /\ PendingIsNewest
    /\ LateAnswersNotMisfiled
    /\ YoungCallIsAnswerable
    /\ SweepIsNear

=============================================================================
