--------------------------- MODULE PromiseManager ---------------------------
(***************************************************************************)
(* One RpcPromiseManager (fastapi_ws_rpc/_internal/promise_manager.py) and *)
(* the coroutines that use it: RpcChannel.call / async_call on one side,   *)
(* the reader that hands responses to store_response on the other.         *)
(*                                                                         *)
(* asyncio runs one task at a time and switches only at an await, so one   *)
(* action is the code between two awaits.  A call is a task: it creates    *)
(* its promise, is suspended in send_raw, then in asyncio.wait, and wakes  *)
(* up some time after the event it waits for.  Everything that can run in  *)
(* between (another call, the reader, the periodic clean-up, close) is an  *)
(* action that may interleave.                                             *)
(*                                                                         *)
(* A response is represented by the call whose request it answers, so that *)
(* a response that reaches another call can be told apart.                 *)
(***************************************************************************)
EXTENDS Integers, FiniteSets

CONSTANTS
    Calls,          \* the call() tasks
    Ids,            \* request ids
    LongIds,        \* the ids longer than MAX_REQUEST_ID_LENGTH
    None,           \* Python's None; also an absent dict entry
    MaxPending,     \* max_pending_requests
    Ttl,            \* promise_ttl
    SweepInterval,  \* PROMISE_CLEANUP_INTERVAL
    Cooldown,       \* REQUEST_ID_COOLDOWN
    MaxRecent,      \* MAX_RECENT_IDS
    Timeouts,       \* the timeouts callers pass; None waits forever
    Reuse,          \* FALSE: every id is fresh, as gen_uid() makes them
                    \* TRUE: async_call(call_id=...) may repeat an id
    MaxCopies,      \* how many responses a peer may send for one request
    MaxDelay,       \* longest time from creating a promise to a response
    MaxTime         \* bound on the clock

ASSUME SetsAssumption ==
    /\ LongIds \subseteq Ids
    /\ IsFiniteSet(Ids)
    /\ None \notin Calls
    /\ None \notin Ids
    /\ None \notin Int
    /\ Reuse \in BOOLEAN

ASSUME NumbersAssumption ==
    /\ MaxPending \in Nat
    /\ Ttl \in Nat
    /\ SweepInterval \in Nat \ {0}
    /\ Cooldown \in Nat
    /\ MaxRecent \in Nat
    /\ Timeouts \subseteq Nat \union {None}
    /\ MaxCopies \in Nat
    /\ MaxDelay \in Nat
    /\ MaxTime \in Nat

VARIABLES
    now,        \* time.time()
    nextSweep,  \* when _periodic_cleanup's sleep ends
    requests,   \* _requests: id -> the call whose promise is stored
    responses,  \* _responses: id -> the response stored
    recent,     \* _recently_used_ids: id -> time of last use
    closed,     \* the _closed event
    pc,         \* where each call is
    idOf,       \* promise.call_id
    born,       \* promise.created_at
    event,      \* promise's asyncio.Event
    deadline,   \* when asyncio.wait gives up; None is never
    wire,       \* responses received to each call; None: not transmitted
    got         \* what wait_for_response returned

mgr == <<requests, responses, recent, closed>>
task == <<pc, idOf, born, event, deadline, got>>
vars == <<now, nextSweep, mgr, task, wire>>

Pending == {i \in Ids : requests[i] # None}
RecentIds == {i \in Ids : recent[i] # None}

InSend == {"sending", "sent"}
Failed == {"closed", "timeout", "rejected", "backpressure", "senderror",
           "cancelled"}
Done == Failed \union {"ok"}
States == {"new", "waiting"} \union InSend \union Done

Started == {c \in Calls : idOf[c] # None}

Init ==
    /\ now = 0
    /\ nextSweep = SweepInterval
    /\ requests = [i \in Ids |-> None]
    /\ responses = [i \in Ids |-> None]
    /\ recent = [i \in Ids |-> None]
    /\ closed = FALSE
    /\ pc = [c \in Calls |-> "new"]
    /\ idOf = [c \in Calls |-> None]
    /\ born = [c \in Calls |-> 0]
    /\ event = [c \in Calls |-> FALSE]
    /\ deadline = [c \in Calls |-> None]
    /\ wire = [c \in Calls |-> None]
    /\ got = [c \in Calls |-> None]

-----------------------------------------------------------------------------
(* create_promise, called by async_call and followed, without an await, by *)
(* send_raw's own test of is_closed().                                     *)

(* Mutants of the two definitions below (see PROJECT.json).                *)
InCooldown_WhilePending(i) ==
    requests[i] # None /\ recent[i] # None /\ now - recent[i] < Cooldown
AtLimit_OffByOne == Cardinality(Pending) > MaxPending

(* gen_uid() never repeats an id; a caller that passes call_id may.        *)
IdChoice(i) == Reuse \/ \A c \in Started : idOf[c] # i

InCooldown(i) == recent[i] # None /\ now - recent[i] < Cooldown

AtLimit == Cardinality(Pending) >= MaxPending

(* Mutants of PurgeRecent: the ages are kept, the test is inverted.        *)
PurgeRecent_Ages(r) ==
    [i \in Ids |-> IF r[i] # None THEN r[i] - Cooldown ELSE None]
PurgeRecent_KeepsOld(r) ==
    IF Cardinality({i \in Ids : r[i] # None}) > MaxRecent
    THEN [i \in Ids |-> IF r[i] # None /\ r[i] <= now - Cooldown
                        THEN r[i] ELSE None]
    ELSE r

(* Above MAX_RECENT_IDS, only entries with v > now - cooldown are kept.    *)
PurgeRecent(r) ==
    IF Cardinality({i \in Ids : r[i] # None}) > MaxRecent
    THEN [i \in Ids |-> IF r[i] # None /\ r[i] > now - Cooldown
                        THEN r[i] ELSE None]
    ELSE r

(* The two ValueErrors before the back-pressure test.                      *)
RejectId(c, i) ==
    /\ pc[c] = "new"
    /\ IdChoice(i)
    /\ i \in LongIds \/ InCooldown(i)
    /\ pc' = [pc EXCEPT ![c] = "rejected"]
    /\ UNCHANGED <<now, nextSweep, mgr, idOf, born, event, deadline, got, wire>>

PassesIdChecks(c, i) ==
    /\ pc[c] = "new"
    /\ IdChoice(i)
    /\ i \notin LongIds
    /\ ~InCooldown(i)

Backpressure(c, i) ==
    /\ PassesIdChecks(c, i)
    /\ AtLimit
    /\ pc' = [pc EXCEPT ![c] = "backpressure"]
    /\ UNCHANGED <<now, nextSweep, mgr, idOf, born, event, deadline, got, wire>>

(* The id is past its cooldown but its promise is still pending.           *)
Collision(c, i) ==
    /\ PassesIdChecks(c, i)
    /\ ~AtLimit
    /\ requests[i] # None
    /\ pc' = [pc EXCEPT ![c] = "rejected"]
    /\ UNCHANGED <<now, nextSweep, mgr, idOf, born, event, deadline, got, wire>>

(* create_promise does not test _closed: on a closed channel the promise   *)
(* is stored and only then does send_raw raise RpcChannelClosedError.      *)
CreatePromise(c, i) ==
    /\ PassesIdChecks(c, i)
    /\ ~AtLimit
    /\ requests[i] = None
    /\ recent' = PurgeRecent([recent EXCEPT ![i] = now])
    /\ requests' = [requests EXCEPT ![i] = c]
    /\ idOf' = [idOf EXCEPT ![c] = i]
    /\ born' = [born EXCEPT ![c] = now]
    /\ pc' = [pc EXCEPT ![c] = IF closed THEN "closed" ELSE "sending"]
    /\ UNCHANGED <<now, nextSweep, responses, closed, event, deadline, got, wire>>

-----------------------------------------------------------------------------
(* send_raw: suspended in the semaphore or in socket.send.                 *)

(* The frame leaves.  The peer may answer before the task runs again.      *)
Transmit(c) ==
    /\ pc[c] = "sending"
    /\ pc' = [pc EXCEPT ![c] = "sent"]
    /\ wire' = [wire EXCEPT ![c] = 0]
    /\ UNCHANGED <<now, nextSweep, mgr, idOf, born, event, deadline, got>>

(* send_raw raises (back-pressure, socket error): async_call has no        *)
(* handler, so the promise stays where create_promise put it.              *)
SendFails(c) ==
    /\ pc[c] \in InSend
    /\ pc' = [pc EXCEPT ![c] = "senderror"]
    /\ UNCHANGED <<now, nextSweep, mgr, idOf, born, event, deadline, got, wire>>

(* send_raw returns and call() enters asyncio.wait with its timeout.       *)
StartWait(c, t) ==
    /\ pc[c] = "sent"
    /\ pc' = [pc EXCEPT ![c] = "waiting"]
    /\ deadline' = [deadline EXCEPT ![c] = IF t = None THEN None ELSE now + t]
    /\ UNCHANGED <<now, nextSweep, mgr, idOf, born, event, got, wire>>

(* The task that runs call() is cancelled in send_raw or in asyncio.wait;  *)
(* there is no try/finally, so the promise stays.                          *)
Cancel(c) ==
    /\ pc[c] \in InSend \union {"waiting"}
    /\ pc' = [pc EXCEPT ![c] = "cancelled"]
    /\ UNCHANGED <<now, nextSweep, mgr, idOf, born, event, deadline, got, wire>>

-----------------------------------------------------------------------------
(* The reader.                                                             *)

(* store_response for a response to call c, matched by id only.            *)
StoreResponse(c) ==
    LET i == idOf[c] IN
    /\ wire[c] # None /\ wire[c] < MaxCopies
    /\ now - born[c] <= MaxDelay
    /\ wire' = [wire EXCEPT ![c] = @ + 1]
    /\ IF requests[i] = None
       THEN UNCHANGED <<responses, event>>
       ELSE /\ responses' = [responses EXCEPT ![i] = c]
            /\ event' = [event EXCEPT ![requests[i]] = TRUE]
    /\ UNCHANGED <<now, nextSweep, requests, recent, closed,
                   pc, idOf, born, deadline, got>>

-----------------------------------------------------------------------------
(* wait_for_response after asyncio.wait.                                   *)

DeadlinePassed(c) == deadline[c] # None /\ now >= deadline[c]

(* Mutants of Awake: one of the three sources is not waited for.           *)
Awake_NoEvent(c) ==
    pc[c] = "waiting" /\ (closed \/ DeadlinePassed(c))
Awake_NoClosed(c) ==
    pc[c] = "waiting" /\ (event[c] \/ DeadlinePassed(c))
Awake_NoTimeout(c) == pc[c] = "waiting" /\ (event[c] \/ closed)

Awake(c) ==
    /\ pc[c] = "waiting"
    /\ \/ event[c]
       \/ closed
       \/ DeadlinePassed(c)

ClearSavedCall(i) ==
    /\ requests' = [requests EXCEPT ![i] = None]
    /\ responses' = [responses EXCEPT ![i] = None]

(* Mutant: a call that is late does not look for its response.             *)
HasResponse_InTime(c) == responses[idOf[c]] # None /\ ~DeadlinePassed(c)

HasResponse(c) == responses[idOf[c]] # None

ReturnResponse(c) ==
    /\ Awake(c)
    /\ HasResponse(c)
    /\ got' = [got EXCEPT ![c] = responses[idOf[c]]]
    /\ pc' = [pc EXCEPT ![c] = "ok"]
    /\ ClearSavedCall(idOf[c])
    /\ UNCHANGED <<now, nextSweep, recent, closed, idOf, born, event, deadline,
                   wire>>

UnansweredOutcome_AlwaysClosed == "closed"

(* RpcChannelClosedError or TimeoutError: is_closed() alone decides.       *)
UnansweredOutcome == IF closed THEN "closed" ELSE "timeout"

RaiseUnanswered(c) ==
    /\ Awake(c)
    /\ ~HasResponse(c)
    /\ pc' = [pc EXCEPT ![c] = UnansweredOutcome]
    /\ ClearSavedCall(idOf[c])
    /\ UNCHANGED <<now, nextSweep, recent, closed, idOf, born, event, deadline,
                   got, wire>>

Wake(c) == ReturnResponse(c) \/ RaiseUnanswered(c)

-----------------------------------------------------------------------------
(* The manager's own task, close() and the clock.                          *)

(* Mutants of Expired: wrong bound, wrong comparison.                      *)
Expired_Late == {i \in Pending : now - born[requests[i]] > Ttl + SweepInterval}
Expired_Early == {i \in Pending : now - born[requests[i]] >= Ttl}

Expired == {i \in Pending : now - born[requests[i]] > Ttl}

(* One round of _periodic_cleanup.  The promises removed are not set, so   *)
(* a call still waiting on one of them is not told.                        *)
Sweep ==
    /\ ~closed
    /\ now >= nextSweep
    /\ requests' = [i \in Ids |-> IF i \in Expired THEN None ELSE requests[i]]
    /\ responses' = [i \in Ids |-> IF i \in Expired THEN None ELSE responses[i]]
    /\ nextSweep' = now + SweepInterval
    /\ UNCHANGED <<now, recent, closed, task, wire>>

Close ==
    /\ closed' = TRUE
    /\ event' = [c \in Calls |-> event[c] \/ \E i \in Ids : requests[i] = c]
    /\ requests' = [i \in Ids |-> None]
    /\ responses' = [i \in Ids |-> None]
    /\ UNCHANGED <<now, nextSweep, recent, pc, idOf, born, deadline, got, wire>>

(* The clock advances only while the clean-up is not overdue: the event    *)
(* loop keeps up with its timers.  Calls may lag behind theirs.            *)
Tick ==
    /\ now < MaxTime
    /\ closed \/ now < nextSweep
    /\ now' = now + 1
    /\ UNCHANGED <<nextSweep, mgr, task, wire>>

CallStep(c) ==
    \/ \E i \in Ids : \/ RejectId(c, i)
                      \/ Backpressure(c, i)
                      \/ Collision(c, i)
                      \/ CreatePromise(c, i)
    \/ Transmit(c)
    \/ SendFails(c)
    \/ \E t \in Timeouts : StartWait(c, t)
    \/ Cancel(c)
    \/ Wake(c)

Next ==
    \/ \E c \in Calls : CallStep(c) \/ StoreResponse(c)
    \/ Sweep
    \/ Close
    \/ Tick

Spec == Init /\ [][Next]_vars

(* A task whose future is done is put on the loop's ready queue and run in *)
(* FIFO order; timers fire when due and real time passes.                  *)
Fairness ==
    /\ \A c \in Calls : WF_vars(Wake(c))
    /\ WF_vars(Sweep)
    /\ WF_vars(Tick)

FairSpec == Spec /\ Fairness

-----------------------------------------------------------------------------
(* Properties.                                                             *)

(* Type invariant.                                                         *)
TypeOK ==
    /\ now \in Nat
    /\ nextSweep \in Nat
    /\ requests \in [Ids -> Calls \union {None}]
    /\ responses \in [Ids -> Calls \union {None}]
    /\ recent \in [Ids -> Nat \union {None}]
    /\ closed \in BOOLEAN
    /\ pc \in [Calls -> States]
    /\ idOf \in [Calls -> Ids \union {None}]
    /\ born \in [Calls -> Nat]
    /\ event \in [Calls -> BOOLEAN]
    /\ deadline \in [Calls -> Nat \union {None}]
    /\ wire \in [Calls -> Nat \union {None}]
    /\ got \in [Calls -> Calls \union {None}]

(* However calls, failures, clean-ups and closes interleave, _requests     *)
(* never exceeds max_pending_requests: the test in create_promise and the  *)
(* insertion are not separated by an await.                                *)
PendingBounded == Cardinality(Pending) <= MaxPending

(* No lost wake-up: whenever a response is stored, a promise is pending    *)
(* under its id and that promise's event is set, so its waiter will look.  *)
StoredResponseIsSignalled ==
    \A i \in Ids : responses[i] # None =>
        requests[i] # None /\ event[requests[i]]

(* Two requests with one id are created at least REQUEST_ID_COOLDOWN       *)
(* apart, although the table that remembers ids is purged at               *)
(* MAX_RECENT_IDS.  The code stamps an id when its promise is created and  *)
(* not, as the comment on REQUEST_ID_COOLDOWN says, when its request is    *)
(* completed: the id of a call that was pending for that long is free as   *)
(* soon as the call ends.                                                  *)
CooldownSeparatesReuse ==
    \A c, d \in Started :
        c # d /\ idOf[c] = idOf[d] =>
            born[c] - born[d] >= Cooldown \/ born[d] - born[c] >= Cooldown

(* What the cooldown is for: if no response is later than the cooldown, a  *)
(* response is only ever stored for the request it answers, even when ids  *)
(* are repeated.                                                           *)
LateAnswersNotMisfiled ==
    MaxDelay < Cooldown =>
        \A i \in Ids : responses[i] # None => responses[i] = requests[i]

(* With fresh ids, wait_for_response returns only the response to the      *)
(* caller's own request.                                                   *)
OwnAnswer ==
    ~Reuse => \A c \in Calls : got[c] # None => got[c] = c

(* With fresh ids, on an open channel, a call that has not outlived the    *)
(* promise TTL still has its promise, so its response will not be dropped: *)
(* no clean-up, failure or completion of another call removes it.          *)
YoungCallIsAnswerable ==
    ~Reuse => \A c \in Calls :
        /\ pc[c] \in InSend \union {"waiting"}
        /\ ~closed
        /\ now - born[c] <= Ttl
        => requests[idOf[c]] = c

(* With fresh ids, a response that was stored for a waiting call is lost   *)
(* only to close(), to the clean-up after the TTL or to a cancellation:    *)
(* until the task runs, which may be after its timeout, no other call,     *)
(* answer or clean-up takes it, and then the call returns it.              *)
StoredResponseIsReturned ==
    [][~Reuse => \A c \in Calls :
          /\ pc[c] = "waiting" /\ responses[idOf[c]] # None
          /\ ~closed' /\ now - born[c] <= Ttl
          => \/ pc'[c] = "waiting" /\ responses'[idOf[c]] = responses[idOf[c]]
             \/ pc'[c] = "ok" /\ got'[c] = responses[idOf[c]]
             \/ pc'[c] = "cancelled"]_vars

(* Promises of cancelled calls and failed sends are not cleared by their   *)
(* task, but on an open channel none stays longer than the TTL and one     *)
(* clean-up interval.                                                      *)
LeakIsBounded ==
    ~closed => \A i \in Pending :
        now - born[requests[i]] <= Ttl + SweepInterval

(* wait_for_response never leaves its own promise behind: a call that      *)
(* returned or timed out owns no pending promise.                          *)
FinishedWaitHoldsNoPromise ==
    \A i \in Pending : pc[requests[i]] \notin {"ok", "timeout"}

(* Every wait ends, with a response, an error or a timeout: close()        *)
(* releases each task suspended in asyncio.wait, also one whose promise    *)
(* the clean-up had removed; a stored response wakes the call that owns    *)
(* it; a timeout ends the wait that has one, unless the clock's bound      *)
(* comes first.                                                            *)
WaitsEnd ==
    \A c \in Calls :
        /\ pc[c] = "waiting"
        /\ \/ closed
           \/ event[c]
           \/ deadline[c] # None /\ deadline[c] <= MaxTime
        ~> pc[c] \in Done

=============================================================================
