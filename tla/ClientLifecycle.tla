-------------------------- MODULE ClientLifecycle --------------------------
(***************************************************************************)
(* How a WebSocketRpcClient opens, loses, replaces and closes its          *)
(* connections (fastapi_ws_rpc/websocket_rpc_client.py), with the          *)
(* keep-alive of each connection (_internal/rpc_keepalive.py).             *)
(*                                                                         *)
(* The owner runs "async with client": __aenter__ connects, __aexit__      *)
(* closes.  Other tasks may call close() at any moment.  The reader and    *)
(* the keep-alive of a connection each create at most one task, which runs *)
(* close() or _attempt_reconnection().  All of them share self.ws,         *)
(* self.channel and self._keepalive (one pointer here, cur, because they   *)
(* are assigned without an await in between), self._read_task and the      *)
(* flags.  An action is what a task runs between two awaits, so a pointer  *)
(* read after an await may have moved.                                     *)
(***************************************************************************)
EXTENDS Naturals

CONSTANTS
    Owner,          \* the task of the async with block
    Closers,        \* other tasks that call close()
    None,
    MaxConns,       \* bound: connections opened in a behaviour
    MaxAttempts,    \* max_reconnect_attempts
    FloatExponents, \* 2.0 ** n is finite for n below it: 1024
    MaxTries,       \* attempts of the retry policy around the first connect
    MaxFailures,    \* max_consecutive_failures of the keep-alive
    Configs         \* the configurations considered

ASSUME BoundsAssumption ==
    /\ MaxConns \in Nat \ {0}
    /\ MaxAttempts \in Nat \ {0}
    /\ FloatExponents \in Nat \ {0}
    /\ MaxTries \in Nat \ {0}
    /\ MaxFailures \in Nat \ {0}

ASSUME ConfigAssumption ==
    Configs \subseteq [autoReconnect : BOOLEAN, readTimeout : BOOLEAN,
                       keepalive : {"off", "protocol", "rpc"}]

Conns == 1..MaxConns
ReaderTask(c) == <<"reader", c>>
KeepaliveTask(c) == <<"keepalive", c>>
Spawned == {ReaderTask(c) : c \in Conns} \union {KeepaliveTask(c) : c \in Conns}
Tasks == {Owner} \union Closers \union Spawned

ASSUME TasksAssumption ==
    /\ Owner \notin Closers
    /\ ({Owner} \union Closers) \intersect Spawned = {}
    /\ None \notin Tasks

VARIABLES
    config,         \* the client's configuration; never changes
    closing,        \* _closing
    event,          \* _connection_closed is set
    target,         \* the connection the close() under way found; else 0
    closeCode,      \* _close_code: may a connection closed so be retried?
    reconnector,    \* the task that set _is_reconnecting; None while False
    attempt,        \* the attempt each task has reached
    undoing,        \* the tasks inside _cleanup_partial_init
    cur,            \* the connection ws, channel and _keepalive belong to
    readTask,       \* the connection whose reader is _read_task; 0 is None
    conn,           \* each connection: socket, channel, reader, keep-alive
    pc              \* where each task is

flags == <<closing, target, event, closeCode>>
vars == <<config, flags, reconnector, attempt, undoing, cur, readTask, conn, pc>>

Connection ==
    [socket : {"none", "up", "silent", "lost", "closed"},
     channel : {"none", "open", "closed"},
     reader : {"none", "running", "ended", "failed", "escaped"},
     reads : 0..MaxConns,           \* the socket its recv() waits on
     keepalive : {"none", "running", "ended", "failed"},
     failures : 0..MaxFailures]

Unused == [socket |-> "none", channel |-> "none", reader |-> "none",
           reads |-> 0, keepalive |-> "none", failures |-> 0]

Opened(c) ==
    [socket |-> "up", channel |-> "open", reader |-> "running", reads |-> c,
     keepalive |-> IF config.keepalive = "off" THEN "none" ELSE "running",
     failures |-> 0]

Init ==
    /\ config \in Configs
    /\ closing = FALSE
    /\ target = 0
    /\ event = FALSE
    /\ closeCode = "none"
    /\ reconnector = None
    /\ attempt = [t \in Tasks |-> IF t = Owner THEN 1 ELSE 0]
    /\ undoing = {}
    /\ cur = 0
    /\ readTask = 0
    /\ conn = [c \in Conns |-> Unused]
    /\ pc = [t \in Tasks |-> IF t = Owner THEN "connecting" ELSE "idle"]

Goto(t, s) == pc' = [pc EXCEPT ![t] = s]

(* The connections with one part of c changed.  The variables of a task    *)
(* that ended are forgotten.                                               *)
WithChannelClosed(c, socket) ==
    [conn EXCEPT ![c] = [@ EXCEPT !.channel = "closed", !.socket = socket]]

WithKeepalive(c, s) ==
    [conn EXCEPT ![c] = [@ EXCEPT !.keepalive = s, !.failures = 0]]

WithReader(c, s) == [conn EXCEPT ![c] = [@ EXCEPT !.reader = s, !.reads = 0]]

(* The socket accepts data: a peer that went silent is not noticed yet.    *)
Writable(c) == conn[c].socket \in {"up", "silent"}

-----------------------------------------------------------------------------
(* _attempt_reconnection and the retry policy of __aenter__                *)

(* Mutant: the flag is not tested.                                         *)
MayReconnect_Unchecked == TRUE

MayReconnect == reconnector = None

BeginReconnection(t) ==
    /\ pc[t] = "reconnect"
    /\ MayReconnect
    /\ reconnector' = t
    /\ attempt' = [attempt EXCEPT ![t] = 1]
    /\ Goto(t, "sleep")
    /\ UNCHANGED <<config, flags, undoing, cur, readTask, conn>>

SkipReconnection(t) ==
    /\ pc[t] = "reconnect"
    /\ ~MayReconnect
    /\ Goto(t, "done")
    /\ UNCHANGED <<config, flags, reconnector, attempt, undoing, cur, readTask,
                   conn>>

(* The back-off, or tenacity's wait, is over.                              *)
Wake(t) ==
    /\ pc[t] = "sleep"
    /\ Goto(t, "connecting")
    /\ UNCHANGED <<config, flags, reconnector, attempt, undoing, cur, readTask,
                   conn>>

(* The task ends, and its loop variable with it.                           *)
Forgotten(t) == attempt' = [attempt EXCEPT ![t] = 0]

Limit(t) == IF t = Owner THEN MaxTries ELSE MaxAttempts

(* The next back-off, reconnect_delay * (2 ** attempt), is computed before  *)
(* it is capped: a power of two that no float holds is an OverflowError,   *)
(* which leaves the loop outside its try statement.  tenacity catches it.  *)
(* Mutant: the exponent of the attempt after the next.                     *)
DelayIsFinite_OneMore(t) == t = Owner \/ attempt[t] + 1 < FloatExponents

DelayIsFinite(t) == t = Owner \/ attempt[t] < FloatExponents

(* A task ends, whether close() or the reconnection returns or raises; in  *)
(* a reconnection the finally clause follows.                              *)
Leave(t) ==
    /\ Goto(t, "done")
    /\ reconnector' = IF t = reconnector THEN None ELSE reconnector

(* __connect__ raised: try again, or give up.  A reconnection gives up by  *)
(* calling close(); __aenter__ passes the exception on.                    *)
TryAgain(t) ==
    /\ attempt[t] < Limit(t)
    /\ DelayIsFinite(t)
    /\ attempt' = [attempt EXCEPT ![t] = @ + 1]
    /\ Goto(t, "sleep")
    /\ UNCHANGED reconnector

Overflow(t) ==
    /\ attempt[t] < Limit(t)
    /\ ~DelayIsFinite(t)
    /\ Forgotten(t)
    /\ Leave(t)

GiveUp(t) ==
    /\ Goto(t, IF t = Owner THEN "refused" ELSE "close")
    /\ Forgotten(t)
    /\ UNCHANGED reconnector

ConnectRaised(t, final) ==
    \/ ~final /\ (TryAgain(t) \/ Overflow(t))
    \/ (final \/ attempt[t] >= Limit(t)) /\ GiveUp(t)

-----------------------------------------------------------------------------
(* __connect__                                                             *)

(* Refused, lost in the handshake, or a subprotocol nobody asked for: the  *)
(* error may be one that the caller does not retry.                        *)
ConnectFails(t) ==
    /\ pc[t] = "connecting"
    /\ \E final \in BOOLEAN : ConnectRaised(t, final)
    /\ UNCHANGED <<config, flags, undoing, cur, readTask, conn>>

(* _initialize_rpc_layer and _start_background_tasks up to the first await.*)
(* What the pointers referred to is left as it is.                         *)
ConnectSucceeds(t) ==
    /\ pc[t] = "connecting"
    /\ cur < MaxConns
    /\ cur' = cur + 1
    /\ readTask' = cur + 1
    /\ conn' = [conn EXCEPT ![cur + 1] = Opened(cur + 1)]
    /\ Goto(t, "verifying")
    /\ UNCHANGED <<config, flags, reconnector, attempt, undoing>>

(* wait_on_rpc_ready returns: a ping was answered, or five of them failed  *)
(* in a way that is only counted.  Then reset_failures().                  *)
Verified(t) ==
    /\ pc[t] = "verifying"
    /\ conn' = [conn EXCEPT ![cur].failures = 0]
    /\ Goto(t, "greeting")
    /\ UNCHANGED <<config, flags, reconnector, attempt, undoing, cur, readTask>>

(* A ping on a broken socket raises ConnectionClosed, which is not counted *)
(* but leads to _cleanup_partial_init; its ws.close() is already useless.  *)
VerificationRaises(t) ==
    /\ pc[t] = "verifying"
    /\ conn[cur].channel = "open"
    /\ ~Writable(cur)
    /\ undoing' = undoing \union {t}
    /\ conn' = [conn EXCEPT ![cur].socket = "closed"]
    /\ Goto(t, "channel")
    /\ UNCHANGED <<config, flags, reconnector, attempt, cur, readTask>>

(* The on_connect callbacks ended.  A reconnection resets the flags.       *)
Connected(t) ==
    /\ pc[t] = "greeting"
    /\ IF t = Owner
       THEN /\ Goto(t, "using")
            /\ UNCHANGED <<flags, reconnector>>
       ELSE /\ event' = FALSE
            /\ closing' = FALSE
            /\ target' = 0
            /\ closeCode' = "none"
            /\ reconnector' = None
            /\ Goto(t, "done")
    /\ Forgotten(t)
    /\ UNCHANGED <<config, undoing, cur, readTask, conn>>

-----------------------------------------------------------------------------
(* close(), _cleanup_partial_init and cancel_tasks                         *)

CallClose(t) ==
    /\ \/ t = Owner /\ pc[t] = "using"
       \/ t \in Closers /\ pc[t] = "idle"
    /\ Goto(t, "close")
    /\ UNCHANGED <<config, flags, reconnector, attempt, undoing, cur, readTask,
                   conn>>

SkipClose(t) ==
    /\ pc[t] = "close"
    /\ closing
    /\ Leave(t)
    /\ UNCHANGED <<config, flags, attempt, undoing, cur, readTask, conn>>

(* Mutant: the event is set only after the clean-up.                       *)
EventOnClose_Late == event

EventOnClose == TRUE

(* Set _closing and the event and start closing the socket.                *)
StartClose(t) ==
    /\ pc[t] = "close"
    /\ ~closing
    /\ closing' = TRUE
    /\ target' = cur
    /\ event' = EventOnClose
    /\ conn' = IF cur = 0 THEN conn ELSE [conn EXCEPT ![cur].socket = "closed"]
    /\ Goto(t, "channel")
    /\ UNCHANGED <<config, closeCode, reconnector, attempt, undoing, cur,
                   readTask>>

(* The socket is closed.  close() then runs channel.on_disconnect(), which *)
(* closes the channel and waits for the callbacks; a partial connection    *)
(* only has its channel closed.                                            *)
CloseChannel(t) ==
    /\ pc[t] = "channel"
    /\ IF cur # 0 /\ conn[cur].channel = "open"
       THEN /\ conn' = WithChannelClosed(cur, IF t \in undoing THEN "closed"
                                                  ELSE conn[cur].socket)
            /\ Goto(t, IF t \in undoing THEN "keepalive" ELSE "callbacks")
       ELSE /\ Goto(t, "keepalive")
            /\ UNCHANGED conn
    /\ UNCHANGED <<config, flags, reconnector, attempt, undoing, cur, readTask>>

(* The callbacks ended; channel.close() has no effect unless self.channel  *)
(* is another one by now.                                                  *)
CallbacksEnd(t) ==
    /\ pc[t] = "callbacks"
    /\ conn' = IF conn[cur].channel = "open"
               THEN WithChannelClosed(cur, "closed")
               ELSE conn
    /\ Goto(t, "keepalive")
    /\ UNCHANGED <<config, flags, reconnector, attempt, undoing, cur, readTask>>

(* cancel_tasks returned or raised, in __connect__ or in close().          *)
TasksCancelled(t, final) ==
    IF t \in undoing
    THEN /\ undoing' = undoing \ {t}
         /\ ConnectRaised(t, final)
    ELSE /\ Leave(t)
         /\ UNCHANGED <<attempt, undoing>>

(* Mutant: the keep-alive is forgotten.                                    *)
CurKeepalive_Forgotten == "none"

CurKeepalive == IF cur = 0 THEN "none" ELSE conn[cur].keepalive

CurReader == IF readTask = 0 THEN "none" ELSE conn[readTask].reader

(* RpcKeepalive.stop(): an exception that ended the keep-alive is raised   *)
(* again here, and the reader is then not cancelled.                       *)
StopKeepalive(t) ==
    /\ pc[t] = "keepalive"
    /\ \/ /\ CurKeepalive = "failed"
          /\ TasksCancelled(t, FALSE)
          /\ UNCHANGED conn
       \/ /\ CurKeepalive = "running"
          /\ conn' = WithKeepalive(cur, "ended")
          /\ Goto(t, "reader")
          /\ UNCHANGED <<reconnector, attempt, undoing>>
       \/ /\ CurKeepalive \in {"none", "ended"}
          /\ Goto(t, "reader")
          /\ UNCHANGED <<reconnector, attempt, undoing, conn>>
    /\ UNCHANGED <<config, flags, cur, readTask>>

(* cancel_reader_task: the reader ends, setting the event, and the caller  *)
(* waits for it; or it had failed, and its exception is raised again.      *)
CancelReader(t) ==
    /\ pc[t] = "reader"
    /\ \/ /\ CurReader = "running"
          /\ conn' = WithReader(readTask, "ended")
          /\ event' = TRUE
          /\ Goto(t, "join")
          /\ UNCHANGED <<reconnector, attempt, undoing, readTask>>
       \/ /\ CurReader \in {"failed", "escaped"}
          /\ TasksCancelled(t, t # Owner /\ CurReader = "failed")
          /\ UNCHANGED <<event, readTask, conn>>
       \/ /\ CurReader \in {"none", "ended"}
          /\ readTask' = 0
          /\ TasksCancelled(t, FALSE)
          /\ UNCHANGED <<event, conn>>
    /\ UNCHANGED <<config, closing, target, closeCode, cur>>

(* The cancelled reader has ended; _read_task may have been replaced.      *)
ReaderJoined(t) ==
    /\ pc[t] = "join"
    /\ readTask' = 0
    /\ TasksCancelled(t, FALSE)
    /\ UNCHANGED <<config, flags, cur, conn>>

-----------------------------------------------------------------------------
(* reader()                                                                *)

Reading(c) == conn[c].reader = "running"

(* A reader ends and leaves its task with work to do.                      *)
ReaderEnds(c, work) ==
    /\ conn' = WithReader(c, "ended")
    /\ Goto(ReaderTask(c), work)

(* A message was handled and recv() is called on self.ws, which may be the *)
(* socket of a newer connection; two recv() at once are an error.          *)
ReaderMoves(c) ==
    /\ Reading(c)
    /\ Writable(conn[c].reads) /\ conn[c].reads # cur
    /\ IF \E d \in Conns \ {c} : Reading(d) /\ conn[d].reads = cur
       THEN /\ conn' = WithReader(c, "failed")
            /\ event' = TRUE
       ELSE /\ conn' = [conn EXCEPT ![c].reads = cur]
            /\ UNCHANGED event
    /\ UNCHANGED <<config, closing, target, closeCode, reconnector, attempt, undoing,
                   cur, readTask, pc>>

(* A message that cannot be parsed: ValueError and the like set the event, *)
(* an oversized message (an RpcError) is caught by no clause.              *)
ReaderFails(c) ==
    /\ Reading(c)
    /\ conn[c].reads # 0 /\ Writable(conn[c].reads)
    /\ \/ /\ conn' = WithReader(c, "failed")
          /\ event' = TRUE
       \/ /\ conn' = WithReader(c, "escaped")
          /\ UNCHANGED event
    /\ UNCHANGED <<config, closing, target, closeCode, reconnector, attempt, undoing,
                   cur, readTask, pc>>

(* message_receive_timeout or idle_timeout expired.                        *)
ReaderTimesOut(c) ==
    /\ Reading(c)
    /\ config.readTimeout
    /\ Writable(conn[c].reads)
    /\ ReaderEnds(c, "close")
    /\ UNCHANGED <<config, flags, reconnector, attempt, undoing, cur, readTask>>

(* What the end of a connection whose code is known leads to.              *)
(* Mutants: an answer that is neither; auto_reconnect is not tested.       *)
AfterLoss_Neither(code) == "stop"

AfterLoss_Always(code) == IF code = "fatal" THEN "close" ELSE "reconnect"

AfterLoss(code) ==
    IF code # "fatal" /\ config.autoReconnect THEN "reconnect" ELSE "close"

(* Mutant: the event is left to close().                                   *)
EventOnLoss_Later == event

EventOnLoss == TRUE

(* ConnectionClosed.  Without a close frame the last code known stays; our *)
(* own close() is answered with a code that may be retried.                *)
ReaderLosesConnection(c) ==
    /\ Reading(c)
    /\ conn[c].reads # 0 /\ ~Writable(conn[c].reads)
    /\ event' = EventOnLoss
    /\ \/ closeCode' = "retryable"
       \/ closeCode' = "fatal" /\ conn[conn[c].reads].socket = "lost"
       \/ UNCHANGED closeCode
    /\ ReaderEnds(c, AfterLoss(closeCode'))
    /\ UNCHANGED <<config, closing, target, reconnector, attempt, undoing, cur, readTask>>

-----------------------------------------------------------------------------
(* RpcKeepalive._keepalive_loop                                            *)

(* A protocol ping goes to the keep-alive's own socket, an RPC ping to     *)
(* self.channel.                                                           *)
Pinged(c) == IF config.keepalive = "protocol" THEN c ELSE cur

PingRaises(c) ==
    \/ ~Writable(Pinged(c))
    \/ config.keepalive = "rpc" /\ conn[cur].channel = "closed"

PingAnswered(c) ==
    /\ conn[c].keepalive = "running"
    /\ ~PingRaises(c) /\ conn[Pinged(c)].socket = "up"
    /\ conn' = [conn EXCEPT ![c].failures = 0]
    /\ UNCHANGED <<config, flags, reconnector, attempt, undoing, cur, readTask,
                   pc>>

(* Mutant: the failure is not counted.                                     *)
FailureCounted_Never(c) == conn[c].failures

FailureCounted(c) == conn[c].failures + 1

(* Mutant: the keep-alive runs close() itself, which waits for its end.    *)
AfterLastPing_Waits == "closing"

AfterLastPing == "ended"

(* The answer is late or not a pong: count it, and close at the limit.     *)
PingFails(c) ==
    /\ conn[c].keepalive = "running"
    /\ ~PingRaises(c)
    /\ LET n == FailureCounted(c) IN
       IF n >= MaxFailures
       THEN /\ conn' = WithKeepalive(c, AfterLastPing)
            /\ Goto(KeepaliveTask(c), "close")
       ELSE /\ conn' = [conn EXCEPT ![c].failures = n]
            /\ UNCHANGED pc
    /\ UNCHANGED <<config, flags, reconnector, attempt, undoing, cur, readTask>>

(* ConnectionClosed or an RpcError ends the loop: nobody is told.          *)
KeepaliveDies(c) ==
    /\ conn[c].keepalive = "running"
    /\ PingRaises(c)
    /\ conn' = WithKeepalive(c, "failed")
    /\ UNCHANGED <<config, flags, reconnector, attempt, undoing, cur, readTask,
                   pc>>

-----------------------------------------------------------------------------
(* The peer and the network: a connection is lost, or the peer is silent.  *)
NetworkStep(c) ==
    /\ \/ Writable(c) /\ conn' = [conn EXCEPT ![c].socket = "lost"]
       \/ conn[c].socket = "up" /\ conn' = [conn EXCEPT ![c].socket = "silent"]
    /\ UNCHANGED <<config, flags, reconnector, attempt, undoing, cur, readTask,
                   pc>>

ReconnectStep(t) == BeginReconnection(t) \/ SkipReconnection(t) \/ Wake(t)

ConnectStep(t) ==
    \/ ConnectFails(t) \/ ConnectSucceeds(t) \/ Verified(t)
    \/ VerificationRaises(t) \/ Connected(t)

CloseStep(t) ==
    \/ SkipClose(t) \/ StartClose(t) \/ CloseChannel(t) \/ CallbacksEnd(t)
    \/ StopKeepalive(t) \/ CancelReader(t) \/ ReaderJoined(t)

TaskStep(t) == ReconnectStep(t) \/ ConnectStep(t) \/ CloseStep(t)

ReaderStep(c) ==
    \/ ReaderMoves(c) \/ ReaderFails(c) \/ ReaderTimesOut(c)
    \/ ReaderLosesConnection(c)

KeepaliveStep(c) == PingAnswered(c) \/ PingFails(c) \/ KeepaliveDies(c)

Next ==
    \/ \E t \in Tasks : CallClose(t) \/ TaskStep(t)
    \/ \E c \in Conns : ReaderStep(c) \/ KeepaliveStep(c) \/ NetworkStep(c)

Spec == Init /\ [][Next]_vars

(* The event loop runs every ready task; sleeps, handshakes, time-outs and *)
(* user callbacks end.  recv() fails on a broken socket and the keep-alive *)
(* keeps pinging.  Nobody has to leave the context or to call close().     *)
Fairness ==
    /\ \A t \in Tasks : WF_vars(TaskStep(t))
    /\ \A c \in Conns : WF_vars(ReaderLosesConnection(c))
    /\ \A c \in Conns : WF_vars(KeepaliveStep(c))

FairSpec == Spec /\ Fairness

-----------------------------------------------------------------------------
(* Properties.                                                             *)

States == {"idle", "reconnect", "sleep", "connecting", "verifying", "greeting",
           "using", "close", "channel", "callbacks", "keepalive", "reader",
           "join", "done", "refused"}

(* Type invariant.                                                         *)
TypeOK ==
    /\ config \in Configs
    /\ closing \in BOOLEAN
    /\ target \in 0..MaxConns
    /\ event \in BOOLEAN
    /\ closeCode \in {"none", "retryable", "fatal"}
    /\ reconnector \in Tasks \union {None}
    /\ attempt \in [Tasks -> Nat]
    /\ undoing \subseteq Tasks
    /\ cur \in 0..MaxConns
    /\ readTask \in 0..MaxConns
    /\ conn \in [Conns -> Connection]
    /\ pc \in [Tasks -> States]

(* Where a task is inside __connect__ or between two attempts.             *)
InAttempt(t) ==
    \/ pc[t] \in {"sleep", "connecting", "verifying", "greeting"}
    \/ t \in undoing

(* However many readers see a loss, at most one reconnection runs at a     *)
(* time, and only while _is_reconnecting is set.                           *)
SingleReconnection ==
    \A t \in Tasks \ {Owner} : InAttempt(t) => t = reconnector

(* A client that is closing has told those who wait on is_closed_event.    *)
ClosingIsSignalled == closing => event

(* Nothing runs but the reader and the keep-alive.                         *)
Quiet ==
    /\ undoing = {}
    /\ \A t \in Tasks : pc[t] \in {"idle", "using", "done", "refused"}

TornDown(c) == conn[c].channel = "closed" /\ conn[c].keepalive # "running"

(* When nobody is at work any more, the connection that close() found is   *)
(* torn down: no usable socket, no open channel, no keep-alive, however    *)
(* many tasks tried to close it or raised while they did.                  *)
ClosedIsTornDown ==
    closing /\ Quiet /\ target = cur /\ cur # 0 =>
        ~Writable(cur) /\ TornDown(cur)

(* What SingleReconnection and ReopenedByReconnection rest on: the task of *)
(* a reader or keep-alive has not begun before that has ended,             *)
FreshTasks ==
    \A c \in Conns :
        /\ c > cur => conn[c].reader = "none" /\ conn[c].keepalive = "none"
        /\ conn[c].reader \in {"none", "running"} =>
                pc[ReaderTask(c)] = "idle"
        /\ conn[c].keepalive \in {"none", "running"} =>
                pc[KeepaliveTask(c)] = "idle"

(* a partial connection is undone in these stages only,                    *)
UndoingStages ==
    \A t \in undoing : pc[t] \in {"channel", "keepalive", "reader", "join"}

(* and nobody reconnects without auto_reconnect.                           *)
ReconnectsIfConfigured ==
    reconnector # None \/ (\E t \in Tasks : pc[t] = "reconnect")
        => config.autoReconnect

(* What GivesUpByClosing rests on: a reconnection is past the first test   *)
(* of close() only in a client that is closing.                            *)
ReconnectorCloses ==
    \A t \in Tasks :
        /\ t = reconnector /\ t \notin undoing
        /\ pc[t] \in {"channel", "callbacks", "keepalive", "reader", "join"}
        => closing

(* What ClosedIsTornDown rests on: as long as the connection that close()  *)
(* found is not torn down, a task is on its way to do it.                  *)
TearsDown(t, c) ==
    /\ t \notin undoing
    /\ \/ pc[t] = "channel"
       \/ pc[t] \in {"callbacks", "keepalive"} /\ conn[c].channel = "closed"

TearDownGoesOn ==
    /\ target <= cur
    /\ cur # 0 =>
          /\ conn[cur].channel # "none"
          /\ closing /\ target = cur =>
                /\ ~Writable(cur)
                /\ TornDown(cur) \/ \E t \in Tasks : TearsDown(t, cur)

IndInv ==
    /\ TypeOK
    /\ FreshTasks
    /\ UndoingStages
    /\ ReconnectsIfConfigured
    /\ SingleReconnection
    /\ ClosingIsSignalled
    /\ ReconnectorCloses
    /\ TearDownGoesOn

(* Only a reconnection that succeeded, on a client with auto_reconnect,    *)
(* opens a client again once close() has begun.                            *)
ReopenedByReconnection ==
    [][closing /\ ~closing' =>
        /\ config.autoReconnect
        /\ reconnector # None /\ reconnector' = None
        /\ ~event']_vars

(* Every close() returns, from whichever task and with whatever else runs: *)
(* no task waits for itself or for a task that waits for it.               *)
CloseReturns ==
    \A t \in Tasks : pc[t] = "close" ~> pc[t] = "done"

(* A reconnection that ends without a connection closes the client, so     *)
(* that everyone who waits on it is told and nothing is left open, unless  *)
(* its back-off overflowed: then the client stays lost and not closed.     *)
(* The docstring: "If all reconnection attempts fail, the client will call *)
(* close()."                                                               *)
GivesUpByClosing ==
    [][reconnector # None /\ reconnector' = None =>
        \/ closing'
        \/ ~event'
        \/ attempt[reconnector] >= FloatExponents]_vars

(* A keep-alive that nobody stops notices a peer that went silent, and the *)
(* client closes.                                                          *)
SilenceIsNoticed ==
    \A c \in Conns :
        conn[c].socket = "silent" /\ conn[c].keepalive = "running"
            ~> \/ closing \/ conn[c].socket # "silent"
               \/ conn[c].keepalive = "ended" /\ pc[KeepaliveTask(c)] = "idle"

(* A connection that breaks under a running reader is signalled.           *)
LossIsSignalled ==
    \A c \in Conns : conn[c].socket = "lost" /\ Reading(c) ~> event

(* What the documentation says and the code does not do.                   *)

(* __aexit__: "Ensures clean shutdown of the connection and associated     *)
(* resources."  Leaving the context closes the connection.                 *)
ExitCleansUp ==
    [][pc[Owner] # "done" /\ pc'[Owner] = "done" /\ cur # 0
        => ~Writable(cur)']_vars

=============================================================================
