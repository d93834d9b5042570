--------------------------- MODULE ServerEndpoint ---------------------------
(***************************************************************************)
(* The server side: one WebSocketRpcEndpoint.main_loop for each websocket  *)
(* (fastapi_ws_rpc/websocket_rpc_endpoint.py) and the ConnectionManager    *)
(* they share (connection_manager.py), with the ways in which receiving    *)
(* (simplewebsocket.py) and answering (_internal/protocol_handler.py) a    *)
(* message can end the loop.                                               *)
(*                                                                         *)
(* Next to a loop run the peer, the channel's duration watchdog, server    *)
(* code that calls the peer or closes the channel, and a server that       *)
(* cancels the loop.  The channel itself is ChannelLifecycle; here it only *)
(* opens and closes.                                                       *)
(***************************************************************************)
EXTENDS Naturals

CONSTANTS
    Conns,          \* websockets
    IdleTimeout,    \* idle_timeout; more than MaxTime stands for None
    MaxInbox,       \* bound: messages sent and not yet received
    MaxTime         \* bound: the clock

ASSUME TimeAssumption ==
    /\ IdleTimeout \in Nat \ {0}
    /\ MaxInbox \in Nat
    /\ MaxTime \in Nat

VARIABLES
    now,            \* time.time()
    active,         \* active_connections
    loop,           \* where each main_loop is
    cause,          \* what ended it
    socket,         \* the websocket, as the server can see it
    inbox,          \* messages that arrived and were not received
    arrived,        \* when the last message arrived
    last,           \* last_message_time
    channel,        \* the RpcChannel
    told,           \* its disconnect callbacks were started
    call            \* a call that server code makes to the peer

vars == <<now, active, loop, cause, socket, inbox, arrived, last, channel, told,
          call>>
network == <<now, socket, inbox, arrived>>
channels == <<channel, told, call>>

Init ==
    /\ now = 0
    /\ active = {}
    /\ loop = [c \in Conns |-> "new"]
    /\ cause = [c \in Conns |-> "none"]
    /\ socket = [c \in Conns |-> "new"]
    /\ inbox = [c \in Conns |-> 0]
    /\ arrived = [c \in Conns |-> 0]
    /\ last = [c \in Conns |-> 0]
    /\ channel = [c \in Conns |-> "none"]
    /\ told = [c \in Conns |-> FALSE]
    /\ call = [c \in Conns |-> "none"]

Goto(c, s) == loop' = [loop EXCEPT ![c] = s]

(* main_loop ends, by a return or by an exception that nobody catches.     *)
Ends(c, s, why) == Goto(c, s) /\ cause' = [cause EXCEPT ![c] = why]

(* ConnectionManager.connect and disconnect.                               *)
WithConnection(c) == active \union {c}

(* Mutant: a connection stays in the list.                                 *)
WithoutConnection_Kept(c) == active

WithoutConnection(c) == active \ {c}

-----------------------------------------------------------------------------
(* The channel ends.                                                       *)

(* Closing the promise manager wakes the call that waits.                  *)
(* Mutant: it does not.                                                    *)
Released_Not(c) == call[c]

Released(c) == IF call[c] = "waiting" THEN "raised" ELSE call[c]

ChannelCloses(c) ==
    /\ channel' = [channel EXCEPT ![c] = "closed"]
    /\ call' = [call EXCEPT ![c] = Released(c)]

(* Where main_loop goes when the connection was forgotten.                 *)
(* Mutant: the exceptions are caught inside the while loop.                *)
Outside_Again(c) == "receiving"

Outside(c) == "done"

(* handle_disconnect: remove the connection, then on_disconnect(), which   *)
(* runs the callbacks unless the channel is closed already.                *)
(* Mutant: on_disconnect() is skipped.                                     *)
IsClosed_Always(c) == TRUE

IsClosed(c) == channel[c] = "closed"

HandleDisconnect(c, why) ==
    /\ active' = WithoutConnection(c)
    /\ IF IsClosed(c)
       THEN /\ Ends(c, Outside(c), why)
            /\ UNCHANGED channels
       ELSE /\ Ends(c, "leaving", why)
            /\ ChannelCloses(c)
            /\ told' = [told EXCEPT ![c] = TRUE]

(* The watchdog: the channel ends, the socket and the loop do not.         *)
WatchdogFires(c) ==
    /\ channel[c] = "open"
    /\ ChannelCloses(c)
    /\ told' = [told EXCEPT ![c] = TRUE]
    /\ UNCHANGED <<network, active, loop, cause, last>>

(* Server code calls channel.close(), which also closes the websocket.     *)
UserCloses(c) ==
    /\ channel[c] = "open"
    /\ ChannelCloses(c)
    /\ socket' = [socket EXCEPT ![c] = "closed"]
    /\ UNCHANGED <<now, active, loop, cause, inbox, arrived, last, told>>

(* Server code calls a method of the peer.                                 *)
StartCall(c) ==
    /\ channel[c] = "open" /\ socket[c] = "up"
    /\ call[c] = "none"
    /\ call' = [call EXCEPT ![c] = "waiting"]
    /\ UNCHANGED <<network, active, loop, cause, last, channel, told>>

-----------------------------------------------------------------------------
(* main_loop                                                               *)

(* accept() returns; the connection is listed, the channel created and the *)
(* connect callbacks are started.                                          *)
Accept(c) ==
    /\ loop[c] = "new"
    /\ Goto(c, "greeting")
    /\ active' = WithConnection(c)
    /\ socket' = [socket EXCEPT ![c] = "up"]
    /\ channel' = [channel EXCEPT ![c] = "open"]
    /\ UNCHANGED <<now, cause, inbox, arrived, last, told, call>>

AcceptFails(c) ==
    /\ loop[c] = "new"
    /\ Ends(c, "done", "refused")
    /\ active' = WithoutConnection(c)
    /\ UNCHANGED <<network, last, channels>>

(* A subprotocol is configured and the peer offered none: the connection   *)
(* is listed, then looking up the first offer raises what no handler has.  *)
AcceptWithoutOffer(c) ==
    /\ loop[c] = "new"
    /\ Ends(c, "escaped", "no offer")
    /\ active' = WithConnection(c)
    /\ socket' = [socket EXCEPT ![c] = "up"]
    /\ UNCHANGED <<now, inbox, arrived, last, channels>>

(* Mutants: the deadline is stored; last_message_time is set once.         *)
Heard_Deadline(c) == now + IdleTimeout

Heard_Once(c) == IF loop[c] = "greeting" THEN now ELSE last[c]

Heard(c) == now

Greeted(c) ==
    /\ loop[c] = "greeting"
    /\ Goto(c, "receiving")
    /\ last' = [last EXCEPT ![c] = Heard(c)]
    /\ UNCHANGED <<network, active, cause, channels>>

Receiving(c) == loop[c] = "receiving"

(* recv() returns the next message.                                        *)
TakeMessage(c) ==
    /\ Receiving(c)
    /\ inbox[c] > 0
    /\ inbox' = [inbox EXCEPT ![c] = @ - 1]
    /\ UNCHANGED <<now, socket, arrived>>

(* A request, notification or malformed message is being handled.          *)
ReceiveRequest(c) ==
    /\ TakeMessage(c)
    /\ last' = [last EXCEPT ![c] = Heard(c)]
    /\ Goto(c, "handling")
    /\ UNCHANGED <<active, cause, channels>>

(* A response is stored without an await.                                  *)
ReceiveResponse(c) ==
    /\ TakeMessage(c)
    /\ last' = [last EXCEPT ![c] = Heard(c)]
    /\ call' = [call EXCEPT ![c] = IF @ = "waiting" THEN "answered" ELSE @]
    /\ UNCHANGED <<active, loop, cause, channel, told>>

(* A frame that is not JSON is a ValueError: only the outer handler has    *)
(* it, which forgets the connection and leaves the channel as it is.       *)
ReceiveUndecodable(c) ==
    /\ TakeMessage(c)
    /\ Ends(c, "done", "undecodable")
    /\ active' = WithoutConnection(c)
    /\ UNCHANGED <<last, channels>>

(* A frame that is too large, or of the other type, raises what no handler *)
(* has.                                                                    *)
ReceiveOversized(c) ==
    /\ TakeMessage(c)
    /\ Ends(c, "escaped", "oversized")
    /\ UNCHANGED <<active, last, channels>>

(* recv() on a websocket that ended.                                       *)
RecvRaises(c) ==
    /\ Receiving(c)
    /\ \/ socket[c] = "lost" /\ inbox[c] = 0
       \/ socket[c] = "closed"
    /\ HandleDisconnect(c, "ended")
    /\ UNCHANGED <<network, last>>

(* Mutant: off by one.                                                     *)
Idle_Late(c) == now - last[c] > IdleTimeout

Idle(c) == now - last[c] >= IdleTimeout

(* wait_for gave up; a message of the same instant may be lost.            *)
IdleExpires(c) ==
    /\ Receiving(c)
    /\ Idle(c)
    /\ HandleDisconnect(c, "idle")
    /\ UNCHANGED <<network, last>>

(* The method ended, its response was sent or none was due.  The time that *)
(* passed since the message was received counts as idle.                   *)
Handled(c) ==
    /\ loop[c] = "handling"
    /\ IF Idle(c)
       THEN HandleDisconnect(c, "idle")
       ELSE /\ Goto(c, "receiving")
            /\ UNCHANGED <<active, cause, channels>>
    /\ UNCHANGED <<network, last>>

(* send_raw refuses the response, and then the error that is sent instead: *)
(* RpcChannelClosedError where the channel is closed, RpcBackpressureError *)
(* where the sends of server code have filled the queue.  No handler has   *)
(* either, and nothing is cleaned up.                                      *)
ReplyRefused(c) ==
    /\ loop[c] = "handling"
    /\ \/ channel[c] = "closed" /\ Ends(c, "escaped", "refused reply")
       \/ channel[c] = "open" /\ Ends(c, "escaped", "queue full")
    /\ UNCHANGED <<network, active, last, channels>>

(* No response can be built: the id is not one that JSON-RPC allows.  This *)
(* is a ValueError, like a frame that is not JSON.                         *)
AnswerUnbuildable(c) ==
    /\ loop[c] = "handling"
    /\ Ends(c, "done", "undecodable")
    /\ active' = WithoutConnection(c)
    /\ UNCHANGED <<network, last, channels>>

(* The websocket refuses the response.                                     *)
ReplyFails(c) ==
    /\ loop[c] = "handling"
    /\ channel[c] = "open" /\ socket[c] = "lost"
    /\ HandleDisconnect(c, "ended")
    /\ UNCHANGED <<network, last>>

(* The disconnect callbacks ended.                                         *)
Left(c) ==
    /\ loop[c] = "leaving"
    /\ Goto(c, Outside(c))
    /\ UNCHANGED <<network, active, cause, last, channels>>

(* The server cancels the loop's task.  The inner handler catches it, so   *)
(* not while connecting, nor in the clause of another exception.           *)
Cancel(c) ==
    /\ \/ /\ loop[c] \in {"new", "greeting"}
          /\ Ends(c, "escaped", "cancelled")
          /\ UNCHANGED <<active, channels>>
       \/ /\ loop[c] \in {"receiving", "handling"}
          /\ HandleDisconnect(c, "cancelled")
       \/ /\ loop[c] = "leaving"
          /\ Goto(c, IF cause[c] = "idle" THEN "done" ELSE "escaped")
          /\ UNCHANGED <<active, cause, channels>>
    /\ UNCHANGED <<network, last>>

-----------------------------------------------------------------------------
(* The peer, the network and the clock                                     *)

(* At most one message in an instant, so that time is not held up.         *)
PeerSends(c) ==
    /\ socket[c] = "up"
    /\ inbox[c] < MaxInbox
    /\ arrived[c] < now
    /\ inbox' = [inbox EXCEPT ![c] = @ + 1]
    /\ arrived' = [arrived EXCEPT ![c] = now]
    /\ UNCHANGED <<now, active, loop, cause, socket, last, channels>>

PeerLeaves(c) ==
    /\ socket[c] = "up"
    /\ socket' = [socket EXCEPT ![c] = "lost"]
    /\ UNCHANGED <<now, active, loop, cause, inbox, arrived, last, channels>>

(* A waiting loop takes a message and notices its timer at once.           *)
Tick ==
    /\ now < MaxTime
    /\ \A c \in Conns : Receiving(c) => inbox[c] = 0 /\ ~Idle(c)
    /\ now' = now + 1
    /\ UNCHANGED <<active, loop, cause, socket, inbox, arrived, last, channels>>

Receive(c) ==
    \/ ReceiveRequest(c) \/ ReceiveResponse(c)
    \/ ReceiveUndecodable(c) \/ ReceiveOversized(c)

LoopStep(c) ==
    \/ Greeted(c) \/ Receive(c) \/ RecvRaises(c) \/ IdleExpires(c)
    \/ Handled(c) \/ ReplyRefused(c) \/ ReplyFails(c) \/ AnswerUnbuildable(c)
    \/ Left(c)

OtherStep(c) ==
    \/ Accept(c) \/ AcceptFails(c) \/ AcceptWithoutOffer(c) \/ Cancel(c)
    \/ WatchdogFires(c) \/ UserCloses(c) \/ StartCall(c)
    \/ PeerSends(c) \/ PeerLeaves(c)

Next == Tick \/ \E c \in Conns : LoopStep(c) \/ OtherStep(c)

Spec == Init /\ [][Next]_vars

(* The event loop runs every ready task, methods and callbacks end, and    *)
(* time passes.  Nobody has to send, leave, close or cancel.               *)
Fairness == WF_vars(Tick) /\ \A c \in Conns : WF_vars(LoopStep(c))

FairSpec == Spec /\ Fairness

-----------------------------------------------------------------------------
(* Properties.                                                             *)

Served(c) == loop[c] \in {"greeting", "receiving", "handling"}
Ended(c) == loop[c] \in {"done", "escaped"}

(* Type invariant.                                                         *)
TypeOK ==
    /\ now \in 0..MaxTime
    /\ active \subseteq Conns
    /\ loop \in [Conns -> {"new", "greeting", "receiving", "handling",
                           "leaving", "done", "escaped"}]
    /\ cause \in [Conns -> {"none", "refused", "no offer", "undecodable",
                            "oversized", "ended", "idle", "refused reply",
                            "queue full", "cancelled"}]
    /\ socket \in [Conns -> {"new", "up", "lost", "closed"}]
    /\ inbox \in [Conns -> 0..MaxInbox]
    /\ arrived \in [Conns -> 0..MaxTime]
    /\ last \in [Conns -> 0..MaxTime]
    /\ channel \in [Conns -> {"none", "open", "closed"}]
    /\ told \in [Conns -> BOOLEAN]
    /\ call \in [Conns -> {"none", "waiting", "answered", "raised"}]

(* The list agrees with the loops: a connection that is served is counted, *)
(* and one whose loop is leaving or returned is not.                       *)
ListFollowsLoops ==
    \A c \in Conns :
        /\ Served(c) => c \in active
        /\ loop[c] \in {"new", "leaving", "done"} => c \notin active

(* handle_disconnect was begun.                                            *)
LeftInOrder(c) ==
    \/ cause[c] \in {"ended", "idle"}
    \/ cause[c] = "cancelled" /\ channel[c] # "none" /\ c \notin active

(* handle_disconnect leaves nothing behind: once it has begun, however     *)
(* cancellations, the watchdog and close() interfere, the channel is       *)
(* closed, no call waits on it, and the disconnect callbacks were started  *)
(* unless close() was called.                                              *)
DisconnectIsComplete ==
    \A c \in Conns :
        LeftInOrder(c) =>
            /\ channel[c] = "closed"
            /\ call[c] # "waiting"
            /\ told[c] \/ socket[c] = "closed"

(* A connection that is cut for idleness while it waits for a message has  *)
(* been quiet for the whole idle_timeout, whatever came before.            *)
IdleCutsOnlyQuiet ==
    [][\A c \in Conns :
        Receiving(c) /\ cause[c] # "idle" /\ cause'[c] = "idle" =>
            now - arrived[c] >= IdleTimeout \/ arrived[c] = now]_vars

(* No call waits, or the loop ended by an error that no call of            *)
(* channel.on_disconnect() follows, so that only its own timeout ends it.  *)
NoCallHangs(c) ==
    \/ call[c] # "waiting"
    \/ cause[c] \in {"undecodable", "oversized", "queue full"}
    \/ cause[c] = "cancelled" /\ c \in active

(* The end of a connection reaches everyone: a peer that left, or a close()*)
(* of our own, ends the loop; a peer that falls silent is cut when         *)
(* idle_timeout is over; and a call that waits when its peer leaves does   *)
(* not wait forever, unless the loop ended by an error that                *)
(* handle_disconnect does not follow.                                      *)
EndIsNoticed ==
    \A c \in Conns :
        /\ socket[c] \in {"lost", "closed"} ~> Ended(c)
        /\ socket[c] = "lost" /\ call[c] = "waiting" ~> NoCallHangs(c)
        /\ \A t \in 0..MaxTime :
              Receiving(c) /\ last[c] = t /\ t + IdleTimeout <= MaxTime ~>
                  ~Receiving(c) \/ last[c] # t

=============================================================================
