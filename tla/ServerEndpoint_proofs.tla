----------------------- MODULE ServerEndpoint_proofs ------------------------
(* Proofs about ServerEndpoint, for any number of connections and any      *)
(* timeouts: types, the list of connections, what a disconnect leaves, and *)
(* whom the idle timeout cuts.                                             *)
EXTENDS ServerEndpoint, TLAPS

USE DEF network, channels, WithConnection

-----------------------------------------------------------------------------
(* Types                                                                   *)

(* Counting up and down below a bound.                                     *)
LEMMA Counting ==
    ASSUME NEW bound \in Nat, NEW n \in 0..bound
    PROVE  /\ n < bound => n + 1 \in 0..bound
           /\ n > 0 => n - 1 \in 0..bound
OBVIOUS

LEMMA DisconnectType ==
    ASSUME TypeOK, NEW c \in Conns, NEW why \in {"ended", "idle", "cancelled"},
           HandleDisconnect(c, why)
    PROVE  /\ active' \subseteq Conns
           /\ loop' \in [Conns -> {"new", "greeting", "receiving", "handling",
                                   "leaving", "done", "escaped"}]
           /\ cause' \in [Conns -> {"none", "refused", "no offer", "undecodable",
                                    "oversized", "ended", "idle", "refused reply",
                                    "queue full", "cancelled"}]
           /\ channel' \in [Conns -> {"none", "open", "closed"}]
           /\ told' \in [Conns -> BOOLEAN]
           /\ call' \in [Conns -> {"none", "waiting", "answered", "raised"}]
<1> USE DEF TypeOK, HandleDisconnect, Ends, Goto, Outside
<1>1. active' \subseteq Conns
    BY DEF WithoutConnection
<1>2. CASE IsClosed(c)
    <2>1. UNCHANGED channels
        BY <1>2
    <2>2. loop' = [loop EXCEPT ![c] = "done"] /\ cause' = [cause EXCEPT ![c] = why]
        BY <1>2
    <2>3. QED BY <1>1, <2>1, <2>2
<1>3. CASE ~IsClosed(c)
    <2>1. call' = [call EXCEPT ![c] = Released(c)]
        BY <1>3 DEF ChannelCloses
    <2>2. Released(c) \in {"none", "waiting", "answered", "raised"}
        BY DEF Released
    <2>3. call' \in [Conns -> {"none", "waiting", "answered", "raised"}]
        BY <2>1, <2>2
    <2>4. channel' = [channel EXCEPT ![c] = "closed"]
        BY <1>3 DEF ChannelCloses
    <2>5. loop' = [loop EXCEPT ![c] = "leaving"] /\ cause' = [cause EXCEPT ![c] = why]
        BY <1>3
    <2>6. told' = [told EXCEPT ![c] = TRUE]
        BY <1>3
    <2>7. told' \in [Conns -> BOOLEAN]
        BY <2>6
    <2>8. QED BY <1>1, <2>3, <2>4, <2>5, <2>7
<1>4. QED BY <1>2, <1>3

LEMMA LoopStepType ==
    ASSUME TypeOK, NEW c \in Conns, LoopStep(c)
    PROVE  TypeOK'
<1> USE DEF TypeOK, Ends, Goto, WithoutConnection
<1>1. CASE Greeted(c)
    BY <1>1 DEF Greeted, Heard
<1>2. CASE Receive(c)
    <2>1. TakeMessage(c)
        BY <1>2 DEF Receive, ReceiveRequest, ReceiveResponse, ReceiveUndecodable,
               ReceiveOversized
    <2>2. inbox[c] \in 0..MaxInbox /\ inbox[c] > 0
        BY <2>1 DEF TakeMessage
    <2>3. inbox[c] - 1 \in 0..MaxInbox
        BY <2>2, TimeAssumption, Counting
    <2>4. inbox' \in [Conns -> 0..MaxInbox]
        BY <2>1, <2>3 DEF TakeMessage
    <2>5. CASE ReceiveRequest(c)
        BY <2>4, <2>5 DEF ReceiveRequest, TakeMessage, Heard
    <2>6. CASE ReceiveResponse(c)
        BY <2>4, <2>6 DEF ReceiveResponse, TakeMessage, Heard
    <2>7. CASE ReceiveUndecodable(c)
        BY <2>4, <2>7 DEF ReceiveUndecodable, TakeMessage
    <2>8. CASE ReceiveOversized(c)
        BY <2>4, <2>8 DEF ReceiveOversized, TakeMessage
    <2>9. QED BY <1>2, <2>5, <2>6, <2>7, <2>8 DEF Receive
<1>3. CASE RecvRaises(c)
    BY <1>3, DisconnectType DEF RecvRaises
<1>4. CASE IdleExpires(c)
    BY <1>4, DisconnectType DEF IdleExpires
<1>5. CASE Handled(c)
    <2>1. CASE Idle(c)
        BY <1>5, <2>1, DisconnectType DEF Handled
    <2>2. CASE ~Idle(c)
        BY <1>5, <2>2 DEF Handled
    <2>3. QED BY <2>1, <2>2
<1>6. CASE ReplyRefused(c)
    BY <1>6 DEF ReplyRefused
<1>7. CASE ReplyFails(c)
    BY <1>7, DisconnectType DEF ReplyFails
<1>8. CASE AnswerUnbuildable(c)
    BY <1>8 DEF AnswerUnbuildable
<1>9. CASE Left(c)
    BY <1>9 DEF Left, Outside
<1>10. QED BY <1>1, <1>2, <1>3, <1>4, <1>5, <1>6, <1>7, <1>8, <1>9 DEF LoopStep

LEMMA OtherStepType ==
    ASSUME TypeOK, NEW c \in Conns, OtherStep(c)
    PROVE  TypeOK'
<1> USE DEF TypeOK, Ends, Goto, WithoutConnection
<1>1. CASE Accept(c)
    BY <1>1 DEF Accept
<1>2. CASE AcceptFails(c)
    BY <1>2 DEF AcceptFails
<1>3. CASE AcceptWithoutOffer(c)
    BY <1>3 DEF AcceptWithoutOffer
<1>4. CASE Cancel(c)
    <2>1. CASE loop[c] \in {"receiving", "handling"}
        BY <1>4, <2>1, DisconnectType DEF Cancel
    <2>2. CASE loop[c] \notin {"receiving", "handling"}
        BY <1>4, <2>2 DEF Cancel
    <2>3. QED BY <2>1, <2>2
<1>5. CASE WatchdogFires(c)
    BY <1>5 DEF WatchdogFires, ChannelCloses, Released
<1>6. CASE UserCloses(c)
    BY <1>6 DEF UserCloses, ChannelCloses, Released
<1>7. CASE StartCall(c)
    BY <1>7 DEF StartCall
<1>8. CASE PeerSends(c)
    <2>1. inbox[c] \in 0..MaxInbox /\ inbox[c] < MaxInbox
        BY <1>8 DEF PeerSends
    <2>2. inbox[c] + 1 \in 0..MaxInbox
        BY <2>1, TimeAssumption, Counting
    <2>3. QED BY <1>8, <2>2 DEF PeerSends
<1>9. CASE PeerLeaves(c)
    BY <1>9 DEF PeerLeaves
<1>10. QED BY <1>1, <1>2, <1>3, <1>4, <1>5, <1>6, <1>7, <1>8, <1>9 DEF OtherStep

LEMMA NextType == TypeOK /\ [Next]_vars => TypeOK'
<1> SUFFICES ASSUME TypeOK, [Next]_vars PROVE TypeOK'
    OBVIOUS
<1>1. CASE Tick
    <2>1. now \in 0..MaxTime /\ now < MaxTime
        BY <1>1 DEF Tick, TypeOK
    <2>2. now + 1 \in 0..MaxTime
        BY <2>1, TimeAssumption, Counting
    <2>3. QED BY <1>1, <2>2 DEF Tick, TypeOK
<1>2. CASE \E c \in Conns : LoopStep(c) \/ OtherStep(c)
    BY <1>2, LoopStepType, OtherStepType
<1>3. CASE UNCHANGED vars
    BY <1>3 DEF vars, TypeOK
<1>4. QED BY <1>1, <1>2, <1>3 DEF Next

(* Every variable keeps its type, for any set of connections.              *)
THEOREM TypeCorrect == Spec => []TypeOK
<1>1. Init => TypeOK
    BY TimeAssumption DEF Init, TypeOK
<1>2. QED BY <1>1, NextType, PTL DEF Spec

-----------------------------------------------------------------------------
(* The list of connections                                                 *)

(* What a step of one connection leaves alone in another.                  *)
Others(c, d) ==
    /\ loop'[d] = loop[d] /\ cause'[d] = cause[d]
    /\ channel'[d] = channel[d] /\ call'[d] = call[d] /\ told'[d] = told[d]
    /\ socket'[d] = socket[d] /\ inbox'[d] = inbox[d]
    /\ arrived'[d] = arrived[d] /\ last'[d] = last[d]
    /\ (d \in active' <=> d \in active)

LEMMA DisconnectOthers ==
    ASSUME TypeOK, NEW c \in Conns, NEW why, HandleDisconnect(c, why),
           NEW d \in Conns, d # c
    PROVE  /\ loop'[d] = loop[d] /\ cause'[d] = cause[d]
           /\ channel'[d] = channel[d] /\ call'[d] = call[d]
           /\ told'[d] = told[d] /\ (d \in active' <=> d \in active)
<1> USE DEF TypeOK, HandleDisconnect, Ends, Goto, WithoutConnection
<1>1. CASE IsClosed(c)
    BY <1>1
<1>2. CASE ~IsClosed(c)
    <2>1. /\ channel' = [channel EXCEPT ![c] = "closed"]
          /\ call' = [call EXCEPT ![c] = Released(c)]
        BY <1>2 DEF ChannelCloses
    <2>2. /\ loop' = [loop EXCEPT ![c] = "leaving"]
          /\ cause' = [cause EXCEPT ![c] = why]
          /\ told' = [told EXCEPT ![c] = TRUE]
        BY <1>2
    <2>3. QED BY <2>1, <2>2
<1>3. QED BY <1>1, <1>2

LEMMA LoopStepOthers ==
    ASSUME TypeOK, NEW c \in Conns, LoopStep(c), NEW d \in Conns, d # c
    PROVE  Others(c, d) /\ now' = now
<1> USE DEF Others, TypeOK, Ends, Goto, WithoutConnection
<1>1. CASE Greeted(c)
    BY <1>1 DEF Greeted
<1>2. CASE Receive(c)
    <2>1. CASE ReceiveRequest(c)
        BY <2>1 DEF ReceiveRequest, TakeMessage
    <2>2. CASE ReceiveResponse(c)
        BY <2>2 DEF ReceiveResponse, TakeMessage
    <2>3. CASE ReceiveUndecodable(c)
        BY <2>3 DEF ReceiveUndecodable, TakeMessage
    <2>4. CASE ReceiveOversized(c)
        BY <2>4 DEF ReceiveOversized, TakeMessage
    <2>5. QED BY <1>2, <2>1, <2>2, <2>3, <2>4 DEF Receive
<1>3. CASE RecvRaises(c)
    BY <1>3, DisconnectOthers DEF RecvRaises
<1>4. CASE IdleExpires(c)
    BY <1>4, DisconnectOthers DEF IdleExpires
<1>5. CASE Handled(c)
    <2>1. CASE Idle(c)
        BY <1>5, <2>1, DisconnectOthers DEF Handled
    <2>2. CASE ~Idle(c)
        BY <1>5, <2>2 DEF Handled
    <2>3. QED BY <2>1, <2>2
<1>6. CASE ReplyRefused(c)
    BY <1>6 DEF ReplyRefused
<1>7. CASE ReplyFails(c)
    BY <1>7, DisconnectOthers DEF ReplyFails
<1>8. CASE AnswerUnbuildable(c)
    BY <1>8 DEF AnswerUnbuildable
<1>9. CASE Left(c)
    BY <1>9 DEF Left
<1>10. QED BY <1>1, <1>2, <1>3, <1>4, <1>5, <1>6, <1>7, <1>8, <1>9 DEF LoopStep

LEMMA OtherStepOthers ==
    ASSUME TypeOK, NEW c \in Conns, OtherStep(c), NEW d \in Conns, d # c
    PROVE  Others(c, d) /\ now' = now
<1> USE DEF Others, TypeOK, Ends, Goto, WithoutConnection
<1>1. CASE Accept(c)
    BY <1>1 DEF Accept
<1>2. CASE AcceptFails(c)
    BY <1>2 DEF AcceptFails
<1>3. CASE AcceptWithoutOffer(c)
    BY <1>3 DEF AcceptWithoutOffer
<1>4. CASE Cancel(c)
    <2>1. CASE loop[c] \in {"receiving", "handling"}
        BY <1>4, <2>1, DisconnectOthers DEF Cancel
    <2>2. CASE loop[c] \notin {"receiving", "handling"}
        BY <1>4, <2>2 DEF Cancel
    <2>3. QED BY <2>1, <2>2
<1>5. CASE WatchdogFires(c)
    BY <1>5 DEF WatchdogFires, ChannelCloses
<1>6. CASE UserCloses(c)
    BY <1>6 DEF UserCloses, ChannelCloses
<1>7. CASE StartCall(c)
    BY <1>7 DEF StartCall
<1>8. CASE PeerSends(c)
    BY <1>8 DEF PeerSends
<1>9. CASE PeerLeaves(c)
    BY <1>9 DEF PeerLeaves
<1>10. QED BY <1>1, <1>2, <1>3, <1>4, <1>5, <1>6, <1>7, <1>8, <1>9 DEF OtherStep

(* What holds of each connection.                                          *)
Listed(c) ==
    /\ Served(c) => c \in active
    /\ loop[c] \in {"new", "leaving", "done"} => c \notin active

ChannelEnds(c) ==
    /\ loop[c] = "new" => channel[c] = "none" /\ cause[c] = "none"
    /\ channel[c] = "closed" => call[c] # "waiting" /\ (told[c] \/ socket[c] = "closed")
    /\ LeftInOrder(c) => channel[c] = "closed"

ConnInv(c) == Listed(c) /\ ChannelEnds(c)

LEMMA OthersKeep ==
    ASSUME NEW c, NEW d, ConnInv(d), Others(c, d)
    PROVE  ConnInv(d)'
<1>1. /\ loop'[d] = loop[d] /\ cause'[d] = cause[d]
      /\ channel'[d] = channel[d] /\ call'[d] = call[d] /\ told'[d] = told[d]
      /\ socket'[d] = socket[d] /\ (d \in active' <=> d \in active)
    BY DEF Others
<1>2. QED BY <1>1 DEF ConnInv, Listed, ChannelEnds, Served, LeftInOrder

(* Forgetting a connection that was served.                                *)
LEMMA DisconnectInv ==
    ASSUME TypeOK, NEW c \in Conns, NEW why \in {"ended", "idle", "cancelled"},
           ConnInv(c), HandleDisconnect(c, why), UNCHANGED socket
    PROVE  ConnInv(c)'
<1> USE DEF TypeOK, HandleDisconnect, Ends, Goto, WithoutConnection, Outside
<1>1. c \notin active'
    OBVIOUS
<1>2. CASE IsClosed(c)
    <2>1. UNCHANGED <<channel, told, call>> /\ loop'[c] = "done" /\ channel[c] = "closed"
        BY <1>2 DEF IsClosed
    <2>2. QED BY <1>1, <2>1 DEF ConnInv, Listed, ChannelEnds, Served, LeftInOrder
<1>3. CASE ~IsClosed(c)
    <2>1. loop'[c] = "leaving" /\ told'[c] = TRUE
        BY <1>3
    <2>2. channel'[c] = "closed" /\ call'[c] # "waiting"
        BY <1>3 DEF ChannelCloses, Released
    <2>3. QED BY <1>1, <2>1, <2>2 DEF ConnInv, Listed, ChannelEnds, Served, LeftInOrder
<1>4. QED BY <1>2, <1>3

LEMMA LoopStepInv ==
    ASSUME TypeOK, NEW c \in Conns, ConnInv(c), LoopStep(c)
    PROVE  ConnInv(c)'
<1> USE DEF TypeOK, Ends, Goto, WithoutConnection, Served
<1>1. CASE Greeted(c)
    BY <1>1 DEF Greeted, ConnInv, Listed, ChannelEnds, LeftInOrder
<1>2. CASE Receive(c)
    <2>1. CASE ReceiveRequest(c)
        BY <2>1 DEF ReceiveRequest, TakeMessage, Receiving, ConnInv, Listed,
               ChannelEnds, LeftInOrder
    <2>2. CASE ReceiveResponse(c)
        BY <2>2 DEF ReceiveResponse, TakeMessage, ConnInv, Listed, ChannelEnds,
               LeftInOrder
    <2>3. CASE ReceiveUndecodable(c)
        BY <2>3 DEF ReceiveUndecodable, TakeMessage, ConnInv, Listed, ChannelEnds,
               LeftInOrder
    <2>4. CASE ReceiveOversized(c)
        BY <2>4 DEF ReceiveOversized, TakeMessage, ConnInv, Listed, ChannelEnds,
               LeftInOrder
    <2>5. QED BY <1>2, <2>1, <2>2, <2>3, <2>4 DEF Receive
<1>3. CASE RecvRaises(c)
    BY <1>3, DisconnectInv DEF RecvRaises
<1>4. CASE IdleExpires(c)
    BY <1>4, DisconnectInv DEF IdleExpires
<1>5. CASE Handled(c)
    <2>1. CASE Idle(c)
        BY <1>5, <2>1, DisconnectInv DEF Handled
    <2>2. CASE ~Idle(c)
        BY <1>5, <2>2 DEF Handled, ConnInv, Listed, ChannelEnds, LeftInOrder
    <2>3. QED BY <2>1, <2>2
<1>6. CASE ReplyRefused(c)
    BY <1>6 DEF ReplyRefused, ConnInv, Listed, ChannelEnds, LeftInOrder
<1>7. CASE ReplyFails(c)
    BY <1>7, DisconnectInv DEF ReplyFails
<1>8. CASE AnswerUnbuildable(c)
    BY <1>8 DEF AnswerUnbuildable, ConnInv, Listed, ChannelEnds, LeftInOrder
<1>9. CASE Left(c)
    BY <1>9 DEF Left, Outside, ConnInv, Listed, ChannelEnds, LeftInOrder
<1>10. QED BY <1>1, <1>2, <1>3, <1>4, <1>5, <1>6, <1>7, <1>8, <1>9 DEF LoopStep

LEMMA OtherStepInv ==
    ASSUME TypeOK, NEW c \in Conns, ConnInv(c), OtherStep(c)
    PROVE  ConnInv(c)'
<1> USE DEF TypeOK, Ends, Goto, WithoutConnection, Served, ConnInv, Listed,
            ChannelEnds, LeftInOrder
<1>1. CASE Accept(c)
    BY <1>1 DEF Accept
<1>2. CASE AcceptFails(c)
    BY <1>2 DEF AcceptFails
<1>3. CASE AcceptWithoutOffer(c)
    BY <1>3 DEF AcceptWithoutOffer
<1>4. CASE Cancel(c)
    <2>1. CASE loop[c] \in {"receiving", "handling"}
        BY <1>4, <2>1, DisconnectInv DEF Cancel
    <2>2. CASE loop[c] \in {"new", "greeting"}
        BY <1>4, <2>2 DEF Cancel
    <2>3. CASE loop[c] = "leaving"
        BY <1>4, <2>3 DEF Cancel
    <2>4. QED BY <1>4, <2>1, <2>2, <2>3 DEF Cancel
<1>5. CASE WatchdogFires(c)
    BY <1>5 DEF WatchdogFires, ChannelCloses, Released
<1>6. CASE UserCloses(c)
    BY <1>6 DEF UserCloses, ChannelCloses, Released
<1>7. CASE StartCall(c)
    BY <1>7 DEF StartCall
<1>8. CASE PeerSends(c)
    BY <1>8 DEF PeerSends
<1>9. CASE PeerLeaves(c)
    BY <1>9 DEF PeerLeaves
<1>10. QED BY <1>1, <1>2, <1>3, <1>4, <1>5, <1>6, <1>7, <1>8, <1>9 DEF OtherStep

(* The list agrees with the loops, and a disconnect leaves nothing behind. *)
ServerInv == TypeOK /\ \A c \in Conns : ConnInv(c)

LEMMA NextInv == ServerInv /\ [Next]_vars => ServerInv'
<1> SUFFICES ASSUME ServerInv, [Next]_vars PROVE ServerInv'
    OBVIOUS
<1>1. TypeOK'
    BY NextType DEF ServerInv
<1>2. ASSUME NEW d \in Conns PROVE ConnInv(d)'
    <2>1. TypeOK /\ ConnInv(d)
        BY DEF ServerInv
    <2>2. CASE Tick \/ UNCHANGED vars
        <3>1. UNCHANGED <<active, loop, cause, socket, channel, told, call>>
            BY <2>2 DEF Tick, vars
        <3>2. QED BY <2>1, <3>1 DEF ConnInv, Listed, ChannelEnds, Served, LeftInOrder
    <2>3. ASSUME NEW c \in Conns, LoopStep(c) \/ OtherStep(c) PROVE ConnInv(d)'
        <3>1. CASE c = d
            BY <2>1, <2>3, <3>1, LoopStepInv, OtherStepInv
        <3>2. CASE c # d
            <4>1. Others(c, d)
                BY <2>1, <2>3, <3>2, LoopStepOthers, OtherStepOthers
            <4>2. QED BY <2>1, <4>1, OthersKeep
        <3>3. QED BY <3>1, <3>2
    <2>4. QED BY <2>2, <2>3 DEF Next
<1>3. QED BY <1>1, <1>2 DEF ServerInv

LEMMA InvHolds == Spec => []ServerInv
<1>1. Init => ServerInv
    <2>1. ASSUME Init PROVE TypeOK
        BY <2>1, TimeAssumption DEF Init, TypeOK
    <2>2. ASSUME Init, NEW c \in Conns PROVE ConnInv(c)
        BY <2>2 DEF Init, ConnInv, Listed, ChannelEnds, Served, LeftInOrder
    <2>3. QED BY <2>1, <2>2 DEF ServerInv
<1>2. QED BY <1>1, NextInv, PTL DEF Spec

(* active_connections lists every connection that is served and none whose *)
(* loop is leaving or has returned.                                        *)
THEOREM ListIsRight == Spec => []ListFollowsLoops
<1>1. ServerInv => ListFollowsLoops
    BY DEF ServerInv, ConnInv, Listed, ListFollowsLoops
<1>2. QED BY <1>1, InvHolds, PTL

(* Once handle_disconnect was begun the channel is closed, no call waits,  *)
(* and the disconnect callbacks were started or close() was called.        *)
THEOREM DisconnectComplete == Spec => []DisconnectIsComplete
<1>1. ServerInv => DisconnectIsComplete
    BY DEF ServerInv, ConnInv, ChannelEnds, DisconnectIsComplete
<1>2. QED BY <1>1, InvHolds, PTL

-----------------------------------------------------------------------------
(* Whom the idle timeout cuts                                              *)

(* A message that came after the last one that was received is still       *)
(* waiting, and a loop that waits for messages will see it in time.        *)
HeardInTime(c) ==
    /\ arrived[c] <= now
    /\ loop[c] \in {"receiving", "handling"} /\ arrived[c] > last[c] => inbox[c] > 0
    /\ Receiving(c) /\ arrived[c] > last[c] =>
            arrived[c] = now \/ now - last[c] < IdleTimeout

LEMMA TimesAreNumbers ==
    ASSUME TypeOK, NEW c \in Conns
    PROVE  /\ now \in Nat /\ arrived[c] \in Nat /\ last[c] \in Nat
           /\ inbox[c] \in Nat /\ IdleTimeout \in Nat
<1>1. ASSUME NEW bound \in Nat, NEW n \in 0..bound PROVE n \in Nat
    BY <1>1
<1>2. /\ now \in 0..MaxTime /\ arrived[c] \in 0..MaxTime /\ last[c] \in 0..MaxTime
      /\ inbox[c] \in 0..MaxInbox
    BY DEF TypeOK
<1>3. MaxTime \in Nat /\ MaxInbox \in Nat /\ IdleTimeout \in Nat
    BY TimeAssumption
<1>4. QED BY <1>1, <1>2, <1>3

LEMMA OthersKeepTime ==
    ASSUME NEW c, NEW d, HeardInTime(d), Others(c, d), now' = now
    PROVE  HeardInTime(d)'
<1>1. /\ loop'[d] = loop[d] /\ inbox'[d] = inbox[d]
      /\ arrived'[d] = arrived[d] /\ last'[d] = last[d]
    BY DEF Others
<1>2. QED BY <1>1 DEF HeardInTime, Receiving

(* A loop that waits for no message owes nothing.                          *)
LEMMA OutOfLoop ==
    ASSUME NEW c, HeardInTime(c), loop'[c] \notin {"receiving", "handling"},
           UNCHANGED <<now, arrived>>
    PROVE  HeardInTime(c)'
BY DEF HeardInTime, Receiving

(* A step that neither receives nor moves the loop.                        *)
LEMMA LoopStays ==
    ASSUME NEW c, HeardInTime(c), UNCHANGED <<now, arrived, last, inbox, loop>>
    PROVE  HeardInTime(c)'
BY DEF HeardInTime, Receiving

LEMMA DisconnectLeaves ==
    ASSUME TypeOK, NEW c \in Conns, NEW why, HandleDisconnect(c, why)
    PROVE  loop'[c] \notin {"receiving", "handling"} /\ cause'[c] = why
<1> USE DEF TypeOK, HandleDisconnect, Ends, Goto, Outside
<1>1. CASE IsClosed(c)
    BY <1>1
<1>2. CASE ~IsClosed(c)
    <2>1. /\ loop' = [loop EXCEPT ![c] = "leaving"]
          /\ cause' = [cause EXCEPT ![c] = why]
        BY <1>2
    <2>2. QED BY <2>1
<1>3. QED BY <1>1, <1>2

LEMMA LoopStepTime ==
    ASSUME TypeOK, TypeOK', NEW c \in Conns, HeardInTime(c), LoopStep(c)
    PROVE  HeardInTime(c)'
<1> USE DEF Ends, Goto
<1>1. /\ now \in Nat /\ arrived[c] \in Nat /\ last[c] \in Nat /\ inbox[c] \in Nat
      /\ IdleTimeout \in Nat
    BY TimesAreNumbers
<1>2. /\ \A s : [loop EXCEPT ![c] = s][c] = s
      /\ \A t : [last EXCEPT ![c] = t][c] = t
    BY DEF TypeOK
<1>3. CASE Greeted(c)
    <2>1. UNCHANGED <<now, arrived>> /\ last'[c] = now
        BY <1>2, <1>3 DEF Greeted, Heard
    <2>2. QED BY <1>1, <2>1 DEF HeardInTime
<1>4. CASE ReceiveRequest(c) \/ ReceiveResponse(c)
    <2>1. UNCHANGED <<now, arrived>> /\ last'[c] = now
        BY <1>2, <1>4 DEF ReceiveRequest, ReceiveResponse, TakeMessage, Heard
    <2>2. QED BY <1>1, <2>1 DEF HeardInTime
<1>5. CASE ReceiveUndecodable(c) \/ ReceiveOversized(c)
    BY <1>2, <1>5, OutOfLoop DEF ReceiveUndecodable, ReceiveOversized, TakeMessage
<1>6. CASE RecvRaises(c)
    BY <1>6, OutOfLoop, DisconnectLeaves DEF RecvRaises
<1>7. CASE IdleExpires(c)
    BY <1>7, OutOfLoop, DisconnectLeaves DEF IdleExpires
<1>8. CASE Handled(c)
    <2>1. CASE Idle(c)
        BY <1>8, <2>1, OutOfLoop, DisconnectLeaves DEF Handled
    <2>2. CASE ~Idle(c)
        <3>1. UNCHANGED <<now, arrived, last, inbox>> /\ loop[c] = "handling"
            BY <1>8, <2>2 DEF Handled
        <3>2. now - last[c] < IdleTimeout
            BY <1>1, <2>2 DEF Idle
        <3>3. QED BY <1>1, <3>1, <3>2 DEF HeardInTime
    <2>3. QED BY <2>1, <2>2
<1>9. CASE ReplyRefused(c) \/ AnswerUnbuildable(c)
    BY <1>2, <1>9, OutOfLoop DEF ReplyRefused, AnswerUnbuildable
<1>10. CASE ReplyFails(c)
    BY <1>10, OutOfLoop, DisconnectLeaves DEF ReplyFails
<1>11. CASE Left(c)
    BY <1>2, <1>11, OutOfLoop DEF Left, Outside
<1>12. QED
    BY <1>3, <1>4, <1>5, <1>6, <1>7, <1>8, <1>9, <1>10, <1>11 DEF LoopStep, Receive

LEMMA OtherStepTime ==
    ASSUME TypeOK, NEW c \in Conns, HeardInTime(c), OtherStep(c)
    PROVE  HeardInTime(c)'
<1> USE DEF Ends, Goto
<1>1. \A s : [loop EXCEPT ![c] = s][c] = s
    BY DEF TypeOK
<1>2. CASE Accept(c) \/ AcceptFails(c) \/ AcceptWithoutOffer(c)
    BY <1>1, <1>2, OutOfLoop DEF Accept, AcceptFails, AcceptWithoutOffer
<1>3. CASE Cancel(c)
    <2>1. loop'[c] \notin {"receiving", "handling"}
        BY <1>1, <1>3, DisconnectLeaves DEF Cancel
    <2>2. QED BY <1>3, <2>1, OutOfLoop DEF Cancel
<1>4. CASE WatchdogFires(c) \/ UserCloses(c) \/ StartCall(c) \/ PeerLeaves(c)
    BY <1>4, LoopStays DEF WatchdogFires, UserCloses, StartCall, PeerLeaves
<1>5. CASE PeerSends(c)
    <2>1. now \in Nat /\ inbox[c] \in Nat
        BY TimesAreNumbers
    <2>2. UNCHANGED <<now, loop, last>>
        BY <1>5 DEF PeerSends
    <2>3. arrived'[c] = now /\ inbox'[c] = inbox[c] + 1
        BY <1>5 DEF PeerSends, TypeOK
    <2>4. inbox'[c] > 0
        BY <2>1, <2>3
    <2>5. QED BY <2>1, <2>2, <2>3, <2>4 DEF HeardInTime, Receiving
<1>6. QED BY <1>2, <1>3, <1>4, <1>5 DEF OtherStep

LEMMA TickTime ==
    ASSUME TypeOK, NEW c \in Conns, HeardInTime(c), Tick
    PROVE  HeardInTime(c)'
<1>1. now \in Nat /\ arrived[c] \in Nat /\ last[c] \in Nat /\ inbox[c] \in Nat
    BY TimesAreNumbers
<1>2. UNCHANGED <<loop, inbox, arrived, last>> /\ now' = now + 1
    BY DEF Tick
<1>3. Receiving(c) => inbox[c] = 0
    BY DEF Tick
<1>4. QED BY <1>1, <1>2, <1>3 DEF HeardInTime, Receiving

TimeInv == TypeOK /\ \A c \in Conns : HeardInTime(c)

LEMMA TimeHolds == Spec => []TimeInv
<1>1. Init => TimeInv
    <2>1. Init => TypeOK
        BY TimeAssumption DEF Init, TypeOK
    <2>2. ASSUME Init, NEW c \in Conns PROVE HeardInTime(c)
        BY <2>2 DEF Init, HeardInTime
    <2>3. QED BY <2>1, <2>2 DEF TimeInv
<1>2. TimeInv /\ [Next]_vars => TimeInv'
    <2> SUFFICES ASSUME TimeInv, [Next]_vars PROVE TimeInv'
        OBVIOUS
    <2>1. TypeOK /\ TypeOK'
        BY NextType DEF TimeInv
    <2>2. ASSUME NEW d \in Conns PROVE HeardInTime(d)'
        <3>1. HeardInTime(d)
            BY DEF TimeInv
        <3>2. CASE Tick
            BY <2>1, <3>1, <3>2, TickTime
        <3>3. CASE UNCHANGED vars
            BY <3>1, <3>3, LoopStays DEF vars
        <3>4. ASSUME NEW c \in Conns, LoopStep(c) \/ OtherStep(c)
              PROVE  HeardInTime(d)'
            <4>1. CASE c = d
                BY <2>1, <3>1, <3>4, <4>1, LoopStepTime, OtherStepTime
            <4>2. CASE c # d
                <5>1. Others(c, d) /\ now' = now
                    BY <2>1, <3>4, <4>2, LoopStepOthers, OtherStepOthers
                <5>2. QED BY <3>1, <5>1, OthersKeepTime
            <4>3. QED BY <4>1, <4>2
        <3>5. QED BY <3>2, <3>3, <3>4 DEF Next
    <2>3. QED BY <2>1, <2>2 DEF TimeInv
<1>3. QED BY <1>1, <1>2, PTL DEF Spec

(* Only the timer cuts a loop that waits for a message as idle.            *)
LEMMA OnlyTimerCuts ==
    ASSUME TypeOK, NEW c \in Conns, LoopStep(c) \/ OtherStep(c),
           Receiving(c), cause[c] # "idle", cause'[c] = "idle"
    PROVE  IdleExpires(c)
<1>1. \A why : [cause EXCEPT ![c] = why][c] = why
    BY DEF TypeOK
<1>2. CASE LoopStep(c)
    <2>1. ~Greeted(c) /\ ~Handled(c) /\ ~ReplyRefused(c) /\ ~ReplyFails(c)
          /\ ~AnswerUnbuildable(c) /\ ~Left(c)
        BY DEF Receiving, Greeted, Handled, ReplyRefused, ReplyFails,
               AnswerUnbuildable, Left
    <2>2. ~Receive(c)
        BY <1>1 DEF Receive, ReceiveRequest, ReceiveResponse, ReceiveUndecodable,
               ReceiveOversized, Ends
    <2>3. ~RecvRaises(c)
        BY DisconnectLeaves DEF RecvRaises
    <2>4. QED BY <1>2, <2>1, <2>2, <2>3 DEF LoopStep
<1>3. CASE OtherStep(c)
    <2>1. ~Accept(c) /\ ~AcceptFails(c) /\ ~AcceptWithoutOffer(c)
        BY DEF Receiving, Accept, AcceptFails, AcceptWithoutOffer
    <2>2. ~Cancel(c)
        BY DisconnectLeaves DEF Receiving, Cancel
    <2>3. ~WatchdogFires(c) /\ ~UserCloses(c) /\ ~StartCall(c) /\ ~PeerSends(c)
          /\ ~PeerLeaves(c)
        BY DEF WatchdogFires, UserCloses, StartCall, PeerSends, PeerLeaves
    <2>4. QED BY <1>3, <2>1, <2>2, <2>3 DEF OtherStep
<1>4. QED BY <1>2, <1>3

(* A connection that is cut for idleness while it waits for a message has  *)
(* been quiet for idle_timeout, but for a message of this very instant.    *)
THEOREM IdleIsQuiet == Spec => IdleCutsOnlyQuiet
<1>1. ASSUME TimeInv, [Next]_vars, NEW d \in Conns, Receiving(d),
             cause[d] # "idle", cause'[d] = "idle"
      PROVE  now - arrived[d] >= IdleTimeout \/ arrived[d] = now
    <2>1. TypeOK /\ HeardInTime(d)
        BY <1>1 DEF TimeInv
    <2>2. ~Tick /\ ~UNCHANGED vars
        BY <1>1 DEF Tick, vars
    <2>3. PICK c \in Conns : LoopStep(c) \/ OtherStep(c)
        BY <1>1, <2>2 DEF Next
    <2>4. c = d
        <3>1. CASE c # d
            <4>1. Others(c, d)
                BY <2>1, <2>3, <3>1, LoopStepOthers, OtherStepOthers
            <4>2. QED BY <1>1, <4>1 DEF Others
        <3>2. QED BY <3>1
    <2>5. IdleExpires(d)
        BY <1>1, <2>1, <2>3, <2>4, OnlyTimerCuts
    <2>6. now \in Nat /\ arrived[d] \in Nat /\ last[d] \in Nat /\ IdleTimeout \in Nat
        BY <2>1, TimesAreNumbers
    <2>7. now - last[d] >= IdleTimeout
        BY <2>5 DEF IdleExpires, Idle
    <2>8. arrived[d] > last[d] => arrived[d] = now
        BY <1>1, <2>1, <2>6, <2>7 DEF HeardInTime
    <2>9. QED BY <2>6, <2>7, <2>8
<1>2. TimeInv /\ [Next]_vars =>
        [\A c \in Conns :
            Receiving(c) /\ cause[c] # "idle" /\ cause'[c] = "idle" =>
                now - arrived[c] >= IdleTimeout \/ arrived[c] = now]_vars
    BY <1>1
<1>3. QED BY <1>2, TimeHolds, PTL DEF Spec, IdleCutsOnlyQuiet

-----------------------------------------------------------------------------
(* What a loop leaves behind when it ended                                 *)

(* How each cause leaves the connection.                                   *)
Endings(c) ==
    /\ loop[c] \in {"leaving", "done", "escaped"} <=> cause[c] # "none"
    /\ channel[c] = "none" => call[c] = "none"
    /\ cause[c] \in {"refused", "no offer"} => channel[c] = "none"
    /\ cause[c] = "refused reply" => channel[c] = "closed"
    /\ cause[c] \in {"refused", "undecodable", "ended", "idle"} => c \notin active

LEMMA OthersKeepEndings ==
    ASSUME NEW c, NEW d, Endings(d), Others(c, d)
    PROVE  Endings(d)'
BY DEF Others, Endings

LEMMA DisconnectEndings ==
    ASSUME TypeOK, NEW c \in Conns, NEW why \in {"ended", "idle", "cancelled"},
           Endings(c), HandleDisconnect(c, why)
    PROVE  Endings(c)'
<1> USE DEF TypeOK, HandleDisconnect, Ends, Goto, WithoutConnection, Outside
<1>1. c \notin active' /\ cause'[c] = why
    BY DisconnectLeaves
<1>2. CASE IsClosed(c)
    <2>1. UNCHANGED <<channel, call>> /\ loop'[c] = "done"
        BY <1>2
    <2>2. QED BY <1>1, <2>1 DEF Endings
<1>3. CASE ~IsClosed(c)
    <2>1. loop'[c] = "leaving" /\ channel'[c] = "closed"
        BY <1>3 DEF ChannelCloses
    <2>2. QED BY <1>1, <2>1 DEF Endings
<1>4. QED BY <1>2, <1>3

LEMMA LoopStepEndings ==
    ASSUME TypeOK, NEW c \in Conns, Endings(c), LoopStep(c)
    PROVE  Endings(c)'
<1> USE DEF TypeOK, Ends, Goto, WithoutConnection, Endings
<1>1. CASE Greeted(c)
    BY <1>1 DEF Greeted
<1>2. CASE Receive(c)
    <2>1. CASE ReceiveRequest(c)
        BY <2>1 DEF ReceiveRequest, TakeMessage, Receiving
    <2>2. CASE ReceiveResponse(c)
        BY <2>2 DEF ReceiveResponse, TakeMessage
    <2>3. CASE ReceiveUndecodable(c)
        BY <2>3 DEF ReceiveUndecodable, TakeMessage
    <2>4. CASE ReceiveOversized(c)
        BY <2>4 DEF ReceiveOversized, TakeMessage
    <2>5. QED BY <1>2, <2>1, <2>2, <2>3, <2>4 DEF Receive
<1>3. CASE RecvRaises(c)
    BY <1>3, DisconnectEndings DEF RecvRaises
<1>4. CASE IdleExpires(c)
    BY <1>4, DisconnectEndings DEF IdleExpires
<1>5. CASE Handled(c)
    <2>1. CASE Idle(c)
        BY <1>5, <2>1, DisconnectEndings DEF Handled
    <2>2. CASE ~Idle(c)
        BY <1>5, <2>2 DEF Handled
    <2>3. QED BY <2>1, <2>2
<1>6. CASE ReplyRefused(c)
    BY <1>6 DEF ReplyRefused
<1>7. CASE ReplyFails(c)
    BY <1>7, DisconnectEndings DEF ReplyFails
<1>8. CASE AnswerUnbuildable(c)
    BY <1>8 DEF AnswerUnbuildable
<1>9. CASE Left(c)
    BY <1>9 DEF Left, Outside
<1>10. QED BY <1>1, <1>2, <1>3, <1>4, <1>5, <1>6, <1>7, <1>8, <1>9 DEF LoopStep

LEMMA OtherStepEndings ==
    ASSUME TypeOK, NEW c \in Conns, Endings(c), OtherStep(c), ConnInv(c)
    PROVE  Endings(c)'
<1> USE DEF TypeOK, Ends, Goto, WithoutConnection, Endings
<1>1. CASE Accept(c)
    BY <1>1 DEF Accept
<1>2. CASE AcceptFails(c)
    BY <1>2 DEF AcceptFails, ConnInv, ChannelEnds
<1>3. CASE AcceptWithoutOffer(c)
    BY <1>3 DEF AcceptWithoutOffer, ConnInv, ChannelEnds
<1>4. CASE Cancel(c)
    <2>1. CASE loop[c] \in {"receiving", "handling"}
        BY <1>4, <2>1, DisconnectEndings DEF Cancel
    <2>2. CASE loop[c] \in {"new", "greeting"}
        BY <1>4, <2>2 DEF Cancel
    <2>3. CASE loop[c] = "leaving"
        BY <1>4, <2>3 DEF Cancel
    <2>4. QED BY <1>4, <2>1, <2>2, <2>3 DEF Cancel
<1>5. CASE WatchdogFires(c)
    BY <1>5 DEF WatchdogFires, ChannelCloses, Released
<1>6. CASE UserCloses(c)
    BY <1>6 DEF UserCloses, ChannelCloses, Released
<1>7. CASE StartCall(c)
    BY <1>7 DEF StartCall
<1>8. CASE PeerSends(c)
    BY <1>8 DEF PeerSends
<1>9. CASE PeerLeaves(c)
    BY <1>9 DEF PeerLeaves
<1>10. QED BY <1>1, <1>2, <1>3, <1>4, <1>5, <1>6, <1>7, <1>8, <1>9 DEF OtherStep

EndInv == ServerInv /\ \A c \in Conns : Endings(c)

LEMMA EndHolds == Spec => []EndInv
<1>1. Init => \A c \in Conns : Endings(c)
    BY DEF Init, Endings
<1>2. ASSUME ServerInv, \A c \in Conns : Endings(c), [Next]_vars
      PROVE  (\A c \in Conns : Endings(c))'
    <2>1. ASSUME NEW d \in Conns PROVE Endings(d)'
        <3>1. TypeOK /\ Endings(d) /\ ConnInv(d)
            BY <1>2 DEF ServerInv
        <3>2. CASE Tick \/ UNCHANGED vars
            <4>1. UNCHANGED <<active, loop, cause, channel, call>>
                BY <3>2 DEF Tick, vars
            <4>2. QED BY <3>1, <4>1 DEF Endings
        <3>3. ASSUME NEW c \in Conns, LoopStep(c) \/ OtherStep(c)
              PROVE  Endings(d)'
            <4>1. CASE c = d
                BY <3>1, <3>3, <4>1, LoopStepEndings, OtherStepEndings
            <4>2. CASE c # d
                <5>1. Others(c, d)
                    BY <3>1, <3>3, <4>2, LoopStepOthers, OtherStepOthers
                <5>2. QED BY <3>1, <5>1, OthersKeepEndings
            <4>3. QED BY <4>1, <4>2
        <3>4. QED BY <1>2, <3>2, <3>3 DEF Next
    <2>2. QED BY <2>1
<1>3. QED BY <1>1, <1>2, InvHolds, NextInv, PTL DEF Spec, EndInv

(* What a main_loop that returned or raised can leave behind, however it   *)
(* ended: a call waits only where a frame was not JSON or too large or had *)
(* an id that no answer can carry, where the send queue was full for the   *)
(* answer, or where the loop was cancelled before it received; the         *)
(* connection is still listed only where an exception escaped that no      *)
(* handler has; the channel is still open only where a call may wait.      *)
OnlyUncaughtLeaves ==
    \A c \in Conns :
        Ended(c) =>
            /\ NoCallHangs(c)
            /\ c \in active =>
                  /\ loop[c] = "escaped"
                  /\ cause[c] \in {"no offer", "oversized", "refused reply",
                                   "queue full", "cancelled"}
            /\ channel[c] = "open" =>
                  \/ cause[c] \in {"undecodable", "oversized", "queue full"}
                  \/ cause[c] = "cancelled" /\ c \in active

(* The part of EndIsNoticed that is about a state.                         *)
THEOREM LeftoversAreKnown == Spec => []OnlyUncaughtLeaves
<1>1. ASSUME EndInv PROVE OnlyUncaughtLeaves
    <2> SUFFICES ASSUME NEW c \in Conns, Ended(c)
                 PROVE  /\ NoCallHangs(c)
                        /\ c \in active =>
                              /\ loop[c] = "escaped"
                              /\ cause[c] \in {"no offer", "oversized",
                                               "refused reply", "queue full", "cancelled"}
                        /\ channel[c] = "open" =>
                              \/ cause[c] \in {"undecodable", "oversized", "queue full"}
                              \/ cause[c] = "cancelled" /\ c \in active
        BY DEF OnlyUncaughtLeaves
    <2>1. ConnInv(c) /\ Endings(c) /\ TypeOK
        BY <1>1 DEF EndInv, ServerInv
    <2>2. cause[c] \in {"refused", "no offer", "undecodable", "oversized", "ended",
                       "idle", "refused reply", "queue full", "cancelled"}
        BY <2>1 DEF Endings, Ended, TypeOK
    <2>3. channel[c] = "open" => \/ cause[c] \in {"undecodable", "oversized", "queue full"}
                                 \/ cause[c] = "cancelled" /\ c \in active
        BY <2>1, <2>2 DEF Endings, ConnInv, ChannelEnds, LeftInOrder
    <2>4. call[c] = "waiting" => channel[c] = "open"
        BY <2>1 DEF Endings, ConnInv, ChannelEnds, TypeOK
    <2>5. c \in active => /\ loop[c] = "escaped"
                          /\ cause[c] \in {"no offer", "oversized",
                                           "refused reply", "queue full", "cancelled"}
        BY <2>1, <2>2 DEF Endings, ConnInv, Listed, Ended
    <2>6. QED BY <2>3, <2>4, <2>5 DEF NoCallHangs
<1>2. QED BY <1>1, EndHolds, PTL

=============================================================================
