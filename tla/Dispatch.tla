------------------------------ MODULE Dispatch ------------------------------
(***************************************************************************)
(* Two peers that call each other over one connection.  Each has one       *)
(* reader, which awaits the handling of a message, and so the called       *)
(* method, before it receives the next one; on the server it awaits the    *)
(* connect callbacks before it receives at all.  Answers are received by   *)
(* the same reader.                                                        *)
(*                                                                         *)
(* What the promise manager does with an answer is PromiseManager, what a  *)
(* handler does with a request ProtocolHandler, how the connection ends    *)
(* ClientLifecycle and ServerEndpoint; here they are one step each.        *)
(***************************************************************************)
EXTENDS Naturals, Sequences

CONSTANT MaxCalls  \* bound on the calls that both peers make

ASSUME MaxCallsAssumption == MaxCalls \in Nat

(* The id of a call is new, as gen_uid makes it: its place in the order in *)
(* which the calls are made.                                               *)
Calls == 1 .. MaxCalls
NoCall == 0

Peers == {"client", "server"}
Other(p) == IF p = "client" THEN "server" ELSE "client"

VARIABLES
    timed,    \* the peer has a default_response_timeout
    autoReconnect, \* the client's auto_reconnect
    link,     \* the connection: "up" or "down"
    closed,   \* the peer's channel is closed
    inbox,    \* frames on their way to the peer's reader
    reader,   \* where the peer's reader is
    handles,  \* the call whose method it awaits
    awaits,   \* the call that this method, or a connect callback, awaits
    caller,   \* who made the call, or made the task that makes it
    kind,     \* what waits for its answer
    status,   \* what became of the call on the caller's side
    reply     \* what the method on the other side gave

vars == <<timed, autoReconnect, link, closed, inbox, reader, handles, awaits,
          caller, kind, status, reply>>
settings == <<timed, autoReconnect>>

Places == {"callbacks", "receiving", "handling", "ended", "failed"}

(* A call is awaited by a task of its own, by the reader itself (nested),  *)
(* by the task that learns the id of the other channel, or by nothing:     *)
(* call_me_back keeps the answer for get_response.                         *)
Kinds == {"task", "nested", "sync", "background"}

(* What a method gives: a result or an error; None, whose frame has        *)
(* neither; NoResponse, for which no frame is sent.                        *)
Replies == {"answer", "empty", "noResponse"}

Bodies == Replies \ {"noResponse"}
Requests == [type : {"request"}, call : Calls]
Answers == [type : {"answer"}, call : Calls, body : Bodies]
Frames == Requests \cup Answers

Init ==
    /\ timed \in [Peers -> BOOLEAN]
    /\ autoReconnect \in BOOLEAN
    /\ link = "up"
    /\ closed = [p \in Peers |-> FALSE]
    /\ inbox = [p \in Peers |-> <<>>]
    /\ reader = [client |-> "receiving", server |-> "callbacks"]
    /\ handles = [p \in Peers |-> NoCall]
    /\ awaits = [p \in Peers |-> NoCall]
    /\ caller = [c \in Calls |-> "client"]
    /\ kind = [c \in Calls |-> "task"]
    /\ status = [c \in Calls |-> "unused"]
    /\ reply = [c \in Calls |-> "none"]

CanSend(p) == link = "up" /\ ~closed[p]

Request(c) == [type |-> "request", call |-> c]
Answer(c, body) == [type |-> "answer", call |-> c, body |-> body]

-----------------------------------------------------------------------------
(* Calls.                                                                  *)

(* Calls are made in the order of their ids.                               *)
IsNext(c) ==
    /\ status[c] = "unused"
    /\ \A d \in Calls : d < c => status[d] # "unused"

(* async_call: RpcProxy, RpcChannel.call and the first half of             *)
(* call_me_back.  A call that cannot be sent raises and leaves nothing     *)
(* that waits.                                                             *)
Make(p, c, k) ==
    /\ IsNext(c)
    /\ CanSend(p)
    /\ caller' = [caller EXCEPT ![c] = p]
    /\ kind' = [kind EXCEPT ![c] = k]
    /\ status' = [status EXCEPT ![c] = "waiting"]
    /\ inbox' = [inbox EXCEPT ![Other(p)] = Append(@, Request(c))]

CallFromTask(p, c) ==
    /\ Make(p, c, "task")
    /\ UNCHANGED <<settings, link, closed, reader, handles, awaits, reply>>

(* The server's on_connect starts a task that asks for the client's id.    *)
Syncs(p) == {c \in Calls : status[c] # "unused" /\ kind[c] = "sync"
                             /\ caller[c] = p}

CallForId(p, c) ==
    /\ p = "server"
    /\ Syncs(p) = {}
    /\ Make(p, c, "sync")
    /\ UNCHANGED <<settings, link, closed, reader, handles, awaits, reply>>

(* A method or a connect callback awaits a call to the other side.         *)
CallFromReader(p, c) ==
    /\ reader[p] \in {"handling", "callbacks"}
    /\ awaits[p] = NoCall
    /\ Make(p, c, "nested")
    /\ awaits' = [awaits EXCEPT ![p] = c]
    /\ UNCHANGED <<settings, link, closed, reader, handles, reply>>

(* call_me_back: a task makes the call, and the method goes on.            *)
CallInBackground(p, c) ==
    /\ reader[p] = "handling"
    /\ awaits[p] = NoCall
    /\ Make(p, c, "background")
    /\ UNCHANGED <<settings, link, closed, reader, handles, awaits, reply>>

-----------------------------------------------------------------------------
(* The reader.                                                             *)

(* The connect callbacks returned; the loop begins.                        *)
BeginLoop(p) ==
    /\ reader[p] = "callbacks"
    /\ awaits[p] = NoCall
    /\ reader' = [reader EXCEPT ![p] = "receiving"]
    /\ UNCHANGED <<settings, link, closed, inbox, handles, awaits, caller, kind,
                   status, reply>>

(* Mutant: every message has a task of its own, and the reader goes on.    *)
Receives_AsTasks(p) ==
    reader[p] \in {"receiving", "handling"} /\ inbox[p] # <<>>

Receives(p) == reader[p] = "receiving" /\ inbox[p] # <<>>

StartMethod(p) ==
    /\ Receives(p)
    /\ Head(inbox[p]).type = "request"
    /\ inbox' = [inbox EXCEPT ![p] = Tail(@)]
    /\ reader' = [reader EXCEPT ![p] = "handling"]
    /\ handles' = [handles EXCEPT ![p] = Head(inbox[p]).call]
    /\ UNCHANGED <<settings, link, closed, awaits, caller, kind, status, reply>>

(* Mutant: ids are not told apart by who made them.                        *)
Awaited_ByAny(p, c) == status[c] = "waiting"

(* An answer is stored if the peer made the call and still knows it.  An   *)
(* empty answer is of unknown form and is itself answered with an error.   *)
Awaited(p, c) == caller[c] = p /\ status[c] = "waiting"

Bounced(f) == f.body = "empty"

(* A client with auto_reconnect makes a new channel when it connects again *)
(* and does not close this one, unless the close code tells it to give up. *)
Reconnects(p) == p = "client" /\ autoReconnect

(* Mutant: handle_disconnect forgets the connection and not the channel.   *)
EndReader_Forgets(p) ==
    /\ reader' = [reader EXCEPT ![p] = "ended"]
    /\ \/ p = "client" /\ closed' = [closed EXCEPT ![p] = TRUE]
       \/ (p = "server" \/ Reconnects(p)) /\ UNCHANGED closed
    /\ link' = "down"
    /\ inbox' = [inbox EXCEPT ![p] = <<>>]

(* The reader finds the connection gone and ends; what it did not receive  *)
(* is lost.                                                                *)
EndReader(p) ==
    /\ reader' = [reader EXCEPT ![p] = "ended"]
    /\ \/ closed' = [closed EXCEPT ![p] = TRUE]
       \/ Reconnects(p) /\ UNCHANGED closed
    /\ link' = "down"
    /\ inbox' = [inbox EXCEPT ![p] = <<>>]

(* The reader is left by an error that is not about the connection, and    *)
(* its channel stays as it is.  On the server the connection goes with     *)
(* main_loop.                                                              *)
FailReader(p) ==
    /\ reader' = [reader EXCEPT ![p] = "failed"]
    /\ link' = IF p = "server" THEN "down" ELSE link
    /\ UNCHANGED <<inbox, closed>>

(* A frame that is too large, or of the wrong form for the socket.         *)
FrameFails(p) ==
    /\ Receives(p)
    /\ FailReader(p)
    /\ UNCHANGED <<settings, handles, awaits, caller, kind, status, reply>>

TakeAnswer(p) ==
    /\ Receives(p)
    /\ LET f == Head(inbox[p])
       IN  /\ f.type = "answer"
           /\ ~Bounced(f)
           /\ status' = IF Awaited(p, f.call)
                        THEN [status EXCEPT ![f.call] = "answered"]
                        ELSE status
    /\ inbox' = [inbox EXCEPT ![p] = Tail(@)]
    /\ UNCHANGED <<settings, link, closed, reader, handles, awaits, caller,
                   kind, reply>>

BounceAnswer(p) ==
    /\ Receives(p)
    /\ LET f == Head(inbox[p])
       IN  /\ f.type = "answer"
           /\ Bounced(f)
           /\ \/ /\ CanSend(p)
                 /\ inbox' = [inbox EXCEPT ![p] = Tail(@),
                         ![Other(p)] = Append(@, Answer(f.call, "answer"))]
                 /\ UNCHANGED <<reader, closed, link>>
              \/ link = "up" /\ FailReader(p)
              \/ link = "down" /\ EndReader(p)
    /\ UNCHANGED <<settings, handles, awaits, caller, kind, status, reply>>

(* The call that the method or the callback awaits ended, well or not.     *)
Resume(p) ==
    /\ awaits[p] # NoCall
    /\ status[awaits[p]] # "waiting"
    /\ awaits' = [awaits EXCEPT ![p] = NoCall]
    /\ UNCHANGED <<settings, link, closed, inbox, reader, handles, caller, kind,
                   status, reply>>

(* Mutant: NoResponse is sent like a value.                                *)
Silent_Never(how) == FALSE

(* No frame is sent for NoResponse.                                        *)
Silent(how) == how = "noResponse"

(* The method ends.  An answer that cannot be sent ends the reader; over a *)
(* connection that is up, a closed channel or a full send queue refuses    *)
(* the answer and the error that is sent for it.  The built-in that tells  *)
(* the id returns a value.                                                 *)
FinishMethod(p, how) ==
    /\ reader[p] = "handling"
    /\ awaits[p] = NoCall
    /\ kind[handles[p]] = "sync" => how = "answer"
    /\ reply' = [reply EXCEPT ![handles[p]] = how]
    /\ handles' = [handles EXCEPT ![p] = NoCall]
    /\ \/ /\ Silent(how)
          /\ reader' = [reader EXCEPT ![p] = "receiving"]
          /\ UNCHANGED <<inbox, closed, link>>
       \/ /\ ~Silent(how) /\ CanSend(p)
          /\ reader' = [reader EXCEPT ![p] = "receiving"]
          /\ inbox' = [inbox EXCEPT
                         ![Other(p)] = Append(@, Answer(handles[p], how))]
          /\ UNCHANGED <<closed, link>>
       \/ ~Silent(how) /\ link = "up" /\ FailReader(p)
       \/ ~Silent(how) /\ link = "down" /\ EndReader(p)
    /\ UNCHANGED <<settings, awaits, caller, kind, status>>

(* The reader sees that the connection is gone, or is cancelled by close() *)
(* where it receives.                                                      *)
NoticeEnd(p) ==
    /\ reader[p] = "receiving"
    /\ link = "down"
    /\ closed[p] \/ inbox[p] = <<>>
    /\ EndReader(p)
    /\ UNCHANGED <<settings, handles, awaits, caller, kind, status, reply>>

-----------------------------------------------------------------------------
(* The caller's side.                                                      *)

(* Mutant: calls that a method makes are not timed.                        *)
TimesOut_NotNested(c) == timed[caller[c]] /\ kind[c] \in {"task", "sync"}

TimesOut(c) == timed[caller[c]] /\ kind[c] # "background"

CallTimesOut(c) ==
    /\ status[c] = "waiting"
    /\ TimesOut(c)
    /\ status' = [status EXCEPT ![c] = "failed"]
    /\ UNCHANGED <<settings, link, closed, inbox, reader, handles, awaits,
                   caller, kind, reply>>

(* Closing the channel ends every wait.                                    *)
CallFails(c) ==
    /\ status[c] = "waiting"
    /\ closed[caller[c]]
    /\ kind[c] # "background"
    /\ status' = [status EXCEPT ![c] = "failed"]
    /\ UNCHANGED <<settings, link, closed, inbox, reader, handles, awaits,
                   caller, kind, reply>>

-----------------------------------------------------------------------------
(* Environment.                                                            *)

(* The connection breaks; of what was on its way the end is lost.          *)
Break ==
    /\ link = "up"
    /\ link' = "down"
    /\ \E n \in 0 .. Len(inbox["client"]), m \in 0 .. Len(inbox["server"]) :
          inbox' = [client |-> SubSeq(inbox["client"], 1, n),
                    server |-> SubSeq(inbox["server"], 1, m)]
    /\ UNCHANGED <<settings, closed, reader, handles, awaits, caller, kind,
                   status, reply>>

(* A task closes the channel, and with it the websocket.                   *)
Close(p) ==
    /\ ~closed[p]
    /\ closed' = [closed EXCEPT ![p] = TRUE]
    /\ link' = "down"
    /\ UNCHANGED <<settings, inbox, reader, handles, awaits, caller, kind,
                   status, reply>>

(* The duration watchdog closes the channel and nothing else.              *)
Expire(p) ==
    /\ ~closed[p]
    /\ closed' = [closed EXCEPT ![p] = TRUE]
    /\ UNCHANGED <<settings, link, inbox, reader, handles, awaits, caller, kind,
                   status, reply>>

-----------------------------------------------------------------------------
MakesCall(p, c) ==
    \/ CallFromTask(p, c)
    \/ CallForId(p, c)
    \/ CallFromReader(p, c)
    \/ CallInBackground(p, c)

ReaderStep(p) ==
    \/ BeginLoop(p)
    \/ StartMethod(p)
    \/ TakeAnswer(p)
    \/ BounceAnswer(p)
    \/ FrameFails(p)
    \/ Resume(p)
    \/ \E how \in Replies : FinishMethod(p, how)
    \/ NoticeEnd(p)

CallEnds(c) == CallTimesOut(c) \/ CallFails(c)

Next ==
    \/ \E p \in Peers, c \in Calls : MakesCall(p, c)
    \/ \E p \in Peers : ReaderStep(p)
    \/ \E c \in Calls : CallEnds(c)
    \/ \E p \in Peers : Close(p) \/ Expire(p)
    \/ Break

Spec == Init /\ [][Next]_vars

(* The event loop runs what can run, methods and callbacks return once the *)
(* calls they await have ended, frames arrive while the connection is up,  *)
(* timers fire.                                                            *)
Fairness ==
    /\ \A p \in Peers : WF_vars(ReaderStep(p))
    /\ \A c \in Calls : WF_vars(CallEnds(c))

FairSpec == Spec /\ Fairness

-----------------------------------------------------------------------------
(* Properties.                                                             *)

(* Type invariant.                                                         *)
TypeOK ==
    /\ timed \in [Peers -> BOOLEAN]
    /\ autoReconnect \in BOOLEAN
    /\ link \in {"up", "down"}
    /\ closed \in [Peers -> BOOLEAN]
    /\ inbox \in [Peers -> Seq(Frames)]
    /\ reader \in [Peers -> Places]
    /\ handles \in [Peers -> Calls \cup {NoCall}]
    /\ awaits \in [Peers -> Calls \cup {NoCall}]
    /\ caller \in [Calls -> Peers]
    /\ kind \in [Calls -> Kinds]
    /\ status \in [Calls -> {"unused", "waiting", "answered", "failed"}]
    /\ reply \in [Calls -> Replies \cup {"none"}]

(* A call that a method or a connect callback awaits is never answered:    *)
(* the reader that would take the answer awaits the method.  It ends by    *)
(* its time-out or with the connection.  rpc_methods.py offers the channel *)
(* to methods for calls back.                                              *)
NestedCallsStarve ==
    \A c \in Calls : kind[c] = "nested" => status[c] # "answered"

(* A stored answer is what the method gave, a result or an error; the      *)
(* error that answers an empty frame is taken for no call's answer.        *)
AnswersAreReal ==
    \A c \in Calls :
        status[c] = "answered" => reply[c] = "answer"

(* Where the peer has a response time-out, frames that wait for its reader *)
(* are all received, or the reader ends: it is never blocked for good.     *)
FramesAreReceived ==
    \A p \in Peers :
        timed[p] /\ inbox[p] # <<>> ~>
            inbox[p] = <<>> \/ reader[p] \in {"ended", "failed"}

(* Nobody will answer the call, and nobody closes its channel: the reader  *)
(* of its channel failed, or was lost to a reconnection that replaces the  *)
(* channel; or the reader of the other side failed and the connection      *)
(* stays up.                                                               *)
Abandoned(c) ==
    LET p == caller[c]
    IN  \/ reader[p] = "failed" /\ ~closed[p]
        \/ reader[p] = "ended" /\ ~closed[p] /\ Reconnects(p)
        \/ reader[Other(p)] = "failed" /\ link = "up"

(* Without any time-out, a call waits forever only if its method returned  *)
(* None or NoResponse, if a reader is blocked by a nested call, if it is   *)
(* a background call that nothing awaits and the channel is closed, or if  *)
(* it was abandoned.                                                       *)
StallsHaveReasons ==
    \A c \in Calls :
        []<>~ /\ status[c] = "waiting"
              /\ reply[c] \notin {"empty", "noResponse"}
              /\ \A p \in Peers : awaits[p] = NoCall
              /\ kind[c] = "background" => ~closed[caller[c]]
              /\ ~Abandoned(c)

(* README.md:208-210 of a lost connection: the client reconnects, pending  *)
(* requests raise.  A call of a task that waits when the client's reader   *)
(* has seen the loss ends.                                                 *)
PendingRequestsRaise ==
    \A c \in Calls :
        (/\ caller[c] = "client" /\ kind[c] = "task" /\ status[c] = "waiting"
         /\ reader["client"] = "ended") ~> status[c] # "waiting"

=============================================================================
