--------------------------- MODULE ProtocolHandler ---------------------------
(***************************************************************************)
(* One side of a channel handles the messages that its reader receives,    *)
(* one after the other: RpcProtocolHandler with RpcMethodInvoker.          *)
(*                                                                         *)
(* The code suspends in the method and in the send; a step runs from one   *)
(* such point to the next.  A reply can fail in the send, and a failure    *)
(* while the result is sent is itself answered.                            *)
(***************************************************************************)
EXTENDS MethodInvoker, Sequences

CONSTANTS
    Signatures,  \* signatures of the exposed methods
    ParamLists   \* params of the requests

ASSUME SignaturesAssumption == \A sig \in Signatures : IsSignature(sig)
ASSUME ParamListsAssumption == \A p \in ParamLists : IsParams(p)

VARIABLES
    stage,    \* where the reader is with the message
    message,  \* the message it handles or handled last
    frame,    \* the reply that is being sent
    sent,     \* replies to the message that were sent
    ran,      \* the method was started
    outcome   \* how it ended

vars == <<stage, message, frame, sent, ran, outcome>>

Stages == {"idle", "running", "replying", "handled", "escaped", "cancelled"}

(* An id: absent or null; one that JsonRpcRequest takes; one that only     *)
(* JsonRpcResponse takes (empty, too long, negative); one that neither     *)
(* takes (a list, an object).                                              *)
Ids == {"none", "good", "bad", "unusable"}

Malformed == {"notDict", "unknown", "badVersion", "badFields"}

(* str() is applied to the result of a method whose return type is not     *)
(* annotated or is str.                                                    *)
Requests ==
    [form : {"request"}, id : {"none", "good"}, access : {"public"},
     sig : Signatures, params : ParamLists, converts : BOOLEAN]
      \cup
    [form : {"request"}, id : {"none", "good"}, access : Accesses \ {"public"},
     sig : {Nullary}, params : ParamLists, converts : BOOLEAN]

(* A bad id makes the fields of a request bad.                             *)
Others ==
    [form : Malformed \ {"notDict"}, id : Ids]
        \cup [form : {"notDict"}, id : {"none"}]
        \cup [form : {"response"}, id : Ids \ {"unusable"}]

Messages == Requests \cup Others

NoMessage == [form |-> "nothing"]

Codes == {"INVALID_REQUEST", "METHOD_NOT_FOUND", "INVALID_PARAMS",
          "INTERNAL_ERROR"}
Bodies == Codes \cup {"result", "empty", "unserialisable"}
Frames == [id : Ids \ {"unusable"}, body : Bodies]
NoFrame == [body |-> "nothing"]

Outcomes == {"value", "None", "NoResponse", "unserialisable",
             "TypeError", "raises", "notAwaitable"}

Init ==
    /\ stage = "idle"
    /\ message = NoMessage
    /\ frame = NoFrame
    /\ sent = <<>>
    /\ ran = FALSE
    /\ outcome = "pending"

-----------------------------------------------------------------------------
(* The reader, being idle, received m.                                     *)
Take(m) ==
    /\ message' = m
    /\ UNCHANGED <<sent, outcome>>

Reply(id, body) ==
    /\ stage' = "replying"
    /\ frame' = [id |-> id, body |-> body]

Silent ==
    /\ stage' = "handled"
    /\ frame' = NoFrame

(* Errors of a notification are not reported.                              *)
ReplyError(m, code) ==
    IF m.id # "none" THEN Reply(m.id, code) ELSE Silent

(* Mutant: the error response is built without a check of its id.          *)
HandleMalformed_EchoesId(m) ==
    /\ Take(m)
    /\ m.form \in Malformed
    /\ Reply(m.id, "INVALID_REQUEST")
    /\ ran' = FALSE

(* handle_message on what is neither a request nor a response.  The        *)
(* ValidationError of pydantic is a ValueError, so the code is the same    *)
(* for all.  An error response with an unusable id cannot be built.        *)
HandleMalformed(m) ==
    /\ Take(m)
    /\ m.form \in Malformed
    /\ IF m.id = "unusable"
       THEN stage' = "escaped" /\ frame' = NoFrame
       ELSE Reply(m.id, "INVALID_REQUEST")
    /\ ran' = FALSE

(* handle_response: the promise manager stores or drops it.                *)
HandleResponse(m) ==
    /\ Take(m)
    /\ m.form = "response"
    /\ Silent
    /\ ran' = FALSE

RefuseMethod(m) ==
    /\ Take(m)
    /\ m.form = "request"
    /\ ~MayCall(m.access)
    /\ ReplyError(m, "METHOD_NOT_FOUND")
    /\ ran' = FALSE

(* convert_params raises, or Python cannot bind the arguments.             *)
Unbindable(m) ==
    \/ ParamsRefused(m.sig, m.params)
    \/ ~BindsByName(m.sig, DOMAIN Arguments(m.params))

RefuseParams(m) ==
    /\ Take(m)
    /\ m.form = "request"
    /\ MayCall(m.access)
    /\ Unbindable(m)
    /\ ReplyError(m, "INVALID_PARAMS")
    /\ ran' = FALSE

Invoke(m) ==
    /\ Take(m)
    /\ m.form = "request"
    /\ MayCall(m.access)
    /\ ~Unbindable(m)
    /\ stage' = "running"
    /\ frame' = NoFrame
    /\ ran' = TRUE

-----------------------------------------------------------------------------
(* get_return_type and model_dump(exclude_none=True): what is sent for a   *)
(* result.                                                                 *)
Dumped(result) ==
    CASE message.converts            -> "result"
      [] result = "unserialisable"   -> "unserialisable"
      [] result = "None"             -> "empty"
      [] OTHER                       -> "result"

ReplyResult(result) ==
    IF message.id # "none" THEN Reply(message.id, Dumped(result)) ELSE Silent

(* Mutant: a ValueError of the method is taken for one of convert_params.  *)
AnswerFor_ValueError(how) ==
    CASE how \in {"TypeError", "notAwaitable", "raises"} ->
            ReplyError(message, "INVALID_PARAMS")
      [] how = "NoResponse" -> Silent
      [] OTHER -> ReplyResult(how)

AnswerFor(how) ==
    CASE how \in {"TypeError", "notAwaitable"} ->
            ReplyError(message, "INVALID_PARAMS")
      [] how = "raises" -> ReplyError(message, "INTERNAL_ERROR")
      [] how = "NoResponse" -> Silent
      [] OTHER -> ReplyResult(how)

Return(how) ==
    /\ stage = "running"
    /\ outcome' = how
    /\ AnswerFor(how)
    /\ UNCHANGED <<message, sent, ran>>

(* The reply is written to the socket.                                     *)
Deliver ==
    /\ stage = "replying"
    /\ frame.body # "unserialisable"
    /\ sent' = Append(sent, frame)
    /\ Silent
    /\ UNCHANGED <<message, ran, outcome>>

(* Mutant: the error response is sent although the result had left.        *)
SendFails_Late ==
    /\ stage = "replying"
    /\ IF frame.body \in Codes
       THEN stage' = "escaped" /\ frame' = NoFrame /\ UNCHANGED sent
       ELSE /\ ReplyError(message, "INTERNAL_ERROR")
            /\ sent' = Append(sent, frame)
    /\ UNCHANGED <<message, ran, outcome>>

(* send_raw raises: the channel is closed, the queue is full, the          *)
(* connection is broken.  For a result it is one more error of the method; *)
(* for an error response it leaves on_message after the error callbacks.   *)
SendFails ==
    /\ stage = "replying"
    /\ IF frame.body \in Codes
       THEN stage' = "escaped" /\ frame' = NoFrame
       ELSE ReplyError(message, "INTERNAL_ERROR")
    /\ UNCHANGED <<message, sent, ran, outcome>>

(* json.dumps raises TypeError.                                            *)
SerialiseFails ==
    /\ stage = "replying"
    /\ frame.body = "unserialisable"
    /\ ReplyError(message, "INVALID_PARAMS")
    /\ UNCHANGED <<message, sent, ran, outcome>>

(* The reader goes on to the next message.                                 *)
Continue ==
    /\ stage = "handled"
    /\ stage' = "idle"
    /\ message' = NoMessage
    /\ sent' = <<>>
    /\ ran' = FALSE
    /\ outcome' = "pending"
    /\ UNCHANGED frame

(* The reader is cancelled; CancelledError is no Exception.                *)
Cancel ==
    /\ stage \in {"running", "replying"}
    /\ stage' = "cancelled"
    /\ frame' = NoFrame
    /\ UNCHANGED <<message, sent, ran, outcome>>

-----------------------------------------------------------------------------
Handle(m) ==
    \/ HandleMalformed(m)
    \/ HandleResponse(m)
    \/ RefuseMethod(m)
    \/ RefuseParams(m)
    \/ Invoke(m)

Next ==
    \/ stage = "idle" /\ \E m \in Messages : Handle(m)
    \/ \E how \in Outcomes : Return(how)
    \/ Deliver
    \/ SendFails
    \/ SerialiseFails
    \/ Continue
    \/ Cancel

Spec == Init /\ [][Next]_vars

-----------------------------------------------------------------------------
(* Properties.                                                             *)

(* Type invariant.                                                         *)
TypeOK ==
    /\ stage \in Stages
    /\ message \in Messages \cup {NoMessage}
    /\ frame \in Frames \cup {NoFrame}
    /\ sent \in Seq(Frames)
    /\ ran \in BOOLEAN
    /\ outcome \in Outcomes \cup {"pending"}

IsRequest == message.form = "request"

Expected ==
    \/ message.form \in Malformed
    \/ IsRequest /\ message.id # "none" /\ outcome # "NoResponse"

(* A message the reader is done with was answered exactly once when an     *)
(* answer is due, with its own id, and not at all otherwise: notifications *)
(* and responses never are, whatever goes wrong.  A message whose handling *)
(* was left by an exception was not answered at all.                       *)
AnsweredOnce ==
    /\ stage # "handled" => sent = <<>>
    /\ stage = "handled" =>
        \/ Expected /\ \E f \in Frames : sent = <<f>> /\ f.id = message.id
        \/ ~Expected /\ sent = <<>>

(* What an answer tells of the method.  INVALID_REQUEST and                *)
(* METHOD_NOT_FOUND say that nothing ran, and INTERNAL_ERROR that the      *)
(* method ran and failed or could not be answered.  INVALID_PARAMS says    *)
(* neither: the params could not be bound, or the method ran and raised a  *)
(* TypeError of its own, was not awaitable, or gave what cannot be         *)
(* serialised; nothing else ends so.  A result comes from a method that    *)
(* returned it, and what a peer may not call never runs.                   *)
AnswerTellsWhatRan ==
    /\ ran => IsRequest /\ message.access \in {"public", "builtin"}
    /\ \A i \in DOMAIN sent :
        /\ sent[i].body \in {"INVALID_REQUEST", "METHOD_NOT_FOUND"} => ~ran
        /\ sent[i].body = "INVALID_PARAMS" =>
              \/ ~ran /\ IsRequest /\ Unbindable(message)
              \/ ran /\ outcome \in {"TypeError", "notAwaitable",
                                      "unserialisable"}
        /\ sent[i].body = "INTERNAL_ERROR" =>
              ran /\ outcome \in {"raises", "value", "None", "unserialisable"}
        /\ sent[i].body \in {"result", "empty"} =>
              ran /\ outcome \in {"value", "None", "unserialisable"}

(* A list of params that a method receives reaches the parameters a Python *)
(* call by position would give it to, except where a positional-only       *)
(* parameter is to take a value: there a method with **kwargs runs with    *)
(* the value astray.  And a list that Python would take is refused only    *)
(* for keyword-only parameters, for *args, and for positional-only ones.   *)
ListsBindByPosition ==
    IsRequest /\ message.params.kind = "listed"
    => LET sig == message.sig
           count == message.params.count
       IN  /\ ran => (ListAgrees(sig, count) <=> ~Astray(sig, count))
           /\ RefusedWithoutNeed(sig, count) =>
                 \/ KeywordOnly(sig) > 0
                 \/ count > Positional(sig)
                 \/ Astray(sig, count)

=============================================================================
