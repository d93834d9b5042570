----------------------- MODULE ProtocolHandler_proofs -----------------------
(***************************************************************************)
(* Theorems about MethodInvoker for every signature, and about             *)
(* ProtocolHandler for any signatures and params.                          *)
(***************************************************************************)
EXTENDS ProtocolHandler, TLAPS

(* A list that passes the checks and reaches the method binds as Python    *)
(* would bind the values by position, exactly when no value of it goes to  *)
(* a positional-only parameter; for every signature.                       *)
THEOREM ListBinds ==
    ASSUME NEW sig, IsSignature(sig), NEW count \in Nat,
           ~ListRefused(sig, count), BindsByName(sig, 1 .. count)
    PROVE  ListAgrees(sig, count) <=> ~Astray(sig, count)
<1> USE DEF IsSignature, ListRefused, Positional, KeywordOnly, MaxCount,
            RequiredCount
<1> DEFINE p == sig.positionalOnly
           n == sig.positionalOnly + sig.standard
<1>1. /\ sig.keywordRequired = 0
      /\ count <= n /\ n - sig.optional <= count
      /\ p \in Nat /\ n \in Nat /\ p <= n /\ sig.optional \in Nat
      /\ Positional(sig) = n /\ MaxCount(sig) = n
    OBVIOUS
<1>2. ByKeyword(sig) = p + 1 .. n
    BY <1>1 DEF ByKeyword
<1>3. Required(sig) = 1 .. n - sig.optional
    <2>1. Required(sig) = (1 .. n - sig.optional) \cup (n + 1 .. n)
        BY <1>1 DEF Required
    <2>2. n + 1 .. n = {}
        BY <1>1
    <2> QED BY <2>1, <2>2
<1>4. BindsByPosition(sig, count)
    <2>1. Required(sig) \subseteq 1 .. count /\ Required(sig) \subseteq 1 .. n
        BY <1>1, <1>3
    <2> QED BY <1>1, <2>1 DEF BindsByPosition
<1>5. BoundByName(sig, Arguments(Listed(count)))
          = [i \in 1 .. count \cap ByKeyword(sig) |-> i]
    <2>1. Arguments(Listed(count)) = [i \in 1 .. count |-> i]
        BY DEF Arguments, Listed
    <2> QED BY <2>1 DEF BoundByName
<1>6. BoundByPosition(sig, count) = [i \in 1 .. count |-> i]
    <2>1. {j \in 1 .. count : j <= Positional(sig)} = 1 .. count
        BY <1>1
    <2> QED BY <2>1 DEF BoundByPosition
<1>7. CASE Astray(sig, count)
    <2>1. 1 \in 1 .. count /\ 1 \notin ByKeyword(sig)
        BY <1>1, <1>2, <1>7 DEF Astray
    <2>2. DOMAIN BoundByName(sig, Arguments(Listed(count)))
            # DOMAIN BoundByPosition(sig, count)
        BY <2>1, <1>5, <1>6
    <2> QED BY <1>7, <2>2 DEF ListAgrees
<1>8. CASE ~Astray(sig, count)
    <2>1. p = 0 \/ count = 0
        BY <1>1, <1>8 DEF Astray
    <2>2. 1 .. count \cap ByKeyword(sig) = 1 .. count
        BY <2>1, <1>1, <1>2
    <2> QED BY <2>2, <1>4, <1>5, <1>6, <1>8 DEF ListAgrees
<1> QED BY <1>7, <1>8

(* The converse: a list that does not reach the method although Python     *)
(* would take it meets keyword-only parameters, has more values than       *)
(* parameters, or has values for positional-only ones.                     *)
THEOREM NeedlessRefusals ==
    ASSUME NEW sig, IsSignature(sig), NEW count \in Nat,
           RefusedWithoutNeed(sig, count)
    PROVE  KeywordOnly(sig) > 0 \/ count > Positional(sig) \/ Astray(sig, count)
<1> USE DEF IsSignature, Positional, KeywordOnly, MaxCount, RequiredCount
<1> SUFFICES ASSUME KeywordOnly(sig) = 0, count <= Positional(sig),
                    ~Astray(sig, count)
             PROVE  FALSE
    OBVIOUS
<1>1. sig.keywordRequired = 0 /\ MaxCount(sig) = Positional(sig)
    OBVIOUS
<1>2. Required(sig) \subseteq 1 .. count
    BY DEF RefusedWithoutNeed, BindsByPosition
<1>3. CASE ListRefused(sig, count)
    <2>1. count < Positional(sig) - sig.optional
        BY <1>1, <1>3 DEF ListRefused
    <2>2. Positional(sig) - sig.optional \in Required(sig)
        BY <2>1 DEF Required
    <2> QED BY <1>2, <2>1, <2>2
<1>4. CASE ~BindsByName(sig, 1 .. count)
    <2>1. sig.positionalOnly = 0 \/ count = 0
        BY DEF Astray
    <2>2. 1 .. count \subseteq ByKeyword(sig)
        BY <2>1, <1>1 DEF ByKeyword
    <2> QED BY <1>2, <1>4, <2>2 DEF BindsByName
<1> QED BY <1>3, <1>4 DEF RefusedWithoutNeed

-----------------------------------------------------------------------------
(* What the reader knows at each stage.                                    *)
IdleInv ==
    stage = "idle" =>
        message = NoMessage /\ sent = <<>> /\ ~ran /\ outcome = "pending"

RunInv ==
    ran => /\ message \in Requests
           /\ MayCall(message.access)
           /\ ~Unbindable(message)

RunningInv == stage = "running" => ran /\ sent = <<>> /\ outcome = "pending"

(* When each error is sent.                                                *)
Justified(code) ==
    /\ code \in {"INVALID_REQUEST", "METHOD_NOT_FOUND"} => ~ran
    /\ code = "INVALID_PARAMS" =>
          \/ ~ran /\ IsRequest /\ Unbindable(message)
          \/ ran /\ outcome \in {"TypeError", "notAwaitable", "unserialisable"}
    /\ code = "INTERNAL_ERROR" =>
          ran /\ outcome \in {"raises", "value", "None", "unserialisable"}

Truthful(f) ==
    /\ f \in Frames
    /\ f.id = message.id
    /\ Justified(f.body)
    /\ f.body = "unserialisable" => outcome = "unserialisable"
    /\ f.body \in {"result", "empty", "unserialisable"} =>
          ran /\ outcome \in {"value", "None", "unserialisable"}

ReplyingInv ==
    stage = "replying" => sent = <<>> /\ Expected /\ Truthful(frame)

HandledInv ==
    stage = "handled" =>
        \/ Expected /\ \E f \in Frames : sent = <<f>> /\ Truthful(f)
        \/ ~Expected /\ sent = <<>>

OverInv == stage \in {"escaped", "cancelled"} => sent = <<>>

Inv ==
    TypeOK /\ IdleInv /\ RunInv /\ RunningInv /\ ReplyingInv /\ HandledInv
      /\ OverInv

(* The fields of a request, and of every other message.                    *)
LEMMA Shapes ==
    ASSUME NEW m \in Messages
    PROVE  /\ m.form = "request" =>
                /\ m \in Requests
                /\ m.id \in {"none", "good"}
                /\ m.params \in ParamLists
                /\ IsSignature(m.sig)
           /\ m \in Requests => m.form = "request"
           /\ m.id \in Ids
           /\ m.form = "response" => m.id # "unusable"
           /\ m.form \in Malformed \cup {"request", "response"}
<1>1. IsSignature(Nullary)
    BY DEF IsSignature, Nullary
<1>2. CASE m \in Requests
    BY <1>1, <1>2, SignaturesAssumption DEF Requests, Ids
<1>3. CASE m \in Others
    <2>1. /\ m.form \in Malformed \cup {"response"} /\ m.id \in Ids
          /\ m.form = "response" => m.id # "unusable"
        BY <1>3 DEF Others, Ids, Malformed
    <2>2. m.form # "request"
        BY <2>1 DEF Malformed
    <2>3. m \notin Requests
        BY <2>2 DEF Requests
    <2> QED BY <2>1, <2>2, <2>3
<1> QED BY <1>2, <1>3 DEF Messages

(* At rest nothing is known of a message.                                  *)
LEMMA AtRest ==
    ASSUME stage = "idle", message = NoMessage, frame = NoFrame,
           sent = <<>>, ran = FALSE, outcome = "pending"
    PROVE  Inv
<1>0. sent \in Seq(Frames)
    BY <<>> \in Seq(Frames)
<1>1. TypeOK
    BY <1>0 DEF TypeOK, Stages
<1>2. IdleInv /\ RunInv /\ RunningInv /\ ReplyingInv /\ HandledInv /\ OverInv
    BY DEF IdleInv, RunInv, RunningInv, ReplyingInv, HandledInv, OverInv
<1> QED BY <1>1, <1>2 DEF Inv

LEMMA InitInv == Init => Inv
BY AtRest DEF Init

(* An error reply for a request that is being handled.                     *)
LEMMA ErrorReplied ==
    ASSUME TypeOK, message' \in Messages, message'.form = "request",
           NEW code \in Codes, ReplyError(message', code),
           sent = <<>>, UNCHANGED sent,
           ran' \in BOOLEAN, outcome' \in (Outcomes \cup {"pending"}) \ {"NoResponse"},
           Justified(code)',
           RunInv'
    PROVE  Inv'
<1> DEFINE m == message'
           f == [id |-> m.id, body |-> code]
<1>0. m.id \in {"none", "good"} /\ m.form \notin Malformed
    BY Shapes DEF Malformed
<1>1. CASE m.id # "none"
    <2>1. stage' = "replying" /\ frame' = f
        BY <1>1 DEF ReplyError, Reply
    <2>2. f \in Frames /\ code \notin {"result", "empty", "unserialisable"}
        BY <1>0 DEF Frames, Bodies, Ids, Codes
    <2>3. TypeOK'
        BY <2>1, <2>2 DEF TypeOK, Stages
    <2>4. Expected'
        BY <1>1 DEF Expected, IsRequest
    <2>5. f.id = m.id /\ f.body = code
        OBVIOUS
    <2>6. Truthful(frame)'
        BY <2>1, <2>2, <2>5 DEF Truthful, Justified
    <2>7. ReplyingInv'
        BY <2>4, <2>6 DEF ReplyingInv
    <2>8. IdleInv' /\ RunningInv' /\ HandledInv' /\ OverInv'
        BY <2>1 DEF IdleInv, RunningInv, HandledInv, OverInv
    <2> QED BY <2>3, <2>7, <2>8 DEF Inv
<1>2. CASE m.id = "none"
    <2>1. stage' = "handled" /\ frame' = NoFrame
        BY <1>2 DEF ReplyError, Silent
    <2>2. TypeOK'
        BY <2>1 DEF TypeOK, Stages
    <2>3. ~Expected'
        BY <1>0, <1>2 DEF Expected, IsRequest
    <2>4. IdleInv' /\ RunningInv' /\ ReplyingInv' /\ HandledInv' /\ OverInv'
        BY <2>1, <2>3 DEF IdleInv, RunningInv, ReplyingInv, HandledInv, OverInv
    <2> QED BY <2>2, <2>4 DEF Inv
<1> QED BY <1>1, <1>2

(* A message is taken.                                                     *)
LEMMA HandleInv ==
    ASSUME Inv, stage = "idle", NEW m \in Messages, Handle(m)
    PROVE  Inv'
<1> USE DEF Inv
<1>0. /\ TypeOK /\ sent = <<>> /\ outcome = "pending"
      /\ message' = m /\ UNCHANGED <<sent, outcome>>
    BY DEF IdleInv, Handle, HandleMalformed, HandleResponse, RefuseMethod,
           RefuseParams, Invoke, Take
<1>p. "pending" # "NoResponse" /\ "pending" \notin Outcomes
    BY DEF Outcomes
<1>1. CASE HandleMalformed(m)
    <2>1. ran' = FALSE /\ m.form \in Malformed /\ m.form # "request"
        BY <1>1 DEF HandleMalformed, Malformed
    <2>2. RunInv'
        BY <2>1 DEF RunInv
    <2>3. Expected'
        BY <1>0, <2>1 DEF Expected
    <2>4. CASE m.id = "unusable"
        <3>1. stage' = "escaped" /\ frame' = NoFrame
            BY <1>1, <2>4 DEF HandleMalformed
        <3>2. TypeOK'
            BY <3>1, <2>1, <1>0 DEF TypeOK, Stages
        <3> QED BY <3>1, <3>2, <2>2, <1>0
            DEF IdleInv, RunningInv, ReplyingInv, HandledInv, OverInv
    <2>5. CASE m.id # "unusable"
        <3> DEFINE f == [id |-> m.id, body |-> "INVALID_REQUEST"]
        <3>1. stage' = "replying" /\ frame' = f
            BY <1>1, <2>5 DEF HandleMalformed, Reply
        <3>2. f \in Frames /\ f.id = m.id /\ f.body = "INVALID_REQUEST"
            BY <2>5, Shapes DEF Frames, Bodies, Codes
        <3>3. TypeOK'
            BY <3>1, <3>2, <2>1, <1>0 DEF TypeOK, Stages
        <3>4. Truthful(frame)'
            BY <3>1, <3>2, <2>1, <1>0 DEF Truthful, Justified
        <3> QED BY <3>1, <3>3, <3>4, <2>2, <2>3, <1>0
            DEF IdleInv, RunningInv, ReplyingInv, HandledInv, OverInv
    <2> QED BY <2>4, <2>5
<1>2. CASE HandleResponse(m)
    <2>1. /\ stage' = "handled" /\ frame' = NoFrame /\ ran' = FALSE
          /\ m.form = "response"
        BY <1>2 DEF HandleResponse, Silent
    <2>2. ~Expected'
        BY <1>0, <2>1 DEF Expected, IsRequest, Malformed
    <2>3. TypeOK'
        BY <2>1, <1>0 DEF TypeOK, Stages
    <2> QED BY <2>1, <2>2, <2>3, <1>0
        DEF IdleInv, RunInv, RunningInv, ReplyingInv, HandledInv, OverInv
<1>3. CASE RefuseMethod(m)
    <2>1. m.form = "request" /\ ran' = FALSE
          /\ ReplyError(m, "METHOD_NOT_FOUND")
        BY <1>3 DEF RefuseMethod
    <2>2. RunInv' /\ Justified("METHOD_NOT_FOUND")'
        BY <2>1 DEF RunInv, Justified
    <2> QED BY <2>1, <2>2, <1>0, <1>p, ErrorReplied DEF Codes
<1>4. CASE RefuseParams(m)
    <2>1. m.form = "request" /\ ran' = FALSE
          /\ ReplyError(m, "INVALID_PARAMS") /\ Unbindable(m)
        BY <1>4 DEF RefuseParams
    <2>3. Unbindable(message)'
        BY <1>0, <2>1 DEF Unbindable
    <2>2. RunInv' /\ Justified("INVALID_PARAMS")'
        BY <1>0, <2>1, <2>3 DEF RunInv, Justified, IsRequest
    <2> QED BY <2>1, <2>2, <1>0, <1>p, ErrorReplied DEF Codes
<1>5. CASE Invoke(m)
    <2>1. /\ m.form = "request" /\ MayCall(m.access) /\ ~Unbindable(m)
          /\ stage' = "running" /\ frame' = NoFrame /\ ran' = TRUE
        BY <1>5 DEF Invoke
    <2>2. m \in Requests
        BY <2>1, Shapes
    <2>3. ~Unbindable(message)'
        BY <1>0, <2>1 DEF Unbindable
    <2>4. RunInv'
        BY <1>0, <2>1, <2>2, <2>3 DEF RunInv
    <2>5. TypeOK'
        BY <2>1, <1>0 DEF TypeOK, Stages
    <2> QED BY <2>1, <2>4, <2>5, <1>0
        DEF IdleInv, RunningInv, ReplyingInv, HandledInv, OverInv
<1> QED BY <1>1, <1>2, <1>3, <1>4, <1>5 DEF Handle

(* The method ended.                                                       *)
LEMMA ReturnInv ==
    ASSUME Inv, NEW how \in Outcomes, Return(how)
    PROVE  Inv'
<1> USE DEF Inv
<1>0. /\ TypeOK /\ ran = TRUE /\ sent = <<>> /\ message \in Requests
      /\ outcome' = how /\ UNCHANGED <<message, sent, ran>>
      /\ AnswerFor(how)
    BY DEF Return, RunningInv, RunInv, TypeOK
<1>1. /\ message \in Messages /\ message.form = "request"
      /\ message.id \in {"none", "good"} /\ message.form \notin Malformed
    BY <1>0, Shapes DEF Messages, Malformed
<1>2. RunInv'
    BY <1>0 DEF RunInv, Unbindable
<1>3. CASE how \in {"TypeError", "notAwaitable", "raises"}
    <2>1. PICK code \in {"INVALID_PARAMS", "INTERNAL_ERROR"} :
             /\ ReplyError(message', code)
             /\ code = "INVALID_PARAMS" => how \in {"TypeError", "notAwaitable"}
             /\ code = "INTERNAL_ERROR" => how = "raises"
        BY <1>0, <1>3 DEF AnswerFor
    <2>2. code \in Codes /\ Justified(code)'
        BY <1>0, <2>1 DEF Codes, Justified
    <2>3. outcome' \in (Outcomes \cup {"pending"}) \ {"NoResponse"}
        BY <1>0, <1>3
    <2> QED BY <2>1, <2>2, <2>3, <1>0, <1>1, <1>2, ErrorReplied
<1>4. CASE how = "NoResponse" \/ (how \in {"value", "None", "unserialisable"} /\ message.id = "none")
    <2>1. stage' = "handled" /\ frame' = NoFrame
        BY <1>0, <1>4 DEF AnswerFor, ReplyResult, Silent
    <2>2. ~Expected'
        BY <1>0, <1>1, <1>4 DEF Expected, IsRequest
    <2>3. TypeOK'
        BY <2>1, <1>0 DEF TypeOK, Stages
    <2> QED BY <2>1, <2>2, <2>3, <1>0, <1>2
        DEF IdleInv, RunningInv, ReplyingInv, HandledInv, OverInv
<1>5. CASE how \in {"value", "None", "unserialisable"} /\ message.id # "none"
    <2> DEFINE f == [id |-> message.id, body |-> Dumped(how)]
    <2>1. stage' = "replying" /\ frame' = f
        BY <1>0, <1>5 DEF AnswerFor, ReplyResult, Reply
    <2>2. /\ Dumped(how) \in {"result", "empty", "unserialisable"}
          /\ Dumped(how) = "unserialisable" => how = "unserialisable"
        BY DEF Dumped
    <2>3. f \in Frames /\ f.id = message.id /\ f.body = Dumped(how)
        BY <2>2, <1>1 DEF Frames, Bodies, Ids
    <2>4. Justified(frame.body)'
        BY <2>1, <2>2, <2>3 DEF Justified
    <2>5. TypeOK'
        BY <2>1, <2>3, <1>0 DEF TypeOK, Stages
    <2>6. Expected'
        BY <1>0, <1>1, <1>5 DEF Expected, IsRequest
    <2>7. Truthful(frame)'
        BY <2>1, <2>2, <2>3, <2>4, <1>0, <1>5 DEF Truthful
    <2> QED BY <2>1, <2>5, <2>6, <2>7, <1>0, <1>2
        DEF IdleInv, RunningInv, ReplyingInv, HandledInv, OverInv
<1> QED BY <1>3, <1>4, <1>5 DEF Outcomes

(* The send ended.                                                         *)
LEMMA ReplyInv ==
    ASSUME Inv, Deliver \/ SendFails \/ SerialiseFails
    PROVE  Inv'
<1> USE DEF Inv
<1>0. /\ TypeOK /\ stage = "replying" /\ sent = <<>> /\ Expected
      /\ Truthful(frame) /\ UNCHANGED <<message, ran, outcome>>
    BY DEF Deliver, SendFails, SerialiseFails, ReplyingInv
<1>1. RunInv'
    BY <1>0 DEF RunInv, Unbindable
<1>2. CASE Deliver
    <2>1. /\ stage' = "handled" /\ frame' = NoFrame
          /\ frame \in Frames /\ sent' = <<frame>>
        BY <1>0, <1>2 DEF Deliver, Silent, Truthful
    <2>2. TypeOK'
        BY <2>1, <1>0 DEF TypeOK, Stages
    <2>3. Expected' /\ Truthful(frame)
        BY <1>0 DEF Expected, IsRequest
    <2>4. \E f \in Frames : sent' = <<f>> /\ Truthful(f)'
        <3>1. Truthful(frame) => (\E f \in Frames : f = frame /\ Truthful(f)')
            BY <1>0, <2>1 DEF Truthful, Justified, IsRequest, Unbindable
        <3> QED BY <3>1, <2>1, <2>3
    <2>5. HandledInv'
        BY <2>3, <2>4 DEF HandledInv
    <2> QED BY <2>1, <2>2, <2>5, <1>1
        DEF IdleInv, RunningInv, ReplyingInv, OverInv
<1>3. CASE frame.body \in Codes /\ SendFails
    <2>1. stage' = "escaped" /\ frame' = NoFrame /\ sent' = <<>>
        BY <1>0, <1>3 DEF SendFails
    <2>2. TypeOK'
        BY <2>1, <1>0 DEF TypeOK, Stages
    <2> QED BY <2>1, <2>2, <1>1
        DEF IdleInv, RunningInv, ReplyingInv, HandledInv, OverInv
<1>4. CASE frame.body \notin Codes /\ (SendFails \/ SerialiseFails)
    <2>1. frame.body \in {"result", "empty", "unserialisable"}
        BY <1>0, <1>4 DEF Truthful, Frames, Bodies
    <2>2. ran = TRUE /\ outcome \in {"value", "None", "unserialisable"}
        BY <1>0, <2>1 DEF Truthful, TypeOK
    <2>3. message \in Requests
        BY <2>2 DEF RunInv
    <2>4. message \in Messages /\ message.form = "request"
        BY <2>3, Shapes DEF Messages
    <2>5. PICK code \in {"INVALID_PARAMS", "INTERNAL_ERROR"} :
             /\ ReplyError(message', code)
             /\ code = "INVALID_PARAMS" => frame.body = "unserialisable"
        BY <1>0, <1>4 DEF SendFails, SerialiseFails
    <2>9. frame.body = "unserialisable" => outcome = "unserialisable"
        BY <1>0 DEF Truthful
    <2>6. code \in Codes /\ Justified(code)'
        BY <1>0, <2>2, <2>5, <2>9 DEF Codes, Justified
    <2>7. outcome' \in (Outcomes \cup {"pending"}) \ {"NoResponse"}
        BY <1>0, <2>2 DEF Outcomes
    <2>8. UNCHANGED sent
        BY <1>4 DEF SendFails, SerialiseFails
    <2> QED BY <2>2, <2>4, <2>5, <2>6, <2>7, <2>8, <1>0, <1>1, ErrorReplied
<1>5. SerialiseFails => frame.body \notin Codes
    BY DEF SerialiseFails, Codes
<1> QED BY <1>2, <1>3, <1>4, <1>5

(* The reader goes on or is cancelled.                                     *)
LEMMA EndInv ==
    ASSUME Inv, Continue \/ Cancel \/ UNCHANGED vars
    PROVE  Inv'
<1> USE DEF Inv
<1>1. CASE Continue
    <2>1. /\ stage' = "idle" /\ message' = NoMessage /\ sent' = <<>>
          /\ ran' = FALSE /\ outcome' = "pending" /\ frame' = frame
        BY <1>1 DEF Continue
    <2>0. <<>> \in Seq(Frames)
        OBVIOUS
    <2>2. TypeOK'
        BY <2>0, <2>1 DEF TypeOK, Stages
    <2> QED BY <2>1, <2>2
        DEF IdleInv, RunInv, RunningInv, ReplyingInv, HandledInv, OverInv
<1>2. CASE Cancel
    <2>1. /\ stage' = "cancelled" /\ frame' = NoFrame /\ sent = <<>>
          /\ UNCHANGED <<message, sent, ran, outcome>>
        BY <1>2 DEF Cancel, RunningInv, ReplyingInv
    <2>2. TypeOK'
        BY <2>1 DEF TypeOK, Stages
    <2>3. RunInv'
        BY <2>1 DEF RunInv, Unbindable
    <2> QED BY <2>1, <2>2, <2>3
        DEF IdleInv, RunningInv, ReplyingInv, HandledInv, OverInv
<1>3. CASE UNCHANGED vars
    BY <1>3 DEF vars, TypeOK, IdleInv, RunInv, Unbindable, RunningInv,
        ReplyingInv, HandledInv, OverInv, Expected, IsRequest, Truthful,
        Justified
<1> QED BY <1>1, <1>2, <1>3

LEMMA StepInv == Inv /\ [Next]_vars => Inv'
BY HandleInv, ReturnInv, ReplyInv, EndInv DEF Next

LEMMA Invariance == Spec => []Inv
BY InitInv, StepInv, PTL DEF Spec

(* The type invariant; in particular no reply carries an id that a         *)
(* response cannot have.                                                   *)
THEOREM TypeTheorem == Spec => []TypeOK
<1>1. Inv => TypeOK
    BY DEF Inv
<1> QED BY Invariance, <1>1, PTL

(* One answer, or none, as the message demands.                            *)
THEOREM AnswerTheorem == Spec => []AnsweredOnce
<1>1. Inv => AnsweredOnce
    <2> SUFFICES ASSUME Inv PROVE AnsweredOnce
        OBVIOUS
    <2>1. stage # "handled" => sent = <<>>
        BY DEF Inv, TypeOK, Stages, IdleInv, RunningInv, ReplyingInv, OverInv
    <2>2. stage = "handled" =>
            \/ Expected /\ \E f \in Frames : sent = <<f>> /\ f.id = message.id
            \/ ~Expected /\ sent = <<>>
        BY DEF Inv, HandledInv, Truthful
    <2> QED BY <2>1, <2>2 DEF AnsweredOnce
<1> QED BY Invariance, <1>1, PTL

(* The answer tells the truth about what ran.                              *)
THEOREM RunTheorem == Spec => []AnswerTellsWhatRan
<1>1. Inv => AnswerTellsWhatRan
    <2> SUFFICES ASSUME Inv PROVE AnswerTellsWhatRan
        OBVIOUS
    <2>1. ran => IsRequest /\ message.access \in {"public", "builtin"}
        BY Shapes DEF Inv, RunInv, MayCall, IsRequest, Messages
    <2>2. ASSUME NEW i \in DOMAIN sent PROVE Truthful(sent[i])
        <3>1. sent # <<>>
            BY <2>2
        <3>2. stage = "handled"
            BY <3>1 DEF Inv, TypeOK, Stages, IdleInv, RunningInv,
                        ReplyingInv, OverInv
        <3>3. PICK f \in Frames : sent = <<f>> /\ Truthful(f)
            BY <3>1, <3>2 DEF Inv, HandledInv
        <3>4. i = 1
            BY <2>2, <3>3
        <3> QED BY <3>3, <3>4
    <2> QED BY <2>1, <2>2 DEF AnswerTellsWhatRan, Truthful, Justified
<1> QED BY Invariance, <1>1, PTL

(* A list of params binds as a Python call by position does, except where  *)
(* a positional-only parameter is to take a value.                         *)
THEOREM ListTheorem == Spec => []ListsBindByPosition
<1>1. Inv => ListsBindByPosition
    <2> SUFFICES ASSUME Inv, IsRequest, message.params.kind = "listed"
                 PROVE  LET sig == message.sig
                            count == message.params.count
                        IN  /\ ran => (ListAgrees(sig, count)
                                          <=> ~Astray(sig, count))
                            /\ RefusedWithoutNeed(sig, count) =>
                                 \/ KeywordOnly(sig) > 0
                                 \/ count > Positional(sig)
                                 \/ Astray(sig, count)
        BY DEF ListsBindByPosition
    <2> DEFINE s == message.sig
               c == message.params.count
    <2>1. message \in Messages
        BY DEF Inv, TypeOK, IsRequest, NoMessage
    <2>2. IsSignature(s) /\ message.params \in ParamLists
        BY <2>1, Shapes DEF IsRequest
    <2>3. c \in Nat /\ message.params = Listed(c)
        BY <2>2, ParamListsAssumption DEF IsParams, NoParams, Named
    <2>4. DOMAIN Arguments(message.params) = 1 .. c
        BY <2>3 DEF Arguments, Listed
    <2>5. ran => ~ListRefused(s, c) /\ BindsByName(s, 1 .. c)
        BY <2>4 DEF Inv, RunInv, Unbindable, ParamsRefused
    <2>6. ran => (ListAgrees(s, c) <=> ~Astray(s, c))
        BY <2>2, <2>3, <2>5, ListBinds
    <2>7. RefusedWithoutNeed(s, c) =>
             KeywordOnly(s) > 0 \/ c > Positional(s) \/ Astray(s, c)
        BY <2>2, <2>3, NeedlessRefusals
    <2> QED BY <2>6, <2>7
<1> QED BY Invariance, <1>1, PTL

(* An exception leaves handle_message, and may so end the loop that reads, *)
(* only where an answer was due: never for a response or a notification,   *)
(* whatever its method raises, returns or cannot serialise.                *)
OnlyAnswersEscape == stage = "escaped" => Expected

THEOREM EscapeTheorem == Spec => []OnlyAnswersEscape
<1>1. Init => OnlyAnswersEscape
    BY DEF Init, OnlyAnswersEscape
<1>2. ASSUME Inv, OnlyAnswersEscape, [Next]_vars, stage' = "escaped"
      PROVE  Expected'
    <2>1. CASE UNCHANGED vars
        BY <1>2, <2>1 DEF vars, OnlyAnswersEscape, Expected, IsRequest
    <2>2. ASSUME NEW m \in Messages, Handle(m), stage = "idle"
          PROVE  Expected'
        <3>1. \/ HandleMalformed(m)
              \/ m.form = "request" /\ ReplyError(m, "METHOD_NOT_FOUND")
              \/ m.form = "request" /\ ReplyError(m, "INVALID_PARAMS")
            BY <1>2, <2>2 DEF Handle, HandleResponse, Silent, RefuseMethod,
                              RefuseParams, Invoke
        <3>2. HandleMalformed(m)
            BY <1>2, <3>1 DEF ReplyError, Reply, Silent
        <3> QED BY <3>2 DEF HandleMalformed, Take, Expected
    <2>3. ASSUME NEW how \in Outcomes, Return(how)
          PROVE  FALSE
        BY <1>2, <2>3 DEF Return, AnswerFor, ReplyError, ReplyResult, Reply, Silent
    <2>4. CASE SendFails
        BY <1>2, <2>4 DEF SendFails, Inv, ReplyingInv, Expected, IsRequest
    <2>5. CASE Deliver \/ SerialiseFails \/ Continue \/ Cancel
        BY <1>2, <2>5 DEF Deliver, SerialiseFails, Continue, Cancel, Silent,
                          ReplyError, Reply
    <2> QED BY <1>2, <2>1, <2>2, <2>3, <2>4, <2>5 DEF Next
<1>3. Inv /\ OnlyAnswersEscape /\ [Next]_vars => OnlyAnswersEscape'
    BY <1>2 DEF OnlyAnswersEscape
<1> QED BY <1>1, <1>3, Invariance, StepInv, PTL DEF Spec

=============================================================================
