----------------------- MODULE ClientLifecycle_proofs -----------------------
(* Proofs about ClientLifecycle: types, one reconnection at a time, what   *)
(* closing tells others, what may open a client again, that close() and    *)
(* the retries come to an end, and that a loss is told.                    *)
EXTENDS ClientLifecycle, TLAPS

USE DEF flags

(* The pairs that name tasks are tasks of their own.                       *)
LEMMA TaskFacts ==
    ASSUME NEW c \in Conns
    PROVE  /\ ReaderTask(c) \in Tasks /\ KeepaliveTask(c) \in Tasks
           /\ ReaderTask(c) # Owner /\ KeepaliveTask(c) # Owner
           /\ \A d \in Conns : /\ ReaderTask(c) # KeepaliveTask(d)
                               /\ ReaderTask(c) = ReaderTask(d) => c = d
                               /\ KeepaliveTask(c) = KeepaliveTask(d) => c = d
BY TasksAssumption DEF Tasks, Spawned, ReaderTask, KeepaliveTask

LEMMA UnusedType == Unused \in Connection
BY BoundsAssumption DEF Unused, Connection

LEMMA OpenedType ==
    ASSUME NEW c \in Conns
    PROVE  Opened(c) \in Connection
BY BoundsAssumption DEF Opened, Connection, Conns

LEMMA Zeros == 0 \in 0..MaxConns /\ 0 \in 0..MaxFailures
BY BoundsAssumption

(* The shapes in which the actions update a connection.                    *)
LEMMA FieldTypes ==
    ASSUME TypeOK, NEW c
    PROVE  /\ \A n \in 0..MaxFailures :
                [conn EXCEPT ![c].failures = n] \in [Conns -> Connection]
           /\ \A d \in 0..MaxConns :
                [conn EXCEPT ![c].reads = d] \in [Conns -> Connection]
           /\ \A s \in {"lost", "silent", "closed"} :
                [conn EXCEPT ![c].socket = s] \in [Conns -> Connection]
<1>1. ASSUME NEW k \in Connection
      PROVE  /\ \A n \in 0..MaxFailures : [k EXCEPT !.failures = n] \in Connection
             /\ \A d \in 0..MaxConns : [k EXCEPT !.reads = d] \in Connection
             /\ \A s \in {"lost", "silent", "closed"} :
                    [k EXCEPT !.socket = s] \in Connection
    BY DEF Connection
<1>2. QED BY <1>1 DEF TypeOK

LEMMA PartTypes ==
    ASSUME TypeOK, NEW c
    PROVE  /\ \A s \in {"ended", "failed"} :
                WithKeepalive(c, s) \in [Conns -> Connection]
           /\ \A s \in {"ended", "failed", "escaped"} :
                WithReader(c, s) \in [Conns -> Connection]
           /\ \A s \in {"closed", conn[c].socket} :
                WithChannelClosed(c, s) \in [Conns -> Connection]
<1>1. ASSUME NEW k \in Connection
      PROVE  /\ \A s \in {"ended", "failed"} :
                    [k EXCEPT !.keepalive = s, !.failures = 0] \in Connection
             /\ \A s \in {"ended", "failed", "escaped"} :
                    [k EXCEPT !.reader = s, !.reads = 0] \in Connection
             /\ \A s \in {"closed", k.socket} :
                    [k EXCEPT !.channel = "closed", !.socket = s] \in Connection
    BY Zeros DEF Connection
<1>2. QED BY <1>1 DEF TypeOK, WithKeepalive, WithReader, WithChannelClosed

------------------------------------------------------------
(* Types                                                                   *)

LEMMA InitType == Init => TypeOK
<1> SUFFICES ASSUME Init PROVE TypeOK
    OBVIOUS
<1>1. attempt \in [Tasks -> Nat]
    BY DEF Init
<1>2. pc \in [Tasks -> States]
    BY DEF Init, States
<1>3. conn \in [Conns -> Connection]
    BY UnusedType DEF Init
<1>4. target \in 0..MaxConns /\ cur \in 0..MaxConns /\ readTask \in 0..MaxConns
    BY Zeros DEF Init
<1>5. /\ config \in Configs /\ closing \in BOOLEAN /\ event \in BOOLEAN
      /\ closeCode \in {"none", "retryable", "fatal"}
      /\ reconnector \in Tasks \union {None} /\ undoing \subseteq Tasks
    BY DEF Init
<1>6. QED BY <1>1, <1>2, <1>3, <1>4, <1>5 DEF TypeOK

LEMMA ReconnectStepType ==
    ASSUME TypeOK, NEW t \in Tasks, ReconnectStep(t)
    PROVE  TypeOK'
<1> USE DEF TypeOK, States, Goto
<1>1. CASE BeginReconnection(t)
    BY <1>1 DEF BeginReconnection
<1>2. CASE SkipReconnection(t)
    BY <1>2 DEF SkipReconnection
<1>3. CASE Wake(t)
    BY <1>3 DEF Wake
<1>4. QED BY <1>1, <1>2, <1>3 DEF ReconnectStep

LEMMA ConnectRaisedType ==
    ASSUME TypeOK, NEW t \in Tasks, NEW final, ConnectRaised(t, final)
    PROVE  /\ attempt' \in [Tasks -> Nat] /\ pc' \in [Tasks -> States]
           /\ reconnector' \in Tasks \union {None}
<1>1. CASE TryAgain(t)
    BY <1>1 DEF TryAgain, TypeOK, States, Goto
<1>2. CASE Overflow(t)
    BY <1>2 DEF Overflow, Forgotten, Leave, TypeOK, States, Goto
<1>3. CASE GiveUp(t)
    BY <1>3 DEF GiveUp, Forgotten, TypeOK, States, Goto
<1>4. QED BY <1>1, <1>2, <1>3 DEF ConnectRaised

LEMMA ConnectStepType ==
    ASSUME TypeOK, NEW t \in Tasks, ConnectStep(t)
    PROVE  TypeOK'
<1>1. CASE ConnectFails(t)
    <2>1. /\ attempt' \in [Tasks -> Nat] /\ pc' \in [Tasks -> States]
          /\ reconnector' \in Tasks \union {None}
        BY <1>1, ConnectRaisedType DEF ConnectFails
    <2>2. QED BY <1>1, <2>1 DEF ConnectFails, TypeOK
<1>2. CASE ConnectSucceeds(t)
    <2>1. cur + 1 \in Conns
        BY <1>2, BoundsAssumption DEF ConnectSucceeds, TypeOK, Conns
    <2>2. conn' \in [Conns -> Connection]
        BY <1>2, <2>1, OpenedType DEF ConnectSucceeds, TypeOK
    <2>3. QED BY <1>2, <2>1, <2>2 DEF ConnectSucceeds, TypeOK, Conns, Goto, States
<1>3. CASE Verified(t)
    <2>1. conn' \in [Conns -> Connection]
        BY <1>3, FieldTypes, Zeros DEF Verified, TypeOK
    <2>2. QED BY <1>3, <2>1 DEF Verified, TypeOK, Goto, States
<1>4. CASE VerificationRaises(t)
    <2>1. conn' \in [Conns -> Connection]
        BY <1>4, FieldTypes DEF VerificationRaises, TypeOK
    <2>2. QED BY <1>4, <2>1 DEF VerificationRaises, TypeOK, Goto, States
<1>5. CASE Connected(t)
    <2>1. attempt' \in [Tasks -> Nat] /\ pc' \in [Tasks -> States]
        BY <1>5 DEF Connected, TypeOK, Goto, States, Forgotten
    <2>2. target' \in 0..MaxConns
        BY <1>5, Zeros DEF Connected, TypeOK
    <2>3. QED BY <1>5, <2>1, <2>2 DEF Connected, TypeOK
<1>6. QED BY <1>1, <1>2, <1>3, <1>4, <1>5 DEF ConnectStep

LEMMA TasksCancelledType ==
    ASSUME TypeOK, NEW t \in Tasks, NEW final, TasksCancelled(t, final)
    PROVE  /\ attempt' \in [Tasks -> Nat] /\ pc' \in [Tasks -> States]
           /\ undoing' \subseteq Tasks
           /\ reconnector' \in Tasks \union {None}
<1>1. CASE t \in undoing
    <2>1. /\ attempt' \in [Tasks -> Nat] /\ pc' \in [Tasks -> States]
          /\ reconnector' \in Tasks \union {None}
        BY <1>1, ConnectRaisedType DEF TasksCancelled
    <2>2. QED BY <1>1, <2>1 DEF TasksCancelled, TypeOK
<1>2. CASE t \notin undoing
    BY <1>2 DEF TasksCancelled, TypeOK, Leave, Goto, States
<1>3. QED BY <1>1, <1>2

LEMMA CloseStepType ==
    ASSUME TypeOK, NEW t \in Tasks, CloseStep(t)
    PROVE  TypeOK'
<1>1. CASE SkipClose(t)
    BY <1>1 DEF SkipClose, Leave, TypeOK, Goto, States
<1>2. CASE StartClose(t)
    <2>1. conn' \in [Conns -> Connection]
        BY <1>2, FieldTypes DEF StartClose, TypeOK
    <2>2. QED BY <1>2, <2>1 DEF StartClose, TypeOK, Goto, States, EventOnClose
<1>3. CASE CloseChannel(t)
    <2>1. conn' \in [Conns -> Connection]
        <3>1. \/ conn' = conn
              \/ \E s \in {"closed", conn[cur].socket} :
                    conn' = WithChannelClosed(cur, s)
            BY <1>3 DEF CloseChannel
        <3>2. QED BY <3>1, PartTypes DEF TypeOK
    <2>2. pc' \in [Tasks -> States]
        BY <1>3 DEF CloseChannel, TypeOK, Goto, States
    <2>3. QED BY <1>3, <2>1, <2>2 DEF CloseChannel, TypeOK
<1>4. CASE CallbacksEnd(t)
    <2>1. conn' \in [Conns -> Connection]
        BY <1>4, PartTypes DEF CallbacksEnd, TypeOK
    <2>2. QED BY <1>4, <2>1 DEF CallbacksEnd, TypeOK, Goto, States
<1>5. CASE StopKeepalive(t)
    <2>1. conn' \in [Conns -> Connection]
        <3>1. \/ conn' = conn
              \/ conn' = WithKeepalive(cur, "ended")
            BY <1>5 DEF StopKeepalive
        <3>2. QED BY <3>1, PartTypes DEF TypeOK
    <2>2. /\ attempt' \in [Tasks -> Nat] /\ pc' \in [Tasks -> States]
          /\ undoing' \subseteq Tasks /\ reconnector' \in Tasks \union {None}
        BY <1>5, TasksCancelledType DEF StopKeepalive, TypeOK, Goto, States
    <2>3. QED BY <1>5, <2>1, <2>2 DEF StopKeepalive, TypeOK
<1>6. CASE CancelReader(t)
    <2>1. conn' \in [Conns -> Connection]
        <3>1. \/ conn' = conn
              \/ conn' = WithReader(readTask, "ended")
            BY <1>6 DEF CancelReader
        <3>2. QED BY <3>1, PartTypes DEF TypeOK
    <2>2. /\ attempt' \in [Tasks -> Nat] /\ pc' \in [Tasks -> States]
          /\ undoing' \subseteq Tasks /\ reconnector' \in Tasks \union {None}
        BY <1>6, TasksCancelledType DEF CancelReader, TypeOK, Goto, States
    <2>3. event' \in BOOLEAN /\ readTask' \in 0..MaxConns
        <3>1. event' = TRUE \/ event' = event
            BY <1>6 DEF CancelReader
        <3>2. readTask' = 0 \/ readTask' = readTask
            BY <1>6 DEF CancelReader
        <3>3. QED BY <3>1, <3>2, Zeros DEF TypeOK
    <2>4. QED BY <1>6, <2>1, <2>2, <2>3 DEF CancelReader, TypeOK
<1>7. CASE ReaderJoined(t)
    <2>1. /\ attempt' \in [Tasks -> Nat] /\ pc' \in [Tasks -> States]
          /\ undoing' \subseteq Tasks /\ reconnector' \in Tasks \union {None}
        BY <1>7, TasksCancelledType DEF ReaderJoined
    <2>2. QED BY <1>7, <2>1, BoundsAssumption DEF ReaderJoined, TypeOK
<1>8. QED BY <1>1, <1>2, <1>3, <1>4, <1>5, <1>6, <1>7 DEF CloseStep

LEMMA ReaderStepType ==
    ASSUME TypeOK, NEW c \in Conns, ReaderStep(c)
    PROVE  TypeOK'
<1>1. CASE ReaderMoves(c)
    <2>1. conn' \in [Conns -> Connection]
        <3>1. \/ conn' = WithReader(c, "failed")
              \/ conn' = [conn EXCEPT ![c].reads = cur]
            BY <1>1 DEF ReaderMoves
        <3>2. cur \in 0..MaxConns
            BY DEF TypeOK
        <3>3. [conn EXCEPT ![c].reads = cur] \in [Conns -> Connection]
            BY <3>2, FieldTypes
        <3>4. WithReader(c, "failed") \in [Conns -> Connection]
            BY PartTypes
        <3>5. QED BY <3>1, <3>3, <3>4
    <2>2. QED BY <1>1, <2>1 DEF ReaderMoves, TypeOK
<1>2. CASE ReaderFails(c)
    <2>1. conn' \in [Conns -> Connection]
        BY <1>2, PartTypes DEF ReaderFails
    <2>2. QED BY <1>2, <2>1 DEF ReaderFails, TypeOK
<1>3. CASE ReaderTimesOut(c)
    <2>1. conn' \in [Conns -> Connection]
        BY <1>3, PartTypes DEF ReaderTimesOut, ReaderEnds
    <2>2. pc' \in [Tasks -> States]
        BY <1>3 DEF ReaderTimesOut, ReaderEnds, Goto, TypeOK, States
    <2>3. QED BY <1>3, <2>1, <2>2 DEF ReaderTimesOut, TypeOK
<1>4. CASE ReaderLosesConnection(c)
    <2>1. conn' \in [Conns -> Connection]
        BY <1>4, PartTypes DEF ReaderLosesConnection, ReaderEnds
    <2>2. pc' \in [Tasks -> States]
        BY <1>4 DEF ReaderLosesConnection, ReaderEnds, Goto, TypeOK, States,
                    AfterLoss
    <2>3. closeCode' \in {"none", "retryable", "fatal"} /\ event' \in BOOLEAN
        BY <1>4 DEF ReaderLosesConnection, TypeOK, EventOnLoss
    <2>4. QED BY <1>4, <2>1, <2>2, <2>3 DEF ReaderLosesConnection, TypeOK
<1>5. QED BY <1>1, <1>2, <1>3, <1>4 DEF ReaderStep

LEMMA KeepaliveStepType ==
    ASSUME TypeOK, NEW c \in Conns, KeepaliveStep(c)
    PROVE  TypeOK'
<1>1. CASE PingAnswered(c)
    <2>1. conn' \in [Conns -> Connection]
        BY <1>1, FieldTypes, Zeros DEF PingAnswered
    <2>2. QED BY <1>1, <2>1 DEF PingAnswered, TypeOK
<1>2. CASE PingFails(c)
    <2>1. conn[c].failures \in 0..MaxFailures
        BY DEF TypeOK, Connection
    <2>2. conn' \in [Conns -> Connection]
        <3>1. CASE FailureCounted(c) >= MaxFailures
            BY <1>2, <3>1, PartTypes DEF PingFails, AfterLastPing
        <3>2. CASE ~(FailureCounted(c) >= MaxFailures)
            <4>1. FailureCounted(c) \in 0..MaxFailures
                BY <2>1, <3>2, BoundsAssumption DEF FailureCounted
            <4>2. conn' = [conn EXCEPT ![c].failures = FailureCounted(c)]
                BY <1>2, <3>2 DEF PingFails
            <4>3. QED BY <4>1, <4>2, FieldTypes
        <3>3. QED BY <3>1, <3>2
    <2>3. pc' \in [Tasks -> States]
        BY <1>2 DEF PingFails, Goto, TypeOK, States
    <2>4. QED BY <1>2, <2>2, <2>3 DEF PingFails, TypeOK
<1>3. CASE KeepaliveDies(c)
    <2>1. conn' \in [Conns -> Connection]
        BY <1>3, PartTypes DEF KeepaliveDies
    <2>2. QED BY <1>3, <2>1 DEF KeepaliveDies, TypeOK
<1>4. QED BY <1>1, <1>2, <1>3 DEF KeepaliveStep

LEMMA NextType == TypeOK /\ [Next]_vars => TypeOK'
<1> SUFFICES ASSUME TypeOK, [Next]_vars PROVE TypeOK'
    OBVIOUS
<1>1. CASE \E t \in Tasks : CallClose(t)
    BY <1>1 DEF CallClose, TypeOK, Goto, States
<1>2. CASE \E t \in Tasks : TaskStep(t)
    BY <1>2, ReconnectStepType, ConnectStepType, CloseStepType DEF TaskStep
<1>3. CASE \E c \in Conns : ReaderStep(c)
    BY <1>3, ReaderStepType
<1>4. CASE \E c \in Conns : KeepaliveStep(c)
    BY <1>4, KeepaliveStepType
<1>5. CASE \E c \in Conns : NetworkStep(c)
    <2>1. conn' \in [Conns -> Connection]
        <3>1. PICK c \in Conns : NetworkStep(c)
            BY <1>5
        <3>2. \E k \in {"lost", "silent", "closed"} :
                conn' = [conn EXCEPT ![c].socket = k]
            BY <3>1 DEF NetworkStep
        <3>3. \A k \in {"lost", "silent", "closed"} :
                [conn EXCEPT ![c].socket = k] \in [Conns -> Connection]
            BY FieldTypes
        <3>4. QED BY <3>2, <3>3
    <2>2. QED BY <1>5, <2>1 DEF NetworkStep, TypeOK
<1>6. CASE UNCHANGED vars
    BY <1>6 DEF vars, TypeOK
<1>7. QED BY <1>1, <1>2, <1>3, <1>4, <1>5, <1>6 DEF Next

(* Every state is of the declared shape: the pointers refer to a known     *)
(* connection, and the counters stay below their limits.                   *)
THEOREM TypeCorrect == Spec => []TypeOK
<1>1. QED BY InitType, NextType, PTL DEF Spec

------------------------------------------------------------
(* The inductive invariant                                                 *)

LEMMA InitInv == Init => IndInv
<1> SUFFICES ASSUME Init PROVE IndInv
    OBVIOUS
<1>1. TypeOK
    BY InitType
<1>2. FreshTasks
    BY TaskFacts DEF Init, FreshTasks, Unused
<1>3. UndoingStages /\ ReconnectsIfConfigured /\ ClosingIsSignalled
    BY DEF Init, UndoingStages, ReconnectsIfConfigured, ClosingIsSignalled
<1>4. SingleReconnection
    BY DEF Init, SingleReconnection, InAttempt
<1>5. ReconnectorCloses /\ TearDownGoesOn
    BY DEF Init, ReconnectorCloses, TearDownGoesOn
<1>6. QED BY <1>1, <1>2, <1>3, <1>4, <1>5 DEF IndInv

(* ConnectRaised sends its task to one of four places; to the end only     *)
(* with the finally clause of the reconnection.                            *)
LEMMA ConnectRaisedPlace ==
    ASSUME TypeOK, NEW t \in Tasks, NEW final, ConnectRaised(t, final)
    PROVE  \/ /\ reconnector' = reconnector
              /\ \E s \in {"sleep", "close", "refused"} :
                    pc' = [pc EXCEPT ![t] = s]
           \/ /\ reconnector' = IF t = reconnector THEN None ELSE reconnector
              /\ pc' = [pc EXCEPT ![t] = "done"]
BY DEF ConnectRaised, TryAgain, Overflow, GiveUp, Leave, Goto

LEMMA TasksCancelledPlace ==
    ASSUME TypeOK, NEW t \in Tasks, NEW final, TasksCancelled(t, final)
    PROVE  /\ undoing' = undoing \ {t}
           /\ \/ /\ reconnector' = reconnector /\ t \in undoing
                 /\ \E s \in {"sleep", "close", "refused"} :
                       pc' = [pc EXCEPT ![t] = s]
              \/ /\ reconnector' = IF t = reconnector THEN None ELSE reconnector
                 /\ pc' = [pc EXCEPT ![t] = "done"]
<1>1. CASE t \in undoing
    BY <1>1, ConnectRaisedPlace DEF TasksCancelled
<1>2. CASE t \notin undoing
    BY <1>2 DEF TasksCancelled, Leave, Goto, TypeOK
<1>3. QED BY <1>1, <1>2

(* A step of a task moves that task only, and what the invariant says of   *)
(* the connections is not disturbed by it.                                 *)
LEMMA TaskStepFrame ==
    ASSUME TypeOK, NEW t \in Tasks, CallClose(t) \/ TaskStep(t)
    PROVE  /\ pc[t] \notin {"idle", "done"} \/ t \in Closers
           /\ \E s \in States \ {"idle", "reconnect"} :
                pc' = [pc EXCEPT ![t] = s]
           /\ config' = config
<1> USE DEF States, Goto
<1>1. CASE CallClose(t)
    BY <1>1 DEF CallClose
<1>2. CASE ReconnectStep(t)
    BY <1>2 DEF ReconnectStep, BeginReconnection, SkipReconnection, Wake
<1>3. CASE ConnectFails(t)
    BY <1>3, ConnectRaisedPlace DEF ConnectFails
<1>4. CASE ConnectSucceeds(t)
    BY <1>4 DEF ConnectSucceeds
<1>5. CASE Verified(t)
    BY <1>5 DEF Verified
<1>6. CASE VerificationRaises(t)
    BY <1>6 DEF VerificationRaises
<1>7. CASE Connected(t)
    BY <1>7 DEF Connected
<1>8. CASE SkipClose(t)
    BY <1>8 DEF SkipClose, Leave
<1>9. CASE StartClose(t)
    BY <1>9 DEF StartClose
<1>10. CASE CloseChannel(t)
    BY <1>10 DEF CloseChannel
<1>11. CASE CallbacksEnd(t)
    BY <1>11 DEF CallbacksEnd
<1>12. CASE StopKeepalive(t)
    BY <1>12, TasksCancelledPlace DEF StopKeepalive
<1>13. CASE CancelReader(t)
    BY <1>13, TasksCancelledPlace DEF CancelReader
<1>14. CASE ReaderJoined(t)
    BY <1>14, TasksCancelledPlace DEF ReaderJoined
<1>15. QED BY <1>1, <1>2, <1>3, <1>4, <1>5, <1>6, <1>7, <1>8, <1>9, <1>10,
              <1>11, <1>12, <1>13, <1>14 DEF TaskStep, ConnectStep, CloseStep

(* A reader or keep-alive only changes by ending, except that a successful *)
(* connect starts those of the next connection.                            *)
EndsOnly(c) ==
    /\ \/ conn'[c].reader = conn[c].reader
       \/ /\ conn[c].reader = "running"
          /\ conn'[c].reader \in {"ended", "failed", "escaped"}
    /\ \/ conn'[c].keepalive = conn[c].keepalive
       \/ /\ conn[c].keepalive = "running"
          /\ conn'[c].keepalive \in {"ended", "failed"}

LEMMA UpdateEnds ==
    ASSUME TypeOK, NEW d, NEW c \in Conns
    PROVE  /\ \A s : conn' = WithChannelClosed(d, s) => EndsOnly(c)
           /\ \A s : conn' = [conn EXCEPT ![d].socket = s] => EndsOnly(c)
           /\ \A s : conn' = [conn EXCEPT ![d].failures = s] => EndsOnly(c)
           /\ \A s : conn' = [conn EXCEPT ![d].reads = s] => EndsOnly(c)
           /\ \A s \in {"ended", "failed", "escaped"} :
                conn[d].reader = "running" /\ conn' = WithReader(d, s)
                    => EndsOnly(c)
           /\ \A s \in {"ended", "failed"} :
                conn[d].keepalive = "running" /\ conn' = WithKeepalive(d, s)
                    => EndsOnly(c)
           /\ conn' = conn => EndsOnly(c)
<1>1. conn \in [Conns -> Connection] /\ conn[c] \in Connection
    BY DEF TypeOK
<1> USE DEF EndsOnly, Connection
<1>2. \A s : conn' = WithChannelClosed(d, s) => EndsOnly(c)
    BY <1>1 DEF WithChannelClosed
<1>3. \A s : conn' = [conn EXCEPT ![d].socket = s] => EndsOnly(c)
    BY <1>1
<1>4. \A s : conn' = [conn EXCEPT ![d].failures = s] => EndsOnly(c)
    BY <1>1
<1>5. \A s : conn' = [conn EXCEPT ![d].reads = s] => EndsOnly(c)
    BY <1>1
<1>6. \A s \in {"ended", "failed", "escaped"} :
        conn[d].reader = "running" /\ conn' = WithReader(d, s) => EndsOnly(c)
    BY <1>1 DEF WithReader
<1>7. \A s \in {"ended", "failed"} :
        conn[d].keepalive = "running" /\ conn' = WithKeepalive(d, s)
            => EndsOnly(c)
    BY <1>1 DEF WithKeepalive
<1>8. QED BY <1>2, <1>3, <1>4, <1>5, <1>6, <1>7

LEMMA TaskStepEnds ==
    ASSUME TypeOK, NEW t \in Tasks, CallClose(t) \/ TaskStep(t),
           ~ConnectSucceeds(t), NEW c \in Conns
    PROVE  cur' = cur /\ EndsOnly(c)
<1>1. CASE CallClose(t)
    BY <1>1, UpdateEnds DEF CallClose
<1>2. CASE ReconnectStep(t)
    BY <1>2, UpdateEnds DEF ReconnectStep, BeginReconnection, SkipReconnection,
                            Wake
<1>3. CASE ConnectFails(t)
    BY <1>3, UpdateEnds DEF ConnectFails
<1>5. CASE Verified(t)
    BY <1>5, UpdateEnds DEF Verified
<1>6. CASE VerificationRaises(t)
    BY <1>6, UpdateEnds DEF VerificationRaises
<1>7. CASE Connected(t)
    BY <1>7, UpdateEnds DEF Connected
<1>8. CASE SkipClose(t)
    BY <1>8, UpdateEnds DEF SkipClose
<1>9. CASE StartClose(t)
    BY <1>9, UpdateEnds DEF StartClose
<1>10. CASE CloseChannel(t)
    BY <1>10, UpdateEnds DEF CloseChannel
<1>11. CASE CallbacksEnd(t)
    BY <1>11, UpdateEnds DEF CallbacksEnd
<1>12. CASE StopKeepalive(t)
    <2>1. \/ conn' = conn
          \/ /\ conn[cur].keepalive = "running"
             /\ conn' = WithKeepalive(cur, "ended")
        BY <1>12 DEF StopKeepalive, CurKeepalive
    <2>2. QED BY <1>12, <2>1, UpdateEnds DEF StopKeepalive
<1>13. CASE CancelReader(t)
    <2>1. \/ conn' = conn
          \/ /\ conn[readTask].reader = "running"
             /\ conn' = WithReader(readTask, "ended")
        BY <1>13 DEF CancelReader, CurReader
    <2>2. QED BY <1>13, <2>1, UpdateEnds DEF CancelReader
<1>14. CASE ReaderJoined(t)
    BY <1>14, UpdateEnds DEF ReaderJoined
<1>15. QED BY <1>1, <1>2, <1>3, <1>5, <1>6, <1>7, <1>8, <1>9, <1>10,
              <1>11, <1>12, <1>13, <1>14 DEF TaskStep, ConnectStep, CloseStep

(* What the other steps do to the tasks.                                   *)
LEMMA ReaderStepFrame ==
    ASSUME TypeOK, NEW c \in Conns, ReaderStep(c)
    PROVE  /\ conn[c].reader = "running"
           /\ \A d \in Conns : EndsOnly(d)
           /\ \/ pc' = pc
              \/ /\ conn'[c].reader = "ended"
                 /\ \E s \in {"close", "reconnect"} :
                        /\ pc' = [pc EXCEPT ![ReaderTask(c)] = s]
                        /\ s = "reconnect" => config.autoReconnect
           /\ UNCHANGED <<config, reconnector, undoing, cur>>
<1>1. conn[c].reader = "running" /\ conn \in [Conns -> Connection]
    BY DEF ReaderStep, ReaderMoves, ReaderFails, ReaderTimesOut,
           ReaderLosesConnection, Reading, TypeOK
<1>2. CASE ReaderMoves(c)
    <2>1. \/ conn' = WithReader(c, "failed")
          \/ conn' = [conn EXCEPT ![c].reads = cur]
        BY <1>2 DEF ReaderMoves
    <2>2. \A d \in Conns : EndsOnly(d)
        BY <1>1, <2>1, UpdateEnds
    <2>3. QED BY <1>1, <1>2, <2>2 DEF ReaderMoves
<1>3. CASE ReaderFails(c)
    <2>1. \A d \in Conns : EndsOnly(d)
        BY <1>1, <1>3, UpdateEnds DEF ReaderFails
    <2>2. QED BY <1>1, <1>3, <2>1 DEF ReaderFails
<1>4. CASE ReaderTimesOut(c)
    <2>1. conn' = WithReader(c, "ended")
        BY <1>4 DEF ReaderTimesOut, ReaderEnds
    <2>2. \A d \in Conns : EndsOnly(d)
        BY <1>1, <2>1, UpdateEnds
    <2>3. conn'[c].reader = "ended"
        BY <1>1, <2>1 DEF WithReader, Connection
    <2>4. QED BY <1>1, <1>4, <2>2, <2>3 DEF ReaderTimesOut, ReaderEnds, Goto
<1>5. CASE ReaderLosesConnection(c)
    <2>1. conn' = WithReader(c, "ended")
        BY <1>5 DEF ReaderLosesConnection, ReaderEnds
    <2>2. \A d \in Conns : EndsOnly(d)
        BY <1>1, <2>1, UpdateEnds
    <2>3. conn'[c].reader = "ended"
        BY <1>1, <2>1 DEF WithReader, Connection
    <2>4. pc' = [pc EXCEPT ![ReaderTask(c)] = AfterLoss(closeCode')]
        BY <1>5 DEF ReaderLosesConnection, ReaderEnds, Goto
    <2>5. /\ AfterLoss(closeCode') \in {"close", "reconnect"}
          /\ AfterLoss(closeCode') = "reconnect" => config.autoReconnect
        BY DEF AfterLoss
    <2>6. UNCHANGED <<config, reconnector, undoing, cur>>
        BY <1>5 DEF ReaderLosesConnection
    <2>7. QED BY <1>1, <2>2, <2>3, <2>4, <2>5, <2>6
<1>6. QED BY <1>2, <1>3, <1>4, <1>5 DEF ReaderStep

LEMMA KeepaliveStepFrame ==
    ASSUME TypeOK, NEW c \in Conns, KeepaliveStep(c)
    PROVE  /\ conn[c].keepalive = "running"
           /\ \A d \in Conns : EndsOnly(d)
           /\ \/ pc' = pc
              \/ /\ conn'[c].keepalive = "ended"
                 /\ pc' = [pc EXCEPT ![KeepaliveTask(c)] = "close"]
           /\ UNCHANGED <<config, reconnector, undoing, cur, flags>>
<1>1. conn[c].keepalive = "running" /\ conn \in [Conns -> Connection]
    BY DEF KeepaliveStep, PingAnswered, PingFails, KeepaliveDies, TypeOK
<1>2. CASE PingAnswered(c)
    <2>1. \A d \in Conns : EndsOnly(d)
        BY <1>2, UpdateEnds DEF PingAnswered
    <2>2. QED BY <1>1, <1>2, <2>1 DEF PingAnswered
<1>3. CASE PingFails(c)
    <2>1. CASE FailureCounted(c) >= MaxFailures
        <3>1. conn' = WithKeepalive(c, "ended")
            BY <1>3, <2>1 DEF PingFails, AfterLastPing
        <3>2. \A d \in Conns : EndsOnly(d)
            BY <1>1, <3>1, UpdateEnds
        <3>3. conn'[c].keepalive = "ended"
            BY <1>1, <3>1 DEF WithKeepalive, Connection
        <3>4. QED BY <1>1, <1>3, <2>1, <3>2, <3>3 DEF PingFails, Goto
    <2>2. CASE ~(FailureCounted(c) >= MaxFailures)
        <3>1. conn' = [conn EXCEPT ![c].failures = FailureCounted(c)]
            BY <1>3, <2>2 DEF PingFails
        <3>2. \A d \in Conns : EndsOnly(d)
            BY <3>1, UpdateEnds
        <3>3. QED BY <1>1, <1>3, <2>2, <3>2 DEF PingFails
    <2>3. QED BY <2>1, <2>2
<1>4. CASE KeepaliveDies(c)
    <2>1. \A d \in Conns : EndsOnly(d)
        BY <1>1, <1>4, UpdateEnds DEF KeepaliveDies
    <2>2. QED BY <1>1, <1>4, <2>1 DEF KeepaliveDies
<1>5. QED BY <1>2, <1>3, <1>4 DEF KeepaliveStep

LEMMA NetworkStepFrame ==
    ASSUME TypeOK, NEW c \in Conns, NetworkStep(c)
    PROVE  /\ \A d \in Conns : EndsOnly(d)
           /\ pc' = pc
           /\ UNCHANGED <<config, reconnector, undoing, cur, flags>>
<1>1. \E s : conn' = [conn EXCEPT ![c].socket = s]
    BY DEF NetworkStep
<1>2. QED BY <1>1, UpdateEnds DEF NetworkStep

------------------------------------------------------------
(* Each conjunct is preserved                                              *)

LEMMA FreshNext ==
    ASSUME IndInv, [Next]_vars
    PROVE  FreshTasks'
<1> USE DEF IndInv
<1>1. ASSUME NEW t \in Tasks, CallClose(t) \/ TaskStep(t)
      PROVE  FreshTasks'
    <2>1. PICK s \in States \ {"idle", "reconnect"} : pc' = [pc EXCEPT ![t] = s]
        BY <1>1, TaskStepFrame
    <2>2. pc[t] \notin {"idle", "done"} \/ t \in Closers
        BY <1>1, TaskStepFrame
    <2>3. ASSUME NEW r \in Spawned, pc[r] = "idle"
          PROVE  pc'[r] = "idle"
        <3>1. r # t
            BY <2>2, <2>3, TasksAssumption
        <3>2. QED BY <2>1, <2>3, <3>1 DEF TypeOK, Tasks
    <2>4. \A c \in Conns : ReaderTask(c) \in Spawned /\ KeepaliveTask(c) \in Spawned
        BY DEF Spawned
    <2>5. CASE ConnectSucceeds(t)
        <3>1. /\ cur' = cur + 1 /\ cur \in Nat
              /\ conn' = [conn EXCEPT ![cur + 1] = Opened(cur + 1)]
            BY <2>5, BoundsAssumption DEF ConnectSucceeds, TypeOK
        <3>2. SUFFICES ASSUME NEW c \in Conns
                       PROVE  /\ c > cur' => /\ conn'[c].reader = "none"
                                             /\ conn'[c].keepalive = "none"
                              /\ conn'[c].reader \in {"none", "running"} =>
                                    pc'[ReaderTask(c)] = "idle"
                              /\ conn'[c].keepalive \in {"none", "running"} =>
                                    pc'[KeepaliveTask(c)] = "idle"
            BY DEF FreshTasks
        <3>3. CASE c = cur + 1
            <4>1. conn[c].reader = "none" /\ conn[c].keepalive = "none"
                BY <3>1, <3>3 DEF FreshTasks
            <4>2. pc'[ReaderTask(c)] = "idle" /\ pc'[KeepaliveTask(c)] = "idle"
                BY <4>1, <2>3, <2>4 DEF FreshTasks
            <4>3. ~(c > cur')
                BY <3>1, <3>3
            <4>4. QED BY <4>2, <4>3
        <3>4. CASE c # cur + 1
            <4>1. conn'[c] = conn[c]
                BY <3>1, <3>4 DEF TypeOK
            <4>2. c > cur' => c > cur
                BY <3>1 DEF Conns
            <4>3. QED BY <4>1, <4>2, <2>3, <2>4 DEF FreshTasks
        <3>5. QED BY <3>3, <3>4
    <2>6. CASE ~ConnectSucceeds(t)
        <3>1. \A c \in Conns : cur' = cur /\ EndsOnly(c)
            BY <1>1, <2>6, TaskStepEnds
        <3>2. QED BY <3>1, <2>3, <2>4 DEF FreshTasks, EndsOnly
    <2>7. QED BY <2>5, <2>6
<1>2. ASSUME NEW c \in Conns, ReaderStep(c)
      PROVE  FreshTasks'
    <2>1. /\ conn[c].reader = "running" /\ cur' = cur
          /\ \A d \in Conns : EndsOnly(d)
        BY <1>2, ReaderStepFrame
    <2>2. CASE pc' = pc
        BY <2>1, <2>2 DEF FreshTasks, EndsOnly
    <2>3. CASE pc' # pc
        <3>1. PICK s \in {"close", "reconnect"} :
                pc' = [pc EXCEPT ![ReaderTask(c)] = s]
            BY <1>2, <2>3, ReaderStepFrame
        <3>2. conn'[c].reader = "ended"
            BY <1>2, <2>3, ReaderStepFrame
        <3>3. \A d \in Conns : d # c => pc'[ReaderTask(d)] = pc[ReaderTask(d)]
            BY <3>1, TaskFacts DEF TypeOK
        <3>4. \A d \in Conns : pc'[KeepaliveTask(d)] = pc[KeepaliveTask(d)]
            BY <3>1, TaskFacts DEF TypeOK
        <3>5. QED BY <2>1, <3>2, <3>3, <3>4 DEF FreshTasks, EndsOnly
    <2>4. QED BY <2>2, <2>3
<1>3. ASSUME NEW c \in Conns, KeepaliveStep(c)
      PROVE  FreshTasks'
    <2>1. /\ conn[c].keepalive = "running" /\ cur' = cur
          /\ \A d \in Conns : EndsOnly(d)
        BY <1>3, KeepaliveStepFrame
    <2>2. CASE pc' = pc
        BY <2>1, <2>2 DEF FreshTasks, EndsOnly
    <2>3. CASE pc' # pc
        <3>1. /\ pc' = [pc EXCEPT ![KeepaliveTask(c)] = "close"]
              /\ conn'[c].keepalive = "ended"
            BY <1>3, <2>3, KeepaliveStepFrame
        <3>2. \A d \in Conns :
                d # c => pc'[KeepaliveTask(d)] = pc[KeepaliveTask(d)]
            BY <3>1, TaskFacts DEF TypeOK
        <3>3. \A d \in Conns : pc'[ReaderTask(d)] = pc[ReaderTask(d)]
            BY <3>1, TaskFacts DEF TypeOK
        <3>4. QED BY <2>1, <3>1, <3>2, <3>3 DEF FreshTasks, EndsOnly
    <2>4. QED BY <2>2, <2>3
<1>4. ASSUME NEW c \in Conns, NetworkStep(c)
      PROVE  FreshTasks'
    <2>1. pc' = pc /\ cur' = cur /\ \A d \in Conns : EndsOnly(d)
        BY <1>4, NetworkStepFrame
    <2>2. QED BY <2>1 DEF FreshTasks, EndsOnly
<1>5. CASE UNCHANGED vars
    BY <1>5 DEF vars, FreshTasks
<1>6. QED BY <1>1, <1>2, <1>3, <1>4, <1>5 DEF Next

LEMMA UndoingNext ==
    ASSUME IndInv, [Next]_vars
    PROVE  UndoingStages'
<1> USE DEF IndInv
<1>1. ASSUME NEW t \in Tasks, CallClose(t) \/ TaskStep(t)
      PROVE  UndoingStages'
    <2>1. SUFFICES ASSUME NEW u \in undoing'
                   PROVE  pc'[u] \in {"channel", "keepalive", "reader", "join"}
        BY DEF UndoingStages
    <2>2. CASE u # t
        <3>1. u \in undoing /\ u \in Tasks
            BY <1>1, <2>2, TasksCancelledPlace
               DEF CallClose, TaskStep, ReconnectStep, ConnectStep, CloseStep,
                   BeginReconnection, SkipReconnection, Wake, ConnectFails,
                   ConnectSucceeds, Verified, VerificationRaises, Connected,
                   SkipClose, StartClose, CloseChannel, CallbacksEnd,
                   StopKeepalive, CancelReader, ReaderJoined, TypeOK
        <3>2. pc'[u] = pc[u]
            BY <1>1, <2>2, <3>1, TaskStepFrame DEF TypeOK
        <3>3. QED BY <3>1, <3>2 DEF UndoingStages
    <2>3. CASE u = t
        <3> USE DEF UndoingStages, TypeOK, Goto
        <3>1. CASE CallClose(t)
            BY <2>1, <2>3, <3>1 DEF CallClose
        <3>2. CASE ReconnectStep(t)
            BY <2>1, <2>3, <3>2
               DEF ReconnectStep, BeginReconnection, SkipReconnection, Wake
        <3>3. CASE ConnectStep(t)
            BY <2>1, <2>3, <3>3
               DEF ConnectStep, ConnectFails, ConnectSucceeds, Verified,
                   VerificationRaises, Connected
        <3>4. CASE SkipClose(t) \/ StartClose(t)
            BY <2>1, <2>3, <3>4 DEF SkipClose, StartClose
        <3>5. CASE CloseChannel(t)
            BY <2>1, <2>3, <3>5 DEF CloseChannel
        <3>6. CASE CallbacksEnd(t)
            BY <2>1, <2>3, <3>6 DEF CallbacksEnd
        <3>7. CASE StopKeepalive(t)
            BY <2>1, <2>3, <3>7, TasksCancelledPlace DEF StopKeepalive
        <3>8. CASE CancelReader(t)
            BY <2>1, <2>3, <3>8, TasksCancelledPlace DEF CancelReader
        <3>9. CASE ReaderJoined(t)
            BY <2>1, <2>3, <3>9, TasksCancelledPlace DEF ReaderJoined
        <3>10. QED BY <1>1, <3>1, <3>2, <3>3, <3>4, <3>5, <3>6, <3>7, <3>8, <3>9
                   DEF TaskStep, CloseStep
    <2>4. QED BY <2>2, <2>3
<1>2. ASSUME NEW c \in Conns, ReaderStep(c)
      PROVE  UndoingStages'
    <2>1. pc[ReaderTask(c)] = "idle" /\ undoing' = undoing
        BY <1>2, ReaderStepFrame DEF FreshTasks
    <2>2. ReaderTask(c) \notin undoing
        BY <2>1 DEF UndoingStages
    <2>3. \A u \in undoing : pc'[u] = pc[u]
        BY <1>2, <2>2, ReaderStepFrame DEF TypeOK
    <2>4. QED BY <2>1, <2>3 DEF UndoingStages
<1>3. ASSUME NEW c \in Conns, KeepaliveStep(c)
      PROVE  UndoingStages'
    <2>1. pc[KeepaliveTask(c)] = "idle" /\ undoing' = undoing
        BY <1>3, KeepaliveStepFrame DEF FreshTasks
    <2>2. KeepaliveTask(c) \notin undoing
        BY <2>1 DEF UndoingStages
    <2>3. \A u \in undoing : pc'[u] = pc[u]
        BY <1>3, <2>2, KeepaliveStepFrame DEF TypeOK
    <2>4. QED BY <2>1, <2>3 DEF UndoingStages
<1>4. ASSUME NEW c \in Conns, NetworkStep(c)
      PROVE  UndoingStages'
    BY <1>4, NetworkStepFrame DEF UndoingStages
<1>5. CASE UNCHANGED vars
    BY <1>5 DEF vars, UndoingStages
<1>6. QED BY <1>1, <1>2, <1>3, <1>4, <1>5 DEF Next

(* Who gets and who gives up the right to reconnect.                       *)
LEMMA ReconnectorStep ==
    ASSUME IndInv, NEW t \in Tasks, CallClose(t) \/ TaskStep(t)
    PROVE  \/ reconnector' = reconnector
           \/ /\ pc[t] = "reconnect" /\ reconnector = None
              /\ reconnector' = t
           \/ /\ reconnector = t /\ reconnector' = None
              /\ pc'[t] = "done" /\ t \notin undoing'
<1> USE DEF IndInv
<1>1. CASE CallClose(t)
    BY <1>1 DEF CallClose
<1>2. CASE ReconnectStep(t)
    BY <1>2 DEF ReconnectStep, BeginReconnection, SkipReconnection, Wake,
                MayReconnect
<1>3. CASE ConnectFails(t)
    <2>1. pc[t] = "connecting" /\ undoing' = undoing
        BY <1>3 DEF ConnectFails
    <2>2. t \notin undoing'
        BY <2>1 DEF UndoingStages
    <2>3. QED BY <1>3, <2>2, ConnectRaisedPlace DEF ConnectFails, TypeOK
<1>4. CASE ConnectSucceeds(t) \/ Verified(t) \/ VerificationRaises(t)
    BY <1>4 DEF ConnectSucceeds, Verified, VerificationRaises
<1>5. CASE Connected(t)
    <2>1. CASE t = Owner
        BY <1>5, <2>1 DEF Connected
    <2>2. CASE t # Owner
        <3>1. pc[t] = "greeting" /\ undoing' = undoing
            BY <1>5 DEF Connected
        <3>2. t = reconnector
            BY <2>2, <3>1 DEF SingleReconnection, InAttempt
        <3>3. t \notin undoing
            BY <3>1 DEF UndoingStages
        <3>4. reconnector' = None /\ pc'[t] = "done"
            BY <1>5, <2>2 DEF Connected, Goto, TypeOK
        <3>5. QED BY <3>1, <3>2, <3>3, <3>4
    <2>3. QED BY <2>1, <2>2
<1>6. CASE SkipClose(t)
    <2>1. t \notin undoing
        BY <1>6 DEF SkipClose, UndoingStages
    <2>2. QED BY <1>6, <2>1 DEF SkipClose, Leave, Goto, TypeOK
<1>7. CASE StartClose(t) \/ CloseChannel(t) \/ CallbacksEnd(t)
    BY <1>7 DEF StartClose, CloseChannel, CallbacksEnd
<1>8. CASE StopKeepalive(t)
    BY <1>8, TasksCancelledPlace DEF StopKeepalive, TypeOK
<1>9. CASE CancelReader(t)
    BY <1>9, TasksCancelledPlace DEF CancelReader, TypeOK
<1>10. CASE ReaderJoined(t)
    BY <1>10, TasksCancelledPlace DEF ReaderJoined, TypeOK
<1>11. QED BY <1>1, <1>2, <1>3, <1>4, <1>5, <1>6, <1>7, <1>8, <1>9, <1>10
           DEF TaskStep, ConnectStep, CloseStep

(* A task is in an attempt after its step only if it was before, or if it  *)
(* has just begun one; the others stay where they are.                     *)
LEMMA AttemptStep ==
    ASSUME IndInv, NEW t \in Tasks, CallClose(t) \/ TaskStep(t),
           NEW u \in Tasks, InAttempt(u)'
    PROVE  InAttempt(u) \/ u = reconnector'
<1> USE DEF IndInv
<1>1. CASE u # t
    <2>1. pc'[u] = pc[u]
        BY <1>1, TaskStepFrame DEF TypeOK
    <2>2. u \in undoing' => u \in undoing
        BY <1>1, TasksCancelledPlace
           DEF CallClose, TaskStep, ReconnectStep, ConnectStep, CloseStep,
               BeginReconnection, SkipReconnection, Wake, ConnectFails,
               ConnectSucceeds, Verified, VerificationRaises, Connected,
               SkipClose, StartClose, CloseChannel, CallbacksEnd,
               StopKeepalive, CancelReader, ReaderJoined
    <2>3. QED BY <2>1, <2>2 DEF InAttempt
<1>2. CASE u = t
    <2> USE DEF InAttempt, TypeOK, Goto
    <2>1. CASE CallClose(t)
        BY <1>2, <2>1 DEF CallClose
    <2>2. CASE ReconnectStep(t)
        BY <1>2, <2>2 DEF ReconnectStep, BeginReconnection, SkipReconnection,
                          Wake
    <2>3. CASE ConnectStep(t)
        BY <1>2, <2>3 DEF ConnectStep, ConnectFails, ConnectSucceeds, Verified,
                          VerificationRaises, Connected
    <2>4. CASE SkipClose(t) \/ StartClose(t)
        BY <1>2, <2>4 DEF SkipClose, StartClose, Leave
    <2>5. CASE CloseChannel(t)
        BY <1>2, <2>5 DEF CloseChannel
    <2>6. CASE CallbacksEnd(t)
        BY <1>2, <2>6 DEF CallbacksEnd
    <2>7. CASE StopKeepalive(t)
        BY <1>2, <2>7, TasksCancelledPlace DEF StopKeepalive
    <2>8. CASE CancelReader(t)
        BY <1>2, <2>8, TasksCancelledPlace DEF CancelReader
    <2>9. CASE ReaderJoined(t)
        BY <1>2, <2>9, TasksCancelledPlace DEF ReaderJoined
    <2>10. QED BY <2>1, <2>2, <2>3, <2>4, <2>5, <2>6, <2>7, <2>8, <2>9
               DEF TaskStep, CloseStep
<1>3. QED BY <1>1, <1>2

LEMMA SingleNext ==
    ASSUME IndInv, [Next]_vars
    PROVE  SingleReconnection'
<1> USE DEF IndInv
<1> SUFFICES ASSUME NEW u \in Tasks \ {Owner}, InAttempt(u)'
             PROVE  u = reconnector'
    BY DEF SingleReconnection
<1>1. ASSUME NEW t \in Tasks, CallClose(t) \/ TaskStep(t)
      PROVE  u = reconnector'
    <2>1. SUFFICES ASSUME u # reconnector' PROVE FALSE
        OBVIOUS
    <2>2. u = reconnector
        BY <1>1, <2>1, AttemptStep DEF SingleReconnection
    <2>3. t = u /\ pc'[t] = "done" /\ t \notin undoing'
        BY <1>1, <2>1, <2>2, ReconnectorStep, TasksAssumption
    <2>4. QED BY <2>3 DEF InAttempt
<1>2. ASSUME NEW c \in Conns, ReaderStep(c)
      PROVE  u = reconnector'
    <2>1. InAttempt(u)
        BY <1>2, ReaderStepFrame DEF InAttempt, TypeOK
    <2>2. QED BY <1>2, <2>1, ReaderStepFrame DEF SingleReconnection
<1>3. ASSUME NEW c \in Conns, KeepaliveStep(c)
      PROVE  u = reconnector'
    <2>1. InAttempt(u)
        BY <1>3, KeepaliveStepFrame DEF InAttempt, TypeOK
    <2>2. QED BY <1>3, <2>1, KeepaliveStepFrame DEF SingleReconnection
<1>4. ASSUME NEW c \in Conns, NetworkStep(c)
      PROVE  u = reconnector'
    BY <1>4, NetworkStepFrame DEF InAttempt, SingleReconnection
<1>5. CASE UNCHANGED vars
    BY <1>5 DEF vars, InAttempt, SingleReconnection
<1>6. QED BY <1>1, <1>2, <1>3, <1>4, <1>5 DEF Next

LEMMA ReconnectsNext ==
    ASSUME IndInv, [Next]_vars
    PROVE  ReconnectsIfConfigured'
<1> USE DEF IndInv, ReconnectsIfConfigured
<1>1. ASSUME NEW t \in Tasks, CallClose(t) \/ TaskStep(t)
      PROVE  ReconnectsIfConfigured'
    <2>1. reconnector' # None => reconnector # None \/ pc[t] = "reconnect"
        BY <1>1, ReconnectorStep
    <2>2. \A u \in Tasks : pc'[u] = "reconnect" => pc[u] = "reconnect"
        BY <1>1, TaskStepFrame DEF TypeOK
    <2>3. config' = config
        BY <1>1, TaskStepFrame
    <2>4. QED BY <2>1, <2>2, <2>3
<1>2. ASSUME NEW c \in Conns, ReaderStep(c)
      PROVE  ReconnectsIfConfigured'
    <2>1. config' = config /\ reconnector' = reconnector
        BY <1>2, ReaderStepFrame
    <2>2. CASE pc' = pc
        BY <2>1, <2>2
    <2>3. CASE pc' # pc
        <3>1. PICK s \in {"close", "reconnect"} :
                /\ pc' = [pc EXCEPT ![ReaderTask(c)] = s]
                /\ s = "reconnect" => config.autoReconnect
            BY <1>2, <2>3, ReaderStepFrame
        <3>2. \A u \in Tasks : pc'[u] = "reconnect" =>
                pc[u] = "reconnect" \/ config.autoReconnect
            BY <3>1 DEF TypeOK
        <3>3. QED BY <2>1, <3>2
    <2>4. QED BY <2>2, <2>3
<1>3. ASSUME NEW c \in Conns, KeepaliveStep(c)
      PROVE  ReconnectsIfConfigured'
    <2>1. \A u \in Tasks : pc'[u] = "reconnect" => pc[u] = "reconnect"
        BY <1>3, KeepaliveStepFrame DEF TypeOK
    <2>2. QED BY <1>3, <2>1, KeepaliveStepFrame
<1>4. ASSUME NEW c \in Conns, NetworkStep(c)
      PROVE  ReconnectsIfConfigured'
    BY <1>4, NetworkStepFrame
<1>5. CASE UNCHANGED vars
    BY <1>5 DEF vars
<1>6. QED BY <1>1, <1>2, <1>3, <1>4, <1>5 DEF Next

(* What a step does to the two flags: only close() sets _closing, and it   *)
(* sets the event with it; only a reconnection clears either.              *)
LEMMA FlagsStep ==
    ASSUME IndInv, [Next]_vars
    PROVE  \/ closing' = closing /\ (event' = event \/ event' = TRUE)
           \/ closing' = TRUE /\ event' = TRUE
           \/ /\ closing' = FALSE /\ event' = FALSE
              /\ reconnector # None /\ reconnector' = None
<1> USE DEF IndInv
<1>1. ASSUME NEW t \in Tasks, Connected(t), t # Owner
      PROVE  /\ closing' = FALSE /\ event' = FALSE
             /\ reconnector # None /\ reconnector' = None
    <2>1. t = reconnector
        BY <1>1 DEF Connected, SingleReconnection, InAttempt
    <2>2. QED BY <1>1, <2>1, TasksAssumption DEF Connected
<1>2. ASSUME NEW t \in Tasks, Connected(t), t = Owner
      PROVE  closing' = closing /\ event' = event
    BY <1>2 DEF Connected
<1>3. ASSUME NEW t \in Tasks, CallClose(t) \/ TaskStep(t), ~Connected(t)
      PROVE  \/ closing' = closing /\ (event' = event \/ event' = TRUE)
             \/ closing' = TRUE /\ event' = TRUE
    BY <1>3 DEF CallClose, TaskStep, ReconnectStep, ConnectStep, CloseStep,
                BeginReconnection, SkipReconnection, Wake, ConnectFails,
                ConnectSucceeds, Verified, VerificationRaises, SkipClose,
                StartClose, CloseChannel, CallbacksEnd, StopKeepalive,
                CancelReader, ReaderJoined, EventOnClose
<1>4. ASSUME NEW c \in Conns, ReaderStep(c)
      PROVE  closing' = closing /\ (event' = event \/ event' = TRUE)
    BY <1>4 DEF ReaderStep, ReaderMoves, ReaderFails, ReaderTimesOut,
                ReaderLosesConnection, EventOnLoss
<1>5. ASSUME NEW c \in Conns, KeepaliveStep(c) \/ NetworkStep(c)
      PROVE  closing' = closing /\ event' = event
    BY <1>5, KeepaliveStepFrame, NetworkStepFrame
<1>6. CASE UNCHANGED vars
    BY <1>6 DEF vars
<1>7. QED BY <1>1, <1>2, <1>3, <1>4, <1>5, <1>6 DEF Next

LEMMA SignalledNext ==
    ASSUME IndInv, [Next]_vars
    PROVE  ClosingIsSignalled'
BY FlagsStep DEF IndInv, TypeOK, ClosingIsSignalled

(* A step of a task has no other task undo a connection or stop doing so.  *)
LEMMA UndoingFrame ==
    ASSUME TypeOK, NEW t \in Tasks, CallClose(t) \/ TaskStep(t),
           NEW u \in Tasks, u # t
    PROVE  u \in undoing <=> u \in undoing'
<1>1. CASE CallClose(t) \/ ReconnectStep(t)
    BY <1>1 DEF CallClose, ReconnectStep, BeginReconnection, SkipReconnection,
                Wake
<1>2. CASE ConnectStep(t)
    BY <1>2 DEF ConnectStep, ConnectFails, ConnectSucceeds, Verified,
                VerificationRaises, Connected
<1>3. CASE SkipClose(t) \/ StartClose(t) \/ CloseChannel(t) \/ CallbacksEnd(t)
    BY <1>3 DEF SkipClose, StartClose, CloseChannel, CallbacksEnd
<1>4. CASE StopKeepalive(t)
    BY <1>4, TasksCancelledPlace DEF StopKeepalive
<1>5. CASE CancelReader(t)
    BY <1>5, TasksCancelledPlace DEF CancelReader
<1>6. CASE ReaderJoined(t)
    BY <1>6, TasksCancelledPlace DEF ReaderJoined
<1>7. QED BY <1>1, <1>2, <1>3, <1>4, <1>5, <1>6 DEF TaskStep, CloseStep

LEMMA ReconnectorClosesNext ==
    ASSUME IndInv, [Next]_vars
    PROVE  ReconnectorCloses'
<1> DEFINE Past == {"channel", "callbacks", "keepalive", "reader", "join"}
<1> USE DEF IndInv
<1> SUFFICES ASSUME NEW u \in Tasks, u = reconnector', u \notin undoing',
                    pc'[u] \in Past
             PROVE  closing'
    BY DEF ReconnectorCloses
<1>1. ASSUME u = reconnector, u \notin undoing, pc[u] \in Past
      PROVE  closing'
    <2>1. closing
        BY <1>1 DEF ReconnectorCloses
    <2>2. QED BY <2>1, FlagsStep, TasksAssumption
<1>2. ASSUME NEW t \in Tasks, CallClose(t) \/ TaskStep(t)
      PROVE  closing'
    <2>1. CASE u # t
        <3>1. pc'[u] = pc[u]
            BY <1>2, <2>1, TaskStepFrame DEF TypeOK
        <3>2. u \notin undoing
            BY <1>2, <2>1, UndoingFrame
        <3>3. u = reconnector
            BY <1>2, <2>1, ReconnectorStep, TasksAssumption
        <3>4. QED BY <1>1, <3>1, <3>2, <3>3
    <2>2. CASE u = t
        <3> USE DEF TypeOK, Goto
        <3>1. CASE CallClose(t) \/ ReconnectStep(t)
            BY <2>2, <3>1 DEF CallClose, ReconnectStep, BeginReconnection,
                              SkipReconnection, Wake
        <3>2. CASE ConnectFails(t)
            BY <2>2, <3>2, ConnectRaisedPlace DEF ConnectFails
        <3>3. CASE ConnectSucceeds(t) \/ Verified(t) \/ Connected(t)
            BY <2>2, <3>3 DEF ConnectSucceeds, Verified, Connected
        <3>4. CASE VerificationRaises(t)
            BY <2>2, <3>4 DEF VerificationRaises
        <3>5. CASE SkipClose(t)
            BY <2>2, <3>5 DEF SkipClose, Leave
        <3>6. CASE StartClose(t)
            BY <3>6 DEF StartClose
        <3>7. CASE CloseChannel(t) \/ CallbacksEnd(t)
            BY <1>1, <2>2, <3>7 DEF CloseChannel, CallbacksEnd
        <3>8. CASE StopKeepalive(t)
            BY <1>1, <2>2, <3>8, TasksCancelledPlace DEF StopKeepalive
        <3>9. CASE CancelReader(t)
            BY <1>1, <2>2, <3>9, TasksCancelledPlace DEF CancelReader
        <3>10. CASE ReaderJoined(t)
            BY <2>2, <3>10, TasksCancelledPlace DEF ReaderJoined
        <3>11. QED BY <1>2, <3>1, <3>2, <3>3, <3>4, <3>5, <3>6, <3>7, <3>8,
                      <3>9, <3>10 DEF TaskStep, ConnectStep, CloseStep
    <2>3. QED BY <2>1, <2>2
<1>3. ASSUME NEW c \in Conns, ReaderStep(c)
      PROVE  closing'
    <2>1. pc'[u] = pc[u]
        BY <1>3, ReaderStepFrame DEF TypeOK
    <2>2. QED BY <1>1, <1>3, <2>1, ReaderStepFrame
<1>4. ASSUME NEW c \in Conns, KeepaliveStep(c)
      PROVE  closing'
    <2>1. pc'[u] = pc[u]
        BY <1>4, KeepaliveStepFrame DEF TypeOK
    <2>2. QED BY <1>1, <1>4, <2>1, KeepaliveStepFrame
<1>5. ASSUME NEW c \in Conns, NetworkStep(c)
      PROVE  closing'
    BY <1>1, <1>5, NetworkStepFrame
<1>6. CASE UNCHANGED vars
    BY <1>1, <1>6 DEF vars
<1>7. QED BY <1>2, <1>3, <1>4, <1>5, <1>6 DEF Next

(* A connection only wears out: its socket does not become usable again,   *)
(* its channel does not reopen.                                            *)
WearsOut(c) ==
    /\ Writable(c)' => Writable(c)
    /\ conn[c].channel = "closed" => conn'[c].channel = "closed"
    /\ conn[c].channel # "none" => conn'[c].channel # "none"

LEMMA UpdateWears ==
    ASSUME TypeOK, NEW d, NEW c \in Conns
    PROVE  /\ \A s \in {"closed", conn[d].socket} :
                conn' = WithChannelClosed(d, s) => WearsOut(c)
           /\ \A s \in {"lost", "closed"} :
                conn' = [conn EXCEPT ![d].socket = s] => WearsOut(c)
           /\ \A s : conn' = [conn EXCEPT ![d].failures = s] => WearsOut(c)
           /\ \A s : conn' = [conn EXCEPT ![d].reads = s] => WearsOut(c)
           /\ \A s : conn' = WithReader(d, s) => WearsOut(c)
           /\ \A s : conn' = WithKeepalive(d, s) => WearsOut(c)
           /\ conn' = conn => WearsOut(c)
<1>1. conn \in [Conns -> Connection] /\ conn[c] \in Connection
    BY DEF TypeOK
<1> USE DEF WearsOut, Connection, Writable
<1>2. \A s \in {"closed", conn[d].socket} :
        conn' = WithChannelClosed(d, s) => WearsOut(c)
    BY <1>1 DEF WithChannelClosed
<1>3. \A s \in {"lost", "closed"} :
        conn' = [conn EXCEPT ![d].socket = s] => WearsOut(c)
    BY <1>1
<1>4. \A s : conn' = [conn EXCEPT ![d].failures = s] => WearsOut(c)
    BY <1>1
<1>5. \A s : conn' = [conn EXCEPT ![d].reads = s] => WearsOut(c)
    BY <1>1
<1>6. \A s : conn' = WithReader(d, s) => WearsOut(c)
    BY <1>1 DEF WithReader
<1>7. \A s : conn' = WithKeepalive(d, s) => WearsOut(c)
    BY <1>1 DEF WithKeepalive
<1>8. QED BY <1>2, <1>3, <1>4, <1>5, <1>6, <1>7

LEMMA TaskStepWears ==
    ASSUME TypeOK, NEW t \in Tasks, CallClose(t) \/ TaskStep(t),
           ~ConnectSucceeds(t), NEW c \in Conns
    PROVE  WearsOut(c)
<1>1. CASE CallClose(t) \/ ReconnectStep(t) \/ ConnectFails(t) \/ Connected(t)
    BY <1>1, UpdateWears DEF CallClose, ReconnectStep, BeginReconnection,
                SkipReconnection, Wake, ConnectFails, Connected
<1>2. CASE Verified(t)
    BY <1>2, UpdateWears DEF Verified
<1>3. CASE VerificationRaises(t)
    BY <1>3, UpdateWears DEF VerificationRaises
<1>4. CASE SkipClose(t) \/ ReaderJoined(t)
    BY <1>4, UpdateWears DEF SkipClose, ReaderJoined
<1>5. CASE StartClose(t)
    BY <1>5, UpdateWears DEF StartClose
<1>6. CASE CloseChannel(t)
    <2>1. \/ conn' = conn
          \/ \E s \in {"closed", conn[cur].socket} :
                conn' = WithChannelClosed(cur, s)
        BY <1>6 DEF CloseChannel
    <2>2. QED BY <2>1, UpdateWears
<1>7. CASE CallbacksEnd(t)
    BY <1>7, UpdateWears DEF CallbacksEnd
<1>8. CASE StopKeepalive(t)
    BY <1>8, UpdateWears DEF StopKeepalive
<1>9. CASE CancelReader(t)
    BY <1>9, UpdateWears DEF CancelReader
<1>10. QED BY <1>1, <1>2, <1>3, <1>4, <1>5, <1>6, <1>7, <1>8, <1>9
           DEF TaskStep, ConnectStep, CloseStep

LEMMA OtherStepWears ==
    ASSUME TypeOK, NEW c \in Conns, NEW d \in Conns,
           ReaderStep(d) \/ KeepaliveStep(d) \/ NetworkStep(d)
    PROVE  WearsOut(c) /\ UNCHANGED <<closing, target>>
<1>1. CASE ReaderStep(d)
    BY <1>1, UpdateWears DEF ReaderStep, ReaderMoves, ReaderFails,
                ReaderTimesOut, ReaderLosesConnection, ReaderEnds
<1>2. CASE KeepaliveStep(d)
    BY <1>2, UpdateWears DEF KeepaliveStep, PingAnswered, PingFails,
                KeepaliveDies
<1>3. CASE NetworkStep(d)
    <2>1. CASE conn' = [conn EXCEPT ![d].socket = "lost"]
        BY <1>3, <2>1, UpdateWears DEF NetworkStep
    <2>2. CASE /\ conn[d].socket = "up"
               /\ conn' = [conn EXCEPT ![d].socket = "silent"]
        BY <1>3, <2>2 DEF NetworkStep, WearsOut, Writable, TypeOK, Connection
    <2>3. QED BY <1>3, <2>1, <2>2 DEF NetworkStep
<1>4. QED BY <1>1, <1>2, <1>3

(* Torn down stays torn down, and a task that tears down goes on unless it *)
(* takes the step itself.                                                  *)
LEMMA TearDownKept ==
    ASSUME TypeOK, NEW c \in Conns, EndsOnly(c), WearsOut(c)
    PROVE  /\ TornDown(c) => TornDown(c)'
           /\ \A u \in Tasks :
                /\ TearsDown(u, c) /\ pc'[u] = pc[u]
                /\ (u \in undoing <=> u \in undoing')
                => TearsDown(u, c)'
<1>1. TornDown(c) => TornDown(c)'
    BY DEF TornDown, EndsOnly, WearsOut
<1>2. QED BY <1>1 DEF TearsDown, WearsOut

LEMMA TearDownNext ==
    ASSUME IndInv, [Next]_vars
    PROVE  TearDownGoesOn'
<1> USE DEF IndInv
<1>1. target <= cur /\ target \in Nat /\ cur \in Nat /\ MaxConns \in Nat
    BY BoundsAssumption DEF TypeOK, TearDownGoesOn
<1>2. ASSUME NEW t \in Tasks, ConnectSucceeds(t)
      PROVE  TearDownGoesOn'
    <2>1. cur' = cur + 1 /\ target' = target /\ cur + 1 \in Conns
          /\ conn' = [conn EXCEPT ![cur + 1] = Opened(cur + 1)]
        BY <1>1, <1>2 DEF ConnectSucceeds, Conns
    <2>2. conn'[cur'].channel = "open"
        BY <2>1 DEF TypeOK, Opened
    <2>3. target' # cur' /\ target' <= cur'
        BY <1>1, <2>1
    <2>4. QED BY <2>2, <2>3 DEF TearDownGoesOn
<1>3. ASSUME cur' = cur, \A c \in Conns : EndsOnly(c) /\ WearsOut(c),
             target' \in {target, cur, 0},
             cur # 0 /\ closing' /\ target' = cur =>
                 ~Writable(cur)' /\ (\/ TornDown(cur)'
                                     \/ \E u \in Tasks : TearsDown(u, cur)')
      PROVE  TearDownGoesOn'
    <2>1. target' <= cur'
        BY <1>1, <1>3
    <2>2. cur # 0 => cur \in Conns
        BY <1>1 DEF TypeOK, Conns
    <2>3. cur # 0 => conn'[cur].channel # "none"
        BY <1>3, <2>2 DEF TearDownGoesOn, WearsOut
    <2>4. QED BY <1>3, <2>1, <2>3 DEF TearDownGoesOn, Writable, TornDown, TearsDown
<1>4. ASSUME cur' = cur, \A c \in Conns : EndsOnly(c) /\ WearsOut(c),
             target' = target, closing' = closing,
             \A u \in Tasks : TearsDown(u, cur) /\ cur # 0
                => TearsDown(u, cur)' \/ TornDown(cur)'
      PROVE  TearDownGoesOn'
    <2>1. ASSUME cur # 0, closing', target' = cur
          PROVE  ~Writable(cur)' /\ (\/ TornDown(cur)'
                                     \/ \E u \in Tasks : TearsDown(u, cur)')
        <3>1. cur \in Conns
            BY <1>1, <2>1 DEF TypeOK, Conns
        <3>2. /\ ~Writable(cur)
              /\ TornDown(cur) \/ \E u \in Tasks : TearsDown(u, cur)
            BY <1>4, <2>1 DEF TearDownGoesOn
        <3>3. ~Writable(cur)'
            BY <1>4, <3>1, <3>2 DEF WearsOut
        <3>4. TornDown(cur) => TornDown(cur)'
            BY <1>4, <3>1, TearDownKept
        <3>5. QED BY <1>4, <2>1, <3>2, <3>3, <3>4
    <2>2. QED BY <1>3, <1>4, <2>1
<1>5. ASSUME NEW t \in Tasks, CallClose(t) \/ TaskStep(t), ~ConnectSucceeds(t)
      PROVE  TearDownGoesOn'
    <2>1. cur' = cur
        <3>1. 1 \in Conns
            BY BoundsAssumption DEF Conns
        <3>2. QED BY <1>5, <3>1, TaskStepEnds
    <2>2. \A c \in Conns : EndsOnly(c) /\ WearsOut(c)
        BY <1>5, TaskStepEnds, TaskStepWears
    <2>3. CASE StartClose(t)
        <3>1. closing' = TRUE /\ target' = cur /\ t \notin undoing'
            BY <2>3 DEF StartClose, UndoingStages
        <3>2. pc'[t] = "channel"
            BY <2>3 DEF StartClose, Goto, TypeOK
        <3>3. cur # 0 => ~Writable(cur)'
            <4>1. cur # 0 => cur \in Conns
                BY <1>1 DEF TypeOK, Conns
            <4>2. QED BY <2>1, <2>3, <4>1 DEF StartClose, Writable, TypeOK
        <3>4. TearsDown(t, cur)'
            BY <3>1, <3>2 DEF TearsDown
        <3>5. QED BY <1>3, <2>1, <2>2, <3>1, <3>3, <3>4
    <2>4. CASE Connected(t) /\ t # Owner
        <3>1. ~closing' /\ target' = 0
            BY <2>4 DEF Connected
        <3>2. QED BY <1>3, <2>1, <2>2, <3>1
    <2>5. CASE ~StartClose(t) /\ ~(Connected(t) /\ t # Owner)
        <3>1. closing' = closing /\ target' = target
            BY <1>5, <2>5 DEF CallClose, TaskStep, ReconnectStep, ConnectStep,
                CloseStep, BeginReconnection, SkipReconnection, Wake,
                ConnectFails, ConnectSucceeds, Verified, VerificationRaises,
                Connected, SkipClose, StartClose, CloseChannel, CallbacksEnd,
                StopKeepalive, CancelReader, ReaderJoined
        <3>2. ASSUME NEW u \in Tasks, TearsDown(u, cur), cur # 0
              PROVE  TearsDown(u, cur)' \/ TornDown(cur)'
            <4>1. cur \in Conns /\ conn[cur] \in Connection
                BY <1>1, <3>2 DEF TypeOK, Conns
            <4>2. CASE u # t
                <5>1. pc'[u] = pc[u] /\ (u \in undoing <=> u \in undoing')
                    BY <1>5, <4>2, TaskStepFrame, UndoingFrame DEF TypeOK
                <5>2. QED BY <2>1, <2>2, <3>2, <4>1, <5>1, TearDownKept
                          DEF TearsDown
            <4>3. CASE u = t
                <5>1. t \notin undoing /\ pc[t] \in {"channel", "callbacks", "keepalive"}
                    BY <3>2, <4>3 DEF TearsDown
                <5>2. CloseChannel(t) \/ CallbacksEnd(t) \/ StopKeepalive(t)
                    BY <1>5, <2>5, <5>1, TaskStepFrame
                       DEF CallClose, TaskStep, ReconnectStep, ConnectStep,
                           CloseStep, BeginReconnection, SkipReconnection, Wake,
                           ConnectFails, ConnectSucceeds, Verified,
                           VerificationRaises, Connected, SkipClose, StartClose,
                           CancelReader, ReaderJoined
                <5>3. CASE CloseChannel(t)
                    <6>1. /\ t \notin undoing'
                          /\ pc'[t] \in {"callbacks", "keepalive"}
                        BY <5>1, <5>3 DEF CloseChannel, Goto, TypeOK
                    <6>2. conn'[cur].channel = "closed"
                        <7>1. CASE conn[cur].channel = "open"
                            <8>1. PICK s : conn' = WithChannelClosed(cur, s)
                                BY <3>2, <5>3, <7>1 DEF CloseChannel
                            <8>2. conn \in [Conns -> Connection]
                                BY DEF TypeOK
                            <8>3. QED BY <4>1, <8>1, <8>2
                                      DEF WithChannelClosed, Connection
                        <7>2. CASE conn[cur].channel # "open"
                            <8>1. conn[cur].channel = "closed"
                                BY <3>2, <4>1, <7>2 DEF TearDownGoesOn, Connection
                            <8>2. QED BY <5>3, <7>2, <8>1 DEF CloseChannel
                        <7>3. QED BY <7>1, <7>2
                    <6>3. TearsDown(t, cur)'
                        BY <2>1, <6>1, <6>2 DEF TearsDown
                    <6>4. QED BY <4>3, <6>3
                <5>4. CASE CallbacksEnd(t)
                    <6>1. /\ t \notin undoing' /\ pc'[t] = "keepalive"
                          /\ pc[t] = "callbacks"
                        BY <5>1, <5>4 DEF CallbacksEnd, Goto, TypeOK
                    <6>2. conn'[cur].channel = "closed"
                        BY <2>2, <3>2, <4>1, <4>3, <6>1 DEF TearsDown, WearsOut
                    <6>3. TearsDown(t, cur)'
                        BY <2>1, <6>1, <6>2 DEF TearsDown
                    <6>4. QED BY <4>3, <6>3
                <5>5. CASE StopKeepalive(t)
                    <6>1. conn'[cur].channel = "closed"
                        BY <2>2, <3>2, <4>1, <4>3, <5>5
                           DEF TearsDown, WearsOut, StopKeepalive
                    <6>2. conn'[cur].keepalive # "running"
                        <7>1. CASE conn' = WithKeepalive(cur, "ended")
                            BY <4>1, <7>1 DEF WithKeepalive, TypeOK
                        <7>2. CASE conn' = conn /\ CurKeepalive # "running"
                            BY <3>2, <7>2 DEF CurKeepalive
                        <7>3. QED BY <5>5, <7>1, <7>2 DEF StopKeepalive
                    <6>3. TornDown(cur)'
                        BY <2>1, <6>1, <6>2 DEF TornDown
                    <6>4. QED BY <6>3
                <5>6. QED BY <5>2, <5>3, <5>4, <5>5
            <4>4. QED BY <4>2, <4>3
        <3>3. QED BY <1>4, <2>1, <2>2, <3>1, <3>2
    <2>6. QED BY <2>3, <2>4, <2>5
<1>6. ASSUME NEW d \in Conns, ReaderStep(d) \/ KeepaliveStep(d) \/ NetworkStep(d)
      PROVE  TearDownGoesOn'
    <2>1. \A c \in Conns : EndsOnly(c) /\ WearsOut(c)
        BY <1>6, ReaderStepFrame, KeepaliveStepFrame, NetworkStepFrame,
           OtherStepWears
    <2>2. cur' = cur /\ closing' = closing /\ target' = target
          /\ undoing' = undoing
        BY <1>6, ReaderStepFrame, KeepaliveStepFrame, NetworkStepFrame,
           OtherStepWears
    <2>3. \A u \in Tasks : pc[u] \in {"channel", "callbacks", "keepalive"}
                                => pc'[u] = pc[u]
        <3>1. CASE ReaderStep(d)
            <4>1. pc[ReaderTask(d)] = "idle"
                BY <3>1, ReaderStepFrame DEF FreshTasks
            <4>2. QED BY <3>1, <4>1, ReaderStepFrame DEF TypeOK
        <3>2. CASE KeepaliveStep(d)
            <4>1. pc[KeepaliveTask(d)] = "idle"
                BY <3>2, KeepaliveStepFrame DEF FreshTasks
            <4>2. QED BY <3>2, <4>1, KeepaliveStepFrame DEF TypeOK
        <3>3. CASE NetworkStep(d)
            BY <3>3, NetworkStepFrame
        <3>4. QED BY <1>6, <3>1, <3>2, <3>3
    <2>4. ASSUME NEW u \in Tasks, TearsDown(u, cur), cur # 0
          PROVE  TearsDown(u, cur)'
        <3>1. cur \in Conns
            BY <1>1, <2>4 DEF TypeOK, Conns
        <3>2. pc'[u] = pc[u]
            BY <2>3, <2>4 DEF TearsDown
        <3>3. QED BY <2>1, <2>2, <2>4, <3>1, <3>2, TearDownKept DEF TearsDown
    <2>5. QED BY <1>4, <2>1, <2>2, <2>4
<1>7. CASE UNCHANGED vars
    BY <1>7 DEF vars, TearDownGoesOn, Writable, TornDown, TearsDown
<1>8. QED BY <1>2, <1>5, <1>6, <1>7 DEF Next, TaskStep, ConnectStep

LEMMA NextInv == IndInv /\ [Next]_vars => IndInv'
<1>1. IndInv /\ [Next]_vars => TypeOK'
    BY NextType DEF IndInv
<1>2. QED BY <1>1, FreshNext, UndoingNext, ReconnectsNext, SingleNext,
             SignalledNext, ReconnectorClosesNext, TearDownNext DEF IndInv

(* The inductive invariant holds in every state.                           *)
THEOREM Invariant == Spec => []IndInv
<1>1. QED BY InitInv, NextInv, PTL DEF Spec

------------------------------------------------------------
(* The properties                                                          *)

(* However many readers and keep-alives a client has had, at most one task *)
(* is in _attempt_reconnection's loop, the one _is_reconnecting stands for.*)
THEOREM OneReconnection == Spec => []SingleReconnection
<1>1. IndInv => SingleReconnection
    BY DEF IndInv
<1>2. QED BY <1>1, Invariant, PTL

(* While _closing is set, is_closed_event is set.                          *)
THEOREM ClosingSignalled == Spec => []ClosingIsSignalled
<1>1. IndInv => ClosingIsSignalled
    BY DEF IndInv
<1>2. QED BY <1>1, Invariant, PTL

(* A closing client is opened again by a reconnection that succeeded, and  *)
(* by nothing else; never without auto_reconnect.                          *)
THEOREM OnlyReconnectionReopens == Spec => ReopenedByReconnection
<1>1. IndInv /\ [Next]_vars =>
        [closing /\ ~closing' =>
            /\ config.autoReconnect
            /\ reconnector # None /\ reconnector' = None
            /\ ~event']_vars
    <2> SUFFICES ASSUME IndInv, [Next]_vars, closing, ~closing'
                 PROVE  /\ config.autoReconnect
                        /\ reconnector # None /\ reconnector' = None
                        /\ ~event'
        OBVIOUS
    <2>1. /\ closing' = FALSE /\ event' = FALSE
          /\ reconnector # None /\ reconnector' = None
        BY FlagsStep
    <2>2. config.autoReconnect
        BY <2>1 DEF IndInv, ReconnectsIfConfigured
    <2>3. QED BY <2>1, <2>2
<1>2. QED BY <1>1, Invariant, PTL DEF Spec, ReopenedByReconnection

(* Once nobody is at work, the connection that close() found is torn down, *)
(* whichever tasks closed at once and whatever they raised.                *)
THEOREM ClosedTornDown == Spec => []ClosedIsTornDown
<1>1. IndInv => ClosedIsTornDown
    <2> SUFFICES ASSUME IndInv, closing, Quiet, target = cur, cur # 0
                 PROVE  ~Writable(cur) /\ TornDown(cur)
        BY DEF ClosedIsTornDown
    <2>1. \A t \in Tasks : ~TearsDown(t, cur)
        BY DEF Quiet, TearsDown
    <2>2. QED BY <2>1 DEF IndInv, TearDownGoesOn
<1>2. QED BY <1>1, Invariant, PTL

(* A reconnection that ends did so with a connection, or in a client that  *)
(* is closing, or because its back-off overflowed.                         *)
THEOREM GivingUpCloses == Spec => GivesUpByClosing
<1>1. IndInv /\ [Next]_vars =>
        [reconnector # None /\ reconnector' = None =>
            \/ closing'
            \/ ~event'
            \/ attempt[reconnector] >= FloatExponents]_vars
    <2> SUFFICES ASSUME IndInv, [Next]_vars, reconnector # None,
                        reconnector' = None
                 PROVE  \/ closing'
                        \/ ~event'
                        \/ attempt[reconnector] >= FloatExponents
        OBVIOUS
    <2> USE DEF IndInv
    <2>1. ASSUME NEW t \in Tasks, CallClose(t) \/ TaskStep(t)
          PROVE  closing' \/ ~event' \/ attempt[reconnector] >= FloatExponents
        <3>1. reconnector = t
            BY <2>1, ReconnectorStep, TasksAssumption
        <3>2. CASE Connected(t)
            BY <3>2 DEF Connected
        <3>3. CASE SkipClose(t)
            BY <3>3 DEF SkipClose
        <3>4. ASSUME NEW final, ConnectRaised(t, final)
              PROVE  attempt[reconnector] >= FloatExponents
            <4>1. Overflow(t)
                BY <3>4 DEF ConnectRaised, TryAgain, GiveUp
            <4>2. attempt[t] \in Nat /\ FloatExponents \in Nat
                BY BoundsAssumption DEF TypeOK
            <4>3. QED BY <3>1, <4>1, <4>2 DEF Overflow, DelayIsFinite
        <3>5. CASE ConnectFails(t)
            BY <3>4, <3>5 DEF ConnectFails
        <3>6. ASSUME NEW final, TasksCancelled(t, final), closing' = closing,
                     pc[t] \in {"keepalive", "reader", "join"}
              PROVE  closing' \/ attempt[reconnector] >= FloatExponents
            <4>1. CASE t \in undoing
                BY <3>4, <3>6, <4>1 DEF TasksCancelled
            <4>2. CASE t \notin undoing
                BY <3>1, <3>6, <4>2 DEF ReconnectorCloses
            <4>3. QED BY <4>1, <4>2
        <3>7. CASE StopKeepalive(t)
            BY <3>6, <3>7 DEF StopKeepalive
        <3>8. CASE CancelReader(t)
            BY <3>6, <3>8 DEF CancelReader
        <3>9. CASE ReaderJoined(t)
            BY <3>6, <3>9 DEF ReaderJoined
        <3>10. CASE StartClose(t)
            BY <3>10 DEF StartClose
        <3>11. QED BY <2>1, <3>1, <3>2, <3>3, <3>5, <3>7, <3>8, <3>9, <3>10,
                      TasksAssumption
               DEF CallClose, TaskStep, ReconnectStep, ConnectStep, CloseStep,
                   BeginReconnection, SkipReconnection, Wake, ConnectSucceeds,
                   Verified, VerificationRaises, CloseChannel, CallbacksEnd
    <2>2. ASSUME NEW c \in Conns,
                 ReaderStep(c) \/ KeepaliveStep(c) \/ NetworkStep(c)
          PROVE  FALSE
        BY <2>2, ReaderStepFrame, KeepaliveStepFrame, NetworkStepFrame
    <2>3. QED BY <2>1, <2>2 DEF Next, vars
<1>2. QED BY <1>1, Invariant, PTL DEF Spec, GivesUpByClosing

------------------------------------------------------------
(* Closing comes to an end                                                 *)

ClosingStages == {"close", "channel", "callbacks", "keepalive", "reader", "join"}

After(s) ==
    CASE s = "close" -> {"channel", "done"}
      [] s = "channel" -> {"callbacks", "keepalive"}
      [] s = "callbacks" -> {"keepalive"}
      [] s = "keepalive" -> {"reader", "done"}
      [] s = "reader" -> {"join", "done"}
      [] OTHER -> {"done"}

(* A close() goes through its awaits in order, in six steps at most, and   *)
(* nothing that runs meanwhile sends it back or turns it into a retry.     *)
CloseGoesForward ==
    [][\A t \in Tasks :
          pc[t] \in ClosingStages /\ t \notin undoing =>
             /\ pc'[t] = pc[t] \/ pc'[t] \in After(pc[t])
             /\ t \notin undoing']_vars

(* A step of the closing task itself takes it to the next place.           *)
LEMMA CloserStep ==
    ASSUME IndInv, NEW t \in Tasks, CallClose(t) \/ TaskStep(t),
           pc[t] \in ClosingStages, t \notin undoing
    PROVE  pc'[t] \in After(pc[t]) /\ t \notin undoing'
<1> USE DEF IndInv, TypeOK, Goto, After, Leave, TasksCancelled
<1>1. CASE CallClose(t)
    <2>1. pc[t] \in {"using", "idle"}
        BY <1>1 DEF CallClose
    <2>2. QED BY <2>1 DEF ClosingStages
<1>2. CASE ReconnectStep(t) \/ ConnectStep(t)
    <2>1. pc[t] \in {"reconnect", "sleep", "connecting", "verifying", "greeting"}
        BY <1>2 DEF ReconnectStep, BeginReconnection, SkipReconnection, Wake,
                    ConnectStep, ConnectFails, ConnectSucceeds, Verified,
                    VerificationRaises, Connected
    <2>2. QED BY <2>1 DEF ClosingStages
<1>3. CASE SkipClose(t)
    BY <1>3 DEF SkipClose
<1>4. CASE StartClose(t)
    BY <1>4 DEF StartClose
<1>5. CASE CloseChannel(t)
    BY <1>5 DEF CloseChannel
<1>6. CASE CallbacksEnd(t)
    BY <1>6 DEF CallbacksEnd
<1>7. CASE StopKeepalive(t)
    BY <1>7 DEF StopKeepalive
<1>8. CASE CancelReader(t)
    BY <1>8 DEF CancelReader
<1>9. CASE ReaderJoined(t)
    BY <1>9 DEF ReaderJoined
<1>10. QED BY <1>1, <1>2, <1>3, <1>4, <1>5, <1>6, <1>7, <1>8, <1>9
           DEF TaskStep, CloseStep

(* Together with NoSelfWait: what CloseReturns says without its fairness.  *)
THEOREM CloseIsOneWay == Spec => CloseGoesForward
<1>1. ASSUME IndInv, [Next]_vars, NEW u \in Tasks,
             pc[u] \in ClosingStages, u \notin undoing
      PROVE  /\ pc'[u] = pc[u] \/ pc'[u] \in After(pc[u])
             /\ u \notin undoing'
    <2> USE <1>1 DEF IndInv
    <2>1. ASSUME NEW t \in Tasks, CallClose(t) \/ TaskStep(t)
          PROVE  /\ pc'[u] = pc[u] \/ pc'[u] \in After(pc[u])
                 /\ u \notin undoing'
        <3>1. CASE u = t
            BY <2>1, <3>1, CloserStep
        <3>2. CASE u # t
            BY <2>1, <3>2, TaskStepFrame, UndoingFrame DEF TypeOK
        <3>3. QED BY <3>1, <3>2
    <2>2. ASSUME NEW c \in Conns,
                 ReaderStep(c) \/ KeepaliveStep(c) \/ NetworkStep(c)
          PROVE  pc'[u] = pc[u] /\ u \notin undoing'
        <3>1. CASE ReaderStep(c)
            <4>1. u # ReaderTask(c)
                BY <3>1, ReaderStepFrame DEF FreshTasks, ClosingStages
            <4>2. QED BY <3>1, <4>1, ReaderStepFrame DEF TypeOK
        <3>2. CASE KeepaliveStep(c)
            <4>1. u # KeepaliveTask(c)
                BY <3>2, KeepaliveStepFrame DEF FreshTasks, ClosingStages
            <4>2. QED BY <3>2, <4>1, KeepaliveStepFrame DEF TypeOK
        <3>3. CASE NetworkStep(c)
            BY <3>3, NetworkStepFrame
        <3>4. QED BY <2>2, <3>1, <3>2, <3>3
    <2>3. QED
        <3>1. CASE vars' = vars
            BY <3>1 DEF vars
        <3>2. CASE Next
            BY <2>1, <2>2, <3>2 DEF Next
        <3>3. QED BY <3>1, <3>2
<1>2. IndInv /\ [Next]_vars =>
        [\A t \in Tasks :
            pc[t] \in ClosingStages /\ t \notin undoing =>
               /\ pc'[t] = pc[t] \/ pc'[t] \in After(pc[t])
               /\ t \notin undoing']_vars
    BY <1>1
<1>3. QED BY <1>2, Invariant, PTL DEF Spec, CloseGoesForward

(* close() waits for the end of a reader and a keep-alive, which are also  *)
(* the ones that start tasks for close(): such a task never waits for the  *)
(* one that started it, which has ended before.                            *)
NoTaskWaitsForItself ==
    \A t \in Tasks :
        /\ pc[t] = "keepalive" /\ CurKeepalive = "running" =>
                t # KeepaliveTask(cur)
        /\ pc[t] = "reader" /\ CurReader = "running" =>
                t # ReaderTask(readTask)

THEOREM NoSelfWait == Spec => []NoTaskWaitsForItself
<1>1. IndInv => NoTaskWaitsForItself
    <2> SUFFICES ASSUME IndInv, NEW t \in Tasks
                 PROVE  /\ pc[t] = "keepalive" /\ CurKeepalive = "running" =>
                                t # KeepaliveTask(cur)
                        /\ pc[t] = "reader" /\ CurReader = "running" =>
                                t # ReaderTask(readTask)
        BY DEF NoTaskWaitsForItself
    <2>1. ASSUME CurKeepalive = "running" PROVE pc[KeepaliveTask(cur)] = "idle"
        <3>1. cur \in Conns /\ conn[cur].keepalive = "running"
            BY <2>1, BoundsAssumption DEF CurKeepalive, IndInv, TypeOK, Conns
        <3>2. QED BY <3>1 DEF IndInv, FreshTasks
    <2>2. ASSUME CurReader = "running" PROVE pc[ReaderTask(readTask)] = "idle"
        <3>1. readTask \in Conns /\ conn[readTask].reader = "running"
            BY <2>2, BoundsAssumption DEF CurReader, IndInv, TypeOK, Conns
        <3>2. QED BY <3>1 DEF IndInv, FreshTasks
    <2>3. QED BY <2>1, <2>2
<1>2. QED BY <1>1, Invariant, PTL

------------------------------------------------------------
(* Reconnecting comes to an end                                            *)

(* The loops keep their bounds: __aenter__ connects at most MaxTries times *)
(* and a reconnection max_reconnect_attempts times, with a back-off that a *)
(* float can hold, though connections are lost and tasks cancelled while   *)
(* an attempt is undone.                                                   *)
AttemptsBounded ==
    \A t \in Tasks :
        InAttempt(t) =>
            /\ attempt[t] \in 1..Limit(t)
            /\ t # Owner => attempt[t] <= FloatExponents

InBounds(t, n) == n \in 1..Limit(t) /\ (t # Owner => n <= FloatExponents)

LEMMA RaisedInBounds ==
    ASSUME TypeOK, NEW t \in Tasks, NEW final, ConnectRaised(t, final),
           InBounds(t, attempt[t]), t \notin undoing'
    PROVE  /\ \A u \in Tasks \ {t} : attempt'[u] = attempt[u]
           /\ InAttempt(t)' => InBounds(t, attempt'[t])
<1> USE BoundsAssumption DEF TypeOK, Forgotten
<1>1. \A u \in Tasks \ {t} : attempt'[u] = attempt[u]
    BY DEF ConnectRaised, TryAgain, Overflow, GiveUp
<1>2. CASE TryAgain(t)
    <2>1. /\ attempt[t] < Limit(t) /\ (t # Owner => attempt[t] < FloatExponents)
          /\ attempt'[t] = attempt[t] + 1
        BY <1>2 DEF TryAgain, DelayIsFinite
    <2>2. Limit(t) \in Nat /\ attempt[t] \in Nat
        BY DEF Limit
    <2>3. QED BY <1>1, <2>1, <2>2 DEF InBounds
<1>3. CASE Overflow(t) \/ GiveUp(t)
    <2>1. pc'[t] \in {"done", "refused", "close"}
        BY <1>3 DEF Overflow, GiveUp, Leave, Goto
    <2>2. QED BY <1>1, <2>1 DEF InAttempt
<1>4. QED BY <1>2, <1>3 DEF ConnectRaised

(* The end of cancel_tasks, at each of the three awaits it may be reached. *)
LEMMA CancelledInBounds ==
    ASSUME IndInv, NEW t \in Tasks, NEW final, TasksCancelled(t, final),
           InAttempt(t) => InBounds(t, attempt[t])
    PROVE  /\ \A u \in Tasks \ {t} : attempt'[u] = attempt[u]
           /\ InAttempt(t)' => InBounds(t, attempt'[t])
<1>1. CASE t \in undoing
    BY <1>1, RaisedInBounds DEF TasksCancelled, InAttempt, IndInv
<1>2. CASE t \notin undoing
    <2>1. attempt' = attempt /\ undoing' = undoing /\ pc'[t] = "done"
        BY <1>2 DEF TasksCancelled, Leave, Goto, IndInv, TypeOK
    <2>2. QED BY <1>2, <2>1 DEF InAttempt
<1>3. QED BY <1>1, <1>2

(* A step of a task keeps its own attempt in bounds and leaves the others. *)
LEMMA TaskInBounds ==
    ASSUME IndInv, AttemptsBounded, NEW t \in Tasks,
           CallClose(t) \/ TaskStep(t)
    PROVE  /\ \A u \in Tasks \ {t} : attempt'[u] = attempt[u]
           /\ InAttempt(t)' => InBounds(t, attempt'[t])
<1> USE DEF Goto, Forgotten
<1>1. TypeOK /\ UndoingStages
    BY DEF IndInv
<1>2. InAttempt(t) => InBounds(t, attempt[t])
    BY DEF AttemptsBounded, InBounds
<1>3. CASE CallClose(t)
    <2>1. t \notin undoing /\ pc'[t] = "close"
        BY <1>1, <1>3 DEF CallClose, UndoingStages, TypeOK
    <2>2. attempt' = attempt /\ undoing' = undoing
        BY <1>3 DEF CallClose
    <2>3. QED BY <2>1, <2>2 DEF InAttempt
<1>4. CASE BeginReconnection(t)
    <2>1. attempt' = [attempt EXCEPT ![t] = 1]
        BY <1>4 DEF BeginReconnection
    <2>2. InBounds(t, 1)
        BY BoundsAssumption DEF InBounds, Limit
    <2>3. QED BY <1>1, <2>1, <2>2 DEF TypeOK
<1>5. CASE SkipReconnection(t) \/ SkipClose(t)
    <2>1. t \notin undoing /\ pc'[t] = "done"
        BY <1>1, <1>5 DEF SkipReconnection, SkipClose, Leave, UndoingStages, TypeOK
    <2>2. attempt' = attempt /\ undoing' = undoing
        BY <1>5 DEF SkipReconnection, SkipClose
    <2>3. QED BY <2>1, <2>2 DEF InAttempt
<1>6. CASE Wake(t) \/ ConnectSucceeds(t) \/ Verified(t) \/ VerificationRaises(t)
    <2>1. pc[t] \in {"sleep", "connecting", "verifying"} /\ attempt' = attempt
        BY <1>6 DEF Wake, ConnectSucceeds, Verified, VerificationRaises
    <2>2. QED BY <1>2, <2>1 DEF InAttempt
<1>7. CASE ConnectFails(t)
    <2>1. pc[t] = "connecting" /\ t \notin undoing'
        BY <1>1, <1>7 DEF ConnectFails, UndoingStages
    <2>2. QED BY <1>1, <1>2, <1>7, <2>1, RaisedInBounds DEF ConnectFails, InAttempt
<1>8. CASE Connected(t)
    <2>1. pc'[t] \in {"using", "done"} /\ t \notin undoing'
        BY <1>1, <1>8 DEF Connected, UndoingStages, TypeOK
    <2>2. \A u \in Tasks \ {t} : attempt'[u] = attempt[u]
        BY <1>1, <1>8 DEF Connected, TypeOK
    <2>3. QED BY <2>1, <2>2 DEF InAttempt
<1>9. CASE StartClose(t)
    <2>1. t \notin undoing /\ pc'[t] = "channel"
        BY <1>1, <1>9 DEF StartClose, UndoingStages, TypeOK
    <2>2. attempt' = attempt /\ undoing' = undoing
        BY <1>9 DEF StartClose
    <2>3. QED BY <2>1, <2>2 DEF InAttempt
<1>10. CASE CloseChannel(t) \/ CallbacksEnd(t)
    <2>1. attempt' = attempt /\ undoing' = undoing
          /\ pc'[t] \in {"keepalive", "callbacks"}
        BY <1>1, <1>10 DEF CloseChannel, CallbacksEnd, TypeOK
    <2>2. QED BY <1>2, <2>1 DEF InAttempt
<1>11. ASSUME attempt' = attempt, undoing' = undoing,
              pc'[t] \in {"reader", "join"}
       PROVE  InAttempt(t)' => InBounds(t, attempt'[t])
    BY <1>2, <1>11 DEF InAttempt
<1>12. CASE StopKeepalive(t)
    <2>1. \/ TasksCancelled(t, FALSE)
          \/ attempt' = attempt /\ undoing' = undoing /\ pc'[t] = "reader"
        BY <1>1, <1>12 DEF StopKeepalive, TypeOK
    <2>2. QED BY <1>2, <1>11, <2>1, CancelledInBounds
<1>13. CASE CancelReader(t)
    <2>1. \/ \E final \in BOOLEAN : TasksCancelled(t, final)
          \/ attempt' = attempt /\ undoing' = undoing /\ pc'[t] = "join"
        BY <1>1, <1>13 DEF CancelReader, TypeOK
    <2>2. QED BY <1>2, <1>11, <2>1, CancelledInBounds
<1>14. CASE ReaderJoined(t)
    BY <1>2, <1>14, CancelledInBounds DEF ReaderJoined
<1>15. QED BY <1>3, <1>4, <1>5, <1>6, <1>7, <1>8, <1>9, <1>10, <1>12, <1>13,
              <1>14 DEF TaskStep, ReconnectStep, ConnectStep, CloseStep

THEOREM RetriesAreBounded == Spec => []AttemptsBounded
<1>1. Init => AttemptsBounded
    <2> SUFFICES ASSUME Init, NEW t \in Tasks, InAttempt(t)
                 PROVE  InBounds(t, attempt[t])
        BY DEF AttemptsBounded, InBounds
    <2>1. t = Owner /\ attempt[t] = 1
        BY DEF Init, InAttempt
    <2>2. QED BY <2>1, BoundsAssumption DEF InBounds, Limit
<1>2. ASSUME IndInv, AttemptsBounded, [Next]_vars
      PROVE  AttemptsBounded'
    <2> SUFFICES ASSUME NEW u \in Tasks, InAttempt(u)'
                 PROVE  InBounds(u, attempt'[u])
        BY DEF AttemptsBounded, InBounds, Limit
    <2>1. InAttempt(u) => InBounds(u, attempt[u])
        BY <1>2 DEF AttemptsBounded, InBounds
    <2>2. ASSUME NEW t \in Tasks, CallClose(t) \/ TaskStep(t)
          PROVE  InBounds(u, attempt'[u])
        <3>1. CASE u = t
            BY <1>2, <2>2, <3>1, TaskInBounds
        <3>2. CASE u # t
            <4>1. pc'[u] = pc[u] /\ (u \in undoing' => u \in undoing)
                BY <1>2, <2>2, <3>2, TaskStepFrame, UndoingFrame DEF IndInv, TypeOK
            <4>2. InAttempt(u)
                BY <4>1 DEF InAttempt
            <4>3. QED BY <1>2, <2>1, <2>2, <3>2, <4>2, TaskInBounds
        <3>3. QED BY <3>1, <3>2
    <2>3. ASSUME NEW c \in Conns, ReaderStep(c) \/ KeepaliveStep(c) \/ NetworkStep(c)
          PROVE  InBounds(u, attempt'[u])
        <3>1. attempt' = attempt
            BY <2>3 DEF ReaderStep, ReaderMoves, ReaderFails, ReaderTimesOut,
                        ReaderLosesConnection, KeepaliveStep, PingAnswered,
                        PingFails, KeepaliveDies, NetworkStep
        <3>2. InAttempt(u)
            BY <1>2, <2>3, ReaderStepFrame, KeepaliveStepFrame, NetworkStepFrame
               DEF InAttempt, IndInv, TypeOK
        <3>3. QED BY <2>1, <3>1, <3>2
    <2>4. CASE UNCHANGED vars
        BY <2>1, <2>4 DEF vars, InAttempt
    <2>5. QED BY <1>2, <2>2, <2>3, <2>4 DEF Next
<1>3. QED BY <1>1, <1>2, Invariant, NextInv, PTL DEF Spec

------------------------------------------------------------
(* Losses are told                                                         *)

(* A reconnection has opened another connection.                           *)
Reopened == config.autoReconnect /\ cur > 1

(* Where a reader has ended and those who wait on is_closed_event are not  *)
(* told, either the task that it left is about to call close(), or a       *)
(* reconnection has reset the event.  A reader that an oversized message   *)
(* ended ("escaped") tells nobody.                                         *)
LossesAreTold ==
    \A c \in Conns :
        conn[c].reader \in {"ended", "failed"} =>
            event \/ pc[ReaderTask(c)] = "close" \/ Reopened

(* Only after a first connection is there a task that reconnects, so that  *)
(* what it opens is a second one.                                          *)
ReconnectsAreLater ==
    /\ reconnector # None \/ (\E t \in Tasks : pc[t] = "reconnect") => cur > 0
    /\ \A t \in Tasks \ {Owner} :
          pc[t] \in {"verifying", "greeting"} => cur > 1

LEMMA LaterNext ==
    ASSUME IndInv, ReconnectsAreLater, [Next]_vars
    PROVE  ReconnectsAreLater' /\ cur' >= cur
<1> USE BoundsAssumption, TaskFacts DEF ReconnectsAreLater
<1>0. TypeOK /\ cur \in Nat
    BY DEF IndInv, TypeOK
<1>1. ASSUME NEW t \in Tasks, CallClose(t) \/ TaskStep(t)
      PROVE  ReconnectsAreLater' /\ cur' >= cur
    <2>1. cur' >= cur
        <3>1. CASE ConnectSucceeds(t)
            BY <1>0, <3>1 DEF ConnectSucceeds
        <3>2. CASE ~ConnectSucceeds(t)
            BY <1>0, <1>1, <3>2, TaskStepEnds, 1 \in Conns DEF Conns
        <3>3. QED BY <3>1, <3>2
    <2>2. reconnector' # None \/ (\E u \in Tasks : pc'[u] = "reconnect") => cur > 0
        <3>1. reconnector' # None => reconnector # None \/ pc[t] = "reconnect"
            BY <1>1, ReconnectorStep
        <3>2. \A u \in Tasks : pc'[u] = "reconnect" => pc[u] = "reconnect"
            BY <1>0, <1>1, TaskStepFrame DEF TypeOK
        <3>3. QED BY <3>1, <3>2
    <2>3. ASSUME NEW u \in Tasks \ {Owner}, pc'[u] \in {"verifying", "greeting"}
          PROVE  cur' > 1
        <3>1. CASE pc[u] \in {"verifying", "greeting"}
            <4>1. cur > 1 /\ cur' \in Nat
                BY <3>1, NextType DEF IndInv, TypeOK
            <4>2. QED BY <1>0, <2>1, <4>1
        <3>2. CASE pc[u] \notin {"verifying", "greeting"}
            <4>1. u = t
                BY <1>0, <1>1, <2>3, <3>2, TaskStepFrame DEF TypeOK
            <4>0. pc \in [Tasks -> States]
                BY <1>0 DEF TypeOK
            <4>2. ConnectSucceeds(t)
                <5> USE <1>0, <2>3, <3>2, <4>1, <4>0 DEF Goto
                <5>1. CASE CallClose(t) \/ ReconnectStep(t)
                    BY <5>1 DEF CallClose, ReconnectStep, BeginReconnection,
                                SkipReconnection, Wake
                <5>2. CASE ConnectStep(t)
                    BY <5>2, ConnectRaisedPlace
                       DEF ConnectStep, ConnectFails, Verified,
                           VerificationRaises, Connected
                <5>3. CASE CloseStep(t)
                    BY <5>3, TasksCancelledPlace
                       DEF CloseStep, SkipClose, StartClose, CloseChannel,
                           CallbacksEnd, StopKeepalive, CancelReader,
                           ReaderJoined, Leave
                <5>4. QED BY <1>1, <5>1, <5>2, <5>3 DEF TaskStep
            <4>3. t = reconnector /\ cur' = cur + 1
                BY <4>1, <4>2, <2>3
                   DEF ConnectSucceeds, IndInv, SingleReconnection, InAttempt
            <4>4. reconnector # None
                BY <4>3, TasksAssumption
            <4>5. QED BY <1>0, <4>3, <4>4
        <3>3. QED BY <3>1, <3>2
    <2>4. cur' \in Nat
        BY NextType DEF IndInv, TypeOK
    <2>5. cur > 0 => cur' > 0
        BY <1>0, <2>1, <2>4
    <2>6. ReconnectsAreLater'
        BY <2>2, <2>3, <2>5
    <2>7. QED BY <2>1, <2>6
<1>2. ASSUME NEW c \in Conns, ReaderStep(c)
      PROVE  ReconnectsAreLater' /\ cur' >= cur
    <2>1. conn[c].reader = "running" /\ UNCHANGED <<reconnector, cur>>
        BY <1>0, <1>2, ReaderStepFrame
    <2>2. c \in Nat \ {0} /\ ~(c > cur)
        BY <2>1 DEF IndInv, FreshTasks, Conns
    <2>3. \A t \in Tasks \ {Owner} :
            pc'[t] \in {"verifying", "greeting"} => pc'[t] = pc[t]
        BY <1>0, <1>2, ReaderStepFrame DEF TypeOK
    <2>4. cur > 0
        BY <1>0, <2>2
    <2>5. \A t \in Tasks \ {Owner} :
            pc'[t] \in {"verifying", "greeting"} => cur' > 1
        BY <2>1, <2>3
    <2>6. cur' > 0 /\ cur' >= cur
        BY <1>0, <2>1, <2>4
    <2>7. ReconnectsAreLater'
        BY <2>5, <2>6
    <2>8. QED BY <2>6, <2>7
<1>3. ASSUME NEW c \in Conns, KeepaliveStep(c) \/ NetworkStep(c)
      PROVE  ReconnectsAreLater' /\ cur' >= cur
    <2>1. \A t \in Tasks : pc'[t] = pc[t] \/ pc'[t] = "close"
        BY <1>0, <1>3, KeepaliveStepFrame, NetworkStepFrame DEF TypeOK
    <2>2. UNCHANGED <<reconnector, cur>>
        BY <1>0, <1>3, KeepaliveStepFrame, NetworkStepFrame
    <2>3. QED BY <1>0, <2>1, <2>2
<1>4. CASE UNCHANGED vars
    BY <1>0, <1>4 DEF vars
<1>5. QED BY <1>1, <1>2, <1>3, <1>4 DEF Next

(* These changes of a connection leave its reader alone.                   *)
LEMMA UpdateKeepsReader ==
    ASSUME TypeOK, NEW d, NEW c \in Conns
    PROVE  LET Kept == conn'[c].reader = conn[c].reader IN
           /\ \A s : conn' = WithChannelClosed(d, s) => Kept
           /\ \A s : conn' = [conn EXCEPT ![d].socket = s] => Kept
           /\ \A s : conn' = [conn EXCEPT ![d].failures = s] => Kept
           /\ \A s : conn' = WithKeepalive(d, s) => Kept
           /\ conn' = conn => Kept
<1>1. conn \in [Conns -> Connection] /\ conn[c] \in Connection
    BY DEF TypeOK
<1> DEFINE Kept == conn'[c].reader = conn[c].reader
<1>2. \A s : conn' = WithChannelClosed(d, s) => Kept
    BY <1>1 DEF WithChannelClosed, Connection
<1>3. \A s : conn' = [conn EXCEPT ![d].socket = s] => Kept
    BY <1>1 DEF Connection
<1>4. \A s : conn' = [conn EXCEPT ![d].failures = s] => Kept
    BY <1>1 DEF Connection
<1>5. \A s : conn' = WithKeepalive(d, s) => Kept
    BY <1>1 DEF WithKeepalive, Connection
<1>6. QED BY <1>2, <1>3, <1>4, <1>5

(* Who ends a reader sets the event, or leaves its task at close().        *)
LEMMA EndingTells ==
    ASSUME IndInv, [Next]_vars, NEW c \in Conns,
           conn[c].reader \notin {"ended", "failed"},
           conn'[c].reader \in {"ended", "failed"}
    PROVE  event' \/ pc'[ReaderTask(c)] = "close"
<1> USE TaskFacts DEF IndInv
<1>0. TypeOK /\ conn[c] \in Connection
    BY DEF TypeOK
<1>1. ASSUME NEW t \in Tasks, CallClose(t) \/ TaskStep(t)
      PROVE  event'
    <2>1. ~ConnectSucceeds(t)
        BY <1>0 DEF ConnectSucceeds, Opened, TypeOK, Connection
    <2>2. CASE CallClose(t) \/ ReconnectStep(t) \/ ConnectStep(t)
        BY <1>0, <2>1, <2>2 DEF CallClose, ReconnectStep, BeginReconnection,
            SkipReconnection, Wake, ConnectStep, ConnectFails, Verified,
            VerificationRaises, Connected, TypeOK, Connection
    <2>3. CASE SkipClose(t) \/ StartClose(t) \/ CloseChannel(t) \/ CallbacksEnd(t)
        <3>1. \/ conn' = conn
              \/ \E s : conn' = [conn EXCEPT ![cur].socket = s]
              \/ \E s : conn' = WithChannelClosed(cur, s)
            BY <2>3 DEF SkipClose, StartClose, CloseChannel, CallbacksEnd
        <3>2. conn'[c].reader = conn[c].reader
            BY <1>0, <3>1, UpdateKeepsReader
        <3>3. QED BY <3>2
    <2>4. CASE StopKeepalive(t)
        <3>1. conn' = conn \/ \E s : conn' = WithKeepalive(cur, s)
            BY <2>4 DEF StopKeepalive
        <3>2. conn'[c].reader = conn[c].reader
            BY <1>0, <3>1, UpdateKeepsReader
        <3>3. QED BY <3>2
    <2>5. CASE CancelReader(t) \/ ReaderJoined(t)
        BY <2>5 DEF CancelReader, ReaderJoined
    <2>6. QED BY <1>1, <2>2, <2>3, <2>4, <2>5 DEF TaskStep, CloseStep
<1>2. ASSUME NEW d \in Conns, ReaderStep(d)
      PROVE  event' \/ pc'[ReaderTask(c)] = "close"
    <2>1. CASE ReaderMoves(d)
        BY <1>0, <2>1 DEF ReaderMoves, TypeOK, Connection
    <2>2. CASE ReaderFails(d)
        BY <1>0, <2>2 DEF ReaderFails, WithReader, TypeOK, Connection
    <2>3. CASE ReaderTimesOut(d)
        <3>1. d = c
            BY <1>0, <2>3 DEF ReaderTimesOut, ReaderEnds, WithReader, TypeOK
        <3>2. QED BY <1>0, <2>3, <3>1 DEF ReaderTimesOut, ReaderEnds, Goto, TypeOK
    <2>4. CASE ReaderLosesConnection(d)
        BY <2>4 DEF ReaderLosesConnection, EventOnLoss
    <2>5. QED BY <1>2, <2>1, <2>2, <2>3, <2>4 DEF ReaderStep
<1>3. ASSUME NEW d \in Conns, KeepaliveStep(d) \/ NetworkStep(d)
      PROVE  FALSE
    <2>1. \/ \E s : conn' = WithKeepalive(d, s)
          \/ \E s : conn' = [conn EXCEPT ![d].failures = s]
          \/ \E s : conn' = [conn EXCEPT ![d].socket = s]
        BY <1>3 DEF KeepaliveStep, PingAnswered, PingFails, KeepaliveDies,
                    NetworkStep
    <2>2. conn'[c].reader = conn[c].reader
        BY <1>0, <2>1, UpdateKeepsReader
    <2>3. QED BY <2>2
<1>4. CASE UNCHANGED vars
    BY <1>4 DEF vars
<1>5. QED BY <1>1, <1>2, <1>3, <1>4 DEF Next

(* A task leaves the beginning of close() only with the event set.         *)
LEMMA BegunIsTold ==
    ASSUME IndInv, [Next]_vars, NEW u \in Spawned,
           pc[u] = "close", pc'[u] # "close"
    PROVE  event'
<1> USE DEF IndInv
<1>1. u \in Tasks /\ u # Owner /\ u \notin Closers /\ TypeOK
    BY TasksAssumption DEF Tasks
<1>2. ASSUME NEW t \in Tasks, CallClose(t) \/ TaskStep(t)
      PROVE  event'
    <2>1. u = t
        BY <1>1, <1>2, TaskStepFrame DEF TypeOK
    <2>2. SkipClose(t) \/ StartClose(t)
        BY <1>2, <2>1 DEF CallClose, TaskStep, ReconnectStep, BeginReconnection,
            SkipReconnection, Wake, ConnectStep, ConnectFails, ConnectSucceeds,
            Verified, VerificationRaises, Connected, CloseStep, CloseChannel,
            CallbacksEnd, StopKeepalive, CancelReader, ReaderJoined
    <2>3. QED BY <2>2 DEF SkipClose, StartClose, EventOnClose, ClosingIsSignalled
<1>3. ASSUME NEW c \in Conns, ReaderStep(c) \/ KeepaliveStep(c)
      PROVE  FALSE
    <2>1. \/ conn[c].reader = "running" /\ ReaderStep(c)
          \/ conn[c].keepalive = "running" /\ KeepaliveStep(c)
        BY <1>1, <1>3, ReaderStepFrame, KeepaliveStepFrame
    <2>2. \/ pc[ReaderTask(c)] = "idle" /\ ReaderStep(c)
          \/ pc[KeepaliveTask(c)] = "idle" /\ KeepaliveStep(c)
        BY <2>1 DEF FreshTasks
    <2>3. QED BY <1>1, <2>2, ReaderStepFrame, KeepaliveStepFrame DEF TypeOK
<1>4. ASSUME NEW c \in Conns, NetworkStep(c)
      PROVE  FALSE
    BY <1>1, <1>4, NetworkStepFrame
<1>5. CASE UNCHANGED vars
    BY <1>5 DEF vars
<1>6. QED BY <1>2, <1>3, <1>4, <1>5 DEF Next

(* The safety part of LossIsSignalled, which asks that it be so in the end.*)
THEOREM LossTheorem == Spec => []LossesAreTold
<1> USE TaskFacts, BoundsAssumption
<1>1. Init => LossesAreTold /\ ReconnectsAreLater
    <2> SUFFICES ASSUME Init PROVE LossesAreTold /\ ReconnectsAreLater
        OBVIOUS
    <2>1. \A c \in Conns : conn[c].reader = "none"
        BY DEF Init, Unused
    <2>2. reconnector = None
        BY DEF Init
    <2>3. \A t \in Tasks : pc[t] = IF t = Owner THEN "connecting" ELSE "idle"
        BY DEF Init
    <2>4. QED BY <2>1, <2>2, <2>3 DEF LossesAreTold, ReconnectsAreLater
<1>2. ASSUME IndInv, ReconnectsAreLater, LossesAreTold, [Next]_vars
      PROVE  LossesAreTold'
    <2> SUFFICES ASSUME NEW c \in Conns, conn'[c].reader \in {"ended", "failed"},
                        ~event', pc'[ReaderTask(c)] # "close"
                 PROVE  Reopened'
        BY DEF LossesAreTold
    <2>1. conn[c].reader \in {"ended", "failed"}
        BY <1>2, EndingTells
    <2>2. pc[ReaderTask(c)] # "close"
        BY <1>2, BegunIsTold DEF Spawned
    <2>3. event \/ Reopened
        BY <2>1, <2>2, <1>2 DEF LossesAreTold
    <2>4. cur' >= cur /\ cur \in Nat /\ cur' \in Nat /\ config' = config
        BY <1>2, LaterNext, NextType, TaskStepFrame, ReaderStepFrame,
           KeepaliveStepFrame, NetworkStepFrame DEF IndInv, TypeOK, Next, vars
    <2>5. CASE Reopened
        BY <2>4, <2>5 DEF Reopened
    <2>6. CASE event
        <3>1. PICK t \in Tasks : Connected(t) /\ t # Owner
            BY <1>2, <2>6
               DEF Next, CallClose, TaskStep, ReconnectStep, ConnectStep,
                   CloseStep, BeginReconnection, SkipReconnection, Wake,
                   ConnectFails, ConnectSucceeds, Verified, VerificationRaises,
                   Connected, SkipClose, StartClose, CloseChannel, CallbacksEnd,
                   StopKeepalive, CancelReader, ReaderJoined, EventOnClose,
                   ReaderStep, ReaderMoves, ReaderFails, ReaderTimesOut,
                   ReaderLosesConnection, EventOnLoss, KeepaliveStep,
                   PingAnswered, PingFails, KeepaliveDies, NetworkStep, vars
        <3>2. pc[t] = "greeting" /\ t = reconnector /\ reconnector # None
            BY <1>2, <3>1, TasksAssumption
               DEF Connected, IndInv, SingleReconnection, InAttempt
        <3>3. cur > 1 /\ config.autoReconnect
            BY <1>2, <3>1, <3>2
               DEF ReconnectsAreLater, IndInv, ReconnectsIfConfigured
        <3>4. QED BY <2>4, <3>3 DEF Reopened
    <2>7. QED BY <2>3, <2>5, <2>6
<1>3. IndInv /\ ReconnectsAreLater /\ [Next]_vars => ReconnectsAreLater'
    BY LaterNext
<1>4. QED BY <1>1, <1>2, <1>3, Invariant, NextInv, PTL DEF Spec

============================================================
