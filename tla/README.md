# TLA+ model of fastapi-ws-rpc

JSON-RPC 2.0 over WebSocket in Python's asyncio: a FastAPI endpoint and a
client, both built on the same channel. Everything runs on one event loop per
process; tasks switch only at an `await`, so the unit of atomicity in every
module is the code between two awaits. What makes the code hard is what can run
at those awaits: another call, the reader, a timer, a close.

## Inventory

| component (under `src/fastapi_ws_rpc/`) | state | operations | correct when |
|---|---|---|---|
| promise manager (`_internal/promise_manager.py`) | pending promises, stored responses, recently used ids, closed event | create, store a response, wait, clear, periodic clean-up, close | every call ends at most once and with its own response; the limits on pending calls and on reuse of ids hold; no promise outlives its bound |
| channel (`rpc_channel.py`) | closing flag and lock, callbacks, watchdog task, send semaphore and counter, other side's id | send_raw, call, async_call, notify, on_message, on_connect, on_disconnect, close, watchdog | it ends once; everyone waiting on it is told; the socket is released |
| protocol handler (`_internal/protocol_handler.py`) | none | request, response, error | each request gets one response, which tells what happened, a notification none |
| method invoker (`_internal/method_invoker.py`) | none | validate a name, bind parameters, invoke | private methods do not run; parameters reach the right names |
| client (`websocket_rpc_client.py`) | closing and reconnecting flags, closed event, channel, reader task, keepalive | connect, reader, reconnect, close, wait until ready | at most one reconnection at a time; a loss and a close are signalled; what was closed is torn down and stays so |
| keepalive (`_internal/rpc_keepalive.py`) | task, failure count | start, loop, stop | a dead peer is noticed, a live one is not cut off |
| retry policy (`_internal/rpc_retry.py`) | none | wrap | bounded attempts, waits in the configured window |
| server endpoint (`websocket_rpc_endpoint.py`) | last message time | main loop, handle_disconnect | every ended connection is removed and its channel told |
| connection manager (`connection_manager.py`) | list of active connections | connect, disconnect, count | it lists exactly the live connections |
| socket wrapper (`simplewebsocket.py`), schemas (`schemas.py`) | none | receive, send; id and response validation | the right inputs are refused, and refused inputs are answered |
| configuration (`config.py`) | none | validation, presets | an accepted configuration is one that the components can work with, and its values reach them |
| built-in methods (`rpc_methods.py`), remote caller (`_internal/caller.py`) | responses kept for `get_response` | ping, `_get_channel_id_`, call_me_back, get_response; `channel.other.method()` | calls in both directions do not block each other |

Interaction: a method proxy calls `RpcChannel.call`, which creates a promise in
the promise manager, sends through the socket wrapper and waits on the promise.
The reader (client) or the main loop (server) reads a message and awaits
`on_message`, which either stores a response in the promise manager or invokes a
method and sends its result back through the same channel. Ending a connection
closes the promise manager, which wakes every waiting call, and runs the
disconnect callbacks.

## Modules

| module | models |
|---|---|
| `PromiseManager` | the promise manager together with the calls that use it |
| `RpcCalls` | the abstract promise to a caller: one outcome, and if it is an answer, its own |
| `PromiseRefinement` | the mapping of `PromiseManager` to `RpcCalls`, and the inductive invariant |
| `PromiseManager_proofs` | theorems about `PromiseManager` |
| `MCPromiseManager` | instances for TLC |
| `ChannelLifecycle` | how one channel ends: `close`, `on_disconnect`, watchdog, callbacks |
| `ChannelLifecycle_proofs`, `MCChannelLifecycle` | its theorems and instances |
| `ClientLifecycle` | how a client opens, loses, replaces and closes connections, with the keep-alive |
| `ClientLifecycle_proofs`, `MCClientLifecycle` | its theorems and instances |
| `ServerEndpoint` | the server's main loops, the list of connections, the idle timeout |
| `ServerEndpoint_proofs`, `MCServerEndpoint` | its theorems and instances |
| `SendQueue`, `SendQueue_proofs`, `MCSendQueue` | the slots of `send_raw` |
| `MethodInvoker` | which methods may be called and how params become arguments |
| `ProtocolHandler`, `ProtocolHandler_proofs`, `MCProtocolHandler` | one side's handling of messages; extends `MethodInvoker` |
| `Dispatch`, `Dispatch_proofs`, `MCDispatch` | two peers that call each other, with their readers, in composition |
| `RemoteCalls` | what two such peers promise, without frames, readers or a connection: a method runs at most once for a call, a call ends once and is answered only with what its method gave |
| `DispatchRefinement` | the mapping of `Dispatch` to `RemoteCalls` |
| `Configuration`, `Configuration_proofs` | the configuration classes and what the client makes of them; instances in `MCClientLifecycle` |

The modules are tied together by what they leave to each other. `PromiseManager`
sees a send as one step that may fail (`SendQueue` has its inside), the reader as
a response that arrives at any time (`Dispatch` has the reader), and an end as
`Close` (`ChannelLifecycle`, `ClientLifecycle`, `ServerEndpoint`). `Dispatch`
takes a method's result as given (`ProtocolHandler` has how it comes about).
`Configuration` shows that the constants of the others are such as an accepted
configuration provides.

### PromiseManager

`requests`, `responses` and `recent` are the three dictionaries (`None` is an
absent key), `closed` the event. A call is a task: `pc` says where it is
suspended (`sending` and `sent` in `send_raw`, before and after the frame left;
`waiting` in `asyncio.wait`) or how it ended. A promise is represented by its
call, which has `idOf` (`call_id`), `born` (`created_at`) and `event`.
A response is represented by the call it answers, so that misdelivery is visible.

| action | code |
|---|---|
| `RejectId`, `Backpressure`, `Collision`, `CreatePromise` | `create_promise`'s four ways out, in the order of its tests, with the closed test of `send_raw` that follows without an await |
| `Transmit`, `SendFails`, `StartWait` | `send_raw` seen from the promise manager, and the entry into `wait_for_response` |
| `StoreResponse` | the reader's `store_response`: by id, at any time, possibly several times or never |
| `ReturnResponse`, `RaiseUnanswered` | `wait_for_response` after `asyncio.wait`, in one step because it has no further await |
| `Cancel` | the task is cancelled while suspended |
| `Sweep` | a round of `_periodic_cleanup` |
| `Close` | `close()` |
| `Tick` | the clock; it does not pass an overdue clean-up |

A waiting task runs some time after it becomes ready, so the clean-up, `close`
or another response can come in between. Time is an integer; `time.time()` (ages)
and the loop's clock (timeouts) are taken to advance together. The peer is
external: it may answer late, repeatedly or not at all. `Reuse = FALSE` is
`gen_uid()`; `Reuse = TRUE` allows `async_call(call_id=...)` to repeat an id.
The module does not model the start of the clean-up task before a loop exists,
or the public `clear_saved_call` called by user code.

### ChannelLifecycle

`closed` is `is_closed()`, `closer # None` is `_closing` (the model remembers
who set it), `lock` is `_close_lock` when it is held across an await, which only
the watchdog does. Actors are tasks that call `close()`, tasks that call
`on_disconnect()` (the server's main loop), tasks that call both (the client's
`close()`), the watchdog, and the callbacks. A step that the code takes without
an await is one action: taking a free lock, testing and setting the flag;
closing the promise manager and starting the callbacks. The callbacks are one
actor, which may call `close()` itself. Errors raised by `socket.close()` and
cancellation of the closing task are not modelled.

### ClientLifecycle

Each connection is a record: its socket (`up`, `silent` while the peer no longer
answers, `lost`, `closed`), channel, reader task, the socket the reader waits on,
keep-alive task and failure count. `cur` stands for `self.ws`, `self.channel` and
`self._keepalive`, which are replaced together; `readTask` for `self._read_task`;
`reconnector # None` for `_is_reconnecting` (the model remembers who set it).
`config` is chosen in `Init` and never changes. `FloatExponents` is 1024 in
CPython: `reconnect_delay * (2**attempt)` raises `OverflowError` from that
attempt on. `target` is a ghost variable: the
connection `close()` found when it set `_closing`.

| action | code |
|---|---|
| `BeginReconnection`, `SkipReconnection`, `Wake` | `_attempt_reconnection` up to an attempt; `Wake` also ends tenacity's wait in `__aenter__` |
| `TryAgain`, `Overflow`, `GiveUp` (in the above and below) | the loop after a failed attempt: the next one, the delay that is no float, `close()` |
| `ConnectFails`, `ConnectSucceeds`, `Verified`, `VerificationRaises` | `__connect__`: handshake, `_initialize_rpc_layer`, `_start_background_tasks`, `wait_on_rpc_ready` |
| `Connected` | the connect callbacks ended; in a reconnection the flags are reset |
| `CallClose`, `SkipClose`, `StartClose`, `CloseChannel`, `CallbacksEnd` | `close()`; `CloseChannel` is also used by `_cleanup_partial_init` |
| `StopKeepalive`, `CancelReader`, `ReaderJoined` | `cancel_tasks`, `RpcKeepalive.stop`, `cancel_reader_task` |
| `ReaderMoves`, `ReaderFails`, `ReaderTimesOut`, `ReaderLosesConnection` | `reader()` and its except clauses |
| `PingAnswered`, `PingFails`, `KeepaliveDies` | `_keepalive_loop` with protocol or RPC pings |
| `NetworkStep` | external: a connection breaks, or the peer falls silent |

The tasks are the owner of the `async with` block, other callers of `close()`,
and one task for each reader and each keep-alive, because each creates at most
one (`close()` or `_attempt_reconnection()`) as it ends. `_reconnect_lock` and
`_close_lock` are held over no await and are therefore part of the action that
tests and sets the flag. Not modelled: the 5 s time-out in `stop()` (a cancelled
keep-alive ends at once), errors raised by disconnect callbacks, cancellation of
user tasks, and the channel's own watchdog (`ChannelLifecycle`).

### ServerEndpoint

For each websocket, `loop` says where its `main_loop` is suspended: `new`
(in `accept()`), `greeting` (connect callbacks), `receiving`, `handling` (in
`on_message`), `leaving` (disconnect callbacks), or how it ended: `done`
(returned) or `escaped` (raised). `active` is `active_connections`, `last` is
`last_message_time`, `now` its clock. `cause` (what ended the loop), `arrived`
(when the last message came) and `told` (disconnect callbacks started) are ghost
variables. The channel is reduced to open or closed; how it closes is
`ChannelLifecycle`. `call` is one call that server code makes to the peer.

| action | code |
|---|---|
| `Accept`, `AcceptFails`, `AcceptWithoutOffer`, `Greeted` | `main_loop` up to its while loop, `ConnectionManager.connect`, `on_connect` |
| `ReceiveRequest`, `ReceiveResponse`, `ReceiveUndecodable`, `ReceiveOversized`, `RecvRaises` | the ways in which `recv()` and the parsing of a message end |
| `IdleExpires` | `wait_for` gives up |
| `Handled`, `ReplyFails`, `AnswerUnbuildable` | the ways in which handling ends, from `handle_request` and `send_error` |
| `ReplyRefused` | `send_raw` refuses the reply and the error that follows: the channel is closed, or the send queue is full and the channel stays open |
| `HandleDisconnect` (in the above), `Left` | `handle_disconnect` and the disconnect callbacks |
| `Cancel` | the server cancels the loop's task |
| `WatchdogFires`, `UserCloses`, `StartCall` | the channel, while the loop runs |
| `PeerSends`, `PeerLeaves`, `Tick` | external |

Which except clause has which exception decides what is cleaned up, so each
kind of end is an action of its own: the inner clauses (disconnect, connection
errors, cancellation) call `handle_disconnect`, the outer one (also `ValueError`,
`TypeError`) only removes the connection, and an `RpcError`, `KeyError` or
`IndexError` does neither. When the send queue is full is `SendQueue`'s matter;
here it may be at any reply. Not modelled here: a nested call that blocks its own
loop (`Dispatch`).

### SendQueue

`free` is the value of `_send_semaphore`, `pending` is `_pending_sends`. The code
tests the counter, acquires the semaphore with `asyncio.wait_for` and one second,
and counts the frame. From Python 3.12 on `wait_for` awaits `acquire()` in the
same task, which does not suspend when a slot is free (`inline`, `BeginInline`);
before, it wraps it in a task, so that others run between the test and `Acquire`
and between `Acquire` and `StartSending`. The package supports both, and `inline`
is chosen in `Init`. `SendFails` is an error or a cancellation in the send;
`CancelWait` a cancellation during the wait. The channel may close at any moment.

### MethodInvoker and ProtocolHandler

`MethodInvoker` has no variables. A parameter is its place in the signature, a
value of params the place or name it was given for, so that a wrong binding is
visible. `BindsByName` and `BindsByPosition` are Python's rules, which the code
relies on: the converted call is by keyword, the reference is the call by
position. In `ProtocolHandler` the reader is idle, in the method (`running`), in a
send (`replying`), or is done with a message: `handled`, or `escaped` when
`on_message` raised.

| action | code |
|---|---|
| `HandleMalformed`, `HandleResponse` | `handle_message` on what is no request; building the error for an unusable id raises |
| `RefuseMethod`, `RefuseParams`, `Invoke` | `handle_request` up to the await of the method |
| `Return` | the method's end in each of its ways: a value, None, `NoResponse`, a value that is not serialisable, an exception, a result that is not awaitable |
| `Deliver`, `SendFails`, `SerialiseFails` | the send; a failed result is answered with an error, a failed error escapes |
| `Continue`, `Cancel` | the reader goes on, or is cancelled |

Names, texts and error data are left out. `TypeError` from anywhere in the method
is treated as the code treats it, as invalid params: `AnswerTellsWhatRan` lists
what each error code can stand for, and for `INVALID_PARAMS` that includes three
ends of a method that ran. A list that is given to a method with positional-only
parameters becomes keywords that these cannot take; `Astray` says when, and
`ListsBindByPosition` that nothing else goes astray.

### Dispatch

Two peers, each with one reader and an inbox of frames in order. `awaits[p]` is
the call that the method (or, on the server, a connect callback) of p's reader
awaits; while it is set the reader does not receive. A call has a `kind`: from a
task of its own, nested in the reader, the exchange of channel ids, or
`call_me_back`, which nobody awaits. `reply` is what its method gave. A reader is
`ended` when it found the connection gone, `failed` when another error left it.
The settings `timed` (a default time-out, for each peer) and `autoReconnect` are
chosen in `Init`.

| action | code |
|---|---|
| `CallFromTask`, `CallFromReader` | `RpcProxy.__call__`, `call`, `async_call` |
| `CallForId`, `CallInBackground` | `_get_other_channel_id`, `call_me_back` |
| `BeginLoop` | the end of `on_connect`; on the client the reader starts before it |
| `StartMethod`, `FinishMethod`, `Resume` | the reader with a request |
| `TakeAnswer`, `BounceAnswer` | the reader with a response; one without content is answered with an error |
| `NoticeEnd`, `Close`, `Break` | the end; `Break` is external and loses any frames still on their way |
| `EndReader` (in the above) | what the end leads to: `handle_disconnect` or `close()`, which close the channel, or a reconnection, which may leave it open |
| `FrameFails`, `FailReader` (in `FinishMethod`, `BounceAnswer`) | an error that is not about the connection: a frame that cannot be read, a reply that a closed channel or a full send queue refuses; the channel stays as it is |
| `Expire` | the watchdog closes the channel and not the connection |
| `CallTimesOut`, `CallFails` | `wait_for_response` |

What a reconnection does afterwards is in `ClientLifecycle`; here the peers are
followed over one connection. The readers are not cancelled while they await a
method (`ServerEndpoint`, `ClientLifecycle`), and the tasks that wait in
`get_other_channel_id` for the id are left out.

The mapping to `RemoteCalls` forgets frames, readers and the connection. The
outcome of a call is its `status`; its execution is what its method gave
(`reply`), or running while some reader handles it (`ExecutionOf`).

### Configuration

Values are whole milliseconds, an optional value is a set of at most one element.
`Accepted` is what `__post_init__` and `validate()` let through, `ConnectKwargs`
and `ChannelOptions` are what the client passes on, `ReconnectWaits`, `RetryWaits`
and `SilentRound` the durations that result. `Exponential` is tenacity's rule.

## Runs

Each passing run checks every listed property; each has a mutant of the modelled
code that breaks it (the definitions named `X_Something` before `X`).

| run | shows | bounds |
|---|---|---|
| `PromiseCrowd` | with fresh ids: types, the limit on pending calls, kept promises, a stored response is returned, refinement of `RpcCalls` (one outcome, own answer) | 3 calls and ids, limit 2, clock to 2, TTL and clean-up interval 1 |
| `PromiseReuse` | the cooldown, from creation to creation, survives the purge, late answers are not misfiled | 3 calls on 2 ids, cooldown 2, answers up to 1 late, a memory of 1 id so that every second creation purges |
| `PromiseLive` | every wait ends after an answer, a close or a timeout; abandoned promises are removed in time | 2 calls, 1 usable id and one too long, limit 1, clock to 4: several clean-ups |
| `ChannelEnd` | callbacks and socket close at most once, an effective close is complete; calls return, closing and overdue channels close | 2 closers, 1 server task, 1 owner, watchdog, callback that may close |
| `Client` | types, one reconnection at a time, a closed client at rest is torn down, only a reconnection opens again | 3 connections, 1 attempt to reconnect, 2 tries of the first connect, 1 failed ping; two configurations: reconnection without a keep-alive, RPC keep-alive and read time-out without reconnection; about 512,000 states |
| `ClientLive` | every `close()` returns, a reconnection that gives up closes the client, a silent peer is noticed, a loss is signalled | 2 connections, a second task that calls `close()`, 3 attempts of which the delay of the last overflows, 2 failed pings, protocol keep-alive; about 136,000 states |
| `ClientExitDoc` | a disagreement, below | 2 connections, default configuration |
| `Server` | types, the list follows the loops, a disconnect is complete, only quiet connections are cut; an end is noticed, calls are released, silent peers are cut | 1 websocket, 2 messages waiting, idle timeout 2, clock to 6: three timeouts' worth of silence and traffic |
| `SendQueue` | semaphore and counter agree with the frames in flight; from Python 3.12 on nobody waits; before, no wait is forever | 4 senders on 1, 2 or unlimited slots; about 46,000 states |
| `Protocol` | one answer where one is due, none otherwise; what it tells of the method; which lists bind as in Python | all signatures of up to 1 positional-only, 2 standard and 2 keyword-only parameters, all params with up to 4 values; about 221,000 states |
| `Dispatch` | types, nested calls are never answered, refinement of `RemoteCalls`, readers are not blocked for good where there is a time-out, and without one calls stall for named reasons only | 2 calls in either direction of any kind, every combination of the settings; about 490,000 states |
| `DispatchPartitionDoc` | a disagreement, below | 1 call |

The bounds are enough for the cases the properties are about: two calls in each
other's way plus a third that meets the limit or repeats an id; a TTL shorter
than a timeout; a clock that covers a promise's life and one more clean-up. Four
senders on two slots are two that hold them and two that passed the test at the
same time. A signature needs one parameter of each sort, and a second where the
order matters; a list one value more than there are. Two calls are a call and the
one its method makes, or two that cross; a third would only repeat either. The
queues of `Dispatch` are bounded by `MaxCalls`. Symmetry is used only in runs
without liveness. The clock is bounded by
`MaxTime`, and the liveness properties that speak of time are restricted to
deadlines within it. `MaxCopies` is how often a peer may answer one request.
`CHECK_DEADLOCK FALSE` is set for `ChannelLifecycle`, where everyone may be done
and one deadlock is known, for `ClientLifecycle`, where a closed client does
nothing, for `ServerEndpoint`, where all loops may have ended, for
`ProtocolHandler`, whose reader may have left, and for `Dispatch`, whose calls
and connection are used up. Loops of
`ServerEndpoint` share nothing but the list and the clock, so one websocket is
checked, and the theorems cover any number. Three connections are enough for a
reader of an old connection, a running reconnection and its successor to meet;
the configurations of a run leave out combinations (reconnection together with a
keep-alive) whose state space is too large for it. `MaxConns` bounds the
handshakes that succeed, not those that fail.

Fairness: `Wake` of every call, `Sweep` and `Tick`; in `ChannelLifecycle` every
started task, the watchdog's timer and the callbacks; in `ClientLifecycle` the
step of every task that has one, `recv()` failing on a broken socket, and the
keep-alive's next ping; in `ServerEndpoint` the clock and the step of every loop
(methods and callbacks end, and a message or a due timer is taken); in
`SendQueue` the time-out of `acquire()` and the task that got a slot; in
`Dispatch` the step of each reader, with methods that return once what they await
has ended, and the time-outs and releases of calls. asyncio runs its ready queue in
order and its timers when due, so a task that is ready eventually runs. Nothing
makes the peer answer, a send succeed or a user call `close()`; those have no
fairness.

### Disagreements with the documentation

Shown by a run:

1. A client whose first connection was lost while it was verified cannot be
   closed (`ClientExitDoc`): that connection's reader ran `close()`, `_closing`
   stays set, and only a reconnection clears it.
2. With `auto_reconnect` a reconnection puts a new channel in the place of the old
   one, which stays open (`DispatchPartitionDoc`): a pending call without a
   time-out waits forever, where README.md:210 announces `RpcChannelClosedError`.
   `StallsHaveReasons` therefore names these calls (`Abandoned`).

Steps of the models, without a run of their own:

3. The watchdog never closes the socket, because `close()` finds `_closing` set,
   and deadlocks with a callback that calls `close()`. `CallsReturn` is the
   positive counterpart: in every other case all calls return.
4. With `auto_reconnect`, a client may be connected again after `__aexit__`: the
   reader sees its own side's close as a loss. `ReopenedByReconnection` says that
   this is the only way.
5. A reconnection whose delay overflows ends with `OverflowError` and without
   `close()` (`Overflow`), which matters for more than 1024 attempts.
   `GivesUpByClosing` covers the attempts before.
6. `active_connections` keeps websockets whose loop has ended: an `RpcError`, for
   instance of an oversized frame or of a response refused by a full send queue
   or by a channel that the watchdog closed, is in none of `main_loop`'s except clauses. So are the errors
   of a peer that offered no subprotocol where one is configured, and a
   cancellation during `on_connect`. `ListFollowsLoops` leaves these loops out.
7. A method that awaits a call to the other side is never answered
   (`NestedCallsStarve`), although methods are given the channel for that; the
   same holds for the server's connect callbacks. `call_me_back` and
   `NoResponse` do not block.
8. The preset's `ping_timeout` and the configured send queue size are not
   delivered (`SettingsNotDelivered`).
9. A method that returns None without being converted to a string is answered
   with a frame that has neither result nor error (`Dumped`). The other side
   takes it for an unknown message and answers it (`BounceAnswer`); the call runs
   into its time-out. `StallsHaveReasons` names it among the stalls.
10. The cooldown of an id runs from the creation of its request, not, as the
   comment on `REQUEST_ID_COOLDOWN` says, from its completion: the id of a call
   that was pending for longer is free at once.
11. `INVALID_PARAMS` does not tell that nothing ran: a `TypeError` inside the method
   and a result that cannot be serialised are answered so, where the docstring of
   the codes has `INTERNAL_ERROR`.
12. Values of a list are lost to positional-only parameters: they go to `**kwargs`,
   or the call is refused (`Astray`).
13. Smaller: malformed requests are never answered with `PARSE_ERROR`;
   `message_receive_timeout` may be negative; 401 and 403 are retried;
   `get_response` raises `KeyError` where None is announced.

Behaviour of the models a reader should know: `close()` between `store_response` and the waiting task
discards the response, and the call raises `RpcChannelClosedError`; the clean-up
can likewise turn a stored response into a `TimeoutError`; a call cancelled
by `asyncio.wait_for`, or whose send fails, leaves its promise until the clean-up
(bounded by `LeakIsBounded`); `close()` suppresses the disconnect callbacks, and
after `on_disconnect()` it does not stop the watchdog. The clean-up removes
promises of calls that still wait with no timeout or one above the TTL, whose
response is then dropped. If an exception ended the keep-alive, `stop()` raises
it again and `close()` does not cancel the reader. An RPC keep-alive of an old
connection goes on pinging the new one. An `RpcError` in the reader ends it
without setting `is_closed_event`. `wait_on_rpc_ready` returns when all its pings
fail, although its comment says it raises. A reconnection clears `_closing` when it
succeeds, also if `close()` began meanwhile for a close code that may not be
retried. The server's idle timeout counts the time a method takes, so that it can
cut a connection whose messages wait (the endpoint's docstring says "only if NO
messages are received"); a `ValueError` while a message is read or answered
leaves the channel open and its calls waiting for their time-outs. A connection lost while its connect
callbacks run in a reconnection is not replaced.

## Proofs

`PromiseManager_proofs` proves for all sets of calls and ids (the ids finite)
and all limits, intervals and delays: type correctness, the limit on pending
calls, the cooldown between uses of an id, no misfiled late answer when answers
are not later than the cooldown, no lost wake-up and none taken back, the bound
on leaks, and, with fresh ids, own answers, kept promises, that a response once
stored is lost only to `close()`, the clean-up or a cancellation
(`StoredResponseReturned`), and that the promise manager implements `RpcCalls`.

The argument is the invariant `IndInv` of `PromiseRefinement`. The properties
are not inductive by themselves. A response is its caller's own because the
response stored under an id answers a call with that id (`ResponsesAreKeyed`)
and fresh ids name one call (`FreshIds`). The cooldown holds across a purge
because an id's last use is either still in the table or already long past
(`RecentRemembers`). A late answer is not misfiled because the pending promise
is the newest with its id (`PendingIsNewest`), so an answer to an older request
is older than the cooldown. A stored response stays until its task runs because
every other step writes or clears under the id of its own call, which with fresh
ids is another one (`OthersLeaveResponse`). The leak bound needs the distance between the clock
and the next clean-up (`SweepIsNear`). Each conjunct has a lemma with one step
per action. The limit needs the library's facts about finite sets.

`ChannelLifecycle_proofs` proves for any number of tasks type correctness, that
callbacks run and the socket is closed at most once and that an effective close is
complete. The invariant records that only the task that set `_closing` is past
`close()`'s test and that it reaches the socket only after the watchdog ended.
`NoOtherCircle` is about who waits for whom: where nobody can go on, either the
watchdog's callback waits in `close()` for the lock that the watchdog holds, or
every call has returned and the channel is closed if closing began. It needs that
the lock is held across an await by the watchdog alone, that callbacks somebody
waits for have begun, and that a watchdog somebody waits for was cancelled
(`WaitsInv`).

`ClientLifecycle_proofs` proves, for any number of connections, closing tasks,
attempts and failures and for all configurations: type correctness, that at most
one task reconnects, that a closing client has set its event, that only a
successful reconnection of a client with `auto_reconnect` opens it again, that a
closed client at rest is torn down, and that a reconnection which gives up closes.
The invariant `IndInv` adds five facts: the task of a reader or keep-alive is idle
until that has ended (`FreshTasks`), so that its first step cannot disturb an
attempt; a partial connection is undone in certain stages only
(`UndoingStages`), so that no task is undoing when it leaves an attempt; nobody
reconnects without `auto_reconnect` (`ReconnectsIfConfigured`); a reconnection is
past the first test of `close()` only in a closing client (`ReconnectorCloses`);
and as long as the connection that `close()` found is not torn down, some task is
on its way to do it (`TearDownGoesOn`). The lemmas first say what a step does to
tasks, to connections and to the flags, so that the proof of a conjunct need not
go through all actions. Four more theorems are about what must come to an end: a
`close()` passes its awaits in order and never goes back (`CloseIsOneWay`); a task
that runs it never waits for the reader or keep-alive that started it, which by
`FreshTasks` has ended (`NoSelfWait`); the loops of the first connect and of a
reconnection keep their number of attempts and their back-off stays finite
(`RetriesAreBounded`); and a reader that ended has set the event or left a task
at `close()`, unless a reconnection opened another connection (`LossTheorem`,
which needs that tasks reconnect only after a first connection,
`ReconnectsAreLater`).

`ServerEndpoint_proofs` proves, for any number of websockets and any bounds:
type correctness, that the list follows the loops, that a disconnect is complete,
and that the timer cuts only connections that were quiet. A step of one websocket
leaves the others alone (`Others`), so each invariant is stated and kept for one
websocket. `ListFollowsLoops` is inductive; `DisconnectIsComplete` needs that a
closed channel has no waiting call and that a loop that has not begun has no
channel; `IdleCutsOnlyQuiet` needs `HeardInTime`: a message newer than
`last_message_time` is still in the socket's queue, and a receiving loop takes it
before its timer is due. `LeftoversAreKnown` says what a loop that ended can leave
behind and for which causes: a waiting call, a listed connection, an open channel
(an undecodable or oversized frame, a full send queue).
Its invariant (`Endings`) follows each cause from the step where it arises to the
handler it ends in.

`SendQueue_proofs` proves for any finite set of senders and any limit that
semaphore and counter agree with the frames in flight (`SlotsAccounted`), that
neither falls below zero, and `InlineNeverWaits`. The three are inductive
together with the fact that without a bound nobody waits and nothing is counted:
where nobody waits, the counter and the semaphore add up to the limit, so a sender
that passes the test of the one finds a slot in the other. It needs the library's
facts about cardinality. From the same invariant: a frame is refused as queue-full
only when `max_send_queue_size` frames are at the socket (`RefusalTheorem`), and
once no send is under way every slot is free again (`RestTheorem`).

`ProtocolHandler_proofs` proves for all signatures that a list which reaches the
method binds as the call by position would, exactly when none of its values is
for a positional-only parameter (`ListBinds`), and that a list is refused without
need only for keyword-only parameters, `*args` or such values
(`NeedlessRefusals`); and for any set of messages the types,
that a handled message was answered exactly once where an answer is due
(`AnsweredOnce`) and what each answer tells of the method (`AnswerTellsWhatRan`).
The invariant relates the frame that is being sent to the message and to how the
method ended. An exception leaves the handler only where an answer was due
(`EscapeTheorem`).

`Dispatch_proofs` proves for any number of calls the types, `NestedCallsStarve`,
`AnswersAreReal`, and that the peers implement `RemoteCalls` (`Refinement`). A
nested call that waits is what its caller's reader awaits (`ReaderBlocked`), so
that this reader takes no answer. That an answer is real needs what is true of
every frame on its way: a request is of the other peer, is on its way once and has
no reply yet; an answer has one, and an error for an empty frame travels away from
the caller (`FrameOK`). In the refinement only four steps of the detailed model
change the abstract state (making a call, starting and finishing its method,
ending the call); that a method starts once is that a request on its way has no
reply and is handled by nobody, and that it is answered from its own execution is
`AnswersAreReal`. `WaitsTheorem` is `StallsHaveReasons` said of one state: where
no reader can do anything more, a call waits only for a reader that awaits a
nested call, for a method that gave nothing, to be told of its closed channel, or
because it was abandoned: by a reader that failed, or by a client's reader that
ended in a reconnection and left the channel open.
It needs that a waiting call is always somewhere: a frame on its way, in a
reader's hands, or ended (`WaitsInv`, `EndsInv`).

`Configuration_proofs` proves that the presets are accepted, that an accepted
configuration satisfies the assumptions of the other modules (`FitsModels`), and
bounds on the waits at every attempt and on what a silent peer costs; and that two
settings do not arrive.

Assumptions are the ones named in the modules: the sets are disjoint, the
numbers natural, the clean-up interval positive. `LateAnswersNotMisfiled` states
its own condition on delays.

Liveness is model-checked only, as it and `ENABLED` are out of the prover's
reach: `WaitsEnd`, `WaitIsBounded`, `CallsReturn`, `ChannelEnds`, `CloseReturns`,
`SilenceIsNoticed`, `LossIsSignalled`, `EndIsNoticed`, `FramesAreReceived` and
`StallsHaveReasons`. For most of them the part that is about a single state or
step is proved for all constants, so that what is left to TLC is that fair steps
are taken:

| liveness | proved part |
|---|---|
| `WaitsEnd` | `NoLostWakeUp`, `NoWakeUpTakenBack` |
| `CallsReturn`, `ChannelEnds` | `NoOtherCircle` |
| `CloseReturns` | `CloseIsOneWay`, `NoSelfWait`, `RetriesAreBounded` |
| `LossIsSignalled` | `LossTheorem` |
| `EndIsNoticed` | `LeftoversAreKnown` |
| `StallsHaveReasons` | `WaitsTheorem` |

`SilenceIsNoticed`, `WaitIsBounded` and `FramesAreReceived` have no such part:
they are about a timer that fires.

## Not modelled

- typing protocols, exception classes, logging, and `utils.py` beyond `gen_uid`:
  no state of the protocol;
- the channel's registration of callbacks, `notify` and its getters;
  `get_response`, which reads and clears one stored response;
  `RpcMethodInvoker.invoke`, which the handler does not call;
- binary and text frames and the library interfaces that `simplewebsocket.py`
  tells apart: I/O;
- the check of the negotiated subprotocol by the client, beyond that it may fail;
- the websockets, Starlette, pydantic and tenacity libraries beyond what the code
  relies on.

Worth adding: an abstract client (connected, lost, closed) that `ClientLifecycle`
implements as far as the disagreements above allow, and the composition of
`ClientLifecycle` with a server that also ends connections.
