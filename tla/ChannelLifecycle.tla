-------------------------- MODULE ChannelLifecycle --------------------------
(***************************************************************************)
(* How one RpcChannel (fastapi_ws_rpc/rpc_channel.py) ends.  Several tasks *)
(* may end it: user code and the client's clean-up call close(), the       *)
(* server's main loop calls on_disconnect(), the client's close() calls    *)
(* both in turn, the connection duration watchdog does so by itself, and a *)
(* disconnect callback may call close() again.  They share two flags, an   *)
(* asyncio.Lock and the socket.                                            *)
(*                                                                         *)
(* An action is the code a task runs between two awaits.  An uncontended   *)
(* asyncio.Lock is taken without suspending, and close() never awaits      *)
(* while it holds it; only the watchdog does.                              *)
(***************************************************************************)
EXTENDS Naturals

CONSTANTS
    Closers,        \* tasks that call close()
    Droppers,       \* tasks that call on_disconnect()
    Owners,         \* tasks that call on_disconnect() and then close()
    Wd,             \* the _connection_duration_watchdog task
    Cb,             \* the disconnect callbacks, run by asyncio.gather
    None,
    HasWatchdog,    \* max_connection_duration is set
    CallbackCloses  \* a disconnect callback calls channel.close()

Tasks == Closers \union Droppers \union Owners
Actors == Tasks \union {Wd, Cb}

ASSUME ActorsAssumption ==
    /\ Wd \notin Tasks /\ Cb \notin Tasks /\ Wd # Cb
    /\ None \notin Actors
    /\ Closers \intersect Droppers = {}
    /\ Closers \intersect Owners = {}
    /\ Droppers \intersect Owners = {}
    /\ HasWatchdog \in BOOLEAN
    /\ CallbackCloses \in BOOLEAN

VARIABLES
    closed,         \* the promise manager is closed: is_closed()
    closer,         \* the actor that set _closing; None while it is False
    lock,           \* who holds _close_lock across an await
    cancelled,      \* the watchdog task has been cancelled
    callbackRuns,   \* how often _invoke_callbacks ran the callbacks
    socketCloses,   \* how often close() closed the socket
    pc              \* where each actor is

vars == <<closed, closer, lock, cancelled, callbackRuns, socketCloses, pc>>

closing == closer # None

States == {"idle", "sleeping", "watchdog", "disconnect", "callbacks", "begin",
           "close", "awaiting", "socket", "done"}

Init ==
    /\ closed = FALSE
    /\ closer = None
    /\ lock = None
    /\ cancelled = FALSE
    /\ callbackRuns = 0
    /\ socketCloses = 0
    /\ pc = [a \in Actors |->
               IF a = Wd THEN IF HasWatchdog THEN "sleeping" ELSE "done"
               ELSE "idle"]

Goto(a, s) == pc' = [pc EXCEPT ![a] = s]

-----------------------------------------------------------------------------
(* close()                                                                 *)

(* Mutant: the _closing flag is not tested.                                *)
AlreadyClosing_ClosedOnly == closed

AlreadyClosing == closing \/ closed

CallClose(a) ==
    /\ pc[a] = "idle" /\ a \in Closers
    /\ Goto(a, "close")
    /\ UNCHANGED <<closed, closer, lock, cancelled, callbackRuns, socketCloses>>

SkipClose(a) ==
    /\ pc[a] = "close" /\ lock = None
    /\ AlreadyClosing
    /\ Goto(a, "done")
    /\ UNCHANGED <<closed, closer, lock, cancelled, callbackRuns, socketCloses>>

(* Mutant: the watchdog is not waited for.                                 *)
WatchdogGone_Assumed == TRUE

WatchdogGone == pc[Wd] = "done"

(* Mutant: _promise_manager.close() is forgotten.                          *)
ManagerClosed_Forgotten == closed

ManagerClosed == TRUE

(* Mutant: the lock is kept while the watchdog is awaited.                 *)
StartClose_HoldsLock(a) ==
    /\ pc[a] = "close" /\ lock = None
    /\ ~AlreadyClosing
    /\ closer' = a
    /\ cancelled' = (pc[Wd] # "done")
    /\ closed' = IF WatchdogGone THEN ManagerClosed ELSE closed
    /\ lock' = IF WatchdogGone THEN None ELSE a
    /\ Goto(a, IF WatchdogGone THEN "socket" ELSE "awaiting")
    /\ UNCHANGED <<callbackRuns, socketCloses>>

(* Set _closing and cancel the watchdog; go on at once if it has ended.    *)
StartClose(a) ==
    /\ pc[a] = "close" /\ lock = None
    /\ ~AlreadyClosing
    /\ closer' = a
    /\ cancelled' = (pc[Wd] # "done")
    /\ closed' = IF WatchdogGone THEN ManagerClosed ELSE closed
    /\ Goto(a, IF WatchdogGone THEN "socket" ELSE "awaiting")
    /\ UNCHANGED <<lock, callbackRuns, socketCloses>>

(* The watchdog has ended: close the promise manager, then the socket.     *)
CloseManager(a) ==
    /\ pc[a] = "awaiting"
    /\ WatchdogGone
    /\ closed' = ManagerClosed
    /\ Goto(a, "socket")
    /\ UNCHANGED <<closer, lock, cancelled, callbackRuns, socketCloses>>

CloseSocket(a) ==
    /\ pc[a] = "socket"
    /\ socketCloses' = socketCloses + 1
    /\ Goto(a, "done")
    /\ UNCHANGED <<closed, closer, lock, cancelled, callbackRuns>>

-----------------------------------------------------------------------------
(* on_disconnect()                                                         *)

CallDisconnect(a) ==
    /\ pc[a] = "idle" /\ a \in Droppers \union Owners
    /\ Goto(a, "disconnect")
    /\ UNCHANGED <<closed, closer, lock, cancelled, callbackRuns, socketCloses>>

AfterDisconnect(a) == IF a \in Owners THEN "close" ELSE "done"

(* Mutant: the guard is missing.                                           *)
AlreadyDisconnected_Never == FALSE

AlreadyDisconnected == closed

SkipDisconnect(a) ==
    /\ pc[a] = "disconnect"
    /\ AlreadyDisconnected
    /\ Goto(a, AfterDisconnect(a))
    /\ UNCHANGED <<closed, closer, lock, cancelled, callbackRuns, socketCloses>>

(* Close the promise manager and start the callbacks; the caller waits.    *)
RunCallbacks(a) ==
    /\ closed' = TRUE
    /\ callbackRuns' = callbackRuns + 1
    /\ pc' = [pc EXCEPT ![a] = "callbacks", ![Cb] = "begin"]

Disconnect(a) ==
    /\ pc[a] = "disconnect"
    /\ ~AlreadyDisconnected
    /\ RunCallbacks(a)
    /\ UNCHANGED <<closer, lock, cancelled, socketCloses>>

(* asyncio.gather with return_exceptions: a failing callback is one that   *)
(* ends.                                                                   *)
CallbackStep ==
    /\ pc[Cb] = "begin"
    /\ \/ Goto(Cb, "done")
       \/ CallbackCloses /\ Goto(Cb, "close")
    /\ UNCHANGED <<closed, closer, lock, cancelled, callbackRuns, socketCloses>>

CallbacksReturn(a) ==
    /\ pc[a] = "callbacks" /\ a # Wd
    /\ pc[Cb] = "done"
    /\ Goto(a, AfterDisconnect(a))
    /\ UNCHANGED <<closed, closer, lock, cancelled, callbackRuns, socketCloses>>

-----------------------------------------------------------------------------
(* _connection_duration_watchdog                                           *)

DurationExceeded ==
    /\ pc[Wd] = "sleeping" /\ ~cancelled
    /\ Goto(Wd, "watchdog")
    /\ UNCHANGED <<closed, closer, lock, cancelled, callbackRuns, socketCloses>>

(* Mutant: one of the tests is inverted.                                   *)
WatchdogTooLate_Inverted == closed \/ ~closing

WatchdogTooLate == closed \/ closing

(* Under the lock: someone else is closing or has closed.                  *)
WatchdogGivesUp ==
    /\ pc[Wd] = "watchdog" /\ lock = None /\ ~cancelled
    /\ WatchdogTooLate
    /\ Goto(Wd, "done")
    /\ UNCHANGED <<closed, closer, lock, cancelled, callbackRuns, socketCloses>>

(* Under the lock: set _closing and run on_disconnect, keeping the lock.   *)
WatchdogDisconnects ==
    /\ pc[Wd] = "watchdog" /\ lock = None /\ ~cancelled
    /\ ~WatchdogTooLate
    /\ closer' = Wd
    /\ lock' = Wd
    /\ RunCallbacks(Wd)
    /\ UNCHANGED <<cancelled, socketCloses>>

(* Mutant: the lock is kept.                                               *)
Unlocked_Never == lock

Unlocked == None

(* The callbacks returned: release the lock and call close().              *)
WatchdogCloses ==
    /\ pc[Wd] = "callbacks"
    /\ pc[Cb] = "done"
    /\ lock' = Unlocked
    /\ Goto(Wd, "close")
    /\ UNCHANGED <<closed, closer, cancelled, callbackRuns, socketCloses>>

(* CancelledError is caught; the task ends.                                *)
WatchdogCancelled ==
    /\ cancelled
    /\ pc[Wd] \in {"sleeping", "watchdog"}
    /\ Goto(Wd, "done")
    /\ UNCHANGED <<closed, closer, lock, cancelled, callbackRuns, socketCloses>>

-----------------------------------------------------------------------------
CloseStep(a) ==
    SkipClose(a) \/ StartClose(a) \/ CloseManager(a) \/ CloseSocket(a)

DisconnectStep(a) == SkipDisconnect(a) \/ Disconnect(a) \/ CallbacksReturn(a)

WatchdogStep ==
    \/ DurationExceeded \/ WatchdogGivesUp \/ WatchdogDisconnects
    \/ WatchdogCloses \/ WatchdogCancelled

Next ==
    \/ \E a \in Tasks : CallClose(a) \/ CallDisconnect(a) \/ DisconnectStep(a)
    \/ \E a \in Actors : CloseStep(a)
    \/ CallbackStep
    \/ WatchdogStep

Spec == Init /\ [][Next]_vars

(* The event loop runs every ready task, timers fire, user callbacks end.  *)
(* Nobody has to call close() or on_disconnect().                          *)
Fairness ==
    /\ \A a \in Tasks : WF_vars(DisconnectStep(a))
    /\ \A a \in Actors : WF_vars(CloseStep(a))
    /\ WF_vars(CallbackStep)
    /\ WF_vars(WatchdogStep)

FairSpec == Spec /\ Fairness

-----------------------------------------------------------------------------
(* Properties.                                                             *)

(* Type invariant.  Of those who take _close_lock only the watchdog holds  *)
(* it across an await.                                                     *)
TypeOK ==
    /\ closed \in BOOLEAN
    /\ closer \in Actors \union {None}
    /\ lock \in {Wd, None}
    /\ cancelled \in BOOLEAN
    /\ callbackRuns \in Nat
    /\ socketCloses \in Nat
    /\ pc \in [Actors -> States]

(* Whoever ends the channel, in whatever order, the disconnect callbacks   *)
(* run at most once and the socket is closed at most once: on_disconnect   *)
(* tests and closes the promise manager without an await in between, and   *)
(* close() tests and sets _closing so.                                     *)
EndsOnce == callbackRuns <= 1 /\ socketCloses <= 1

(* A close() that was not skipped leaves nothing running when it returns:  *)
(* the channel is closed, its socket too, and the watchdog has ended.      *)
CloseIsComplete ==
    closer \in Tasks \union {Cb} /\ pc[closer] = "done" =>
        closed /\ socketCloses = 1 /\ pc[Wd] = "done"

(* Every close() and on_disconnect() returns, unless the watchdog's        *)
(* callbacks call close().                                                 *)
CallsReturn ==
    \A a \in Tasks :
        pc[a] # "idle" ~> pc[a] = "done" \/ (lock = Wd /\ pc[Cb] = "close")

(* Once a task has set _closing, or the channel is older than              *)
(* max_connection_duration, the channel is eventually closed, so the calls *)
(* waiting on it are released.                                             *)
ChannelEnds == closing \/ pc[Wd] = "watchdog" ~> closed

=============================================================================
