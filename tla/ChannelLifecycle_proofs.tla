---------------------- MODULE ChannelLifecycle_proofs -----------------------
(***************************************************************************)
(* Theorems about ChannelLifecycle for any number of tasks that close or   *)
(* disconnect the channel.                                                 *)
(***************************************************************************)
EXTENDS ChannelLifecycle, TLAPS

(* Callbacks ran only if the channel is closed, and only once.             *)
CallbacksNeedClosed ==
    /\ callbackRuns <= 1
    /\ ~closed => callbackRuns = 0
    /\ pc[Cb] # "idle" => closed

(* Where the watchdog can be; past its test it is the closer.              *)
WatchdogPlaces ==
    /\ pc[Wd] \in {"sleeping", "watchdog", "callbacks", "close", "done"}
    /\ pc[Wd] \in {"callbacks", "close"} => closed /\ closer = Wd

(* Only the task that set _closing is past close()'s test, and it reaches  *)
(* the socket only after the watchdog ended and the channel is closed.     *)
CloserPlaces ==
    /\ closer = None => socketCloses = 0
    /\ closer # Cb
    /\ \A a \in Actors : pc[a] \in {"awaiting", "socket"} =>
          closer = a /\ socketCloses = 0
    /\ \A a \in Actors : pc[a] = "socket" => closed /\ pc[Wd] = "done"
    /\ socketCloses <= 1
    /\ closer \in Tasks =>
          \/ pc[closer] \in {"awaiting", "socket"}
          \/ pc[closer] = "done" /\ closed /\ socketCloses = 1
               /\ pc[Wd] = "done"

Inv == TypeOK /\ CallbacksNeedClosed /\ WatchdogPlaces /\ CloserPlaces

(* The initial states satisfy the invariant.                               *)
LEMMA InitInv == Init => Inv
<1> SUFFICES ASSUME Init PROVE Inv
    OBVIOUS
<1> USE ActorsAssumption DEF Init, Actors
<1>1. TypeOK
    BY DEF TypeOK, States
<1>2. pc[Cb] = "idle" /\ pc[Wd] \in {"sleeping", "done"}
    BY Zenon
<1>3. \A a \in Actors : pc[a] \in {"idle", "sleeping", "done"}
    OBVIOUS
<1>4. CallbacksNeedClosed /\ WatchdogPlaces
    BY <1>2 DEF CallbacksNeedClosed, WatchdogPlaces
<1>5. CloserPlaces
    BY <1>3 DEF CloserPlaces
<1> QED BY <1>1, <1>4, <1>5 DEF Inv

(* Every step keeps it.                                                    *)
LEMMA StepInv ==
    ASSUME Inv, [Next]_vars
    PROVE  Inv'
<1> USE ActorsAssumption
    DEF Inv, TypeOK, States, Actors, Tasks, CallbacksNeedClosed,
        WatchdogPlaces, CloserPlaces, Goto, AlreadyClosing, closing
<1>1. ASSUME NEW a \in Tasks, CallClose(a) \/ CallDisconnect(a) PROVE Inv'
    BY <1>1 DEF CallClose, CallDisconnect
<1>2. ASSUME NEW a \in Tasks, SkipDisconnect(a) PROVE Inv'
    BY <1>2 DEF SkipDisconnect, AfterDisconnect
<1>3. ASSUME NEW a \in Tasks, Disconnect(a) PROVE Inv'
    BY <1>3 DEF Disconnect, RunCallbacks, AlreadyDisconnected
<1>4. ASSUME NEW a \in Tasks, CallbacksReturn(a) PROVE Inv'
    BY <1>4 DEF CallbacksReturn, AfterDisconnect
<1>5. ASSUME NEW a \in Actors, SkipClose(a) PROVE Inv'
    BY <1>5 DEF SkipClose
<1>6. ASSUME NEW a \in Actors, StartClose(a) PROVE Inv'
    BY <1>6 DEF StartClose, WatchdogGone, ManagerClosed
<1>7. ASSUME NEW a \in Actors, CloseManager(a) PROVE Inv'
    BY <1>7 DEF CloseManager, WatchdogGone, ManagerClosed
<1>8. ASSUME NEW a \in Actors, CloseSocket(a) PROVE Inv'
    BY <1>8 DEF CloseSocket
<1>9. CASE CallbackStep
    BY <1>9 DEF CallbackStep
<1>10. CASE DurationExceeded \/ WatchdogGivesUp \/ WatchdogCancelled
    BY <1>10 DEF DurationExceeded, WatchdogGivesUp, WatchdogCancelled
<1>11. CASE WatchdogDisconnects
    BY <1>11 DEF WatchdogDisconnects, WatchdogTooLate, RunCallbacks
<1>12. CASE WatchdogCloses
    BY <1>12 DEF WatchdogCloses, Unlocked
<1>13. CASE UNCHANGED vars
    BY <1>13 DEF vars
<1> QED
    BY <1>1, <1>2, <1>3, <1>4, <1>5, <1>6, <1>7, <1>8, <1>9, <1>10, <1>11,
       <1>12, <1>13 DEF Next, CloseStep, DisconnectStep, WatchdogStep

(* The invariant holds in every reachable state.                           *)
THEOREM Invariance == Spec => []Inv
  BY InitInv, StepInv, PTL DEF Spec

(* The state is always well typed.                                         *)
THEOREM TypeCorrect == Spec => []TypeOK
  BY Invariance, PTL DEF Inv

(* The disconnect callbacks run, and the socket is closed, at most once.   *)
THEOREM EndedOnce == Spec => []EndsOnce
<1>1. Inv => EndsOnce
    BY DEF Inv, CallbacksNeedClosed, CloserPlaces, EndsOnce
<1> QED BY Invariance, <1>1, PTL

(* A close() that was not skipped is complete when it returns.             *)
THEOREM CloseCompletes == Spec => []CloseIsComplete
<1>1. Inv => CloseIsComplete
    BY DEF Inv, CloserPlaces, CloseIsComplete
<1> QED BY Invariance, <1>1, PTL

-----------------------------------------------------------------------------
(* Who waits for whom.                                                     *)

(* The lock is held across an await by the watchdog alone, while its       *)
(* callbacks run; who waits for callbacks finds them begun, and who waits  *)
(* for the watchdog has cancelled it.                                      *)
WaitsInv ==
    /\ lock = Wd <=> pc[Wd] = "callbacks"
    /\ \A a \in Actors : pc[a] = "callbacks" => pc[Cb] # "idle"
    /\ \A a \in Actors : pc[a] = "awaiting" => cancelled \/ pc[Wd] = "done"
    /\ pc[Cb] \in {"idle", "begin", "close", "done"}
    /\ \A a \in Tasks : pc[a] \notin {"sleeping", "watchdog", "begin"}
    /\ closer = Wd => closed

LEMMA WaitsInit == Init => WaitsInv
<1> SUFFICES ASSUME Init PROVE WaitsInv
    OBVIOUS
<1> USE ActorsAssumption DEF Init, Actors
<1>1. pc[Cb] = "idle" /\ pc[Wd] \in {"sleeping", "done"}
    BY Zenon
<1>2. \A a \in Tasks : pc[a] = "idle"
    BY Zenon
<1>3. \A a \in Actors : pc[a] \in {"idle", "sleeping", "done"}
    OBVIOUS
<1> QED BY <1>1, <1>2, <1>3 DEF WaitsInv

LEMMA WaitsStep ==
    ASSUME Inv, WaitsInv, [Next]_vars
    PROVE  WaitsInv'
<1> USE ActorsAssumption
    DEF Inv, TypeOK, States, Actors, Tasks, CallbacksNeedClosed,
        WatchdogPlaces, CloserPlaces, Goto, AlreadyClosing, closing, WaitsInv
<1>1. ASSUME NEW a \in Tasks, CallClose(a) \/ CallDisconnect(a) PROVE WaitsInv'
    BY <1>1 DEF CallClose, CallDisconnect
<1>2. ASSUME NEW a \in Tasks, SkipDisconnect(a) PROVE WaitsInv'
    BY <1>2 DEF SkipDisconnect, AfterDisconnect
<1>3. ASSUME NEW a \in Tasks, Disconnect(a) PROVE WaitsInv'
    BY <1>3 DEF Disconnect, RunCallbacks, AlreadyDisconnected
<1>4. ASSUME NEW a \in Tasks, CallbacksReturn(a) PROVE WaitsInv'
    BY <1>4 DEF CallbacksReturn, AfterDisconnect
<1>5. ASSUME NEW a \in Actors, SkipClose(a) PROVE WaitsInv'
    BY <1>5 DEF SkipClose
<1>6. ASSUME NEW a \in Actors, StartClose(a) PROVE WaitsInv'
    BY <1>6 DEF StartClose, WatchdogGone
<1>7. ASSUME NEW a \in Actors, CloseManager(a) \/ CloseSocket(a) PROVE WaitsInv'
    BY <1>7 DEF CloseManager, CloseSocket, WatchdogGone
<1>8. CASE CallbackStep
    BY <1>8 DEF CallbackStep
<1>9. CASE DurationExceeded \/ WatchdogGivesUp \/ WatchdogCancelled
    BY <1>9 DEF DurationExceeded, WatchdogGivesUp, WatchdogCancelled
<1>10. CASE WatchdogDisconnects
    BY <1>10 DEF WatchdogDisconnects, WatchdogTooLate, RunCallbacks
<1>11. CASE WatchdogCloses
    BY <1>11 DEF WatchdogCloses, Unlocked
<1>12. CASE UNCHANGED vars
    BY <1>12 DEF vars
<1> QED
    BY <1>1, <1>2, <1>3, <1>4, <1>5, <1>6, <1>7, <1>8, <1>9, <1>10, <1>11,
       <1>12 DEF Next, CloseStep, DisconnectStep, WatchdogStep

(* An actor that waits for nobody: neither for the lock, nor for the       *)
(* watchdog, nor for callbacks.                                            *)
CanGoOn(a) ==
    \/ pc[a] \in {"disconnect", "socket", "begin"}
    \/ pc[a] = "close" /\ lock = None
    \/ pc[a] = "awaiting" /\ WatchdogGone
    \/ pc[a] = "callbacks" /\ pc[Cb] = "done"
    \/ a = Wd /\ pc[a] = "watchdog" /\ (lock = None \/ cancelled)
    \/ a = Wd /\ pc[a] = "sleeping" /\ cancelled

(* The callback that the watchdog awaits while it holds _close_lock calls  *)
(* close(), which takes that lock.                                         *)
CallbackUnderLock == lock = Wd /\ pc[Cb] = "close"

(* However close() and on_disconnect() calls, the watchdog and callbacks   *)
(* wait for each other, they wait in a circle only if the watchdog's       *)
(* callback calls close(): otherwise, where nobody can go on, every call   *)
(* has returned, and the channel is closed if anybody set _closing.        *)
CirclesOnlyUnderLock ==
    (\A a \in Actors : ~CanGoOn(a)) =>
        \/ CallbackUnderLock
        \/ /\ \A a \in Tasks : pc[a] \in {"idle", "done"}
           /\ pc[Wd] \in {"sleeping", "done"} /\ pc[Cb] \in {"idle", "done"}
           /\ closing => closed

(* No circle but that one: what CallsReturn and ChannelEnds say of a state.*)
THEOREM NoOtherCircle == Spec => []CirclesOnlyUnderLock
<1>1. ASSUME Inv, WaitsInv PROVE CirclesOnlyUnderLock
    <2> USE <1>1, ActorsAssumption
    <2> SUFFICES ASSUME \A a \in Actors : ~CanGoOn(a), ~CallbackUnderLock
                 PROVE  /\ \A a \in Tasks : pc[a] \in {"idle", "done"}
                        /\ pc[Wd] \in {"sleeping", "done"}
                        /\ pc[Cb] \in {"idle", "done"}
                        /\ closing => closed
        BY DEF CirclesOnlyUnderLock
    <2>1. pc[Cb] \in {"idle", "done"} /\ Wd \in Actors /\ Cb \in Actors
        BY DEF Inv, TypeOK, WaitsInv, CanGoOn, CallbackUnderLock, Actors
    <2>2. \A a \in Actors : pc[a] # "callbacks"
        BY <2>1 DEF WaitsInv, CanGoOn
    <2>3. lock = None
        BY <2>1, <2>2 DEF Inv, TypeOK, WaitsInv
    <2>4. pc[Wd] \in {"sleeping", "done"}
        BY <2>1, <2>2, <2>3 DEF Inv, WatchdogPlaces, CanGoOn
    <2>5. \A a \in Actors : pc[a] # "awaiting"
        BY <2>1, <2>4 DEF WaitsInv, CanGoOn, WatchdogGone
    <2>6. \A a \in Tasks : pc[a] \in {"idle", "done"}
        BY <2>2, <2>3, <2>5 DEF Inv, TypeOK, States, WaitsInv, CanGoOn, Actors
    <2>7. closing => closed
        BY <2>1, <2>2, <2>5, <2>6
           DEF Inv, TypeOK, CloserPlaces, WaitsInv, closing, Actors
    <2> QED BY <2>1, <2>4, <2>6, <2>7
<1> QED BY InitInv, StepInv, WaitsInit, WaitsStep, <1>1, PTL DEF Spec

=============================================================================
