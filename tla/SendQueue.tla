------------------------------ MODULE SendQueue ------------------------------
(***************************************************************************)
(* RpcChannel.send_raw: the bound on the frames that wait for the socket.  *)
(* Every call, notification, response and error response of a channel is   *)
(* sent by it, from whatever task runs at the time.                        *)
(*                                                                         *)
(* The slots are an asyncio semaphore; _pending_sends counts them a second *)
(* time.  asyncio.wait_for awaits acquire() in the sender's task from      *)
(* Python 3.12 on, and in a task of its own before (the package supports   *)
(* 3.10): then other senders run between the test of the counter and       *)
(* acquire(), and between acquire() and the increment.                     *)
(***************************************************************************)
EXTENDS Integers, FiniteSets

CONSTANTS
    Senders,   \* tasks that call send_raw, repeatedly
    Limits     \* values of _max_send_queue_size; 0 switches the bound off

ASSUME SendersAssumption == IsFiniteSet(Senders)
ASSUME LimitsAssumption == Limits \subseteq Nat

VARIABLES
    limit,     \* _max_send_queue_size
    inline,    \* wait_for awaits acquire() without a task of its own
    closed,    \* is_closed()
    stalled,   \* the peer does not read: socket.send does not return
    free,      \* value of _send_semaphore (0 when the bound is off)
    pending,   \* _pending_sends
    pc         \* where each task is in send_raw, or how its last one ended

vars == <<limit, inline, closed, stalled, free, pending, pc>>

Outcomes == {"none", "sent", "failed", "full", "timeout", "closed"}
Waiting == {"acquiring", "acquired"}
Places == Outcomes \cup Waiting \cup {"sending"}

Init ==
    /\ limit \in Limits
    /\ inline \in BOOLEAN
    /\ closed = FALSE
    /\ stalled = FALSE
    /\ free = limit
    /\ pending = 0
    /\ pc = [s \in Senders |-> "none"]

Bounded == limit > 0

Goto(s, place) == pc' = [pc EXCEPT ![s] = place]

Idle(s) == pc[s] \in Outcomes

-----------------------------------------------------------------------------
(* The tests at the head of send_raw, which raise.                         *)
RefuseClosed(s) ==
    /\ Idle(s)
    /\ closed
    /\ Goto(s, "closed")
    /\ UNCHANGED <<limit, inline, closed, stalled, free, pending>>

(* Mutant: one frame too many.                                             *)
QueueFull_OffByOne == pending > limit

QueueFull == pending >= limit

RefuseFull(s) ==
    /\ Idle(s)
    /\ ~closed
    /\ Bounded
    /\ QueueFull
    /\ Goto(s, "full")
    /\ UNCHANGED <<limit, inline, closed, stalled, free, pending>>

(* Without a bound the frame goes to the socket at once.                   *)
SendUnbounded(s) ==
    /\ Idle(s)
    /\ ~closed
    /\ ~Bounded
    /\ Goto(s, "sending")
    /\ UNCHANGED <<limit, inline, closed, stalled, free, pending>>

(* acquire() finds a slot and does not suspend the sender.                 *)
BeginInline(s) ==
    /\ Idle(s)
    /\ ~closed
    /\ Bounded
    /\ ~QueueFull
    /\ inline
    /\ free > 0
    /\ free' = free - 1
    /\ pending' = pending + 1
    /\ Goto(s, "sending")
    /\ UNCHANGED <<limit, inline, closed, stalled>>

(* The sender is suspended in wait_for.                                    *)
BeginWait(s) ==
    /\ Idle(s)
    /\ ~closed
    /\ Bounded
    /\ ~QueueFull
    /\ ~(inline /\ free > 0)
    /\ Goto(s, "acquiring")
    /\ UNCHANGED <<limit, inline, closed, stalled, free, pending>>

(* acquire() ends; the sender itself runs again later.                     *)
Acquire(s) ==
    /\ pc[s] = "acquiring"
    /\ free > 0
    /\ free' = free - 1
    /\ Goto(s, "acquired")
    /\ UNCHANGED <<limit, inline, closed, stalled, pending>>

(* Mutant: the wait stands without a time-out.                             *)
AcquireTimesOut_Never(s) ==
    /\ pc[s] = "acquiring" /\ ~stalled
    /\ Goto(s, "timeout")
    /\ UNCHANGED <<limit, inline, closed, stalled, free, pending>>

(* One second passed without a slot.                                       *)
AcquireTimesOut(s) ==
    /\ pc[s] = "acquiring"
    /\ Goto(s, "timeout")
    /\ UNCHANGED <<limit, inline, closed, stalled, free, pending>>

(* Mutant: the frame is not counted.                                       *)
StartSending_Uncounted(s) ==
    /\ pc[s] = "acquired"
    /\ Goto(s, "sending")
    /\ UNCHANGED <<limit, inline, closed, stalled, free, pending>>

(* The sender counts itself and hands the frame to the socket; it does not *)
(* test again whether the channel is closed.                               *)
StartSending(s) ==
    /\ pc[s] = "acquired"
    /\ pending' = pending + 1
    /\ Goto(s, "sending")
    /\ UNCHANGED <<limit, inline, closed, stalled, free>>

(* Mutant: the counter is forgotten.                                       *)
ReturnSlot_CounterLeaks ==
    IF Bounded
    THEN free' = free + 1 /\ UNCHANGED pending
    ELSE UNCHANGED <<free, pending>>

(* The finally clause.                                                     *)
ReturnSlot ==
    IF Bounded
    THEN free' = free + 1 /\ pending' = pending - 1
    ELSE UNCHANGED <<free, pending>>

Sent(s) ==
    /\ pc[s] = "sending"
    /\ ~stalled
    /\ ~closed
    /\ ReturnSlot
    /\ Goto(s, "sent")
    /\ UNCHANGED <<limit, inline, closed, stalled>>

(* The socket raises, the frame cannot be serialised, or the task is       *)
(* cancelled.                                                              *)
SendFails(s) ==
    /\ pc[s] = "sending"
    /\ ReturnSlot
    /\ Goto(s, "failed")
    /\ UNCHANGED <<limit, inline, closed, stalled>>

(* The task is cancelled while it waits for a slot.  A cancellation that   *)
(* comes after acquire() ended is swallowed by wait_for.                   *)
CancelWait(s) ==
    /\ pc[s] = "acquiring"
    /\ Goto(s, "failed")
    /\ UNCHANGED <<limit, inline, closed, stalled, free, pending>>

(* The channel is closed by some task.                                     *)
Close ==
    /\ ~closed
    /\ closed' = TRUE
    /\ UNCHANGED <<limit, inline, stalled, free, pending, pc>>

(* External: the peer stops or resumes reading.                            *)
Stall ==
    /\ stalled' = ~stalled
    /\ UNCHANGED <<limit, inline, closed, free, pending, pc>>

-----------------------------------------------------------------------------
SenderStep(s) ==
    \/ RefuseClosed(s) \/ RefuseFull(s)
    \/ SendUnbounded(s) \/ BeginInline(s) \/ BeginWait(s)
    \/ Acquire(s) \/ AcquireTimesOut(s) \/ StartSending(s)
    \/ Sent(s) \/ SendFails(s) \/ CancelWait(s)

Next ==
    \/ \E s \in Senders : SenderStep(s)
    \/ Close
    \/ Stall

Spec == Init /\ [][Next]_vars

(* Timers fire and a task that acquired a slot runs.  Nothing makes the    *)
(* socket accept a frame.                                                  *)
Fairness ==
    \A s \in Senders : WF_vars(AcquireTimesOut(s)) /\ WF_vars(StartSending(s))

FairSpec == Spec /\ Fairness

-----------------------------------------------------------------------------
(* Properties.                                                             *)

At(place) == {s \in Senders : pc[s] = place}

(* Type invariant.                                                         *)
TypeOK ==
    /\ limit \in Limits
    /\ inline \in BOOLEAN
    /\ closed \in BOOLEAN
    /\ stalled \in BOOLEAN
    /\ free \in Nat
    /\ pending \in Nat
    /\ pc \in [Senders -> Places]

(* However senders interleave, fail or are cancelled, the semaphore and    *)
(* the counter agree with what is in flight: the counter counts the frames *)
(* at the socket, no slot is lost or returned twice, and so at most        *)
(* max_send_queue_size frames are at the socket.                           *)
SlotsAccounted ==
    Bounded =>
        /\ pending = Cardinality(At("sending"))
        /\ free + Cardinality(At("sending")) + Cardinality(At("acquired"))
             = limit

(* Where acquire() is awaited without a switch, the test of the counter    *)
(* decides alone: a sender that passes it finds a slot and never waits, so *)
(* that the time-out of one second is never needed.                        *)
InlineNeverWaits ==
    inline => \A s \in Senders :
        pc[s] \notin Waiting \cup {"timeout"}

(* A sender does not wait for a slot forever, also when the peer never     *)
(* reads again and all slots are taken.                                    *)
WaitIsBounded ==
    \A s \in Senders : pc[s] \in Waiting ~> pc[s] \notin Waiting

=============================================================================
