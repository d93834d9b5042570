-------------------------- MODULE SendQueue_proofs --------------------------
(***************************************************************************)
(* Theorems about SendQueue for any number of senders and any limits.      *)
(***************************************************************************)
EXTENDS SendQueue, FiniteSetTheorems, TLAPS

(* Without a bound nothing is counted and nobody waits.                    *)
UnboundedCountsNothing ==
    ~Bounded => pending = 0 /\ \A s \in Senders : pc[s] \notin Waiting

Inv == TypeOK /\ SlotsAccounted /\ UnboundedCountsNothing /\ InlineNeverWaits

(* The set of senders at a place is finite, and so it has a size.          *)
LEMMA AtIsFinite ==
    ASSUME NEW place
    PROVE  IsFiniteSet(At(place)) /\ Cardinality(At(place)) \in Nat
BY SendersAssumption, FS_Subset, FS_CardinalityType DEF At

(* One sender that moves from one place to another changes the sizes of    *)
(* the two sets by one and of no other.                                    *)
LEMMA AtMoves ==
    ASSUME TypeOK, NEW s \in Senders, NEW to \in Places, Goto(s, to),
           NEW place \in Places
    PROVE  /\ place = to /\ pc[s] # to =>
                Cardinality(At(place))' = Cardinality(At(place)) + 1
           /\ place # to /\ place = pc[s] =>
                /\ Cardinality(At(place))' = Cardinality(At(place)) - 1
                /\ Cardinality(At(place)) > 0
           /\ place # to /\ place # pc[s] =>
                Cardinality(At(place))' = Cardinality(At(place))
<1> USE DEF TypeOK, Goto
<1> DEFINE Old == At(place)
           New == {x \in Senders : pc'[x] = place}
<1>0. At(place)' = New
    BY DEF At
<1>1. IsFiniteSet(Old) /\ Cardinality(Old) \in Nat
    BY AtIsFinite
<1>2. CASE place = to /\ pc[s] # to
    <2>1. New = Old \cup {s} /\ s \notin Old
        BY <1>2 DEF At
    <2>2. Cardinality(New) = Cardinality(Old) + 1
        BY <2>1, <1>1, FS_AddElement
    <2> QED BY <2>2, <1>0, <1>2
<1>3. CASE place # to /\ place = pc[s]
    <2>1. New = Old \ {s} /\ s \in Old
        BY <1>3 DEF At
    <2>2. Cardinality(New) = Cardinality(Old) - 1
        BY <2>1, <1>1, FS_RemoveElement
    <2>3. Cardinality(Old) # 0
        BY <2>1, <1>1, FS_EmptySet
    <2>4. Cardinality(Old) > 0
        BY <2>3, <1>1
    <2> QED BY <2>2, <2>4, <1>0, <1>3
<1>4. CASE place # to /\ place # pc[s]
    <2>1. New = Old
        BY <1>4 DEF At
    <2> QED BY <2>1, <1>0, <1>4
<1> QED BY <1>2, <1>3, <1>4

(* A move that touches neither "sending" nor "acquired" keeps their sizes. *)
LEMMA AtStays ==
    ASSUME TypeOK, NEW s \in Senders, NEW to \in Outcomes \cup {"acquiring"},
           Goto(s, to), Idle(s) \/ pc[s] = "acquiring"
    PROVE  /\ Cardinality(At("sending"))' = Cardinality(At("sending"))
           /\ Cardinality(At("acquired"))' = Cardinality(At("acquired"))
<1>1. to \in Places /\ to \notin {"sending", "acquired"}
    BY DEF Places, Outcomes, Waiting
<1>2. pc[s] \notin {"sending", "acquired"}
    BY DEF Idle, Outcomes
<1>3. {"sending", "acquired"} \subseteq Places
    BY DEF Places, Waiting
<1> QED BY <1>1, <1>2, <1>3, AtMoves

(* Initially every slot is free.                                           *)
LEMMA InitInv == Init => Inv
<1> SUFFICES ASSUME Init PROVE Inv
    OBVIOUS
<1> USE LimitsAssumption DEF Init
<1>1. TypeOK
    BY DEF TypeOK, Places, Outcomes
<1>2. At("sending") = {} /\ At("acquired") = {}
    BY DEF At
<1>3. Cardinality(At("sending")) = 0 /\ Cardinality(At("acquired")) = 0
    BY <1>2, FS_EmptySet
<1>4. SlotsAccounted
    BY <1>1, <1>3 DEF SlotsAccounted, TypeOK, Bounded
<1>5. UnboundedCountsNothing /\ InlineNeverWaits
    BY DEF UnboundedCountsNothing, InlineNeverWaits, Waiting
<1> QED BY <1>1, <1>4, <1>5 DEF Inv

(* Every step keeps the invariant.                                         *)
LEMMA StepInv ==
    ASSUME Inv, [Next]_vars
    PROVE  Inv'
<1> DEFINE S == Cardinality(At("sending"))
           A == Cardinality(At("acquired"))
<1>n. /\ S \in Nat /\ A \in Nat
      /\ limit \in Nat /\ free \in Nat /\ pending \in Nat
      /\ Bounded => pending = S /\ free + S + A = limit
    BY AtIsFinite, LimitsAssumption DEF Inv, TypeOK, SlotsAccounted
<1>t. TypeOK /\ Waiting \subseteq Places /\ Outcomes \subseteq Places
      /\ "sending" \in Places /\ "acquired" \in Places
      /\ "acquiring" \in Places
    BY DEF Inv, Places, Waiting
(* What is left to show of a move once the sizes after it are known.       *)
<1>m. ASSUME NEW s \in Senders, NEW to \in Places, Goto(s, to),
             UNCHANGED <<limit, inline, stalled>>, closed' \in BOOLEAN,
             free' \in Nat, pending' \in Nat,
             Bounded => pending' = S' /\ free' + S' + A' = limit,
             ~Bounded => pending' = 0 /\ to \notin Waiting,
             inline => to \notin Waiting \cup {"timeout"}
      PROVE  Inv'
    <2>1. pc' \in [Senders -> Places] /\ pc' = [pc EXCEPT ![s] = to]
        BY <1>m, <1>t DEF TypeOK, Goto
    <2>2. TypeOK'
        BY <2>1, <1>m, <1>t DEF TypeOK
    <2>3. Bounded' = Bounded
        BY <1>m DEF Bounded
    <2>4. SlotsAccounted'
        BY <2>3, <1>m DEF SlotsAccounted
    <2>5. UnboundedCountsNothing'
        BY <2>1, <2>3, <1>m, <1>t DEF UnboundedCountsNothing, TypeOK, Inv
    <2>6. InlineNeverWaits'
        BY <2>1, <1>m, <1>t DEF InlineNeverWaits, TypeOK, Inv
    <2> QED BY <2>2, <2>4, <2>5, <2>6 DEF Inv
(* The same for a move that leaves the slots alone.                        *)
<1>k. ASSUME NEW s \in Senders, NEW to \in Outcomes \cup {"acquiring"},
             Goto(s, to), Idle(s) \/ pc[s] = "acquiring",
             UNCHANGED <<limit, inline, closed, stalled, free, pending>>,
             ~Bounded => to \notin Waiting,
             inline => to \notin Waiting \cup {"timeout"}
      PROVE  Inv'
    <2>1. S' = S /\ A' = A
        BY <1>k, <1>t, AtStays
    <2>2. ~Bounded => pending = 0
        BY DEF Inv, UnboundedCountsNothing
    <2>3. to \in Places
        BY <1>t
    <2>4. closed \in BOOLEAN
        BY <1>t DEF TypeOK
    <2> QED BY <2>1, <2>2, <2>3, <2>4, <1>k, <1>n, <1>m
<1>o. \A to \in Outcomes : to \notin Waiting
    BY DEF Outcomes, Waiting
<1>1. ASSUME NEW s \in Senders, RefuseClosed(s) \/ RefuseFull(s) PROVE Inv'
    BY <1>1, <1>k, <1>o DEF RefuseClosed, RefuseFull, Outcomes
<1>2. ASSUME NEW s \in Senders, SendUnbounded(s) PROVE Inv'
    <2>1. "sending" \notin Waiting \cup {"timeout"}
        BY DEF Waiting
    <2>2. pending = 0
        BY <1>2 DEF Inv, UnboundedCountsNothing, SendUnbounded
    <2>3. ~Bounded /\ Goto(s, "sending")
          /\ UNCHANGED <<limit, inline, closed, stalled, free, pending>>
        BY <1>2 DEF SendUnbounded
    <2>4. closed \in BOOLEAN
        BY <1>t DEF TypeOK
    <2> QED BY <2>1, <2>2, <2>3, <2>4, <1>n, <1>t, <1>m
<1>3. ASSUME NEW s \in Senders, BeginInline(s) PROVE Inv'
    <2>1. /\ Bounded /\ Goto(s, "sending") /\ pc[s] \notin {"sending", "acquired"}
          /\ free > 0 /\ free' = free - 1 /\ pending' = pending + 1
          /\ UNCHANGED <<limit, inline, closed, stalled>>
        BY <1>3 DEF BeginInline, Idle, Outcomes
    <2>2. S' = S + 1 /\ A' = A
        BY <2>1, <1>t, AtMoves
    <2>3. "sending" \notin Waiting \cup {"timeout"}
        BY DEF Waiting
    <2>4. free' \in Nat /\ pending' \in Nat
        BY <2>1, <1>n
    <2>5. pending' = S' /\ free' + S' + A' = limit
        BY <2>1, <2>2, <1>n
    <2>6. closed' \in BOOLEAN
        BY <2>1, <1>t DEF TypeOK
    <2> QED BY <2>1, <2>3, <2>4, <2>5, <2>6, <1>t, <1>m
<1>4. ASSUME NEW s \in Senders, BeginWait(s) PROVE Inv'
    (* Inline, a free slot is left whenever the counter is below the limit. *)
    <2>1. ASSUME inline PROVE FALSE
        <3>1. At("acquired") = {}
            BY <2>1 DEF Inv, InlineNeverWaits, At, Waiting
        <3>2. A = 0
            BY <3>1, FS_EmptySet
        <3>3. Bounded /\ pending < limit /\ ~(free > 0)
            BY <1>4, <2>1, <1>n DEF BeginWait, QueueFull
        <3> QED BY <3>2, <3>3, <1>n
    <2>2. /\ Bounded /\ Idle(s) /\ Goto(s, "acquiring")
          /\ UNCHANGED <<limit, inline, closed, stalled, free, pending>>
        BY <1>4 DEF BeginWait
    <2> QED BY <2>1, <2>2, <1>k
<1>5. ASSUME NEW s \in Senders, Acquire(s) PROVE Inv'
    <2>1. /\ pc[s] = "acquiring" /\ Goto(s, "acquired")
          /\ free > 0 /\ free' = free - 1 /\ pending' = pending
          /\ UNCHANGED <<limit, inline, closed, stalled>>
        BY <1>5 DEF Acquire
    <2>2. Bounded /\ ~inline
        BY <2>1 DEF Inv, UnboundedCountsNothing, InlineNeverWaits, Waiting
    <2>3. S' = S /\ A' = A + 1
        BY <2>1, <1>t, AtMoves
    <2>4. free' \in Nat /\ pending' \in Nat
        BY <2>1, <1>n
    <2>5. pending' = S' /\ free' + S' + A' = limit
        BY <2>1, <2>2, <2>3, <1>n
    <2>6. closed' \in BOOLEAN
        BY <2>1, <1>t DEF TypeOK
    <2> QED BY <2>1, <2>2, <2>4, <2>5, <2>6, <1>t, <1>m
<1>6. ASSUME NEW s \in Senders, AcquireTimesOut(s) \/ CancelWait(s) PROVE Inv'
    <2>1. pc[s] = "acquiring"
          /\ UNCHANGED <<limit, inline, closed, stalled, free, pending>>
        BY <1>6 DEF AcquireTimesOut, CancelWait
    <2>2. ~inline
        BY <2>1 DEF Inv, InlineNeverWaits, Waiting
    <2>3. PICK to \in {"timeout", "failed"} : Goto(s, to)
        BY <1>6 DEF AcquireTimesOut, CancelWait
    <2>4. to \in Outcomes
        BY DEF Outcomes
    <2> QED BY <2>1, <2>2, <2>3, <2>4, <1>k, <1>o
<1>7. ASSUME NEW s \in Senders, StartSending(s) PROVE Inv'
    <2>1. /\ pc[s] = "acquired" /\ Goto(s, "sending")
          /\ free' = free /\ pending' = pending + 1
          /\ UNCHANGED <<limit, inline, closed, stalled>>
        BY <1>7 DEF StartSending
    <2>2. Bounded /\ "sending" \notin Waiting \cup {"timeout"}
        BY <2>1 DEF Inv, UnboundedCountsNothing, Waiting
    <2>3. S' = S + 1 /\ A' = A - 1
        BY <2>1, <1>t, AtMoves
    <2>4. free' \in Nat /\ pending' \in Nat
        BY <2>1, <1>n
    <2>5. pending' = S' /\ free' + S' + A' = limit
        BY <2>1, <2>2, <2>3, <1>n
    <2>6. closed' \in BOOLEAN
        BY <2>1, <1>t DEF TypeOK
    <2> QED BY <2>1, <2>2, <2>4, <2>5, <2>6, <1>t, <1>m
<1>8. ASSUME NEW s \in Senders, Sent(s) \/ SendFails(s) PROVE Inv'
    <2>1. /\ pc[s] = "sending" /\ ReturnSlot
          /\ UNCHANGED <<limit, inline, closed, stalled>>
        BY <1>8 DEF Sent, SendFails
    <2>2. PICK to \in {"sent", "failed"} : Goto(s, to)
        BY <1>8 DEF Sent, SendFails
    <2>3. to \in Places /\ to \notin Waiting \cup {"timeout", "sending", "acquired"}
        BY <1>t DEF Outcomes, Waiting
    <2>4. S' = S - 1 /\ S > 0 /\ A' = A
        BY <2>1, <2>2, <2>3, <1>t, AtMoves
    <2>5. closed' \in BOOLEAN
        BY <2>1, <1>t DEF TypeOK
    <2>6. CASE Bounded
        <3>1. free' = free + 1 /\ pending' = pending - 1
            BY <2>1, <2>6 DEF ReturnSlot
        <3>2. free' \in Nat /\ pending' \in Nat
            BY <3>1, <2>4, <2>6, <1>n
        <3>3. pending' = S' /\ free' + S' + A' = limit
            BY <3>1, <2>4, <2>6, <1>n
        <3> QED BY <3>2, <3>3, <2>1, <2>2, <2>3, <2>5, <2>6, <1>m
    <2>7. CASE ~Bounded
        <3>1. free' = free /\ pending' = pending /\ pending = 0
            BY <2>1, <2>7 DEF ReturnSlot, Inv, UnboundedCountsNothing
        <3> QED BY <3>1, <2>1, <2>2, <2>3, <2>5, <2>7, <1>n, <1>m
    <2> QED BY <2>6, <2>7
<1>9. ASSUME Close \/ Stall \/ UNCHANGED vars PROVE Inv'
    <2>1. UNCHANGED <<limit, inline, free, pending, pc>>
          /\ closed' \in BOOLEAN /\ stalled' \in BOOLEAN
        BY <1>9, <1>t DEF Close, Stall, vars, TypeOK
    <2>2. TypeOK'
        BY <2>1, <1>t DEF TypeOK
    <2>3. S' = S /\ A' = A /\ Bounded' = Bounded
        BY <2>1 DEF At, Bounded
    <2>4. SlotsAccounted'
        BY <2>1, <2>3 DEF Inv, SlotsAccounted
    <2>5. UnboundedCountsNothing' /\ InlineNeverWaits'
        BY <2>1, <2>3 DEF Inv, UnboundedCountsNothing, InlineNeverWaits
    <2> QED BY <2>2, <2>4, <2>5 DEF Inv
<1> QED BY <1>1, <1>2, <1>3, <1>4, <1>5, <1>6, <1>7, <1>8, <1>9
    DEF Next, SenderStep

(* The slots, the counter and the frames in flight always agree.           *)
THEOREM SlotsTheorem == Spec => []SlotsAccounted
<1>1. Inv => SlotsAccounted
    BY DEF Inv
<1> QED BY InitInv, StepInv, <1>1, PTL DEF Spec

(* Where wait_for does not switch tasks, no sender ever waits for a slot.  *)
THEOREM InlineTheorem == Spec => []InlineNeverWaits
<1>1. Inv => InlineNeverWaits
    BY DEF Inv
<1> QED BY InitInv, StepInv, <1>1, PTL DEF Spec

(* The type invariant: in particular the counter is never negative.        *)
THEOREM TypeTheorem == Spec => []TypeOK
<1>1. Inv => TypeOK
    BY DEF Inv
<1> QED BY InitInv, StepInv, <1>1, PTL DEF Spec

-----------------------------------------------------------------------------
(* What a sender may rely on.                                              *)

(* A frame is refused as "send queue full" only when max_send_queue_size   *)
(* frames are at the socket at that moment: no slot that is lost, counted  *)
(* twice or only acquired makes send_raw refuse.                           *)
RefusedOnlyWhenFull ==
    [][\A s \in Senders :
          pc'[s] = "full" =>
             pc[s] = "full" \/ Cardinality(At("sending")) = limit]_vars

(* When no send is under way every slot is free and the next frame passes  *)
(* the test, however many sends failed, timed out or were cancelled.       *)
RestedQueueAccepts ==
    Bounded /\ (\A s \in Senders : Idle(s)) => free = limit /\ ~QueueFull

(* The test of the counter is a test of the frames at the socket.          *)
LEMMA CounterCountsFrames ==
    ASSUME Inv, Bounded
    PROVE  /\ limit \in Nat /\ free \in Nat /\ pending = Cardinality(At("sending"))
           /\ Cardinality(At("sending")) \in Nat
           /\ Cardinality(At("acquired")) \in Nat
           /\ free + Cardinality(At("sending")) + Cardinality(At("acquired")) = limit
BY AtIsFinite, LimitsAssumption DEF Inv, TypeOK, SlotsAccounted

THEOREM RefusalTheorem == Spec => RefusedOnlyWhenFull
<1>1. ASSUME Inv, [Next]_vars, NEW s \in Senders, pc'[s] = "full", pc[s] # "full"
      PROVE  Cardinality(At("sending")) = limit
    <2>1. pc \in [Senders -> Places]
        BY <1>1 DEF Inv, TypeOK
    <2>2. RefuseFull(s)
        BY <1>1, <2>1 DEF Next, SenderStep, RefuseClosed, RefuseFull,
            SendUnbounded, BeginInline, BeginWait, Acquire, AcquireTimesOut,
            StartSending, Sent, SendFails, CancelWait, Close, Stall, Goto, vars
    <2>3. Bounded /\ pending >= limit
        BY <2>2 DEF RefuseFull, QueueFull
    <2> QED BY <1>1, <2>3, CounterCountsFrames
<1>2. Inv /\ [Next]_vars =>
        [\A s \in Senders :
            pc'[s] = "full" =>
               pc[s] = "full" \/ Cardinality(At("sending")) = limit]_vars
    BY <1>1
<1> QED BY InitInv, StepInv, <1>2, PTL DEF Spec, RefusedOnlyWhenFull

THEOREM RestTheorem == Spec => []RestedQueueAccepts
<1>1. ASSUME Inv, Bounded, \A s \in Senders : Idle(s)
      PROVE  free = limit /\ ~QueueFull
    <2>1. At("sending") = {} /\ At("acquired") = {}
        BY <1>1 DEF At, Idle, Outcomes
    <2>2. Cardinality(At("sending")) = 0 /\ Cardinality(At("acquired")) = 0
        BY <2>1, FS_EmptySet
    <2> QED BY <1>1, <2>2, CounterCountsFrames DEF QueueFull, Bounded
<1>2. Inv => RestedQueueAccepts
    BY <1>1 DEF RestedQueueAccepts
<1> QED BY InitInv, StepInv, <1>2, PTL DEF Spec

=============================================================================
