----------------------- MODULE PromiseManager_proofs ------------------------
(***************************************************************************)
(* Theorems about PromiseManager, for all sets of calls and ids and all    *)
(* limits.  IndInv (PromiseRefinement) is inductive; the properties the    *)
(* runs check follow from it.                                              *)
(***************************************************************************)
EXTENDS PromiseRefinement, FiniteSetTheorems, TLAPS

(* The initial states satisfy the invariant.                               *)
LEMMA InitIndInv == Init => IndInv
<1> SUFFICES ASSUME Init PROVE IndInv
    OBVIOUS
<1> USE SetsAssumption, NumbersAssumption DEF Init
<1>1. TypeOK
    BY DEF TypeOK, States, InSend, Done, Failed
<1>2. CallsHaveIds /\ RequestsAreKeyed /\ ResponsesAreKeyed
    BY DEF CallsHaveIds, RequestsAreKeyed, ResponsesAreKeyed, Pending, InSend
<1>3. StoredResponseIsSignalled /\ FreshIds /\ OwnAnswer /\ BornInThePast
    BY DEF StoredResponseIsSignalled, FreshIds, OwnAnswer, BornInThePast,
           Started
<1>4. RecentInThePast /\ RecentRemembers /\ CooldownSeparatesReuse
    BY DEF RecentInThePast, RecentRemembers, CooldownSeparatesReuse, Started
<1>5. PendingIsNewest /\ LateAnswersNotMisfiled /\ YoungCallIsAnswerable
    BY DEF PendingIsNewest, LateAnswersNotMisfiled, YoungCallIsAnswerable,
           Pending, Started, InSend
<1>6. SweepIsNear
    BY DEF SweepIsNear, Pending
<1> QED BY <1>1, <1>2, <1>3, <1>4, <1>5, <1>6 DEF IndInv

(* Types, and that only calls with an id wait or are on the wire.          *)
LEMMA TypeStep ==
    ASSUME TypeOK, CallsHaveIds, [Next]_vars
    PROVE  TypeOK' /\ CallsHaveIds'
<1> USE SetsAssumption, NumbersAssumption
    DEF TypeOK, CallsHaveIds, States, InSend, Done, Failed, mgr, task
<1>1. ASSUME NEW c \in Calls, NEW i \in Ids,
             RejectId(c, i) \/ Backpressure(c, i) \/ Collision(c, i)
      PROVE  TypeOK' /\ CallsHaveIds'
    BY <1>1 DEF RejectId, Backpressure, Collision, PassesIdChecks
<1>2. ASSUME NEW c \in Calls, NEW i \in Ids, CreatePromise(c, i)
      PROVE  TypeOK' /\ CallsHaveIds'
    BY <1>2 DEF CreatePromise, PassesIdChecks, PurgeRecent
<1>3. ASSUME NEW c \in Calls, Transmit(c) PROVE TypeOK' /\ CallsHaveIds'
    BY <1>3 DEF Transmit
<1>4. ASSUME NEW c \in Calls, SendFails(c) \/ Cancel(c)
      PROVE  TypeOK' /\ CallsHaveIds'
    BY <1>4 DEF SendFails, Cancel
<1>5. ASSUME NEW c \in Calls, NEW t \in Timeouts, StartWait(c, t)
      PROVE  TypeOK' /\ CallsHaveIds'
    BY <1>5 DEF StartWait
<1>6. ASSUME NEW c \in Calls, StoreResponse(c) PROVE TypeOK' /\ CallsHaveIds'
  <2>1. wire' \in [Calls -> Nat \union {None}]
        /\ \A d \in Calls : wire'[d] # None <=> wire[d] # None
    BY <1>6 DEF StoreResponse
  <2>2. responses' \in [Ids -> Calls \union {None}]
    BY <1>6 DEF StoreResponse
  <2>4. event' \in [Calls -> BOOLEAN]
    <3>1. \/ event' = event
          \/ event' = [event EXCEPT ![requests[idOf[c]]] = TRUE]
      BY <1>6 DEF StoreResponse
    <3> QED BY <3>1
  <2>3. UNCHANGED <<now, nextSweep, requests, recent, closed,
                    pc, idOf, born, deadline, got>>
    BY <1>6 DEF StoreResponse
  <2> QED BY <2>1, <2>2, <2>3, <2>4
<1>7. ASSUME NEW c \in Calls, ReturnResponse(c) PROVE TypeOK' /\ CallsHaveIds'
    BY <1>7 DEF ReturnResponse, HasResponse, Awake, ClearSavedCall
<1>8. ASSUME NEW c \in Calls, RaiseUnanswered(c)
      PROVE  TypeOK' /\ CallsHaveIds'
    BY <1>8 DEF RaiseUnanswered, HasResponse, Awake, ClearSavedCall, UnansweredOutcome
<1>9. CASE Sweep
    BY <1>9 DEF Sweep
<1>10. CASE Close
    BY <1>10 DEF Close
<1>11. CASE Tick
    BY <1>11 DEF Tick
<1>12. CASE UNCHANGED vars
    BY <1>12 DEF vars
<1> QED
    BY <1>1, <1>2, <1>3, <1>4, <1>5, <1>6, <1>7, <1>8, <1>9, <1>10, <1>11,
       <1>12 DEF Next, CallStep, Wake

(* The promise under an id belongs to a live call with that id.            *)
LEMMA RequestsStep ==
    ASSUME TypeOK, CallsHaveIds, RequestsAreKeyed, [Next]_vars
    PROVE  RequestsAreKeyed'
<1> USE SetsAssumption, NumbersAssumption
    DEF TypeOK, CallsHaveIds, RequestsAreKeyed, InSend, mgr, task, Pending, Started
<1>1. ASSUME NEW c \in Calls, NEW i \in Ids,
             RejectId(c, i) \/ Backpressure(c, i) \/ Collision(c, i)
      PROVE  RequestsAreKeyed'
    BY <1>1 DEF RejectId, Backpressure, Collision, PassesIdChecks
<1>2. ASSUME NEW c \in Calls, NEW i \in Ids, CreatePromise(c, i)
      PROVE  RequestsAreKeyed'
    BY <1>2 DEF CreatePromise, PassesIdChecks, InCooldown, PurgeRecent, IdChoice
<1>3. ASSUME NEW c \in Calls, Transmit(c)
      PROVE  RequestsAreKeyed'
    BY <1>3 DEF Transmit
<1>4. ASSUME NEW c \in Calls, SendFails(c) \/ Cancel(c)
      PROVE  RequestsAreKeyed'
    BY <1>4 DEF SendFails, Cancel
<1>5. ASSUME NEW c \in Calls, NEW t \in Timeouts, StartWait(c, t)
      PROVE  RequestsAreKeyed'
    BY <1>5 DEF StartWait
<1>6. ASSUME NEW c \in Calls, StoreResponse(c)
      PROVE  RequestsAreKeyed'
    BY <1>6 DEF StoreResponse
<1>7. ASSUME NEW c \in Calls, ReturnResponse(c)
      PROVE  RequestsAreKeyed'
    BY <1>7 DEF ReturnResponse, HasResponse, Awake, ClearSavedCall
<1>8. ASSUME NEW c \in Calls, RaiseUnanswered(c)
      PROVE  RequestsAreKeyed'
    BY <1>8 DEF RaiseUnanswered, HasResponse, Awake, ClearSavedCall, UnansweredOutcome
<1>9. CASE Sweep
    BY <1>9 DEF Sweep, Expired
<1>10. CASE Close
    BY <1>10 DEF Close
<1>11. CASE Tick
    BY <1>11 DEF Tick
<1>12. CASE UNCHANGED vars
    BY <1>12 DEF vars
<1> QED
    BY <1>1, <1>2, <1>3, <1>4, <1>5, <1>6, <1>7, <1>8, <1>9, <1>10, <1>11,
       <1>12 DEF Next, CallStep, Wake

(* A stored response has that id, was received and is signalled.           *)
LEMMA ResponsesStep ==
    ASSUME TypeOK, CallsHaveIds, RequestsAreKeyed, ResponsesAreKeyed,
           StoredResponseIsSignalled, [Next]_vars
    PROVE  ResponsesAreKeyed' /\ StoredResponseIsSignalled'
<1> USE SetsAssumption, NumbersAssumption
    DEF TypeOK, CallsHaveIds, RequestsAreKeyed, ResponsesAreKeyed,
        StoredResponseIsSignalled, InSend, mgr, task, Pending, Started
<1>1. ASSUME NEW c \in Calls, NEW i \in Ids,
             RejectId(c, i) \/ Backpressure(c, i) \/ Collision(c, i)
      PROVE  ResponsesAreKeyed' /\ StoredResponseIsSignalled'
    BY <1>1 DEF RejectId, Backpressure, Collision, PassesIdChecks
<1>2. ASSUME NEW c \in Calls, NEW i \in Ids, CreatePromise(c, i)
      PROVE  ResponsesAreKeyed' /\ StoredResponseIsSignalled'
    BY <1>2 DEF CreatePromise, PassesIdChecks, InCooldown, PurgeRecent, IdChoice
<1>3. ASSUME NEW c \in Calls, Transmit(c)
      PROVE  ResponsesAreKeyed' /\ StoredResponseIsSignalled'
    BY <1>3 DEF Transmit
<1>4. ASSUME NEW c \in Calls, SendFails(c) \/ Cancel(c)
      PROVE  ResponsesAreKeyed' /\ StoredResponseIsSignalled'
    BY <1>4 DEF SendFails, Cancel
<1>5. ASSUME NEW c \in Calls, NEW t \in Timeouts, StartWait(c, t)
      PROVE  ResponsesAreKeyed' /\ StoredResponseIsSignalled'
    BY <1>5 DEF StartWait
<1>6. ASSUME NEW c \in Calls, StoreResponse(c)
      PROVE  ResponsesAreKeyed' /\ StoredResponseIsSignalled'
    BY <1>6 DEF StoreResponse
<1>7. ASSUME NEW c \in Calls, ReturnResponse(c)
      PROVE  ResponsesAreKeyed' /\ StoredResponseIsSignalled'
    BY <1>7 DEF ReturnResponse, HasResponse, Awake, ClearSavedCall
<1>8. ASSUME NEW c \in Calls, RaiseUnanswered(c)
      PROVE  ResponsesAreKeyed' /\ StoredResponseIsSignalled'
    BY <1>8 DEF RaiseUnanswered, HasResponse, Awake, ClearSavedCall, UnansweredOutcome
<1>9. CASE Sweep
    BY <1>9 DEF Sweep, Expired
<1>10. CASE Close
    BY <1>10 DEF Close
<1>11. CASE Tick
    BY <1>11 DEF Tick
<1>12. CASE UNCHANGED vars
    BY <1>12 DEF vars
<1> QED
    BY <1>1, <1>2, <1>3, <1>4, <1>5, <1>6, <1>7, <1>8, <1>9, <1>10, <1>11,
       <1>12 DEF Next, CallStep, Wake

(* With fresh ids an id names one call, so its answer is its own.          *)
LEMMA FreshStep ==
    ASSUME TypeOK, CallsHaveIds, ResponsesAreKeyed, FreshIds, OwnAnswer,
           [Next]_vars
    PROVE  FreshIds' /\ OwnAnswer'
<1> USE SetsAssumption, NumbersAssumption
    DEF TypeOK, CallsHaveIds, ResponsesAreKeyed, FreshIds, OwnAnswer, InSend, mgr, task, Pending, Started
<1>1. ASSUME NEW c \in Calls, NEW i \in Ids,
             RejectId(c, i) \/ Backpressure(c, i) \/ Collision(c, i)
      PROVE  FreshIds' /\ OwnAnswer'
    BY <1>1 DEF RejectId, Backpressure, Collision, PassesIdChecks
<1>2. ASSUME NEW c \in Calls, NEW i \in Ids, CreatePromise(c, i)
      PROVE  FreshIds' /\ OwnAnswer'
    BY <1>2 DEF CreatePromise, PassesIdChecks, InCooldown, PurgeRecent, IdChoice
<1>3. ASSUME NEW c \in Calls, Transmit(c)
      PROVE  FreshIds' /\ OwnAnswer'
    BY <1>3 DEF Transmit
<1>4. ASSUME NEW c \in Calls, SendFails(c) \/ Cancel(c)
      PROVE  FreshIds' /\ OwnAnswer'
    BY <1>4 DEF SendFails, Cancel
<1>5. ASSUME NEW c \in Calls, NEW t \in Timeouts, StartWait(c, t)
      PROVE  FreshIds' /\ OwnAnswer'
    BY <1>5 DEF StartWait
<1>6. ASSUME NEW c \in Calls, StoreResponse(c)
      PROVE  FreshIds' /\ OwnAnswer'
    BY <1>6 DEF StoreResponse
<1>7. ASSUME NEW c \in Calls, ReturnResponse(c)
      PROVE  FreshIds' /\ OwnAnswer'
    BY <1>7 DEF ReturnResponse, HasResponse, Awake, ClearSavedCall
<1>8. ASSUME NEW c \in Calls, RaiseUnanswered(c)
      PROVE  FreshIds' /\ OwnAnswer'
    BY <1>8 DEF RaiseUnanswered, HasResponse, Awake, ClearSavedCall, UnansweredOutcome
<1>9. CASE Sweep
    BY <1>9 DEF Sweep, Expired
<1>10. CASE Close
    BY <1>10 DEF Close
<1>11. CASE Tick
    BY <1>11 DEF Tick
<1>12. CASE UNCHANGED vars
    BY <1>12 DEF vars
<1> QED
    BY <1>1, <1>2, <1>3, <1>4, <1>5, <1>6, <1>7, <1>8, <1>9, <1>10, <1>11,
       <1>12 DEF Next, CallStep, Wake

(* Recorded times are in the past.                                         *)
LEMMA PastStep ==
    ASSUME TypeOK, BornInThePast, RecentInThePast, [Next]_vars
    PROVE  BornInThePast' /\ RecentInThePast'
<1> USE SetsAssumption, NumbersAssumption
    DEF TypeOK, BornInThePast, RecentInThePast, mgr, task, Pending, Started
<1>1. ASSUME NEW c \in Calls, NEW i \in Ids,
             RejectId(c, i) \/ Backpressure(c, i) \/ Collision(c, i)
      PROVE  BornInThePast' /\ RecentInThePast'
    BY <1>1 DEF RejectId, Backpressure, Collision, PassesIdChecks
<1>2. ASSUME NEW c \in Calls, NEW i \in Ids, CreatePromise(c, i)
      PROVE  BornInThePast' /\ RecentInThePast'
    BY <1>2 DEF CreatePromise, PassesIdChecks, InCooldown, PurgeRecent, IdChoice
<1>3. ASSUME NEW c \in Calls, Transmit(c)
      PROVE  BornInThePast' /\ RecentInThePast'
    BY <1>3 DEF Transmit
<1>4. ASSUME NEW c \in Calls, SendFails(c) \/ Cancel(c)
      PROVE  BornInThePast' /\ RecentInThePast'
    BY <1>4 DEF SendFails, Cancel
<1>5. ASSUME NEW c \in Calls, NEW t \in Timeouts, StartWait(c, t)
      PROVE  BornInThePast' /\ RecentInThePast'
    BY <1>5 DEF StartWait
<1>6. ASSUME NEW c \in Calls, StoreResponse(c)
      PROVE  BornInThePast' /\ RecentInThePast'
    BY <1>6 DEF StoreResponse
<1>7. ASSUME NEW c \in Calls, ReturnResponse(c)
      PROVE  BornInThePast' /\ RecentInThePast'
    BY <1>7 DEF ReturnResponse, HasResponse, Awake, ClearSavedCall
<1>8. ASSUME NEW c \in Calls, RaiseUnanswered(c)
      PROVE  BornInThePast' /\ RecentInThePast'
    BY <1>8 DEF RaiseUnanswered, HasResponse, Awake, ClearSavedCall, UnansweredOutcome
<1>9. CASE Sweep
    BY <1>9 DEF Sweep, Expired
<1>10. CASE Close
    BY <1>10 DEF Close
<1>11. CASE Tick
    BY <1>11 DEF Tick
<1>12. CASE UNCHANGED vars
    BY <1>12 DEF vars
<1> QED
    BY <1>1, <1>2, <1>3, <1>4, <1>5, <1>6, <1>7, <1>8, <1>9, <1>10, <1>11,
       <1>12 DEF Next, CallStep, Wake

(* The purged table still enforces the cooldown.                           *)
LEMMA CooldownStep ==
    ASSUME TypeOK, CallsHaveIds, BornInThePast, RecentInThePast, RecentRemembers,
           CooldownSeparatesReuse, [Next]_vars
    PROVE  RecentRemembers' /\ CooldownSeparatesReuse'
<1> USE SetsAssumption, NumbersAssumption
    DEF TypeOK, CallsHaveIds, BornInThePast, RecentInThePast, RecentRemembers,
        CooldownSeparatesReuse, mgr, task, Pending, Started
<1>1. ASSUME NEW c \in Calls, NEW i \in Ids,
             RejectId(c, i) \/ Backpressure(c, i) \/ Collision(c, i)
      PROVE  RecentRemembers' /\ CooldownSeparatesReuse'
    BY <1>1 DEF RejectId, Backpressure, Collision, PassesIdChecks
<1>2. ASSUME NEW c \in Calls, NEW i \in Ids, CreatePromise(c, i)
      PROVE  RecentRemembers' /\ CooldownSeparatesReuse'
    BY <1>2 DEF CreatePromise, PassesIdChecks, InCooldown, PurgeRecent, IdChoice
<1>3. ASSUME NEW c \in Calls, Transmit(c)
      PROVE  RecentRemembers' /\ CooldownSeparatesReuse'
    BY <1>3 DEF Transmit
<1>4. ASSUME NEW c \in Calls, SendFails(c) \/ Cancel(c)
      PROVE  RecentRemembers' /\ CooldownSeparatesReuse'
    BY <1>4 DEF SendFails, Cancel
<1>5. ASSUME NEW c \in Calls, NEW t \in Timeouts, StartWait(c, t)
      PROVE  RecentRemembers' /\ CooldownSeparatesReuse'
    BY <1>5 DEF StartWait
<1>6. ASSUME NEW c \in Calls, StoreResponse(c)
      PROVE  RecentRemembers' /\ CooldownSeparatesReuse'
    BY <1>6 DEF StoreResponse
<1>7. ASSUME NEW c \in Calls, ReturnResponse(c)
      PROVE  RecentRemembers' /\ CooldownSeparatesReuse'
    BY <1>7 DEF ReturnResponse, HasResponse, Awake, ClearSavedCall
<1>8. ASSUME NEW c \in Calls, RaiseUnanswered(c)
      PROVE  RecentRemembers' /\ CooldownSeparatesReuse'
    BY <1>8 DEF RaiseUnanswered, HasResponse, Awake, ClearSavedCall, UnansweredOutcome
<1>9. CASE Sweep
    BY <1>9 DEF Sweep, Expired
<1>10. CASE Close
    BY <1>10 DEF Close
<1>11. CASE Tick
    BY <1>11 DEF Tick
<1>12. CASE UNCHANGED vars
    BY <1>12 DEF vars
<1> QED
    BY <1>1, <1>2, <1>3, <1>4, <1>5, <1>6, <1>7, <1>8, <1>9, <1>10, <1>11,
       <1>12 DEF Next, CallStep, Wake

(* The pending promise is the newest with its id, so a response that is    *)
(* not later than the cooldown can only be its own.                        *)
LEMMA NewestStep ==
    ASSUME TypeOK, CallsHaveIds, RequestsAreKeyed, BornInThePast,
           StoredResponseIsSignalled, CooldownSeparatesReuse,
           PendingIsNewest, LateAnswersNotMisfiled, [Next]_vars
    PROVE  PendingIsNewest' /\ LateAnswersNotMisfiled'
<1> USE SetsAssumption, NumbersAssumption
    DEF TypeOK, CallsHaveIds, RequestsAreKeyed, BornInThePast,
        StoredResponseIsSignalled, CooldownSeparatesReuse,
        PendingIsNewest, LateAnswersNotMisfiled, mgr, task, Pending, Started
<1>1. ASSUME NEW c \in Calls, NEW i \in Ids,
             RejectId(c, i) \/ Backpressure(c, i) \/ Collision(c, i)
      PROVE  PendingIsNewest' /\ LateAnswersNotMisfiled'
    BY <1>1 DEF RejectId, Backpressure, Collision, PassesIdChecks
<1>2. ASSUME NEW c \in Calls, NEW i \in Ids, CreatePromise(c, i)
      PROVE  PendingIsNewest' /\ LateAnswersNotMisfiled'
    BY <1>2 DEF CreatePromise, PassesIdChecks, InCooldown, PurgeRecent, IdChoice
<1>3. ASSUME NEW c \in Calls, Transmit(c)
      PROVE  PendingIsNewest' /\ LateAnswersNotMisfiled'
    BY <1>3 DEF Transmit
<1>4. ASSUME NEW c \in Calls, SendFails(c) \/ Cancel(c)
      PROVE  PendingIsNewest' /\ LateAnswersNotMisfiled'
    BY <1>4 DEF SendFails, Cancel
<1>5. ASSUME NEW c \in Calls, NEW t \in Timeouts, StartWait(c, t)
      PROVE  PendingIsNewest' /\ LateAnswersNotMisfiled'
    BY <1>5 DEF StartWait
<1>6. ASSUME NEW c \in Calls, StoreResponse(c)
      PROVE  PendingIsNewest' /\ LateAnswersNotMisfiled'
    BY <1>6 DEF StoreResponse
<1>7. ASSUME NEW c \in Calls, ReturnResponse(c)
      PROVE  PendingIsNewest' /\ LateAnswersNotMisfiled'
    BY <1>7 DEF ReturnResponse, HasResponse, Awake, ClearSavedCall
<1>8. ASSUME NEW c \in Calls, RaiseUnanswered(c)
      PROVE  PendingIsNewest' /\ LateAnswersNotMisfiled'
    BY <1>8 DEF RaiseUnanswered, HasResponse, Awake, ClearSavedCall, UnansweredOutcome
<1>9. CASE Sweep
    BY <1>9 DEF Sweep, Expired
<1>10. CASE Close
    BY <1>10 DEF Close
<1>11. CASE Tick
    BY <1>11 DEF Tick
<1>12. CASE UNCHANGED vars
    BY <1>12 DEF vars
<1> QED
    BY <1>1, <1>2, <1>3, <1>4, <1>5, <1>6, <1>7, <1>8, <1>9, <1>10, <1>11,
       <1>12 DEF Next, CallStep, Wake

(* Young calls keep their promise; old promises do not outlive a clean-up. *)
LEMMA AgeStep ==
    ASSUME TypeOK, CallsHaveIds, RequestsAreKeyed, FreshIds, BornInThePast,
           YoungCallIsAnswerable, SweepIsNear, [Next]_vars
    PROVE  YoungCallIsAnswerable' /\ SweepIsNear'
<1> USE SetsAssumption, NumbersAssumption
    DEF TypeOK, CallsHaveIds, RequestsAreKeyed, FreshIds, BornInThePast,
        YoungCallIsAnswerable, SweepIsNear, InSend, mgr, task, Pending, Started
<1>1. ASSUME NEW c \in Calls, NEW i \in Ids,
             RejectId(c, i) \/ Backpressure(c, i) \/ Collision(c, i)
      PROVE  YoungCallIsAnswerable' /\ SweepIsNear'
    BY <1>1 DEF RejectId, Backpressure, Collision, PassesIdChecks
<1>2. ASSUME NEW c \in Calls, NEW i \in Ids, CreatePromise(c, i)
      PROVE  YoungCallIsAnswerable' /\ SweepIsNear'
    BY <1>2 DEF CreatePromise, PassesIdChecks, InCooldown, PurgeRecent, IdChoice
<1>3. ASSUME NEW c \in Calls, Transmit(c)
      PROVE  YoungCallIsAnswerable' /\ SweepIsNear'
    BY <1>3 DEF Transmit
<1>4. ASSUME NEW c \in Calls, SendFails(c) \/ Cancel(c)
      PROVE  YoungCallIsAnswerable' /\ SweepIsNear'
    BY <1>4 DEF SendFails, Cancel
<1>5. ASSUME NEW c \in Calls, NEW t \in Timeouts, StartWait(c, t)
      PROVE  YoungCallIsAnswerable' /\ SweepIsNear'
    BY <1>5 DEF StartWait
<1>6. ASSUME NEW c \in Calls, StoreResponse(c)
      PROVE  YoungCallIsAnswerable' /\ SweepIsNear'
    BY <1>6 DEF StoreResponse
<1>7. ASSUME NEW c \in Calls, ReturnResponse(c)
      PROVE  YoungCallIsAnswerable' /\ SweepIsNear'
    BY <1>7 DEF ReturnResponse, HasResponse, Awake, ClearSavedCall
<1>8. ASSUME NEW c \in Calls, RaiseUnanswered(c)
      PROVE  YoungCallIsAnswerable' /\ SweepIsNear'
    BY <1>8 DEF RaiseUnanswered, HasResponse, Awake, ClearSavedCall, UnansweredOutcome
<1>9. CASE Sweep
    BY <1>9 DEF Sweep, Expired
<1>10. CASE Close
    BY <1>10 DEF Close
<1>11. CASE Tick
    BY <1>11 DEF Tick
<1>12. CASE UNCHANGED vars
    BY <1>12 DEF vars
<1> QED
    BY <1>1, <1>2, <1>3, <1>4, <1>5, <1>6, <1>7, <1>8, <1>9, <1>10, <1>11,
       <1>12 DEF Next, CallStep, Wake

(* IndInv is inductive.                                                    *)
THEOREM IndInvInvariant == Spec => []IndInv
<1>1. IndInv /\ [Next]_vars => IndInv'
  <2> SUFFICES ASSUME IndInv, [Next]_vars PROVE IndInv'
    OBVIOUS
  <2> USE DEF IndInv
  <2>1. TypeOK' /\ CallsHaveIds'
    BY TypeStep
  <2>2. RequestsAreKeyed'
    BY RequestsStep
  <2>3. ResponsesAreKeyed' /\ StoredResponseIsSignalled'
    BY ResponsesStep
  <2>4. FreshIds' /\ OwnAnswer'
    BY FreshStep
  <2>5. BornInThePast' /\ RecentInThePast'
    BY PastStep
  <2>6. RecentRemembers' /\ CooldownSeparatesReuse'
    BY CooldownStep
  <2>7. PendingIsNewest' /\ LateAnswersNotMisfiled'
    BY NewestStep
  <2>8. YoungCallIsAnswerable' /\ SweepIsNear'
    BY AgeStep
  <2> QED BY <2>1, <2>2, <2>3, <2>4, <2>5, <2>6, <2>7, <2>8
<1> QED BY InitIndInv, <1>1, PTL DEF Spec

(* The state is always well typed.                                         *)
THEOREM TypeCorrect == Spec => []TypeOK
<1>1. IndInv => TypeOK
    BY DEF IndInv
<1> QED BY IndInvInvariant, <1>1, PTL

(* Two requests with one id are at least the cooldown apart, whatever the  *)
(* size of the table of recent ids.                                        *)
THEOREM CooldownHolds == Spec => []CooldownSeparatesReuse
<1>1. IndInv => CooldownSeparatesReuse
    BY DEF IndInv
<1> QED BY IndInvInvariant, <1>1, PTL

(* If no response is later than the cooldown, none is filed under another  *)
(* request.                                                                *)
THEOREM NoMisfiledAnswer == Spec => []LateAnswersNotMisfiled
<1>1. IndInv => LateAnswersNotMisfiled
    BY DEF IndInv
<1> QED BY IndInvInvariant, <1>1, PTL

(* A stored response has set the event of the promise under its id.        *)
THEOREM NoLostWakeUp == Spec => []StoredResponseIsSignalled
<1>1. IndInv => StoredResponseIsSignalled
    BY DEF IndInv
<1> QED BY IndInvInvariant, <1>1, PTL

(* With fresh ids a call returns its own response only.                    *)
THEOREM AnswersAreOwn == Spec => []OwnAnswer
<1>1. IndInv => OwnAnswer
    BY DEF IndInv
<1> QED BY IndInvInvariant, <1>1, PTL

(* With fresh ids a call younger than the TTL keeps its promise.           *)
THEOREM YoungCallsKeepPromise == Spec => []YoungCallIsAnswerable
<1>1. IndInv => YoungCallIsAnswerable
    BY DEF IndInv
<1> QED BY IndInvInvariant, <1>1, PTL

(* An abandoned promise stays at most the TTL and one clean-up interval.   *)
THEOREM LeaksAreBounded == Spec => []LeakIsBounded
<1>1. IndInv => LeakIsBounded
    BY NumbersAssumption
       DEF IndInv, TypeOK, SweepIsNear, LeakIsBounded, Pending
<1> QED BY IndInvInvariant, <1>1, PTL

(* A call that returned or timed out has no pending promise.               *)
THEOREM NoPromiseLeftBehind == Spec => []FinishedWaitHoldsNoPromise
<1>1. IndInv => FinishedWaitHoldsNoPromise
    BY DEF IndInv, RequestsAreKeyed, FinishedWaitHoldsNoPromise
<1> QED BY IndInvInvariant, <1>1, PTL

-----------------------------------------------------------------------------
(* The limit on pending requests.                                          *)

(* Pending is finite, as there are finitely many ids.                      *)
LEMMA PendingFinite == IsFiniteSet(Pending)
<1>1. Pending \subseteq Ids
    BY DEF Pending
<1> QED BY <1>1, SetsAssumption, FS_Subset

(* A step adds at most one pending request, and none at the limit.         *)
LEMMA PendingStep ==
    ASSUME TypeOK, PendingBounded, [Next]_vars
    PROVE  PendingBounded'
<1> USE NumbersAssumption DEF PendingBounded
<1>1. ASSUME Pending' \subseteq Pending PROVE PendingBounded'
  <2>1. Cardinality(Pending') <= Cardinality(Pending)
    BY <1>1, PendingFinite, FS_Subset
  <2>2. Cardinality(Pending) \in Nat
    BY PendingFinite, FS_CardinalityType
  <2>3. IsFiniteSet(Pending')
    BY <1>1, PendingFinite, FS_Subset
  <2>4. Cardinality(Pending') \in Nat
    BY <2>3, FS_CardinalityType
  <2> QED BY <2>1, <2>2, <2>4
<1>2. ASSUME NEW c \in Calls, NEW i \in Ids, CreatePromise(c, i)
      PROVE  PendingBounded'
  <2>1. Pending' = Pending \union {i} /\ i \notin Pending
    BY <1>2, SetsAssumption DEF CreatePromise, Pending, TypeOK
  <2>2. Cardinality(Pending') = Cardinality(Pending) + 1
    BY <2>1, PendingFinite, FS_AddElement
  <2>3. Cardinality(Pending) < MaxPending
    BY <1>2, PendingFinite, FS_CardinalityType DEF CreatePromise, AtLimit
  <2>4. Cardinality(Pending) \in Nat
    BY PendingFinite, FS_CardinalityType
  <2> QED BY <2>2, <2>3, <2>4
<1>3. ASSUME NEW c \in Calls, NEW i \in Ids,
             RejectId(c, i) \/ Backpressure(c, i) \/ Collision(c, i)
      PROVE  Pending' \subseteq Pending
    BY <1>3 DEF RejectId, Backpressure, Collision, mgr, Pending
<1>4. ASSUME NEW c \in Calls,
             Transmit(c) \/ SendFails(c) \/ Cancel(c) \/ StoreResponse(c)
      PROVE  Pending' \subseteq Pending
    BY <1>4 DEF Transmit, SendFails, Cancel, StoreResponse, mgr, Pending
<1>5. ASSUME NEW c \in Calls, NEW t \in Timeouts, StartWait(c, t)
      PROVE  Pending' \subseteq Pending
    BY <1>5 DEF StartWait, mgr, Pending
<1>6. ASSUME NEW c \in Calls, Wake(c) PROVE Pending' \subseteq Pending
    BY <1>6 DEF Wake, HasResponse, ReturnResponse, RaiseUnanswered, ClearSavedCall,
                Pending, TypeOK
<1>7. CASE Sweep \/ Close
    BY <1>1, <1>7 DEF Sweep, Close, Pending
<1>8. CASE Tick \/ UNCHANGED vars
    BY <1>1, <1>8 DEF Tick, vars, mgr, Pending
<1> QED
    BY <1>1, <1>2, <1>3, <1>4, <1>5, <1>6, <1>7, <1>8 DEF Next, CallStep

(* _requests never exceeds max_pending_requests.                           *)
THEOREM PendingIsBounded == Spec => []PendingBounded
<1>1. Init => PendingBounded
  <2> SUFFICES ASSUME Init PROVE PendingBounded
    OBVIOUS
  <2>1. Pending = {}
    BY DEF Init, Pending
  <2> QED BY <2>1, FS_EmptySet, NumbersAssumption DEF PendingBounded
<1>2. IndInv /\ PendingBounded /\ [Next]_vars => PendingBounded'
    BY PendingStep DEF IndInv
<1> QED BY IndInvInvariant, <1>1, <1>2, PTL DEF Spec

-----------------------------------------------------------------------------
(* What happens to a response that was stored, and to a call that is       *)
(* ready.                                                                  *)

(* The calls' own steps leave a response that waits for another call.      *)
LEMMA OthersLeaveResponse ==
    ASSUME IndInv, ~Reuse, NEW c \in Calls, pc[c] = "waiting",
           requests[idOf[c]] = c, NEW d \in Calls, d # c, CallStep(d)
    PROVE  /\ pc'[c] = "waiting"
           /\ responses'[idOf[c]] = responses[idOf[c]]
<1> USE SetsAssumption DEF IndInv, TypeOK, mgr, task
<1>1. idOf[c] \in Ids
    BY DEF CallsHaveIds
<1>2. ASSUME NEW i \in Ids, RejectId(d, i) \/ Backpressure(d, i) \/ Collision(d, i)
      PROVE  pc'[c] = "waiting" /\ responses' = responses
    BY <1>2 DEF RejectId, Backpressure, Collision
<1>3. ASSUME NEW i \in Ids, CreatePromise(d, i)
      PROVE  pc'[c] = "waiting" /\ responses' = responses
    BY <1>3 DEF CreatePromise
<1>4. CASE Transmit(d) \/ SendFails(d) \/ Cancel(d)
    BY <1>4 DEF Transmit, SendFails, Cancel
<1>5. ASSUME NEW t \in Timeouts, StartWait(d, t)
      PROVE  pc'[c] = "waiting" /\ responses' = responses
    BY <1>5 DEF StartWait
<1>6. CASE Wake(d)
  <2>1. pc[d] = "waiting" /\ idOf[d] \in Ids
    BY <1>6 DEF Wake, ReturnResponse, RaiseUnanswered, Awake, CallsHaveIds
  <2>2. idOf[d] # idOf[c]
    BY <2>1, <1>1 DEF FreshIds, Started
  <2>3. responses' = [responses EXCEPT ![idOf[d]] = None]
        /\ \E s : pc' = [pc EXCEPT ![d] = s]
    BY <1>6 DEF Wake, ReturnResponse, RaiseUnanswered, ClearSavedCall
  <2> QED BY <2>2, <2>3, <1>1
<1> QED BY <1>2, <1>3, <1>4, <1>5, <1>6 DEF CallStep

(* With fresh ids, a response that was stored for a waiting call is lost   *)
(* only to close(), to the clean-up after the TTL or to a cancellation.    *)
THEOREM StoredResponseReturned == Spec => StoredResponseIsReturned
<1> USE SetsAssumption, NumbersAssumption
<1>1. ASSUME IndInv, [Next]_vars, ~Reuse, NEW c \in Calls,
             pc[c] = "waiting", responses[idOf[c]] # None,
             ~closed', now - born[c] <= Ttl
      PROVE  \/ pc'[c] = "waiting" /\ responses'[idOf[c]] = responses[idOf[c]]
             \/ pc'[c] = "ok" /\ got'[c] = responses[idOf[c]]
             \/ pc'[c] = "cancelled"
  <2> USE <1>1 DEF IndInv, TypeOK, mgr, task
  <2>1. idOf[c] \in Ids /\ c \in Started
    BY DEF CallsHaveIds, Started
  <2>2. CASE closed
    <3>1. closed' = TRUE
      BY <2>2 DEF Next, CallStep, RejectId, Backpressure, Collision, CreatePromise,
                  Transmit, SendFails, StartWait, Cancel, Wake, ReturnResponse,
                  RaiseUnanswered, StoreResponse, Sweep, Close, Tick, vars
    <3> QED BY <3>1
  <2>3. CASE ~closed
    <3>1. requests[idOf[c]] = c
      BY <2>3 DEF YoungCallIsAnswerable
    <3>2. responses[idOf[c]] = c
      BY <2>1 DEF ResponsesAreKeyed, FreshIds, Started
    <3>3. ASSUME NEW d \in Calls, d # c, CallStep(d)
          PROVE  pc'[c] = "waiting" /\ responses'[idOf[c]] = responses[idOf[c]]
      BY <3>1, <3>3, OthersLeaveResponse
    <3>4. CASE CallStep(c)
      <4>1. CASE Wake(c)
        BY <4>1 DEF Wake, ReturnResponse, RaiseUnanswered, HasResponse
      <4>2. CASE Cancel(c)
        BY <4>2 DEF Cancel
      <4>3. \A i \in Ids : /\ ~RejectId(c, i) /\ ~Backpressure(c, i)
                           /\ ~Collision(c, i) /\ ~CreatePromise(c, i)
        BY DEF RejectId, Backpressure, Collision, CreatePromise, PassesIdChecks
      <4>4. /\ ~Transmit(c) /\ ~SendFails(c)
            /\ \A t \in Timeouts : ~StartWait(c, t)
        BY DEF Transmit, SendFails, StartWait, InSend
      <4> QED BY <3>4, <4>1, <4>2, <4>3, <4>4 DEF CallStep
    <3>5. ASSUME NEW d \in Calls, StoreResponse(d)
          PROVE  pc'[c] = "waiting" /\ responses'[idOf[c]] = responses[idOf[c]]
      <4>1. d \in Started /\ pc' = pc
        BY <3>5 DEF StoreResponse, CallsHaveIds, Started
      <4>2. \/ responses' = responses
            \/ responses' = [responses EXCEPT ![idOf[d]] = d]
        BY <3>5 DEF StoreResponse
      <4>3. idOf[d] = idOf[c] => d = c
        BY <4>1, <2>1 DEF FreshIds
      <4> QED BY <4>1, <4>2, <4>3, <3>2, <2>1
    <3>6. CASE Sweep
      <4>1. idOf[c] \notin Expired
        BY <3>1 DEF Expired
      <4> QED BY <3>6, <4>1, <2>1 DEF Sweep
    <3>7. CASE Tick \/ UNCHANGED vars
      BY <3>7 DEF Tick, vars
    <3>8. ~Close
      BY DEF Close
    <3> QED BY <3>3, <3>4, <3>5, <3>6, <3>7, <3>8 DEF Next
  <2> QED BY <2>2, <2>3
<1>2. IndInv /\ [Next]_vars =>
        [~Reuse => \A c \in Calls :
            /\ pc[c] = "waiting" /\ responses[idOf[c]] # None
            /\ ~closed' /\ now - born[c] <= Ttl
            => \/ pc'[c] = "waiting" /\ responses'[idOf[c]] = responses[idOf[c]]
               \/ pc'[c] = "ok" /\ got'[c] = responses[idOf[c]]
               \/ pc'[c] = "cancelled"]_vars
    BY <1>1
<1> QED BY IndInvInvariant, <1>2, PTL DEF Spec, StoredResponseIsReturned

(* A call that can wake up stays so until it does or is cancelled: no      *)
(* event, close or timeout is taken back.  This is why weak fairness of    *)
(* the waking steps is enough for WaitsEnd.                                *)
ReadyStaysReady ==
    [][\A c \in Calls :
          Awake(c) => Awake(c)' \/ pc'[c] \in Done]_vars

THEOREM NoWakeUpTakenBack == Spec => ReadyStaysReady
<1> USE SetsAssumption, NumbersAssumption
<1>1. ASSUME IndInv, [Next]_vars, NEW c \in Calls, Awake(c), pc'[c] \notin Done
      PROVE  Awake(c)'
  <2> USE <1>1 DEF IndInv, TypeOK, mgr, task
  <2>1. ASSUME NEW d \in Calls, CallStep(d) PROVE Awake(c)'
    <3>1. CASE d = c
      <4>1. \A i \in Ids : /\ ~RejectId(c, i) /\ ~Backpressure(c, i)
                           /\ ~Collision(c, i) /\ ~CreatePromise(c, i)
        BY DEF RejectId, Backpressure, Collision, CreatePromise, PassesIdChecks, Awake
      <4>2. /\ ~Transmit(c) /\ \A t \in Timeouts : ~StartWait(c, t)
        BY DEF Transmit, StartWait, Awake
      <4>3. ~Wake(c) /\ ~Cancel(c) /\ ~SendFails(c)
        BY DEF Wake, ReturnResponse, RaiseUnanswered, UnansweredOutcome,
               Cancel, SendFails, Done, Failed
      <4> QED BY <2>1, <3>1, <4>1, <4>2, <4>3 DEF CallStep
    <3>2. CASE d # c
      <4>1. UNCHANGED <<now, closed, event>> /\ pc'[c] = pc[c]
            /\ deadline'[c] = deadline[c]
        BY <2>1, <3>2 DEF CallStep, RejectId, Backpressure, Collision, CreatePromise,
                  Transmit, SendFails, StartWait, Cancel, Wake, ReturnResponse,
                  RaiseUnanswered
      <4> QED BY <4>1 DEF Awake, DeadlinePassed
    <3> QED BY <3>1, <3>2
  <2>2. ASSUME NEW d \in Calls, StoreResponse(d) PROVE Awake(c)'
    <3>1. UNCHANGED <<now, closed, pc, deadline>>
      BY <2>2 DEF StoreResponse
    <3>2. \/ event' = event \/ event' = [event EXCEPT ![requests[idOf[d]]] = TRUE]
      BY <2>2 DEF StoreResponse
    <3> QED BY <3>1, <3>2 DEF Awake, DeadlinePassed
  <2>3. CASE Sweep \/ UNCHANGED vars
    BY <2>3 DEF Sweep, vars, Awake, DeadlinePassed
  <2>4. CASE Close
    BY <2>4 DEF Close, Awake
  <2>5. CASE Tick
    BY <2>5 DEF Tick, Awake, DeadlinePassed
  <2> QED BY <2>1, <2>2, <2>3, <2>4, <2>5 DEF Next
<1>2. IndInv /\ [Next]_vars =>
        [\A c \in Calls : Awake(c) => Awake(c)' \/ pc'[c] \in Done]_vars
    BY <1>1
<1> QED BY IndInvInvariant, <1>2, PTL DEF Spec, ReadyStaysReady

-----------------------------------------------------------------------------
(* The promise manager implements RpcCalls.                                *)

(* Initial states map to initial states.                                   *)
LEMMA InitMaps == Init => RC!Init
<1> SUFFICES ASSUME Init PROVE RC!Init
    OBVIOUS
<1>1. \A c \in Calls : PhaseOf(c) = "idle"
    BY DEF Init, PhaseOf, InSend
<1>2. AnsweredCalls = {}
    BY DEF Init, AnsweredCalls
<1>3. (~closed) = TRUE
    BY DEF Init
<1>4. got = [c \in Calls |-> None]
    BY DEF Init
<1> QED BY <1>1, <1>2, <1>3, <1>4 DEF RC!Init

(* Every step is a step of RpcCalls or leaves its variables unchanged.     *)
LEMMA StepMaps ==
    ASSUME ~Reuse, IndInv, [Next]_vars
    PROVE  [RC!Next]_(RC!vars)
<1> USE SetsAssumption, NumbersAssumption
    DEF TypeOK, CallsHaveIds, IndInv, States, InSend, Done, Failed, mgr, task,
        RC!Finish, RC!Moves, RC!vars, AnsweredCalls, PhaseOf
<1>1. ASSUME NEW c \in Calls, NEW i \in Ids,
             RejectId(c, i) \/ Backpressure(c, i) \/ Collision(c, i)
      PROVE  RC!Refuse(c)
    BY <1>1 DEF RejectId, Backpressure, Collision, PassesIdChecks, RC!Refuse
<1>2. ASSUME NEW c \in Calls, NEW i \in Ids, CreatePromise(c, i)
      PROVE  RC!Start(c) \/ RC!Refuse(c)
    BY <1>2 DEF CreatePromise, PassesIdChecks, RC!Start, RC!Refuse
<1>3. ASSUME NEW c \in Calls, Transmit(c) PROVE UNCHANGED RC!vars
    BY <1>3 DEF Transmit
<1>4. ASSUME NEW c \in Calls, SendFails(c) \/ Cancel(c) PROVE RC!Fail(c)
  <2>1. /\ PhaseOf(c) = "running" /\ PhaseOf(c)' = "failed"
        /\ \A d \in Calls \ {c} : PhaseOf(d)' = PhaseOf(d)
    BY <1>4 DEF SendFails, Cancel
  <2>2. UNCHANGED <<AnsweredCalls, closed, got>>
    BY <1>4 DEF SendFails, Cancel
  <2>3. [d \in Calls |-> PhaseOf(d)']
          = [[d \in Calls |-> PhaseOf(d)] EXCEPT ![c] = "failed"]
    BY <2>1, Zenon
  <2> QED BY <2>1, <2>2, <2>3 DEF RC!Fail
<1>5. ASSUME NEW c \in Calls, NEW t \in Timeouts, StartWait(c, t)
      PROVE  UNCHANGED RC!vars
    BY <1>5 DEF StartWait
<1>6. ASSUME NEW c \in Calls, StoreResponse(c) PROVE RC!Answer(c)
  <2>3. wire[c] \in Nat /\ wire' = [wire EXCEPT ![c] = wire[c] + 1]
    BY <1>6 DEF StoreResponse
  <2>4. wire'[c] \notin {None, 0}
    BY <2>3
  <2>5. \A d \in Calls \ {c} : wire'[d] = wire[d]
    BY <2>3
  <2>1. AnsweredCalls' = AnsweredCalls \union {c}
    BY <2>4, <2>5
  <2>2. UNCHANGED <<pc, closed, got>> /\ PhaseOf(c) # "idle"
    BY <1>6 DEF StoreResponse
  <2> QED BY <2>1, <2>2 DEF RC!Answer
<1>7. ASSUME NEW c \in Calls, ReturnResponse(c) PROVE RC!Return(c)
  <2>1. idOf[c] \in Ids /\ responses[idOf[c]] \in Calls
    BY <1>7 DEF ReturnResponse, HasResponse, Awake
  <2>2. idOf[responses[idOf[c]]] = idOf[c]
        /\ wire[responses[idOf[c]]] \notin {None, 0}
    BY <1>7, <2>1 DEF ReturnResponse, HasResponse, ResponsesAreKeyed
  <2>3. responses[idOf[c]] = c
    BY <2>1, <2>2 DEF FreshIds, Started
  <2>4. c \in AnsweredCalls
    BY <2>2, <2>3
  <2>5. PhaseOf(c) = "running" /\ UNCHANGED <<AnsweredCalls, closed>>
    BY <1>7 DEF ReturnResponse, HasResponse, Awake
  <2>6. PhaseOf(c)' = "ok" /\ \A d \in Calls \ {c} : PhaseOf(d)' = PhaseOf(d)
    BY <1>7 DEF ReturnResponse, HasResponse, Awake
  <2>7. [d \in Calls |-> PhaseOf(d)']
          = [[d \in Calls |-> PhaseOf(d)] EXCEPT ![c] = "ok"]
    BY <2>6, Zenon
  <2>8. got' = [got EXCEPT ![c] = c]
    BY <1>7, <2>3 DEF ReturnResponse
  <2> QED BY <2>4, <2>5, <2>6, <2>7, <2>8 DEF RC!Return
<1>8. ASSUME NEW c \in Calls, RaiseUnanswered(c)
      PROVE  RC!Expire(c) \/ RC!Abort(c)
    BY <1>8 DEF RaiseUnanswered, HasResponse, UnansweredOutcome, Awake, RC!Expire, RC!Abort
<1>9. CASE Sweep
    BY <1>9 DEF Sweep
<1>10. ASSUME Close PROVE RC!Shut
    BY <1>10 DEF Close, RC!Shut
<1>11. CASE Tick
    BY <1>11 DEF Tick
<1>12. CASE UNCHANGED vars
    BY <1>12 DEF vars
<1> QED
    BY <1>1, <1>2, <1>3, <1>4, <1>5, <1>6, <1>7, <1>8, <1>9, <1>10, <1>11,
       <1>12 DEF Next, CallStep, Wake, RC!Next

(* With fresh ids, every behaviour of the promise manager, its callers and *)
(* its peer is one that RpcCalls allows.                                   *)
THEOREM Refinement == ASSUME ~Reuse PROVE Spec => ImplementsRpcCalls
<1>1. IndInv /\ [Next]_vars => [RC!Next]_(RC!vars)
    BY StepMaps
<1> QED
    BY InitMaps, IndInvInvariant, <1>1, PTL
       DEF Spec, ImplementsRpcCalls, RC!Spec

=============================================================================
