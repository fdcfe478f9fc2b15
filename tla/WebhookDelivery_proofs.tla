----------------------- MODULE WebhookDelivery_proofs -----------------------
(***************************************************************************)
(* Webhook delivery for any number of events, workers and attempts: an     *)
(* event is in one worker's hands at most, and posted MaxAttempts times at *)
(* most between two requeues.                                              *)
(***************************************************************************)
EXTENDS WebhookDelivery, TLAPS

\* Who holds an event knows its attempts, and the outbox says it is processed;
\* what waits for a claim has an attempt left.
HoldersAgree ==
  \A w \in Workers, e \in Events : Holds(w, e) =>
    outbox[e].status = "processing" /\ outbox[e].attempts = op[w].attempts

AttemptsLeft ==
  \A e \in Events :
    /\ outbox[e].attempts <= MaxAttempts
    /\ outbox[e].status \in {"none", "pending"} => outbox[e].attempts < MaxAttempts

IInv == TypeOK /\ HoldersAgree /\ OneDispatcher /\ AttemptsLeft

\* The inductive invariant holds initially.
LEMMA InitIInv == Init => IInv
  BY DeliveryAssumption, AttemptCapAssumption
  DEF Init, IInv, TypeOK, OutboxTypeOK, OutboxInit, HoldersAgree, OneDispatcher,
      AttemptsLeft, Holds, Ops, Idle

\* Every step preserves it.
LEMMA StepIInv == IInv /\ [Next]_vars => IInv'
<1> SUFFICES ASSUME IInv, [Next]_vars PROVE IInv'
  OBVIOUS
<1> USE DeliveryAssumption, AttemptCapAssumption
<1>1. ASSUME NEW e \in Events, Emit(e) PROVE IInv'
  BY <1>1 DEF IInv, TypeOK, OutboxTypeOK, HoldersAgree, OneDispatcher, AttemptsLeft,
              Holds, Emit, Insert
<1>2. ASSUME NEW e \in Events, RequeueEvent(e) PROVE IInv'
  BY <1>2 DEF IInv, TypeOK, OutboxTypeOK, HoldersAgree, OneDispatcher, AttemptsLeft,
              Holds, RequeueEvent, Requeue
<1>3. ASSUME NEW w \in Workers, NEW e \in Events, ClaimNext(w, e) PROVE IInv'
  <2> DEFINE n == Counted(outbox[e].attempts)
  <2>1. /\ n \in 0 .. AttemptCap /\ n <= MaxAttempts
        /\ outbox[e].status = "pending"
        /\ outbox' = [outbox EXCEPT ![e] = [status |-> "processing", attempts |-> n]]
        /\ op' = [op EXCEPT ![w] = Dispatching(e, n)]
        /\ UNCHANGED received
    BY <1>3 DEF IInv, TypeOK, OutboxTypeOK, AttemptsLeft, ClaimNext, Claim, Counted
  <2> HIDE DEF n
  <2>2. \A v \in Workers : ~ Holds(v, e)
    BY <2>1 DEF IInv, HoldersAgree
  <2>3. TypeOK'
    BY <2>1 DEF IInv, TypeOK, OutboxTypeOK, Dispatching, Ops
  <2>4. HoldersAgree' /\ OneDispatcher' /\ AttemptsLeft'
    BY <2>1, <2>2 DEF IInv, TypeOK, OutboxTypeOK, HoldersAgree, OneDispatcher,
                      AttemptsLeft, Holds, Dispatching, Idle
  <2> QED BY <2>3, <2>4 DEF IInv
<1>4. ASSUME NEW w \in Workers, DispatchHandled(w) \/ DispatchUnhandled(w) PROVE IInv'
  <2>1. /\ op[w].pc = "dispatch" /\ UNCHANGED outbox /\ received' \subseteq Events
        /\ \E result \in {"delivered", "retry", "rejected"} :
             op' = [op EXCEPT ![w] = Recording(op[w], result)]
    BY <1>4 DEF IInv, TypeOK, Ops, Idle, DispatchHandled, DispatchUnhandled
  <2>2. TypeOK'
    BY <2>1 DEF IInv, TypeOK, OutboxTypeOK, Recording, Ops, Idle
  <2>3. HoldersAgree' /\ OneDispatcher' /\ AttemptsLeft'
    BY <2>1 DEF IInv, TypeOK, HoldersAgree, OneDispatcher, AttemptsLeft, Holds,
                Recording, Idle, Ops
  <2> QED BY <2>2, <2>3 DEF IInv
<1>5. ASSUME NEW w \in Workers, Mark(w) PROVE IInv'
  <2> DEFINE e == op[w].event
  <2>1. /\ op[w].pc = "mark" /\ op[w] # Idle /\ e \in Events
        /\ Holds(w, e) /\ op[w].attempts \in 0 .. AttemptCap
    BY <1>5 DEF IInv, TypeOK, Ops, Idle, Mark, Holds
  <2>2. PICK s \in {"delivered", "dead_letter", "pending"} :
          /\ outbox' = [outbox EXCEPT ![e].status = s]
          /\ s = "pending" => outbox[e].attempts < MaxAttempts
    BY <1>5, <2>1
    DEF IInv, TypeOK, OutboxTypeOK, HoldersAgree, Mark, MarkDelivered, MarkFailed, MarkedAs,
        HasExhaustedAttempts
  <2>3. op' = [op EXCEPT ![w] = Idle] /\ UNCHANGED received
    BY <1>5 DEF Mark
  <2>4. \A v \in Workers \ {w} : ~ Holds(v, e)
    BY <2>1 DEF IInv, OneDispatcher
  <2> HIDE DEF e
  <2>5. TypeOK'
    BY <2>1, <2>2, <2>3 DEF IInv, TypeOK, OutboxTypeOK, Ops
  <2>6. HoldersAgree' /\ OneDispatcher' /\ AttemptsLeft'
    BY <2>1, <2>2, <2>3, <2>4 DEF IInv, TypeOK, OutboxTypeOK, HoldersAgree,
                                  OneDispatcher, AttemptsLeft, Holds, Idle
  <2> QED BY <2>5, <2>6 DEF IInv
<1>6. ASSUME NEW w \in Workers, Crash(w) PROVE IInv'
  BY <1>6 DEF IInv, TypeOK, OutboxTypeOK, HoldersAgree, OneDispatcher, AttemptsLeft,
              Holds, Crash, Ops, Idle
<1>7. CASE UNCHANGED vars
  BY <1>7 DEF IInv, TypeOK, OutboxTypeOK, HoldersAgree, OneDispatcher, AttemptsLeft,
              Holds, vars
<1> QED
  BY <1>1, <1>2, <1>3, <1>4, <1>5, <1>6, <1>7 DEF Next

\* OneDispatcher: no event is ever in the hands of two workers.
THEOREM OneDispatcherHolds == Spec => []OneDispatcher
<1>1. IInv => OneDispatcher
  BY DEF IInv
<1> QED
  BY InitIInv, StepIInv, <1>1, PTL DEF Spec

\* AttemptsBounded: MaxAttempts is never exceeded between two requeues.
THEOREM AttemptsBoundedHolds == Spec => []AttemptsBounded
<1>1. IInv => AttemptsBounded
  BY DEF IInv, AttemptsLeft, AttemptsBounded
<1> QED
  BY InitIInv, StepIInv, <1>1, PTL DEF Spec

\* RetriesNotCutShort: whoever dead-letters an event held it with a refusal, or
\* had counted the last of its attempts.
THEOREM RetriesAreNotCutShort == Spec => RetriesNotCutShort
<1> DEFINE Given(e) ==
      \/ outbox[e].attempts = MaxAttempts
      \/ \E w \in Workers : op[w].pc = "mark" /\ op[w].event = e /\ op[w].result = "rejected"
<1>1. ASSUME IInv, [Next]_vars, NEW e \in Events,
             outbox[e].status = "processing", outbox'[e].status = "dead_letter"
      PROVE  Given(e)
  <2> USE DeliveryAssumption, AttemptCapAssumption
  <2>1. ASSUME NEW w \in Workers, Mark(w) PROVE Given(e)
    <3> DEFINE o == op[w]
    <3>1. /\ o.pc = "mark" /\ Holds(w, o.event) /\ o.event \in Events
      BY <1>1, <2>1 DEF IInv, TypeOK, Ops, Idle, Mark, Holds
    <3>2. outbox[o.event].attempts = o.attempts
      BY <1>1, <3>1 DEF IInv, HoldersAgree
    <3>3. /\ o.event = e /\ o.result # "delivered"
          /\ o.result = "rejected" \/ HasExhaustedAttempts(o.attempts)
      BY <1>1, <2>1, <3>1
      DEF IInv, TypeOK, OutboxTypeOK, Mark, MarkDelivered, MarkFailed, MarkedAs
    <3>4. HasExhaustedAttempts(o.attempts) => outbox[e].attempts = MaxAttempts
      BY <1>1, <3>2, <3>3
      DEF HasExhaustedAttempts, IInv, TypeOK, OutboxTypeOK, AttemptsLeft
    <3> QED BY <3>1, <3>3, <3>4
  <2>2. ASSUME NEW d \in Events, Emit(d) \/ RequeueEvent(d) PROVE Given(e)
    BY <1>1, <2>2 DEF IInv, TypeOK, OutboxTypeOK, Emit, Insert, RequeueEvent, Requeue
  <2>3. ASSUME NEW w \in Workers, NEW d \in Events, ClaimNext(w, d) PROVE Given(e)
    BY <1>1, <2>3 DEF IInv, TypeOK, OutboxTypeOK, ClaimNext, Claim
  <2>4. CASE UNCHANGED outbox
    BY <1>1, <2>4
  <2> QED
    BY <1>1, <2>1, <2>2, <2>3, <2>4
    DEF Next, DispatchHandled, DispatchUnhandled, Crash, vars
<1>2. IInv /\ [Next]_vars =>
        [\A e \in Events :
           outbox[e].status = "processing" /\ outbox'[e].status = "dead_letter" => Given(e)]_vars
  BY <1>1
<1> HIDE DEF Given
<1>3. Spec => [][\A e \in Events :
           outbox[e].status = "processing" /\ outbox'[e].status = "dead_letter" => Given(e)]_vars
  BY InitIInv, StepIInv, <1>2, PTL DEF Spec
<1> QED
  BY <1>3 DEF RetriesNotCutShort, Given
=============================================================================
