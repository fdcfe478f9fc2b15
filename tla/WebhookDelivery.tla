--------------------------- MODULE WebhookDelivery ---------------------------
(***************************************************************************)
(* Delivery of webhook events: replicas of WebhookDispatchWorker claim     *)
(* events from the outbox, POST them to the merchant's endpoint and record *)
(* what came of it.  The endpoint may handle a request whose answer is     *)
(* lost, fail for a while, or refuse; a worker may die between any two     *)
(* steps, and an exception of the database has the same effect.            *)
(***************************************************************************)
EXTENDS Outbox

CONSTANTS Workers, MaxAttempts, MayCrash

ASSUME DeliveryAssumption ==
  /\ MaxAttempts \in 1 .. AttemptCap
  /\ MayCrash \in BOOLEAN

VARIABLES received,  \* events the merchant's endpoint has handled
          op         \* what each worker is doing

vars == <<outbox, received, op>>

Idle == [pc |-> "idle"]

Dispatching(e, n) == [pc |-> "dispatch", event |-> e, attempts |-> n]

Recording(o, result) ==
  [pc |-> "mark", event |-> o.event, attempts |-> o.attempts, result |-> result]

Ops == {Idle}
         \cup [pc : {"dispatch"}, event : Events, attempts : 0 .. AttemptCap]
         \cup [pc : {"mark"}, event : Events, attempts : 0 .. AttemptCap,
               result : {"delivered", "retry", "rejected"}]

TypeOK ==
  /\ OutboxTypeOK
  /\ received \subseteq Events
  /\ op \in [Workers -> Ops]

Init ==
  /\ OutboxInit
  /\ received = {}
  /\ op = [w \in Workers |-> Idle]

\* A receipt or payout transaction commits its event.
Emit(e) == Insert(e) /\ UNCHANGED <<received, op>>

ClaimNext(w, e) ==
  /\ op[w] = Idle
  /\ Claim(e)
  /\ op' = [op EXCEPT ![w] = Dispatching(e, outbox'[e].attempts)]
  /\ UNCHANGED received

\* The endpoint handles the event.  A 2xx answer that arrives counts as
\* delivered; after a lost or late answer, or a 5xx, the worker retries.
DispatchHandled(w) ==
  /\ op[w].pc = "dispatch"
  /\ received' = received \cup {op[w].event}
  /\ \E result \in {"delivered", "retry"} :
       op' = [op EXCEPT ![w] = Recording(op[w], result)]
  /\ UNCHANGED outbox

\* The endpoint does not handle it: no connection or a retryable status, or a
\* status that is not.
DispatchUnhandled(w) ==
  /\ op[w].pc = "dispatch"
  /\ \E result \in {"retry", "rejected"} :
       op' = [op EXCEPT ![w] = Recording(op[w], result)]
  /\ UNCHANGED <<outbox, received>>

\* Slip: off by one, the last attempt is never made.
ExhaustedEarly(n) == n + 1 >= MaxAttempts

\* Slip: attempts are never exhausted.
NeverExhausted(n) == FALSE

HasExhaustedAttempts(n) == n >= MaxAttempts

Mark(w) ==
  /\ op[w].pc = "mark"
  /\ LET o == op[w]
     IN  IF o.result = "delivered"
         THEN MarkDelivered(o.event)
         ELSE MarkFailed(o.event, o.result = "rejected" \/ HasExhaustedAttempts(o.attempts))
  /\ op' = [op EXCEPT ![w] = Idle]
  /\ UNCHANGED received

Crash(w) ==
  /\ MayCrash
  /\ op[w] # Idle
  /\ op' = [op EXCEPT ![w] = Idle]
  /\ UNCHANGED <<outbox, received>>

\* The merchant requeues a dead letter.
RequeueEvent(e) == Requeue(e) /\ UNCHANGED <<received, op>>

Next ==
  \/ \E e \in Events : Emit(e) \/ RequeueEvent(e)
  \/ \E w \in Workers :
       \/ \E e \in Events : ClaimNext(w, e)
       \/ DispatchHandled(w) \/ DispatchUnhandled(w) \/ Mark(w) \/ Crash(w)

Spec == Init /\ [][Next]_vars

-----------------------------------------------------------------------------
Holds(w, e) == op[w] # Idle /\ op[w].event = e

\* However workers crash, retry and requeue, an event is in the hands of one
\* worker at most, so it is never posted twice at the same time.
OneDispatcher ==
  \A e \in Events : \A v, w \in Workers : Holds(v, e) /\ Holds(w, e) => v = w

\* An event is posted MaxAttempts times at most between two requeues.
AttemptsBounded == \A e \in Events : outbox[e].attempts <= MaxAttempts

\* An event whose answers invite a retry is dead-lettered only after the last
\* of its attempts, counted from its last requeue.
RetriesNotCutShort ==
  [][\A e \in Events :
       outbox[e].status = "processing" /\ outbox'[e].status = "dead_letter"
       => \/ outbox[e].attempts = MaxAttempts
          \/ \E w \in Workers : op[w].pc = "mark" /\ op[w].event = e /\ op[w].result = "rejected"]_vars

\* The worker loop runs; each event's turn comes, as claims go by available_at.
Fairness ==
  /\ \A e \in Events : SF_vars(\E w \in Workers : ClaimNext(w, e))
  /\ \A w \in Workers :
       WF_vars(DispatchHandled(w) \/ DispatchUnhandled(w)) /\ WF_vars(Mark(w))

FairSpec == Spec /\ Fairness

\* Its worker died between claim and mark.
Stranded(e) == outbox[e].status = "processing" /\ \A w \in Workers : ~ Holds(w, e)

\* Every event reaches its endpoint and is delivered, or is dead-lettered, in the
\* end, however often its delivery is retried, unless its worker dies with it.
EventIsDecided ==
  \A e \in Events :
    outbox[e].status = "pending" ~>
      \/ outbox[e].status = "delivered" /\ e \in received
      \/ outbox[e].status = "dead_letter" \/ Stranded(e)
=============================================================================
