----------------------- MODULE ReceiptIngestion_proofs -----------------------
(***************************************************************************)
(* Receipt ingestion and chain verification for any number of receipts,    *)
(* settlements, handlers and workers, whichever of their identifiers       *)
(* collide: a settlement is credited once, whoever loses a race is told to *)
(* whom, and only what has been settled is payable.                        *)
(***************************************************************************)
EXTENDS ReceiptIngestion, TLAPS

\* An accrual belongs to a stored receipt, and waits as long as it does.
CreditIsStored  == \A r \in Receipts : accrual[r] # "none" => receipt[r] # "none"
PendingTogether == \A r \in Receipts : Pending(accrual[r]) => Pending(receipt[r])

\* The unique settlement column.
StoredApart ==
  \A r, s \in Stored : SettlementOf(r) = SettlementOf(s) => r = s

\* What an actor may know at its place in this state: the second round of
\* lookups still has the row before it that the store collided with, and a
\* confirmation is true.
Sound(o) ==
  /\ o.pc = "look" /\ o.again =>
       \E i \in DOMAIN Fields : \E s \in Stored :
         i >= o.at /\ Key[Fields[i]][s] = Key[Fields[i]][o.r]
  /\ o.pc = "decide" /\ o.verdict = "confirmed" =>
       o.r \in Matching /\ chain[SettlementOf(o.r)] = "settled"

ActorsSound == \A c \in Actors : Sound(op[c])

IInv ==
  /\ TypeOK /\ CreditIsStored /\ PendingTogether /\ StoredApart /\ ActorsSound
  /\ LostRaceIsExplained /\ PayableIsSettled

LEMMA FieldsShape ==
  /\ DOMAIN Fields = 1 .. 4 /\ LastLookup = 4
  /\ Fields[1] = "receiptHash" /\ Fields[4] = "settlementTxSignature"
  BY DEF Fields, LastLookup

\* The inductive invariant holds initially.
LEMMA InitIInv == Init => IInv
<1> SUFFICES ASSUME Init PROVE IInv
  OBVIOUS
<1>1. TypeOK
  BY ReceiptAssumption DEF Init, TypeOK, OutboxInit, OutboxTypeOK, Ops, Idle
<1>2. CreditIsStored /\ PendingTogether /\ StoredApart
  BY DEF Init, CreditIsStored, PendingTogether, StoredApart, Stored, Pending
<1>3. ActorsSound
  BY DEF Init, ActorsSound, Sound, Idle
<1>4. LostRaceIsExplained /\ PayableIsSettled
  BY DEF Init, LostRaceIsExplained, PayableIsSettled
<1> QED BY <1>1, <1>2, <1>3, <1>4 DEF IInv

\* An actor knows what its place says it knows.
LEMMA OpShape ==
  ASSUME TypeOK, NEW c \in Actors
  PROVE  /\ op[c].pc = "look" =>
              op[c] \in [pc : {"look"}, r : Receipts, at : DOMAIN Fields, again : BOOLEAN]
         /\ op[c].pc \in {"verify", "save", "read", "delivered", "retried", "dead"} =>
              op[c] \in [pc : {"verify", "save", "read", "delivered", "retried", "dead"},
                         r : Receipts]
         /\ op[c].pc = "decide" =>
              op[c] \in [pc : {"decide"}, r : Receipts, verdict : {"confirmed", "rejected"}]
  BY DEF TypeOK, Ops, Idle

-----------------------------------------------------------------------------
(* Preservation                                                            *)

\* A step that only moves an actor on, to a place that fits the state, perhaps
\* with an answer.
LEMMA Moving ==
  ASSUME IInv, NEW c \in Actors, NEW o \in Ops, Sound(o), op' = [op EXCEPT ![c] = o],
         UNCHANGED <<receipt, accrual, chain>>, OutboxTypeOK',
         answers' \in [Receipts -> SUBSET {"created", "duplicate", "conflict", "rejected"}]
  PROVE  IInv'
<1>1. op'[c] = o /\ \A d \in Actors : d # c => op'[d] = op[d]
  BY DEF IInv, TypeOK
<1>2. TypeOK'
  BY DEF IInv, TypeOK
<1>3. CreditIsStored' /\ PendingTogether' /\ StoredApart'
  BY DEF IInv, CreditIsStored, PendingTogether, StoredApart, Stored, Pending
<1>4. ActorsSound'
  BY <1>1 DEF IInv, ActorsSound, Sound, Stored
<1>5. LostRaceIsExplained' /\ PayableIsSettled'
  BY DEF IInv, LostRaceIsExplained, PayableIsSettled
<1> QED BY <1>2, <1>3, <1>4, <1>5 DEF IInv

\* Answers that have been given are none of the bare errors.
LEMMA GivenAnswers ==
  ASSUME IInv
  PROVE  answers \in [Receipts -> SUBSET {"created", "duplicate", "conflict", "rejected"}]
  BY DEF IInv, TypeOK, LostRaceIsExplained

\* Giving an answer ends the request.
LEMMA Answering ==
  ASSUME IInv, NEW c \in Actors, NEW r \in Receipts,
         NEW a \in {"created", "duplicate", "conflict", "rejected"}, Answer(c, r, a)
  PROVE  /\ Idle \in Ops /\ Sound(Idle) /\ op' = [op EXCEPT ![c] = Idle]
         /\ answers' \in [Receipts -> SUBSET {"created", "duplicate", "conflict", "rejected"}]
<1>1. answers' = [answers EXCEPT ![r] = @ \cup {a}]
  BY DEF Answer
<1>2. answers' \in [Receipts -> SUBSET {"created", "duplicate", "conflict", "rejected"}]
  BY <1>1, GivenAnswers
<1>3. Idle \in Ops /\ Sound(Idle)
  BY DEF Ops, Sound, Idle
<1> QED BY <1>2, <1>3 DEF Answer

LEMMA SubmitStep ==
  ASSUME IInv, NEW c \in Handlers, NEW r \in Receipts, Submit(c, r)
  PROVE  IInv'
<1> DEFINE o == Looking(r, FALSE)
<1>1. o \in Ops /\ Sound(o) /\ c \in Actors
  BY FieldsShape DEF Looking, Ops, Sound, Actors
<1>2. op' = [op EXCEPT ![c] = o] /\ UNCHANGED <<db, answers, chain>>
  BY DEF Submit
<1> HIDE DEF o
<1> QED BY <1>1, <1>2, GivenAnswers, Moving DEF IInv, TypeOK, OutboxTypeOK, db

LEMMA LookStep ==
  ASSUME IInv, NEW c \in Handlers, Look(c)
  PROVE  IInv'
<1> DEFINE o == op[c]
           found == \E s \in Stored : Key[Fields[o.at]][s] = Key[Fields[o.at]][o.r]
<1>1. /\ c \in Actors /\ UNCHANGED <<receipt, accrual, outbox, chain>> /\ OutboxTypeOK'
      /\ o \in [pc : {"look"}, r : Receipts, at : 1 .. 4, again : BOOLEAN]
      /\ Sound(o)
  BY OpShape, FieldsShape DEF Look, IInv, TypeOK, OutboxTypeOK, Actors, ActorsSound, db
<1>2. CASE found
  <2>1. Answer(c, o.r, "duplicate") \/ Answer(c, o.r, "conflict")
    BY <1>2 DEF Look
  <2> QED BY <1>1, <2>1, Answering, Moving
<1>3. CASE ~found /\ o.at < LastLookup
  <2> DEFINE next == [o EXCEPT !.at = @ + 1]
  <2>1. op' = [op EXCEPT ![c] = next] /\ UNCHANGED answers
    BY <1>1, <1>3 DEF Look, IInv, TypeOK
  <2>2. next \in [pc : {"look"}, r : Receipts, at : 1 .. 4, again : BOOLEAN]
    BY <1>1, <1>3, FieldsShape
  <2>3. next \in Ops
    BY <2>2, FieldsShape DEF Ops
  <2>4. Sound(next)
    <3> SUFFICES ASSUME o.again
                 PROVE  \E i \in DOMAIN Fields : \E s \in Stored :
                          i >= o.at + 1 /\ Key[Fields[i]][s] = Key[Fields[i]][o.r]
      BY <1>1 DEF Sound
    <3>1. PICK i \in DOMAIN Fields : \E s \in Stored :
            i >= o.at /\ Key[Fields[i]][s] = Key[Fields[i]][o.r]
      BY <1>1 DEF Sound
    <3>2. i # o.at
      BY <1>3, <3>1
    <3> QED BY <1>1, <3>1, <3>2, FieldsShape
  <2> HIDE DEF next
  <2> QED BY <1>1, <2>1, <2>3, <2>4, GivenAnswers, Moving
<1>4. CASE ~found /\ ~(o.at < LastLookup) /\ o.again
  \* The row that collided is still there.
  <2>1. PICK i \in DOMAIN Fields : \E s \in Stored :
          i >= o.at /\ Key[Fields[i]][s] = Key[Fields[i]][o.r]
    BY <1>1, <1>4 DEF Sound
  <2>2. i = o.at
    BY <1>1, <1>4, <2>1, FieldsShape
  <2> QED BY <1>4, <2>1, <2>2
<1>5. CASE ~found /\ ~(o.at < LastLookup) /\ ~o.again
  <2> DEFINE next == [pc |-> "verify", r |-> o.r]
  <2>1. op' = [op EXCEPT ![c] = next] /\ UNCHANGED answers
    BY <1>5 DEF Look
  <2>2. next \in Ops /\ Sound(next)
    BY <1>1 DEF Ops, Sound
  <2> HIDE DEF next
  <2> QED BY <1>1, <2>1, <2>2, GivenAnswers, Moving
<1> QED BY <1>2, <1>3, <1>4, <1>5

LEMMA VerifyStep ==
  ASSUME IInv, NEW c \in Handlers, VerifySignatureAndPolicy(c)
  PROVE  IInv'
<1> DEFINE next == [pc |-> "save", r |-> op[c].r]
<1>1. /\ c \in Actors /\ UNCHANGED <<receipt, accrual, outbox, chain>> /\ OutboxTypeOK'
      /\ op[c].r \in Receipts
      /\ \/ Answer(c, op[c].r, "rejected")
         \/ op' = [op EXCEPT ![c] = next] /\ UNCHANGED answers
  BY OpShape DEF VerifySignatureAndPolicy, IInv, TypeOK, OutboxTypeOK, Actors, db
<1>2. next \in Ops /\ Sound(next)
  BY <1>1 DEF Ops, Sound
<1> HIDE DEF next
<1>3. CASE Answer(c, op[c].r, "rejected")
  BY <1>1, <1>3, Answering, Moving
<1>4. CASE op' = [op EXCEPT ![c] = next] /\ UNCHANGED answers
  BY <1>1, <1>2, <1>4, GivenAnswers, Moving
<1> QED BY <1>1, <1>3, <1>4

\* The unique constraints: what collides goes back to the lookups with the row
\* before it, and what is stored collides with nothing.
LEMMA SaveStep ==
  ASSUME IInv, NEW c \in Handlers, Save(c)
  PROVE  IInv'
<1> DEFINE r == op[c].r
<1>1. c \in Actors /\ r \in Receipts /\ UNCHANGED chain
  BY OpShape DEF Save, IInv, Actors
<1>2. CASE Collides(r)
  <2> DEFINE next == Looking(r, TRUE)
  <2>1. /\ op' = [op EXCEPT ![c] = next]
        /\ UNCHANGED <<receipt, accrual, outbox, answers>> /\ OutboxTypeOK'
    BY <1>2 DEF Save, db, IInv, TypeOK, OutboxTypeOK
  <2>2. next \in Ops
    BY <1>1, FieldsShape DEF Looking, Ops
  <2>3. Sound(next)
    BY <1>2, FieldsShape DEF Looking, Sound, Collides
  <2> HIDE DEF next
  <2> QED BY <1>1, <2>1, <2>2, <2>3, GivenAnswers, Moving
<1>3. CASE ~Collides(r)
  <2>1. /\ receipt' = [receipt EXCEPT ![r] = "pending_chain_verification"]
        /\ accrual' = [accrual EXCEPT ![r] = IF r \in Commissioned
                         THEN "pending_chain_verification" ELSE "none"]
        /\ Insert(r) /\ Answer(c, r, "created")
    BY <1>3 DEF Save
  <2>2. /\ \A s \in Stored : SettlementOf(s) # SettlementOf(r)
        /\ r \notin Stored
    BY <1>1, <1>3, FieldsShape DEF Collides, SettlementOf
  <2>3. /\ receipt'[r] = "pending_chain_verification"
        /\ accrual'[r] \in {"none", "pending_chain_verification"}
        /\ \A s \in Receipts : s # r => receipt'[s] = receipt[s] /\ accrual'[s] = accrual[s]
        /\ Stored' = Stored \cup {r}
    BY <1>1, <2>1 DEF IInv, TypeOK, Stored
  <2>4. Idle \in Ops /\ op' = [op EXCEPT ![c] = Idle]
        /\ answers' \in [Receipts -> SUBSET {"created", "duplicate", "conflict", "rejected"}]
    BY <1>1, <2>1, Answering
  <2>5. TypeOK'
    <3>1. OutboxTypeOK'
      BY <1>1, <2>1 DEF Insert, IInv, TypeOK, OutboxTypeOK
    <3> QED BY <1>1, <2>1, <2>4, <3>1 DEF IInv, TypeOK
  <2>6. CreditIsStored' /\ PendingTogether'
    BY <2>3 DEF IInv, CreditIsStored, PendingTogether, Pending
  <2>7. StoredApart'
    BY <2>2, <2>3 DEF IInv, StoredApart, SettlementOf
  <2>8. ActorsSound'
    <3>1. op'[c] = Idle /\ \A d \in Actors : d # c => op'[d] = op[d]
      BY <1>1, <2>4 DEF IInv, TypeOK
    <3> QED BY <1>1, <2>3, <3>1 DEF IInv, ActorsSound, Sound, Idle
  <2>9. LostRaceIsExplained' /\ PayableIsSettled'
    BY <1>1, <2>3, <2>4 DEF IInv, LostRaceIsExplained, PayableIsSettled
  <2> QED BY <2>5, <2>6, <2>7, <2>8, <2>9 DEF IInv
<1> QED BY <1>2, <1>3

\* What is settled stays settled.
LEMMA ChainStepKeeps ==
  ASSUME IInv, NEW t \in Settlements, Settle(t) \/ FailOnFork(t) \/ Fail(t)
  PROVE  IInv'
<1>1. /\ chain' \in [Settlements -> {"pending", "failing", "failed", "settled"}]
      /\ \A u \in Settlements : chain[u] = "settled" => chain'[u] = "settled"
      /\ UNCHANGED <<receipt, accrual, outbox, answers, op>>
  BY DEF Settle, FailOnFork, Fail, ChainStep, db, IInv, TypeOK
<1>2. TypeOK'
  BY <1>1 DEF IInv, TypeOK, OutboxTypeOK
<1>3. CreditIsStored' /\ PendingTogether' /\ StoredApart' /\ LostRaceIsExplained'
  BY <1>1 DEF IInv, CreditIsStored, PendingTogether, StoredApart, Stored, Pending,
              LostRaceIsExplained
<1>4. \A r \in Receipts : SettlementOf(r) \in Settlements
  BY ReceiptAssumption DEF SettlementOf
<1>5. ActorsSound'
  <2> SUFFICES ASSUME NEW c \in Actors PROVE Sound(op[c])'
    BY DEF ActorsSound
  <2>1. Sound(op[c]) /\ op'[c] = op[c]
    BY <1>1 DEF IInv, ActorsSound
  <2>2. op[c].pc = "decide" => op[c].r \in Receipts
    BY OpShape DEF IInv
  <2> QED BY <1>1, <1>4, <2>1, <2>2 DEF Sound, Stored, SettlementOf
<1>6. PayableIsSettled'
  BY <1>1, <1>4 DEF IInv, PayableIsSettled, SettlementOf
<1> QED BY <1>2, <1>3, <1>5, <1>6 DEF IInv

LEMMA ClaimStep ==
  ASSUME IInv, NEW w \in Workers, NEW r \in Receipts, ClaimNext(w, r)
  PROVE  IInv'
<1> DEFINE o == [pc |-> "read", r |-> r]
<1>1. w \in Actors /\ o \in Ops /\ Sound(o)
  BY DEF Actors, Ops, Sound
<1>2. op' = [op EXCEPT ![w] = o] /\ UNCHANGED <<receipt, accrual, answers, chain>>
  BY DEF ClaimNext
<1> HIDE DEF o
<1>3. OutboxTypeOK'
  BY ReceiptAssumption DEF ClaimNext, Claim, Counted, IInv, TypeOK, OutboxTypeOK
<1> QED BY <1>1, <1>2, <1>3, GivenAnswers, Moving

\* A confirmation is the answer of a chain on which the settlement is final.
LEMMA VerifySettlementStep ==
  ASSUME IInv, NEW w \in Workers, VerifySettlement(w)
  PROVE  IInv'
<1>1. w \in Actors /\ op[w].r \in Receipts
  BY OpShape DEF VerifySettlement, IInv, Actors
<1>2. PICK v \in Verdicts(op[w].r) :
        op' = [op EXCEPT ![w] = IF v = "retry" THEN [pc |-> "retried", r |-> op[w].r]
                                ELSE [pc |-> "decide", r |-> op[w].r, verdict |-> v]]
  BY DEF VerifySettlement
<1>3. /\ v \in {"retry", "confirmed", "rejected"}
      /\ v = "confirmed" => /\ op[w].r \in Matching
                            /\ chain[SettlementOf(op[w].r)] = "settled"
  BY DEF Verdicts
<1> DEFINE o == IF v = "retry" THEN [pc |-> "retried", r |-> op[w].r]
                ELSE [pc |-> "decide", r |-> op[w].r, verdict |-> v]
<1>4. o \in Ops
  BY <1>1, <1>3 DEF Ops
<1>5. Sound(o)
  BY <1>3 DEF Sound
<1>6. op' = [op EXCEPT ![w] = o]
  BY <1>2
<1> HIDE DEF o
<1>7. UNCHANGED <<receipt, accrual, chain, answers>> /\ OutboxTypeOK'
  BY DEF VerifySettlement, db, IInv, TypeOK, OutboxTypeOK
<1> QED BY <1>1, <1>4, <1>5, <1>6, <1>7, GivenAnswers, Moving

\* Both rows are decided together, each only while it is pending.
LEMMA DecideStep ==
  ASSUME IInv, NEW w \in Workers, Decide(w)
  PROVE  IInv'
<1> DEFINE r == op[w].r
           confirmed == op[w].verdict = "confirmed"
           o == [pc |-> IF confirmed THEN "delivered" ELSE "dead", r |-> r]
<1>1. /\ w \in Actors /\ r \in Receipts /\ op[w].pc = "decide"
      /\ confirmed => r \in Matching /\ chain[SettlementOf(r)] = "settled"
  BY OpShape DEF Decide, IInv, Actors, ActorsSound, Sound
<1>2. /\ receipt' = [receipt EXCEPT ![r] =
                       IF ~ Pending(@) THEN @
                       ELSE IF confirmed THEN "signature_verified" ELSE "chain_rejected"]
      /\ accrual' = [accrual EXCEPT ![r] =
                       IF Pending(@) THEN IF confirmed THEN "available" ELSE "rejected" ELSE @]
      /\ op' = [op EXCEPT ![w] = o]
      /\ UNCHANGED <<outbox, answers, chain>>
  BY DEF Decide, AccrualDecided
<1>3. /\ receipt'[r] = IF ~ Pending(receipt[r]) THEN receipt[r]
                       ELSE IF confirmed THEN "signature_verified" ELSE "chain_rejected"
      /\ accrual'[r] = IF Pending(accrual[r])
                       THEN IF confirmed THEN "available" ELSE "rejected" ELSE accrual[r]
      /\ \A s \in Receipts : s # r => receipt'[s] = receipt[s] /\ accrual'[s] = accrual[s]
  BY <1>1, <1>2 DEF IInv, TypeOK
<1>4. o \in Ops /\ Sound(o)
  BY <1>1 DEF Ops, Sound
<1> HIDE DEF confirmed, o
<1>5. TypeOK'
  BY <1>1, <1>2, <1>4 DEF IInv, TypeOK, OutboxTypeOK, Decided, Pending
<1>6. CreditIsStored' /\ PendingTogether'
  BY <1>1, <1>3 DEF IInv, CreditIsStored, PendingTogether, Pending
<1>7. Stored' = Stored
  BY <1>1, <1>3 DEF Stored, Pending
<1>8. StoredApart'
  BY <1>7 DEF IInv, StoredApart, SettlementOf
<1>9. ActorsSound'
  <2>1. op'[w] = o /\ \A d \in Actors : d # w => op'[d] = op[d]
    BY <1>1, <1>2 DEF IInv, TypeOK
  <2> QED BY <1>2, <1>4, <1>7, <2>1 DEF IInv, ActorsSound, Sound
<1>10. LostRaceIsExplained'
  BY <1>2 DEF IInv, LostRaceIsExplained
<1>11. PayableIsSettled'
  <2> SUFFICES ASSUME NEW s \in Receipts, accrual'[s] \in {"available", "allocated", "paid"}
               PROVE  /\ s \in Matching /\ chain'[SettlementOf(s)] = "settled"
                      /\ receipt'[s] = "signature_verified"
    BY DEF PayableIsSettled, SettlementOf
  <2>1. CASE s # r
    BY <1>2, <1>3, <2>1 DEF IInv, PayableIsSettled
  <2>2. CASE s = r /\ Pending(accrual[r])
    BY <1>1, <1>2, <1>3, <2>2 DEF IInv, PendingTogether
  <2>3. CASE s = r /\ ~Pending(accrual[r])
    BY <1>2, <1>3, <2>3 DEF IInv, PayableIsSettled, Pending
  <2> QED BY <2>1, <2>2, <2>3
<1> QED BY <1>5, <1>6, <1>8, <1>9, <1>10, <1>11 DEF IInv

LEMMA MarkEventStep ==
  ASSUME IInv, NEW w \in Workers, MarkEvent(w)
  PROVE  IInv'
<1>1. /\ w \in Actors /\ Idle \in Ops /\ Sound(Idle) /\ op[w].r \in Receipts
      /\ op' = [op EXCEPT ![w] = Idle] /\ UNCHANGED <<receipt, accrual, answers, chain>>
  BY OpShape DEF MarkEvent, Actors, Ops, Sound, Idle, IInv
<1>2. OutboxTypeOK'
  BY <1>1 DEF MarkEvent, MarkDelivered, MarkFailed, MarkedAs, IInv, TypeOK, OutboxTypeOK
<1> QED BY <1>1, <1>2, GivenAnswers, Moving

LEMMA CrashStep ==
  ASSUME IInv, NEW c \in Actors, Crash(c)
  PROVE  IInv'
<1>1. /\ Idle \in Ops /\ Sound(Idle) /\ op' = [op EXCEPT ![c] = Idle]
      /\ UNCHANGED <<receipt, accrual, outbox, answers, chain>> /\ OutboxTypeOK'
  BY DEF Crash, db, Ops, Sound, Idle, IInv, TypeOK, OutboxTypeOK
<1> QED BY <1>1, GivenAnswers, Moving

\* What the payout engine does to what is payable leaves it payable, and a
\* requeue touches only the event.
LEMMA OtherSteps ==
  ASSUME IInv, NEW r \in Receipts, RequeueEvent(r) \/ Allocate(r) \/ Release(r) \/ Pay(r)
  PROVE  IInv'
<1>1. UNCHANGED <<receipt, answers, chain, op>>
  BY DEF RequeueEvent, Allocate, Release, Pay, PayoutStep
<1>2. \A s \in Receipts :
        \/ accrual'[s] = accrual[s]
        \/ /\ accrual[s] \in {"available", "allocated", "paid"}
           /\ accrual'[s] \in {"available", "allocated", "paid"}
  BY DEF RequeueEvent, Allocate, Release, Pay, PayoutStep, IInv, TypeOK
<1>3. TypeOK'
  <2>1. accrual' \in [Receipts -> {"none", "pending_chain_verification", "available",
                                   "allocated", "paid", "rejected"}]
    BY DEF RequeueEvent, Allocate, Release, Pay, PayoutStep, IInv, TypeOK
  <2>2. OutboxTypeOK'
    BY ReceiptAssumption DEF RequeueEvent, Requeue, Allocate, Release, Pay, PayoutStep,
       IInv, TypeOK, OutboxTypeOK
  <2> QED BY <1>1, <2>1, <2>2 DEF IInv, TypeOK
<1>4. CreditIsStored' /\ PendingTogether' /\ PayableIsSettled'
  BY <1>1, <1>2 DEF IInv, CreditIsStored, PendingTogether, PayableIsSettled, Pending
<1>5. StoredApart' /\ ActorsSound' /\ LostRaceIsExplained'
  BY <1>1 DEF IInv, StoredApart, ActorsSound, LostRaceIsExplained, Stored, Sound
<1> QED BY <1>3, <1>4, <1>5 DEF IInv

\* Every step preserves the invariant.
LEMMA NextIInv == IInv /\ [Next]_vars => IInv'
<1> SUFFICES ASSUME IInv, [Next]_vars PROVE IInv'
  OBVIOUS
<1>1. CASE \E c \in Handlers : \/ \E r \in Receipts : Submit(c, r)
                               \/ Look(c) \/ VerifySignatureAndPolicy(c) \/ Save(c)
  BY <1>1, SubmitStep, LookStep, VerifyStep, SaveStep
<1>2. CASE \E w \in Workers : \/ \E r \in Receipts : ClaimNext(w, r)
                              \/ VerifySettlement(w) \/ Decide(w) \/ MarkEvent(w)
  BY <1>2, ClaimStep, VerifySettlementStep, DecideStep, MarkEventStep
<1>3. CASE \E c \in Actors : Crash(c)
  BY <1>3, CrashStep
<1>4. CASE \E r \in Receipts : RequeueEvent(r) \/ Allocate(r) \/ Release(r) \/ Pay(r)
  BY <1>4, OtherSteps
<1>5. CASE \E t \in Settlements : Settle(t) \/ FailOnFork(t) \/ Fail(t)
  BY <1>5, ChainStepKeeps
<1>6. CASE UNCHANGED vars
  BY <1>6 DEF vars, IInv, TypeOK, OutboxTypeOK, CreditIsStored, PendingTogether,
     StoredApart, ActorsSound, LostRaceIsExplained, PayableIsSettled, Stored, Sound
<1> QED BY <1>1, <1>2, <1>3, <1>4, <1>5, <1>6 DEF Next

LEMMA IInvHolds == Spec => []IInv
  BY InitIInv, NextIInv, PTL DEF Spec

-----------------------------------------------------------------------------
(* Theorems                                                                *)

\* TypeOK: receipts, accruals, events, answers and requests have their types.
THEOREM TypeCorrect == Spec => []TypeOK
<1>1. IInv => TypeOK
  BY DEF IInv
<1> QED BY <1>1, IInvHolds, PTL

\* OneCreditPerSettlement: the unique column of payment_receipts, and not the
\* lookups before it, keeps a settlement from being credited twice.
THEOREM CreditedOnce == Spec => []OneCreditPerSettlement
<1>1. IInv => OneCreditPerSettlement
  BY DEF IInv, CreditIsStored, StoredApart, Stored, OneCreditPerSettlement
<1> QED BY <1>1, IInvHolds, PTL

\* LostRaceIsExplained: rows stay, so that the lookups after a unique violation
\* find the row it was about.
THEOREM LostRacesAreExplained == Spec => []LostRaceIsExplained
<1>1. IInv => LostRaceIsExplained
  BY DEF IInv
<1> QED BY <1>1, IInvHolds, PTL

\* PayableIsSettled: late, lost and repeated verdicts of any number of workers
\* make nothing payable but what is settled and verified.
THEOREM PayablesAreSettled == Spec => []PayableIsSettled
<1>1. IInv => PayableIsSettled
  BY DEF IInv
<1> QED BY <1>1, IInvHolds, PTL
=============================================================================
