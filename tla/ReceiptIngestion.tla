-------------------------- MODULE ReceiptIngestion --------------------------
(***************************************************************************)
(* From a submitted receipt to a payable commission: request handlers      *)
(* ingest receipts concurrently (look up, verify, save under the unique    *)
(* constraints of payment_receipts, recover from a lost race), replicas of *)
(* ReceiptChainVerificationWorker check the settlement on chain and make   *)
(* the accrual available or reject it, and the payout engine moves what is *)
(* available.  Saving a receipt emits its receipt.accepted.v1 event.       *)
(*                                                                         *)
(* Receipts are the distinct receipt objects that may be submitted, any    *)
(* number of times; two of them may claim the same receipt id, payment id  *)
(* or settlement transaction.                                              *)
(***************************************************************************)
EXTENDS Naturals, Sequences

CONSTANTS Receipts,      \* the receipt objects
          Key,           \* their identifiers, per unique column
          Settlements,   \* settlement transactions
          Commissioned,  \* receipts with a route and a positive credit
          Matching,      \* receipts that agree with their settlement's transfers
          Handlers,      \* request handlers
          Workers,       \* replicas of the chain verification worker
          AttemptCap, MayCrash

\* The unique columns of payment_receipts, in the order they are looked up.
Fields == <<"receiptHash", "receiptId", "paymentId", "settlementTxSignature">>

ASSUME ReceiptAssumption ==
  /\ \A f \in {Fields[i] : i \in DOMAIN Fields} : DOMAIN Key[f] = Receipts
  /\ \A r, s \in Receipts : Key["receiptHash"][r] = Key["receiptHash"][s] => r = s
  /\ \A r \in Receipts : Key["settlementTxSignature"][r] \in Settlements
  /\ Commissioned \subseteq Receipts /\ Matching \subseteq Receipts
  /\ AttemptCap \in Nat \ {0} /\ MayCrash \in BOOLEAN

VARIABLES
  receipt,   \* payment_receipts.verification_state, "none" when not stored
  accrual,   \* commission_accruals.status, "none" when there is no accrual
  outbox,    \* the receipt.accepted.v1 event of each receipt
  answers,   \* the answers submitters of a receipt have been given
  chain,     \* what has become of each settlement transaction
  op         \* what each handler and worker is doing

INSTANCE Outbox WITH Events <- Receipts

Actors == Handlers \cup Workers
db   == <<receipt, accrual, outbox>>
vars == <<receipt, accrual, outbox, answers, chain, op>>

SettlementOf(r) == Key["settlementTxSignature"][r]
Decided == {"signature_verified", "chain_rejected"}

Idle == [pc |-> "idle"]
Ops == {Idle}
  \cup [pc : {"look"}, r : Receipts, at : DOMAIN Fields, again : BOOLEAN]
  \cup [pc : {"verify", "save", "read", "delivered", "retried", "dead"}, r : Receipts]
  \cup [pc : {"decide"}, r : Receipts, verdict : {"confirmed", "rejected"}]

TypeOK ==
  /\ receipt \in [Receipts -> {"none", "pending_chain_verification"} \cup Decided]
  /\ accrual \in [Receipts -> {"none", "pending_chain_verification", "available",
                               "allocated", "paid", "rejected"}]
  /\ OutboxTypeOK
  /\ answers \in [Receipts -> SUBSET {"created", "duplicate", "conflict", "rejected", "error"}]
  /\ chain \in [Settlements -> {"pending", "failing", "failed", "settled"}]
  /\ op \in [Actors -> Ops]

Init ==
  /\ receipt = [r \in Receipts |-> "none"]
  /\ accrual = [r \in Receipts |-> "none"]
  /\ OutboxInit
  /\ answers = [r \in Receipts |-> {}]
  /\ chain = [t \in Settlements |-> "pending"]
  /\ op = [c \in Actors |-> Idle]

-----------------------------------------------------------------------------
(* Ingesting a receipt                                                     *)

Stored == {r \in Receipts : receipt[r] # "none"}

\* Each lookup is a query of its own; the first one is by hash.
Looking(r, again) == [pc |-> "look", r |-> r, at |-> 1, again |-> again]

Submit(c, r) ==
  /\ op[c] = Idle
  /\ op' = [op EXCEPT ![c] = Looking(r, FALSE)]
  /\ UNCHANGED <<db, answers, chain>>

Answer(c, r, a) ==
  /\ answers' = [answers EXCEPT ![r] = @ \cup {a}]
  /\ op' = [op EXCEPT ![c] = Idle]

\* Slip: the settlement transaction is not looked up.
LastLookupForgotten == Len(Fields) - 1

LastLookup == Len(Fields)

\* A receipt found by its hash is a duplicate, one found by another field a
\* conflict.  When nothing is found the first round goes on to verify the
\* receipt; the second one rethrows the error of the store.
Look(c) ==
  /\ op[c].pc = "look"
  /\ LET o == op[c]
         found == \E s \in Stored : Key[Fields[o.at]][s] = Key[Fields[o.at]][o.r]
     IN  IF found
         THEN Answer(c, o.r, IF o.at = 1 THEN "duplicate" ELSE "conflict")
         ELSE IF o.at < LastLookup
         THEN op' = [op EXCEPT ![c].at = @ + 1] /\ UNCHANGED answers
         ELSE IF o.again
         THEN Answer(c, o.r, "error")
         ELSE op' = [op EXCEPT ![c] = [pc |-> "verify", r |-> o.r]] /\ UNCHANGED answers
  /\ UNCHANGED <<db, chain>>

\* Signature and policy: what they read (keys, campaign and route) is left open.
VerifySignatureAndPolicy(c) ==
  /\ op[c].pc = "verify"
  /\ LET r == op[c].r
     IN  \/ Answer(c, r, "rejected")
         \/ op' = [op EXCEPT ![c] = [pc |-> "save", r |-> r]] /\ UNCHANGED answers
  /\ UNCHANGED <<db, chain>>

\* Slip: the settlement transaction signature is not unique.
CollidesOnId(r) ==
  \E s \in Stored : \E f \in {"receiptHash", "receiptId", "paymentId"} :
    Key[f][s] = Key[f][r]

Collides(r) ==
  \E s \in Stored : \E i \in DOMAIN Fields : Key[Fields[i]][s] = Key[Fields[i]][r]

\* Receipt, accrual, ledger transaction and event are inserted in one
\* transaction; a unique violation sends the handler back to the lookups.
Save(c) ==
  /\ op[c].pc = "save"
  /\ LET r == op[c].r
     IN  IF Collides(r)
         THEN /\ op' = [op EXCEPT ![c] = Looking(r, TRUE)]
              /\ UNCHANGED <<db, answers>>
         ELSE /\ receipt' = [receipt EXCEPT ![r] = "pending_chain_verification"]
              /\ accrual' = [accrual EXCEPT ![r] = IF r \in Commissioned
                               THEN "pending_chain_verification" ELSE "none"]
              /\ Insert(r)
              /\ Answer(c, r, "created")
  /\ UNCHANGED chain

-----------------------------------------------------------------------------
(* Verifying settlements on chain                                          *)

ChainStep(t, from, to) ==
  /\ chain[t] \in from
  /\ chain' = [chain EXCEPT ![t] = to]
  /\ UNCHANGED <<db, answers, op>>

\* A transaction may fail on a fork that is dropped later.
Settle(t)     == ChainStep(t, {"pending", "failing"}, "settled")
FailOnFork(t) == ChainStep(t, {"pending"}, "failing")
Fail(t)       == ChainStep(t, {"pending", "failing"}, "failed")

\* The verifier retries whatever it cannot see, and rejects a transaction that
\* has an error at any commitment or does not pay what the receipt says.
Verdicts(r) ==
  LET seen == chain[SettlementOf(r)]
  IN  {"retry"}
        \cup (IF seen = "settled" /\ r \in Matching THEN {"confirmed"} ELSE {})
        \cup (IF seen = "settled" /\ r \notin Matching THEN {"rejected"} ELSE {})
        \cup (IF seen \in {"failing", "failed"} THEN {"rejected"} ELSE {})

ClaimNext(w, r) ==
  /\ op[w] = Idle
  /\ Claim(r)
  /\ op' = [op EXCEPT ![w] = [pc |-> "read", r |-> r]]
  /\ UNCHANGED <<receipt, accrual, answers, chain>>

\* The snapshot is read and its settlement verified; the verdict is then acted
\* upon, however late.
VerifySettlement(w) ==
  /\ op[w].pc = "read"
  /\ LET r == op[w].r
     IN  \E v \in Verdicts(r) :
           op' = [op EXCEPT ![w] = IF v = "retry" THEN [pc |-> "retried", r |-> r]
                                   ELSE [pc |-> "decide", r |-> r, verdict |-> v]]
  /\ UNCHANGED <<db, answers, chain>>

Pending(s) == s = "pending_chain_verification"

\* Slip: only the receipt's update compares the status.
AccrualOverwritten(r, to) == [accrual EXCEPT ![r] = IF @ = "none" THEN @ ELSE to]

AccrualDecided(r, to) == [accrual EXCEPT ![r] = IF Pending(@) THEN to ELSE @]

\* markReceiptChainVerified and markReceiptChainRejected: each row is updated
\* only while its verification is pending.
Decide(w) ==
  /\ op[w].pc = "decide"
  /\ LET r == op[w].r
         confirmed == op[w].verdict = "confirmed"
     IN  /\ receipt' = [receipt EXCEPT ![r] =
                          IF ~ Pending(@) THEN @
                          ELSE IF confirmed THEN "signature_verified" ELSE "chain_rejected"]
         /\ accrual' = AccrualDecided(r, IF confirmed THEN "available" ELSE "rejected")
         /\ op' = [op EXCEPT ![w] = [pc |-> IF confirmed THEN "delivered" ELSE "dead", r |-> r]]
  /\ UNCHANGED <<outbox, answers, chain>>

MarkEvent(w) ==
  /\ op[w].pc \in {"delivered", "retried", "dead"}
  /\ IF op[w].pc = "delivered" THEN MarkDelivered(op[w].r)
                               ELSE MarkFailed(op[w].r, op[w].pc = "dead")
  /\ op' = [op EXCEPT ![w] = Idle]
  /\ UNCHANGED <<receipt, accrual, answers, chain>>

\* A merchant may requeue any dead letter of its own by id.
RequeueEvent(r) == Requeue(r) /\ UNCHANGED <<receipt, accrual, answers, chain, op>>

\* A request or a worker dies, or the database fails under it.
Crash(c) ==
  /\ MayCrash
  /\ op[c] # Idle
  /\ op' = [op EXCEPT ![c] = Idle]
  /\ UNCHANGED <<db, answers, chain>>

-----------------------------------------------------------------------------
(* What the payout engine does to an accrual                               *)

PayoutStep(r, from, to) ==
  /\ accrual[r] = from
  /\ accrual' = [accrual EXCEPT ![r] = to]
  /\ UNCHANGED <<receipt, outbox, answers, chain, op>>

Allocate(r) == PayoutStep(r, "available", "allocated")
Release(r)  == PayoutStep(r, "allocated", "available")
Pay(r)      == PayoutStep(r, "allocated", "paid")

Next ==
  \/ \E c \in Handlers, r \in Receipts : Submit(c, r)
  \/ \E c \in Handlers : Look(c) \/ VerifySignatureAndPolicy(c) \/ Save(c)
  \/ \E w \in Workers, r \in Receipts : ClaimNext(w, r)
  \/ \E w \in Workers : VerifySettlement(w) \/ Decide(w) \/ MarkEvent(w)
  \/ \E c \in Actors : Crash(c)
  \/ \E r \in Receipts : RequeueEvent(r) \/ Allocate(r) \/ Release(r) \/ Pay(r)
  \/ \E t \in Settlements : Settle(t) \/ FailOnFork(t) \/ Fail(t)

Spec == Init /\ [][Next]_vars

-----------------------------------------------------------------------------
\* "Duplicate Solana settlement cannot create multiple credits": whatever is
\* submitted concurrently, a settlement transaction is credited once at most.
OneCreditPerSettlement ==
  \A r, s \in Receipts :
    /\ accrual[r] \notin {"none", "rejected"} /\ accrual[s] \notin {"none", "rejected"}
    /\ SettlementOf(r) = SettlementOf(s)
    => r = s

\* A handler that loses the race to the store always finds out to whom: no
\* submission ends in the bare error of the store.
LostRaceIsExplained == \A r \in Receipts : "error" \notin answers[r]

\* Commission that can be or has been paid out rests on a settlement that is on
\* chain and pays what the receipt says, and its receipt says so: no lost, late
\* or repeated verdict makes anything else payable.
PayableIsSettled ==
  \A r \in Receipts : accrual[r] \in {"available", "allocated", "paid"} =>
    /\ r \in Matching /\ chain[SettlementOf(r)] = "settled"
    /\ receipt[r] = "signature_verified"

\* A worker that loops gets an answer about a decided settlement in the end.
Fairness ==
  /\ \A t \in Settlements : WF_vars(Settle(t) \/ Fail(t))
  /\ \A r \in Receipts : SF_vars(\E w \in Workers : ClaimNext(w, r))
  /\ \A w \in Workers :
       /\ WF_vars(VerifySettlement(w)) /\ SF_vars(VerifySettlement(w) /\ op'[w].pc = "decide")
       /\ WF_vars(Decide(w)) /\ WF_vars(MarkEvent(w))

FairSpec == Spec /\ Fairness

\* The worker that claimed the event of a receipt died before it marked it.
Stranded(r) ==
  outbox[r].status = "processing" /\ \A w \in Workers : op[w] = Idle \/ op[w].r # r

\* Every stored receipt is verified or rejected in the end, unless a worker dies
\* with its event.
ReceiptIsDecided ==
  \A r \in Receipts : r \in Stored ~> receipt[r] \in Decided \/ Stranded(r)
=============================================================================
