--------------------------- MODULE MerchantOutbox ---------------------------
(***************************************************************************)
(* The receipt outbox of a merchant (merchant-sdk): an in-memory store,    *)
(* dispatchers that hand its receipts to the control plane, and what the   *)
(* control plane may answer.  A dispatcher does not claim the record it    *)
(* reads, and its marks overwrite whatever the record says by then.        *)
(***************************************************************************)
EXTENDS Naturals

CONSTANTS Payments, Dispatchers, MaxAttempts, NoReceipt

ASSUME OutboxAssumption == MaxAttempts \in Nat \ {0}

VARIABLES
  receipt,   \* the receipt issued for each payment
  outbox,    \* the merchant's record of it
  ingested,  \* receipts on record at the control plane
  tries,     \* how often each has been submitted by its merchant, up to
             \* MaxAttempts, which also stands for a refusal
  dispatch   \* what each dispatcher is doing

outboxVars == <<receipt, outbox, ingested, tries, dispatch>>

Absent   == [status |-> "absent", attempts |-> 0]
Waiting  == [pc |-> "idle"]
Statuses == {"absent", "pending", "accepted", "dead_letter"}
Answers  == {"accepted", "retry", "rejected"}

OutboxTypeOK ==
  /\ outbox \in [Payments -> [status : Statuses, attempts : 0 .. MaxAttempts]]
  /\ ingested \subseteq Payments
  /\ tries \in [Payments -> 0 .. MaxAttempts]
  /\ dispatch \in [Dispatchers ->
       {Waiting}
       \cup [pc : {"submit"}, of : Payments, attempts : 1 .. MaxAttempts, early : BOOLEAN]
       \cup [pc : {"mark"}, of : Payments, attempts : 1 .. MaxAttempts, answer : Answers]]

OutboxInit ==
  /\ receipt = [p \in Payments |-> NoReceipt]
  /\ outbox = [p \in Payments |-> Absent]
  /\ ingested = {}
  /\ tries = [p \in Payments |-> 0]
  /\ dispatch = [d \in Dispatchers |-> Waiting]

\* enqueueReceipt, of a receipt that was just issued.
Enqueue(p) ==
  outbox' = [outbox EXCEPT ![p] = IF @ = Absent THEN [status |-> "pending", attempts |-> 0] ELSE @]

\* The ingestor refuses a receipt whose terms hash is not that of its version.
Conforms(p) == receipt[p].terms = receipt[p].version

\* POST /v1/receipts.  An answer may be lost, and a receipt refused for the
\* state its merchant, campaign or route is in; a copy that overtakes the
\* first may be answered with a conflict.
Submission(p, early, answer) ==
  \/ answer = "accepted" /\ Conforms(p) /\ ingested' = ingested \cup {p}
  \/ answer = "retry" /\ Conforms(p) /\ ingested' = ingested \cup {p}
  \/ answer = "retry" /\ UNCHANGED ingested
  \/ answer = "rejected" /\ UNCHANGED ingested /\ (p \in ingested => early)

Claimable(p) == outbox[p].status = "pending"

\* dispatchNext: claimNextPending copies a record and leaves it as it is.
ClaimNextPending(d, p) ==
  /\ dispatch[d] = Waiting
  /\ Claimable(p)
  /\ dispatch' = [dispatch EXCEPT ![d] =
       [pc |-> "submit", of |-> p, attempts |-> outbox[p].attempts + 1,
        early |-> p \notin ingested]]
  /\ UNCHANGED <<receipt, outbox, ingested, tries>>

\* ControlPlaneReceiptSubmitter.submitReceipt
SubmitReceipt(d, answer) ==
  /\ dispatch[d].pc = "submit"
  /\ LET o == dispatch[d]
     IN  /\ Submission(o.of, o.early, answer)
         /\ tries' = [tries EXCEPT ![o.of] =
              IF answer = "rejected" \/ @ = MaxAttempts THEN MaxAttempts ELSE @ + 1]
         /\ dispatch' = [dispatch EXCEPT ![d] =
              [pc |-> "mark", of |-> o.of, attempts |-> o.attempts, answer |-> answer]]
  /\ UNCHANGED <<receipt, outbox>>

\* Slip: an attempt short of the last one is given up.
OutcomeEarly(attempts, answer) ==
  CASE answer = "accepted" -> "accepted"
    [] answer = "rejected" \/ attempts + 1 >= MaxAttempts -> "dead_letter"
    [] OTHER -> "pending"

\* Slip: an exhausted receipt is counted as accepted.
OutcomeAccepted(attempts, answer) ==
  CASE answer = "accepted" \/ attempts >= MaxAttempts -> "accepted"
    [] answer = "rejected" -> "dead_letter"
    [] OTHER -> "pending"

\* What dispatchNext marks the record as.
Outcome(attempts, answer) ==
  CASE answer = "accepted" -> "accepted"
    [] answer = "rejected" \/ attempts >= MaxAttempts -> "dead_letter"
    [] OTHER -> "pending"

\* Slip: a retry does not count the attempt.
MarkRecordUncounted(d) ==
  /\ dispatch[d].pc = "mark"
  /\ LET o == dispatch[d]
         s == Outcome(o.attempts, o.answer)
     IN  outbox' = [outbox EXCEPT ![o.of] =
           [status |-> s, attempts |-> IF s = "pending" THEN o.attempts - 1 ELSE o.attempts]]
  /\ dispatch' = [dispatch EXCEPT ![d] = Waiting]
  /\ UNCHANGED <<receipt, ingested, tries>>

\* markAccepted, markDeadLetter and markRetry compare nothing.
MarkRecord(d) ==
  /\ dispatch[d].pc = "mark"
  /\ LET o == dispatch[d]
     IN  outbox' = [outbox EXCEPT ![o.of] =
           [status |-> Outcome(o.attempts, o.answer), attempts |-> o.attempts]]
  /\ dispatch' = [dispatch EXCEPT ![d] = Waiting]
  /\ UNCHANGED <<receipt, ingested, tries>>

DispatcherStep(d) ==
  \/ \E p \in Payments : ClaimNextPending(d, p)
  \/ \E answer \in Answers : SubmitReceipt(d, answer)
  \/ MarkRecord(d)

-----------------------------------------------------------------------------

\* What the outbox calls accepted is on record at the control plane, although
\* marks of several dispatchers overwrite each other.
AcceptedIsIngested ==
  \A p \in Payments : outbox[p].status = "accepted" => p \in ingested

\* A receipt is given up only when the control plane has refused it or it has
\* been submitted MaxAttempts times.
GivenUpForCause ==
  \A p \in Payments :
    outbox[p].status = "dead_letter" => tries[p] = MaxAttempts

\* Every receipt in the outbox is accepted or given up in the end, however the
\* dispatchers overwrite each other's marks.
ReceiptLeavesOutbox ==
  \A p \in Payments :
    outbox[p].status = "pending" ~> outbox[p].status \in {"accepted", "dead_letter"}
=============================================================================
