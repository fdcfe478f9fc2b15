------------------------------- MODULE Outbox -------------------------------
(***************************************************************************)
(* The durable outbox (outbox_events) of the control plane: one row per    *)
(* event, claimed by a worker, then delivered, retried or dead-lettered.   *)
(* Every operation here is a single SQL statement, so a single step; the   *)
(* workers that use them compose these operations with their own steps.    *)
(* The order of claims (available_at, created_at) and the delay before a   *)
(* retry are left open: a pending event may be claimed at any time.        *)
(***************************************************************************)
EXTENDS Naturals

CONSTANTS Events, AttemptCap

ASSUME AttemptCapAssumption == AttemptCap \in Nat \ {0}

VARIABLE outbox  \* status and attempts of each event

OutboxTypeOK ==
  outbox \in [Events ->
    [status : {"none", "pending", "processing", "delivered", "dead_letter"},
     attempts : 0 .. AttemptCap]]

OutboxInit == outbox = [e \in Events |-> [status |-> "none", attempts |-> 0]]

\* Attempts are counted up to AttemptCap.
Counted(n) == IF n < AttemptCap THEN n + 1 ELSE n

Insert(e) ==
  /\ outbox[e].status = "none"
  /\ outbox' = [outbox EXCEPT ![e].status = "pending"]

\* Slip: an event in processing is taken over.
ClaimProcessing(e) ==
  /\ outbox[e].status \in {"pending", "processing"}
  /\ outbox' = [outbox EXCEPT ![e] = [status |-> "processing",
                                      attempts |-> Counted(@.attempts)]]

Claim(e) ==
  /\ outbox[e].status = "pending"
  /\ outbox' = [outbox EXCEPT ![e] = [status |-> "processing",
                                      attempts |-> Counted(@.attempts)]]

\* An event no longer in processing is left alone.
MarkedAs(e, s) ==
  [outbox EXCEPT ![e].status = IF @ = "processing" THEN s ELSE @]

MarkDelivered(e) == outbox' = MarkedAs(e, "delivered")

\* Slip: a retry is dead-lettered too.
MarkFailedForGood(e, deadLetter) == outbox' = MarkedAs(e, "dead_letter")

MarkFailed(e, deadLetter) ==
  outbox' = MarkedAs(e, IF deadLetter THEN "dead_letter" ELSE "pending")

Requeue(e) ==
  /\ outbox[e].status = "dead_letter"
  /\ outbox' = [outbox EXCEPT ![e] = [status |-> "pending", attempts |-> 0]]
=============================================================================
