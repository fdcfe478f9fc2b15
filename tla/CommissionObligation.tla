------------------------ MODULE CommissionObligation ------------------------
(***************************************************************************)
(* What the payout engine promises about every commission accrual: its     *)
(* amount is transferred to the referrer at most once, and the merchant's  *)
(* obligation is cleared in the ledger at most once, after the transfer.   *)
(* (docs/reference/split402_protocol_architecture_v0.1.md, 8.6 and 12.1.)  *)
(***************************************************************************)
EXTENDS Naturals

CONSTANT Accruals

VARIABLES transfers,  \* how often the amount of an accrual was transferred
          clearings   \* how often its obligation was cleared in the ledger

Init == /\ transfers = [a \in Accruals |-> 0]
        /\ clearings = [a \in Accruals |-> 0]

\* A payout transaction lands: everything it carries is transferred.
Transfer(S) ==
  /\ \A a \in S : transfers[a] = 0
  /\ transfers' = [a \in Accruals |-> IF a \in S THEN 1 ELSE transfers[a]]
  /\ UNCHANGED clearings

\* A batch is closed in the ledger.
Clear(S) ==
  /\ \A a \in S : transfers[a] = 1 /\ clearings[a] = 0
  /\ clearings' = [a \in Accruals |-> IF a \in S THEN 1 ELSE clearings[a]]
  /\ UNCHANGED transfers

Next == \E S \in SUBSET Accruals : Transfer(S) \/ Clear(S)

Spec == Init /\ [][Next]_<<transfers, clearings>>
=============================================================================
