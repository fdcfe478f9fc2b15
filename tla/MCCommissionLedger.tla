------------------------- MODULE MCCommissionLedger -------------------------
(* Small instances of the commission ledger for TLC.                       *)
EXTENDS CommissionLedger, TLC

\* Three accruals, two of them for one payout wallet.
TwoAndOne == 1 :> 1 @@ 2 :> 2 @@ 3 :> 2

\* A payment that credits nothing, one that pays no fee and one that does.
SmallPrices == {2, 29, 61}

\* Against the definition by comparison: a share is the largest whole amount
\* that is no more than its part of the payment; a whole payment has no rest.
Share(amount, bps, share) ==
  share * 10000 <= amount * bps /\ amount * bps < (share + 1) * 10000

ASSUME CommissionIsShare ==
  \A amount \in 0 .. 60, bps, fee \in {0, 1, 99, 500, 3333, 9999, 10000} :
    LET due == CalculateCommission(amount, bps, fee)
    IN  /\ Share(amount, bps, due.commission)
        /\ Share(due.commission, fee, due.protocolFee)
        /\ due.referrerCredit >= 0
=============================================================================
