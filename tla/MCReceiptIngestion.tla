------------------------- MODULE MCReceiptIngestion -------------------------
(* Small instances of receipt ingestion for TLC.                           *)
EXTENDS ReceiptIngestion, TLC

CONSTANTS r1, r2, t1, t2

\* Two receipts with identifiers of their own for the same settlement.
SameSettlement ==
  [f \in {"receiptHash", "receiptId", "paymentId"} |-> r1 :> 1 @@ r2 :> 2]
    @@ "settlementTxSignature" :> (r1 :> t1 @@ r2 :> t1)
=============================================================================
