--------------------------- MODULE MCPayoutEngine ---------------------------
(* Small instances of the payout engine for TLC.                           *)
EXTENDS PayoutEngine, TLC

CONSTANTS a1, a2, w1, w2

\* Two accruals for two wallets, or both for the first one.
TwoWallets == a1 :> w1 @@ a2 :> w2
OneAccrual == a1 :> w1

\* A bound: two transactions in all, of two batches or two attempts of one.
TwoTransactions ==
  Cardinality({p \in Batches \X Keys : tx[p[1]][p[2]].status # "none"}) <= 2

Replicas == Permutations(Clients)
=============================================================================
