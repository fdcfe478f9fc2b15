-------------------------- MODULE CommissionLedger --------------------------
(***************************************************************************)
(* The amounts of the control plane, for one merchant and one asset: what  *)
(* a receipt accrues and what is booked for it, which accruals a payout    *)
(* batch is planned from, what its items amount to, what its closure books *)
(* and what the summaries report.                                          *)
(*                                                                         *)
(* PayoutEngine has the transactions, crashes and races of a batch and no  *)
(* amounts; here its roll-up and its closure are one step each.  Payout    *)
(* wallets and accruals are numbers, in the order of their texts.          *)
(***************************************************************************)
EXTENDS CommissionMath, FiniteSetsExt

CONSTANTS Accruals, Wallets, PayoutWallet,      \* the receipts, and whom they credit
          Prices, CommissionBps, FeeBps,        \* the terms they were made under
          Batches, MaxReleases,                 \* bounds of the instance
          Minimum, MaxRecipients, MaxAccruals   \* what every request for a batch asks

ASSUME LedgerAssumption ==
  /\ IsFiniteSet(Accruals) /\ IsFiniteSet(Wallets) /\ IsFiniteSet(Batches)
  /\ Accruals \subseteq Nat /\ Wallets \subseteq Nat
  /\ PayoutWallet \in [Accruals -> Wallets]
  /\ Prices \subseteq Nat /\ {CommissionBps, FeeBps} \subseteq Bps
  /\ {Minimum, MaxReleases} \subseteq Nat /\ Batches \subseteq Nat \ {0}
  /\ {MaxRecipients, MaxAccruals} \subseteq Nat \ {0}

VARIABLES
  accrual,   \* commission_accruals: status, amount and available_at
  booked,    \* the ledger transaction of an accrual
  batch,     \* payout_batches with their items and allocations
  closed,    \* the ledger transactions of batches
  latest,    \* the last available_at
  releases   \* releases so far

vars == <<accrual, booked, batch, closed, latest, releases>>

Nothing == [liability |-> 0, payable |-> 0, fee |-> 0]
NoBatch == [status |-> "none", total |-> 0, items |-> [w \in {} |-> 0]]

Credits(S)       == SumFunction([a \in S |-> accrual[a].amount])
CreditedTo(S, w) == {a \in S : PayoutWallet[a] = w}
ItemsOf(b)       == DOMAIN batch[b].items

AccrualRows == [status : {"none", "uncredited", "pending", "available", "rejected",
                          "allocated", "paid"},
                amount : Nat, since : Nat]
Bookings    == [liability : Int, payable : Int, fee : Int]
Rows        == [amount : Int, status : {"allocated", "finalized", "released"},
                allocations : SUBSET Accruals]
BatchRows(W) == [status : {"none", "planned", "submitted", "finalized", "cancelled"},
                 total : Int, items : [W -> Rows]]
Closures    == [liability : Int, payable : [Wallets -> Int]]

TypeOK ==
  /\ accrual \in [Accruals -> AccrualRows]
  /\ booked \in [Accruals -> Bookings]
  /\ DOMAIN batch = Batches
  /\ \A b \in Batches : \E W \in SUBSET Wallets : batch[b] \in BatchRows(W)
  /\ closed \in [Batches -> Closures]
  /\ latest \in Nat

Init ==
  /\ accrual = [a \in Accruals |-> [status |-> "none", amount |-> 0, since |-> 0]]
  /\ booked = [a \in Accruals |-> Nothing]
  /\ batch = [b \in Batches |-> NoBatch]
  /\ closed = [b \in Batches |-> [liability |-> 0, payable |-> [w \in Wallets |-> 0]]]
  /\ latest = 0 /\ releases = 0

-----------------------------------------------------------------------------
(* Receipts                                                                *)

\* createSnapshot and save: without a credit nothing is accrued or booked.
Ingest(a, price) ==
  /\ accrual[a].status = "none"
  /\ LET due == CalculateCommission(price, CommissionBps, FeeBps)
     IN  IF due.referrerCredit > 0
         THEN /\ accrual' = [accrual EXCEPT ![a].status = "pending",
                                            ![a].amount = due.referrerCredit]
              /\ booked' = [booked EXCEPT ![a] = [liability |-> - due.commission,
                                                  payable |-> due.referrerCredit,
                                                  fee |-> due.protocolFee]]
         ELSE /\ accrual' = [accrual EXCEPT ![a].status = "uncredited"]
              /\ UNCHANGED booked
  /\ UNCHANGED <<batch, closed, latest, releases>>

\* markReceiptChainVerified: available from the time of the verdict, which may
\* be that of the last one.
Verify(a) ==
  /\ accrual[a].status = "pending"
  /\ latest' \in {latest, latest + 1}
  /\ accrual' = [accrual EXCEPT ![a].status = "available", ![a].since = latest']
  /\ UNCHANGED <<booked, batch, closed, releases>>

\* markReceiptChainRejected: what was booked stays booked.
Reject(a) ==
  /\ accrual[a].status = "pending"
  /\ accrual' = [accrual EXCEPT ![a].status = "rejected"]
  /\ UNCHANGED <<booked, batch, closed, latest, releases>>

-----------------------------------------------------------------------------
(* Planning                                                                *)

Available == {a \in Accruals : accrual[a].status = "available"}

\* The order of selectPayoutEligibleAccruals.
SelectedBefore(a, c) ==
  \/ PayoutWallet[a] < PayoutWallet[c]
  \/ PayoutWallet[a] = PayoutWallet[c] /\ accrual[a].since < accrual[c].since
  \/ PayoutWallet[a] = PayoutWallet[c] /\ accrual[a].since = accrual[c].since /\ a < c

\* The rows of the query; those that another transaction holds are skipped.
EligibleAccruals(free) ==
  {a \in free : Cardinality({c \in free : SelectedBefore(c, a)}) < MaxAccruals}

\* The items of a preview: one per payout wallet.
Oldest(S, w) == Min({accrual[a].since : a \in CreditedTo(S, w)})
Due(S, w)    == Credits(CreditedTo(S, w))

\* comparePayoutItems: the oldest first, then the largest.
ItemBefore(S, v, w) ==
  \/ Oldest(S, v) < Oldest(S, w)
  \/ Oldest(S, v) = Oldest(S, w) /\ Due(S, v) > Due(S, w)
  \/ Oldest(S, v) = Oldest(S, w) /\ Due(S, v) = Due(S, w) /\ v < w

WalletsOf(S)    == {PayoutWallet[a] : a \in S}
Thresholded(S)  == {w \in WalletsOf(S) : Due(S, w) >= Minimum}
FirstOf(S, ws)  == {w \in ws : Cardinality({v \in ws : ItemBefore(S, v, w)}) < MaxRecipients}

\* Slip: the recipients are limited before the small ones are left out.
LimitedThenThresholded(S) == Thresholded(S) \cap FirstOf(S, WalletsOf(S))

SelectedItems(S) == FirstOf(S, Thresholded(S))

\* Slip: the total is that of the items before the limit.
TotalOfThresholded(S) == SumFunction([w \in Thresholded(S) |-> Due(S, w)])

BatchTotal(S) == SumFunction([w \in SelectedItems(S) |-> Due(S, w)])

\* Batches are numbered as they are planned.
Unplanned == {b \in Batches : batch[b] = NoBatch}
NextBatch == IF Unplanned = {} THEN 0 ELSE Min(Unplanned)

\* createPayoutBatchFromAvailableAccruals, one transaction, whose query and
\* selection are made once.
PlanFrom(b, free) ==
  \E S \in {EligibleAccruals(free)} : \E chosen \in {SelectedItems(S)} :
    /\ b = NextBatch /\ chosen # {}
    /\ batch' = [batch EXCEPT ![b] =
         [status |-> "planned", total |-> BatchTotal(S),
          items |-> [w \in chosen |-> [amount |-> Due(S, w), status |-> "allocated",
                                       allocations |-> CreditedTo(S, w)]]]]
    /\ accrual' = [a \in Accruals |->
         IF a \in S /\ PayoutWallet[a] \in chosen
         THEN [accrual[a] EXCEPT !.status = "allocated"] ELSE accrual[a]]
    /\ UNCHANGED <<booked, closed, latest, releases>>

Plan(b) == \E free \in SUBSET Available : PlanFrom(b, free)

-----------------------------------------------------------------------------
(* Payment                                                                 *)

\* An item's transaction becomes final and is rolled up into item and batch.
FinalizeItem(b, w) ==
  /\ batch[b].status \in {"planned", "submitted"}
  /\ w \in ItemsOf(b) /\ batch[b].items[w].status = "allocated"
  /\ LET last == \A v \in ItemsOf(b) \ {w} : batch[b].items[v].status = "finalized"
     IN  batch' = [batch EXCEPT ![b].items[w].status = "finalized",
                                ![b].status = IF last THEN "finalized" ELSE "submitted"]
  /\ UNCHANGED <<accrual, booked, closed, latest, releases>>

\* The accruals that the items of a batch are made of.
Held(b) == UNION {batch[b].items[w].allocations : w \in ItemsOf(b)}

\* releasePayoutBatchAllocations of a batch none of whose transactions landed
\* or can land any more; the allocations are deleted.
Release(b) ==
  /\ batch[b].status = "planned" /\ releases < MaxReleases
  /\ releases' = releases + 1
  /\ accrual' = [a \in Accruals |->
       IF a \in Held(b) THEN [accrual[a] EXCEPT !.status = "available"] ELSE accrual[a]]
  /\ batch' = [batch EXCEPT ![b].status = "cancelled",
                            ![b].items = [w \in ItemsOf(b) |->
                               [batch[b].items[w] EXCEPT !.status = "released",
                                                         !.allocations = {}]]]
  /\ UNCHANGED <<booked, closed, latest>>

ItemTotal(b) == SumFunction([w \in ItemsOf(b) |-> batch[b].items[w].amount])

\* createPayoutFinalizationLedgerTransaction throws otherwise.
Balances(b) == ItemTotal(b) = batch[b].total

Unclosed(b) == closed[b].liability = 0

\* Slip: the referrers are credited again, as when the commission was booked.
ClosureEntriesCredited(b) ==
  [liability |-> - ItemTotal(b),
   payable |-> [w \in Wallets |-> IF w \in ItemsOf(b) THEN batch[b].items[w].amount ELSE 0]]

ClosureEntries(b) ==
  [liability |-> ItemTotal(b),
   payable |-> [w \in Wallets |-> IF w \in ItemsOf(b) THEN - batch[b].items[w].amount ELSE 0]]

\* closeFinalizedPayoutBatchLedger, with markBatchAccrualsPaid.
CloseLedger(b) ==
  /\ batch[b].status = "finalized" /\ Unclosed(b) /\ Balances(b)
  /\ closed' = [closed EXCEPT ![b] = ClosureEntries(b)]
  /\ accrual' = [a \in Accruals |->
       IF a \in Held(b) /\ accrual[a].status = "allocated"
       THEN [accrual[a] EXCEPT !.status = "paid"] ELSE accrual[a]]
  /\ UNCHANGED <<booked, batch, latest, releases>>

-----------------------------------------------------------------------------

Next ==
  \/ \E a \in Accruals : (\E p \in Prices : Ingest(a, p)) \/ Verify(a) \/ Reject(a)
  \/ \E b \in Batches : \/ Plan(b) \/ Release(b) \/ CloseLedger(b)
                        \/ \E w \in Wallets : FinalizeItem(b, w)

Spec == Init /\ [][Next]_vars

\* The merchant asks for a batch again and again, with nobody else planning.
FairSpec == Spec /\ WF_vars(\E b \in Batches : PlanFrom(b, Available))

-----------------------------------------------------------------------------
(* Properties                                                              *)

\* readMerchantObligationStatus: an accrual of a final item counts as paid
\* before the batch is closed.
ObligationStatus(a) ==
  IF \E b \in Batches : \E w \in ItemsOf(b) :
       a \in batch[b].items[w].allocations /\ batch[b].items[w].status = "finalized"
    THEN "paid"
  ELSE IF accrual[a].status \in {"pending", "available", "paid"} THEN accrual[a].status
  ELSE "in_flight"

Summarized  == {a \in Accruals : accrual[a].status \notin {"none", "uncredited", "rejected"}}
Outstanding(S) == Credits({a \in S \cap Summarized : ObligationStatus(a) # "paid"})

\* The balance of an account: what was booked for receipts and for closures.
Payable(w) == SumFunction([a \in CreditedTo(Accruals, w) |-> booked[a].payable])
                + SumFunction([b \in Batches |-> closed[b].payable[w]])
Liability  == SumFunction([a \in Accruals |-> booked[a].liability])
                + SumFunction([b \in Batches |-> closed[b].liability])
Fees       == SumFunction([a \in Accruals |-> booked[a].fee])

TransferredUnclosed(w) ==
  LET unclosed == {b \in Batches : Unclosed(b) /\ w \in ItemsOf(b)
                                     /\ batch[b].items[w].status = "finalized"}
  IN  SumFunction([b \in unclosed |-> batch[b].items[w].amount])
RejectedButBooked(w) ==
  Credits({a \in CreditedTo(Accruals, w) : accrual[a].status = "rejected"})

\* The ledger and the summaries, which are computed from different tables,
\* agree on what each payout wallet is owed, up to what has been transferred and
\* not closed yet and the credits of rejected receipts, which stay booked; and
\* the ledger as a whole sums to zero.
LedgerMatchesSummary ==
  /\ \A w \in Wallets :
       Payable(w) = Outstanding(CreditedTo(Accruals, w))
                      + TransferredUnclosed(w) + RejectedButBooked(w)
  /\ Liability + Fees + SumFunction([w \in Wallets |-> Payable(w)]) = 0

\* However accruals were selected, limited, released and planned again, the
\* closure of a finalized batch does not throw, and clears what was accrued.
ClosureBalances ==
  \A b \in Batches : batch[b].status \in {"planned", "submitted", "finalized"} =>
    /\ Balances(b)
    /\ \A w \in ItemsOf(b) : batch[b].items[w].amount = Credits(batch[b].items[w].allocations)

\* A wallet that is due more than the minimum gets its turn, whatever older or
\* larger or smaller claims there are, as long as requests do not limit the
\* accruals they look at: such a limit is applied in the order of the wallets.
DueIsPlanned ==
  MaxAccruals >= Cardinality(Accruals) =>
    \A w \in Wallets :
      (Due(Available, w) >= Minimum /\ Due(Available, w) > 0)
        ~> ~(Due(Available, w) >= Minimum /\ Due(Available, w) > 0)
=============================================================================
