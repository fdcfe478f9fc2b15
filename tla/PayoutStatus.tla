---------------------------- MODULE PayoutStatus ----------------------------
(***************************************************************************)
(* The status algebra of a payout batch: the pure functions of             *)
(* packages/control-plane/src/payouts.ts that read the transactions of one *)
(* batch and decide what its items and the batch itself become, and        *)
(* whether its allocations may be released.                                *)
(*                                                                         *)
(* The transactions of a batch are a function from keys <<sequence,        *)
(* attempt>> to records; a key with status "none" has no row.  The items   *)
(* of a batch are a function from destination wallets to statuses (a batch *)
(* has one item per wallet); "none" means no item for that wallet.         *)
(***************************************************************************)
EXTENDS Naturals

BatchStatuses == {"planned", "signing", "submitted", "confirmed", "finalized",
                  "outcome_unknown", "failed", "cancelled"}
ItemStatuses == {"allocated", "submitted", "confirmed", "finalized", "failed",
                 "released"}
TxStatuses == {"signed", "submitted", "confirmed", "finalized", "expired",
               "failed", "outcome_unknown"}
\* What a finality monitor answers about one signature.
Verdicts == {"retry", "outcome_unknown", "expired", "failed", "confirmed",
             "finalized"}

\* The order of the transaction listing: sequence, then attempt.
Before(k, l) == k[1] < l[1] \/ (k[1] = l[1] /\ k[2] < l[2])

Existing(txs) == {k \in DOMAIN txs : txs[k].status # "none"}

-----------------------------------------------------------------------------
(* Rolling transaction statuses up into item and batch statuses            *)

LatestAttempts(txs) ==
  {k \in Existing(txs) :
     \A l \in Existing(txs) : l[1] = k[1] => l[2] <= k[2]}

\* The transaction statuses that dictate the status of the items they carry.
DictatesItems == {"submitted", "confirmed", "finalized", "failed"}

TerminalFailure == {"failed", "expired", "outcome_unknown"}

\* Active transactions are applied in order, so of those that carry an item
\* the last one wins; an item no dictating transaction carries keeps its status.
RolledItem(items, txs, w) ==
  LET carrying == {k \in LatestAttempts(txs) : /\ w \in txs[k].items
                                               /\ txs[k].status \in DictatesItems}
      last == {k \in carrying : \A l \in carrying : ~ Before(k, l)}
  IN  IF items[w] = "none" \/ last = {}
      THEN items[w] ELSE txs[CHOOSE k \in last : TRUE].status

\* Slip: one finalized item is taken for all of them.
RolledStatusAnyFinalized(items, txs) ==
  IF \E w \in DOMAIN items : RolledItem(items, txs, w) = "finalized"
  THEN "finalized" ELSE "submitted"

RolledStatus(items, txs) ==
  LET active  == LatestAttempts(txs)
      failing == {k \in active : txs[k].status \in TerminalFailure}
      first   == CHOOSE k \in failing : \A l \in failing : ~ Before(l, k)
      now     == {RolledItem(items, txs, w) : w \in DOMAIN items} \ {"none"}
  IN  IF failing # {}
      THEN IF txs[first].status = "failed" THEN "failed" ELSE "outcome_unknown"
      ELSE IF now \subseteq {"finalized"} THEN "finalized"
      ELSE IF now \subseteq {"confirmed", "finalized"} THEN "confirmed"
      ELSE IF now \cap {"submitted", "confirmed", "finalized"} # {} THEN "submitted"
      ELSE "signing"

\* The writes of one roll-up: the batch status, and the items whose status the
\* roll-up changes ("none" for an item it does not touch).
Rollup(items, txs) ==
  [status |-> RolledStatus(items, txs),
   items  |-> [w \in DOMAIN items |->
                 IF RolledItem(items, txs, w) = items[w]
                 THEN "none" ELSE RolledItem(items, txs, w)]]

ApplyItems(items, changed) ==
  [w \in DOMAIN items |-> IF changed[w] = "none" THEN items[w] ELSE changed[w]]

-----------------------------------------------------------------------------
(* Releasing allocations                                                   *)

ReleaseAllowed(status) == status \in {"planned", "signing", "failed", "cancelled"}

ReleaseCheckable(status) == ReleaseAllowed(status) \/ status = "outcome_unknown"

\* Slip: bytes not yet known to be submitted are thought harmless.
ReleaseHazardsSubmittedOnly(txs) ==
  {k \in Existing(txs) : txs[k].sig /\ txs[k].status \notin {"signed", "failed", "expired"}}

\* Slip: a transaction that has landed can do no more harm.
ReleaseHazardsInFlight(txs) ==
  {k \in Existing(txs) :
     txs[k].sig /\ txs[k].status \notin {"failed", "expired", "confirmed", "finalized"}}

\* A transaction whose signature is on record may already have been accepted by
\* an RPC node, unless its status says it can no longer land.
ReleaseHazards(txs) ==
  {k \in Existing(txs) : txs[k].sig /\ txs[k].status \notin {"failed", "expired"}}

\* "proven" is the set of keys the chain check answered "failed" or "expired".
Releasable(txs, proven) == ReleaseHazards(txs) \subseteq proven

OutcomeUnknownReleaseProven(txs, proven) ==
  /\ Existing(txs) # {}
  /\ \A k \in Existing(txs) : txs[k].status \in {"failed", "expired"} \/ k \in proven

\* The decision the store takes inside the release transaction.
MayRelease(status, txs, proven, override) ==
  /\ \/ ReleaseAllowed(status)
     \/ status = "outcome_unknown" /\ OutcomeUnknownReleaseProven(txs, proven)
  /\ override \/ Releasable(txs, proven)

-----------------------------------------------------------------------------
(* Which transactions the sweep, the reconciliation and the broadcaster    *)
(* take up                                                                 *)

\* Slip: a confirmed transaction is no longer looked at.
PendingFinalitySubmittedOnly(t) == t.status = "submitted" /\ t.sig

PendingFinality(t) == t.status \in {"submitted", "confirmed"} /\ t.sig

NeedsReconciliation(t) == t.status \in {"outcome_unknown", "expired"}

CanBroadcast(t) == t.status \in {"signed", "submitted", "outcome_unknown"}

\* The monitor throws for every other record.
CanMonitor(status, sig) ==
  sig /\ status \in {"signed", "submitted", "confirmed", "outcome_unknown"}
=============================================================================
