---------------------------- MODULE PayoutEngine ----------------------------
(***************************************************************************)
(* The payout engine of the control plane over the Postgres store: batch   *)
(* creation, signed transactions, broadcast, the finality sweep, operator  *)
(* reconciliation, release of allocations and ledger closure.              *)
(*                                                                         *)
(* Every operation that reads the store, calls an RPC node and then writes *)
(* the store is a client's operation in flight (op[c]); the steps of the   *)
(* clients interleave, and a client may crash between any two of them.     *)
(* The chain is an environment of its own: what it holds is the truth, the *)
(* store only what has been observed.                                      *)
(***************************************************************************)
EXTENDS PayoutStatus, FiniteSets

CONSTANTS Accruals,          \* commission accruals, all of one merchant and asset
          Wallets,           \* payout wallets
          PayoutWallet,      \* the wallet each accrual is paid to
          Batches,           \* ids for payout batches
          Sequences,         \* transaction sequences of a batch
          Attempts,          \* attempts of a sequence
          Workers,           \* replicas of the finality worker
          Handlers,          \* API request handlers and operator scripts
          SignatureChoices,  \* may a signed transaction carry its signature?
          Runbook,           \* operators build replacements only as documented
          Exclusive,         \* no signing during or after a release
          AllowOverride,     \* operators may force a release
          ForksDrop,         \* a fork a transaction failed on may be dropped
          LateHeights,       \* a block height may arrive long after a status
          MayCrash           \* clients crash

ASSUME PayoutWalletAssumption == PayoutWallet \in [Accruals -> Wallets]

ASSUME NumberingAssumption == Sequences \subseteq Nat /\ Attempts \subseteq Nat

ASSUME SwitchAssumption ==
  /\ SignatureChoices \subseteq BOOLEAN
  /\ {Runbook, Exclusive, AllowOverride, ForksDrop, LateHeights, MayCrash} \subseteq BOOLEAN

VARIABLES
  accrual,  \* commission_accruals.status
  batch,    \* payout_batches.status, "none" before creation
  covers,   \* the accruals whose amounts the items of a batch add up
  alloc,    \* payout_allocations: the accruals a batch holds
  item,     \* payout_items.status, per batch and wallet
  tx,       \* payout_transactions, per batch and <<sequence, attempt>>
  ledger,   \* how many payout_batch ledger transactions a batch has
  chain,    \* what has become of each transaction on chain
  op        \* the operation each client has in flight

Clients == Workers \cup Handlers

store == <<accrual, batch, covers, alloc, item, tx, ledger>>
vars  == <<accrual, batch, covers, alloc, item, tx, ledger, chain, op>>

Keys == Sequences \X Attempts

NoTx == [status |-> "none", items |-> {}, sig |-> FALSE, sent |-> FALSE]

Tx == [status : TxStatuses \cup {"none"}, items : SUBSET Wallets,
       sig : BOOLEAN, sent : BOOLEAN]

\* "failing": failed on a fork that is not final yet.
ChainStates ==
  {"unsent", "inflight", "failing", "confirmed", "finalized", "failed", "expired"}

\* A transaction as an operation read it: its id, status and submittedAt.
Targets == [batch : Batches, key : Keys, status : TxStatuses, sent : BOOLEAN]

NoRoll == [status |-> "none", items |-> [w \in Wallets |-> "none"]]

Rolls == [status : BatchStatuses \cup {"none"},
          items  : [Wallets -> ItemStatuses \cup {"none"}]]

Idle == [kind |-> "idle"]

\* Checking and recording transactions one after the other.
CheckOps == [kind : {"submit", "sweep", "reconcile", "release"},
             pc : {"check", "height", "write", "commit"}, cur : Targets,
             todo : SUBSET Targets, proven : SUBSET Keys, blocked : BOOLEAN,
             verdict : Verdicts \cup {"submitted"}, roll : Rolls]

\* The release transaction of the store.
ReleaseOps == [kind : {"store"}, pc : {"guard", "apply"}, batch : Batches,
               proven : SUBSET Keys, override : BOOLEAN]

\* A verified ledger closure about to commit.
CloseOps == [kind : {"close"}, batch : Batches, held : SUBSET Accruals]

TypeOK ==
  /\ accrual \in [Accruals -> {"available", "allocated", "paid"}]
  /\ batch \in [Batches -> BatchStatuses \cup {"none"}]
  /\ covers \in [Batches -> SUBSET Accruals]
  /\ alloc \in [Batches -> SUBSET Accruals]
  /\ item \in [Batches -> [Wallets -> ItemStatuses \cup {"none"}]]
  /\ tx \in [Batches -> [Keys -> Tx]]
  /\ ledger \in [Batches -> Nat]
  /\ chain \in [Batches -> [Keys -> ChainStates]]
  /\ op \in [Clients -> {Idle} \cup CheckOps \cup ReleaseOps \cup CloseOps]

Init ==
  /\ accrual = [a \in Accruals |-> "available"]
  /\ batch = [b \in Batches |-> "none"]
  /\ covers = [b \in Batches |-> {}]
  /\ alloc = [b \in Batches |-> {}]
  /\ item = [b \in Batches |-> [w \in Wallets |-> "none"]]
  /\ tx = [b \in Batches |-> [k \in Keys |-> NoTx]]
  /\ ledger = [b \in Batches |-> 0]
  /\ chain = [b \in Batches |-> [k \in Keys |-> "unsent"]]
  /\ op = [c \in Clients |-> Idle]

-----------------------------------------------------------------------------
(* Creating a batch                                                        *)

BatchWallets(b) == {w \in Wallets : item[b][w] # "none"}

\* Slip: the accruals are moved without comparing their status.
AllocatableUnchecked(S) == S # {}

\* Every selected accrual is moved from available to allocated, or nothing is.
\* Which available accruals are selected (due date, campaign, limits, minimum
\* amount, number of recipients) is left open.
Allocatable(S) == S # {} /\ \A a \in S : accrual[a] = "available"

\* One item per payout wallet of the accruals.
PlannedItems(S) ==
  [w \in Wallets |-> IF w \in {PayoutWallet[a] : a \in S} THEN "allocated" ELSE "none"]

\* One database transaction: the accruals moved, the batch, its items and its
\* allocations inserted.
CreateBatch(b) ==
  /\ batch[b] = "none"
  /\ \E S \in SUBSET Accruals :
       /\ Allocatable(S)
       /\ accrual' = [a \in Accruals |-> IF a \in S THEN "allocated" ELSE accrual[a]]
       /\ covers' = [covers EXCEPT ![b] = S]
       /\ alloc' = [alloc EXCEPT ![b] = S]
       /\ item' = [item EXCEPT ![b] = PlannedItems(S)]
  /\ batch' = [batch EXCEPT ![b] = "planned"]
  /\ UNCHANGED <<tx, ledger, chain, op>>

-----------------------------------------------------------------------------
(* Saving signed transactions                                              *)

ReleaseInProgress(b) ==
  \E c \in Clients :
    \/ op[c].kind = "store" /\ op[c].batch = b
    \/ op[c].kind = "release" /\ op[c].cur.batch = b

\* docs/runbooks/payout-reconciliation.md: a first attempt for items nothing
\* has been signed for, or the next attempt of a sequence whose last attempt
\* the store has recorded as failed.
FollowsRunbook(b, k, W) ==
  IF k[2] = 1
  THEN \A l \in Existing(tx[b]) : tx[b][l].items \cap W = {}
  ELSE /\ <<k[1], k[2] - 1>> \in Existing(tx[b])
       /\ tx[b][<<k[1], k[2] - 1>>].status = "failed"
       /\ tx[b][<<k[1], k[2] - 1>>].items = W

\* One transaction of a call: it must map items of the batch, and its sequence
\* and attempt must be free.  The status of the batch is not looked at.
SaveSigned(b, k, W, sig) ==
  /\ batch[b] # "none"
  /\ W # {} /\ W \subseteq BatchWallets(b)
  /\ tx[b][k].status = "none"
  /\ Runbook => FollowsRunbook(b, k, W)
  /\ Exclusive => alloc[b] # {} /\ ~ ReleaseInProgress(b)
  /\ tx' = [tx EXCEPT ![b][k] =
              [status |-> "signed", items |-> W, sig |-> sig, sent |-> FALSE]]
  /\ UNCHANGED <<accrual, batch, covers, alloc, item, ledger, chain, op>>

-----------------------------------------------------------------------------
(* The chain                                                               *)

ChainStep(b, k, from, to) ==
  /\ tx[b][k].status # "none"
  /\ chain[b][k] \in from
  /\ chain' = [chain EXCEPT ![b][k] = to]
  /\ UNCHANGED <<store, op>>

Land(b, k)       == ChainStep(b, k, {"inflight", "failing"}, "confirmed")
Revert(b, k)     == ChainStep(b, k, {"inflight", "failing"}, "failed")
FailOnFork(b, k) == ForksDrop /\ ChainStep(b, k, {"inflight"}, "failing")
Finalize(b, k)   == ChainStep(b, k, {"confirmed"}, "finalized")
\* The finalized block height passes the transaction's lastValidBlockHeight.
Expire(b, k)     == ChainStep(b, k, {"unsent", "inflight", "failing"}, "expired")

\* Slip: a signature that is not found is reported as expired.
MonitorAnswersFailOpen(t) ==
  LET seen == chain[t.batch][t.key]
  IN  {"retry"} \cup (IF seen \in {"unsent", "inflight", "expired"} THEN {"expired"} ELSE {seen})

\* What one monitor call may answer.  A lagging node may not know the signature
\* yet or report the lower commitment, and any request may fail.  A failure is
\* answered whatever its commitment.
MonitorAnswers(t) ==
  LET seen == chain[t.batch][t.key]
  IN  {"retry"}
        \cup (IF t.sent THEN {"outcome_unknown"} ELSE {})
        \cup (IF seen \in {"confirmed", "finalized"} THEN {"confirmed"} ELSE {})
        \cup (IF seen = "failing" THEN {"failed"} ELSE {})
        \cup ({seen} \cap {"finalized", "failed", "expired"})

\* What it may answer when the signature was not found and the block height was
\* read much later: once the height has passed, whatever landed in between.
LateAnswers(t) ==
  {"retry"}
    \cup (IF t.sent THEN {"outcome_unknown"} ELSE {})
    \cup (IF chain[t.batch][t.key] \in {"finalized", "failed", "expired"}
          THEN {"expired"} ELSE {})

-----------------------------------------------------------------------------
(* Operations in flight                                                    *)

Read(b, k) == [batch |-> b, key |-> k, status |-> tx[b][k].status,
               sent |-> tx[b][k].sent]

FirstOf(todo) == CHOOSE t \in todo : \A u \in todo : ~ Before(u.key, t.key)

\* The operation of the given kind at its first target.
Checking(kind, todo) ==
  [kind |-> kind, pc |-> "check", cur |-> FirstOf(todo),
   todo |-> todo \ {FirstOf(todo)}, proven |-> {}, blocked |-> FALSE,
   verdict |-> "retry", roll |-> NoRoll]

Storing(b, proven, override) ==
  [kind |-> "store", pc |-> "guard", batch |-> b, proven |-> proven,
   override |-> override]

\* Done with the current target: the next one, or what follows the last.
Proceed(o) ==
  IF o.todo # {}
  THEN [Checking(o.kind, o.todo) EXCEPT !.proven = o.proven, !.blocked = o.blocked]
  ELSE IF o.kind = "release" /\ ~ o.blocked
       THEN Storing(o.cur.batch, o.proven, FALSE)
       ELSE Idle

Write(o, v) == [o EXCEPT !.pc = "write", !.verdict = v]

At(c, kind, pc) == op[c].kind = kind /\ op[c].pc = pc

\* A monitor call under way, and what it may answer.
Monitoring(c, kind) == op[c].kind = kind /\ op[c].pc \in {"check", "height"}

Answers(o) == IF o.pc = "height" THEN LateAnswers(o.cur) ELSE MonitorAnswers(o.cur)

\* The signature is not found; the block height is still to be read.
NotFound(c) ==
  /\ LateHeights
  /\ op[c].kind \in {"sweep", "reconcile", "release"} /\ op[c].pc = "check"
  /\ LET t == op[c].cur
     IN  /\ CanMonitor(t.status, tx[t.batch][t.key].sig)
         /\ t.status # "confirmed" \/ op[c].kind = "sweep"
         /\ chain[t.batch][t.key] \in {"unsent", "inflight"}
  /\ op' = [op EXCEPT ![c].pc = "height"]
  /\ UNCHANGED <<store, chain>>

-----------------------------------------------------------------------------
(* Broadcasting                                                            *)

\* An RPC node takes the bytes and answers with the signature; the caller goes
\* on to mark the transaction submitted.
BroadcastAccepted(c, b, k) ==
  /\ op[c] = Idle
  /\ CanBroadcast(tx[b][k])
  /\ chain' = [chain EXCEPT ![b][k] = IF @ = "unsent" THEN "inflight" ELSE @]
  /\ op' = [op EXCEPT ![c] = Write(Checking("submit", {Read(b, k)}), "submitted")]
  /\ UNCHANGED store

\* An RPC node takes the bytes, but no usable answer arrives: "retry".
BroadcastUnanswered(b, k) ==
  /\ CanBroadcast(tx[b][k])
  /\ chain[b][k] = "unsent"
  /\ chain' = [chain EXCEPT ![b][k] = "inflight"]
  /\ UNCHANGED <<store, op>>

-----------------------------------------------------------------------------
(* Writing a transaction's status                                          *)

\* The row after the update of markPayoutTransactionSubmitted or
\* markPayoutTransactionFinality.
Marked(o) ==
  LET row == tx[o.cur.batch][o.cur.key]
  IN  IF o.kind = "submit"
      THEN [row EXCEPT !.status = "submitted", !.sig = TRUE, !.sent = TRUE]
      ELSE [row EXCEPT !.status = o.verdict]

RowLocked(b, k) ==
  \E d \in Clients : /\ op[d].kind \in {"submit", "sweep", "reconcile", "release"}
                    /\ op[d].pc = "commit"
                    /\ op[d].cur.batch = b /\ op[d].cur.key = k

\* The sweep compares the status it listed; the other callers pass none.
ExpectedStatusHolds(o) ==
  o.kind = "sweep" => tx[o.cur.batch][o.cur.key].status = o.cur.status

\* The transaction updates its row and computes the roll-up from what is
\* committed; no row of the batch is locked while it does.
MarkBegin(c) ==
  /\ op[c].kind \in {"submit", "sweep", "reconcile", "release"} /\ op[c].pc = "write"
  /\ LET o == op[c]
         b == o.cur.batch
         k == o.cur.key
     IN  /\ ~ RowLocked(b, k)
         /\ op' = [op EXCEPT ![c] =
                     IF ExpectedStatusHolds(o)
                     THEN [o EXCEPT !.pc = "commit",
                                    !.roll = Rollup(item[b], [tx[b] EXCEPT ![k] = Marked(o)])]
                     ELSE Proceed(o)]
  /\ UNCHANGED <<store, chain>>

MarkCommit(c) ==
  /\ op[c].kind \in {"submit", "sweep", "reconcile", "release"} /\ op[c].pc = "commit"
  /\ LET o == op[c]
         b == o.cur.batch
     IN  /\ tx' = [tx EXCEPT ![b][o.cur.key] = Marked(o)]
         /\ batch' = [batch EXCEPT ![b] = o.roll.status]
         /\ item' = [item EXCEPT ![b] = ApplyItems(item[b], o.roll.items)]
         /\ op' = [op EXCEPT ![c] = Proceed(o)]
  /\ UNCHANGED <<accrual, covers, alloc, ledger, chain>>

-----------------------------------------------------------------------------
(* The finality sweep                                                      *)

\* A sweep treats the transactions it listed one at a time, each on its own.
SweepList(c, b, k) ==
  /\ op[c] = Idle
  /\ PendingFinality(tx[b][k])
  /\ op' = [op EXCEPT ![c] = Checking("sweep", {Read(b, k)})]
  /\ UNCHANGED <<store, chain>>

\* An answer that changes nothing is not written.
SweepMonitor(c) ==
  /\ Monitoring(c, "sweep")
  /\ \E v \in Answers(op[c]) :
       op' = [op EXCEPT ![c] = IF v \in {"retry", op[c].cur.status}
                               THEN Proceed(op[c]) ELSE Write(op[c], v)]
  /\ UNCHANGED <<store, chain>>

-----------------------------------------------------------------------------
(* Reconciliation of a batch                                               *)

ReconcileRequest(c, b) ==
  /\ op[c] = Idle
  /\ batch[b] = "outcome_unknown"
  /\ LET todo == {Read(b, k) : k \in {l \in Keys : NeedsReconciliation(tx[b][l])}}
     IN  /\ todo # {}
         /\ op' = [op EXCEPT ![c] = Checking("reconcile", todo)]
  /\ UNCHANGED <<store, chain>>

\* The monitor throws for an expired record, which ends the whole request.
ReconcileMonitor(c) ==
  /\ Monitoring(c, "reconcile")
  /\ LET t == op[c].cur
     IN  \/ /\ ~ CanMonitor(t.status, tx[t.batch][t.key].sig)
            /\ op' = [op EXCEPT ![c] = Idle]
         \/ /\ CanMonitor(t.status, tx[t.batch][t.key].sig)
            /\ \E v \in Answers(op[c]) :
                 op' = [op EXCEPT ![c] = IF v = "retry"
                                         THEN Proceed(op[c]) ELSE Write(op[c], v)]
  /\ UNCHANGED <<store, chain>>

-----------------------------------------------------------------------------
(* Releasing the allocations of a batch                                    *)

ReleaseRequest(c, b) ==
  /\ op[c] = Idle
  /\ ReleaseCheckable(batch[b])
  /\ LET todo == {Read(b, k) : k \in ReleaseHazards(tx[b])}
     IN  op' = [op EXCEPT ![c] = IF todo = {} THEN Storing(b, {}, FALSE)
                                 ELSE Checking("release", todo)]
  /\ UNCHANGED <<store, chain>>

\* An operator override skips the chain check.
ReleaseOverride(c, b) ==
  /\ AllowOverride
  /\ op[c] = Idle
  /\ batch[b] # "none"
  /\ op' = [op EXCEPT ![c] = Storing(b, {}, TRUE)]
  /\ UNCHANGED <<store, chain>>

\* Slip: an unknown outcome is taken as proof that nothing landed.
ReleaseMonitorTrustsUnknown(c) ==
  /\ Monitoring(c, "release")
  /\ LET o == op[c]
         proven == [o EXCEPT !.proven = @ \cup {o.cur.key}]
     IN  \E v \in Answers(o) :
           op' = [op EXCEPT ![c] = IF v \in {"failed", "expired", "outcome_unknown"}
                                   THEN Proceed(proven)
                                   ELSE Proceed([o EXCEPT !.blocked = TRUE])]
  /\ UNCHANGED <<store, chain>>

\* A transaction recorded as landed blocks the release; so does every answer
\* but expired and failed.  Landed and failed answers are written, expired
\* ones are not.
ReleaseMonitor(c) ==
  /\ Monitoring(c, "release")
  /\ LET o == op[c]
         blocked == [o EXCEPT !.blocked = TRUE]
         proven == [o EXCEPT !.proven = @ \cup {o.cur.key}]
     IN  IF o.cur.status \in {"confirmed", "finalized"}
         THEN op' = [op EXCEPT ![c] = Proceed(blocked)]
         ELSE \E v \in Answers(o) :
                op' = [op EXCEPT ![c] =
                         CASE v = "failed" -> Write(proven, v)
                           [] v = "expired" -> Proceed(proven)
                           [] v \in {"confirmed", "finalized"} -> Write(blocked, v)
                           [] OTHER -> Proceed(blocked)]
  /\ UNCHANGED <<store, chain>>

\* Inside the store's transaction: batch and transactions are read again, and
\* the release refused or decided.
ReleaseGuard(c) ==
  /\ At(c, "store", "guard")
  /\ LET o == op[c]
     IN  op' = [op EXCEPT ![c] =
                  IF MayRelease(batch[o.batch], tx[o.batch], o.proven, o.override)
                  THEN [o EXCEPT !.pc = "apply"] ELSE Idle]
  /\ UNCHANGED <<store, chain>>

\* Its writes: the batch is cancelled, every item released, and what is still
\* allocated becomes available again.
ReleaseApply(c) ==
  /\ At(c, "store", "apply")
  /\ LET b == op[c].batch
     IN  /\ batch' = [batch EXCEPT ![b] = "cancelled"]
         /\ item' = [item EXCEPT ![b] = [w \in Wallets |->
                       IF w \in BatchWallets(b) THEN "released" ELSE "none"]]
         /\ accrual' = [a \in Accruals |->
                          IF a \in alloc[b] /\ accrual[a] = "allocated"
                          THEN "available" ELSE accrual[a]]
         /\ alloc' = [alloc EXCEPT ![b] = {}]
  /\ op' = [op EXCEPT ![c] = Idle]
  /\ UNCHANGED <<covers, tx, ledger, chain>>

-----------------------------------------------------------------------------
(* Closing the ledger of a batch                                           *)

\* Every transaction of the batch, earlier attempts included, must be recorded
\* as finalized and be found finalized on chain.
TransfersVerified(b) ==
  \A k \in Existing(tx[b]) : /\ tx[b][k].status = "finalized" /\ tx[b][k].sig
                             /\ chain[b][k] = "finalized"

\* Slip: a confirmed batch is closed, without looking at its transfers.
CloseVerifyConfirmed(c, b) ==
  /\ op[c] = Idle
  /\ ledger[b] = 0
  /\ batch[b] \in {"confirmed", "finalized"}
  /\ op' = [op EXCEPT ![c] = [kind |-> "close", batch |-> b, held |-> alloc[b]]]
  /\ UNCHANGED <<store, chain>>

\* The listing of what is to be closed, the reads of the batch and its ledger and
\* the questions to the chain are one step: what the chain has finalized stays so,
\* and whatever is saved, recorded or released between those reads may be so
\* between this step and the commit, which works from what was read here.
CloseVerify(c, b) ==
  /\ op[c] = Idle
  /\ ledger[b] = 0
  /\ batch[b] = "finalized"
  /\ TransfersVerified(b)
  /\ \A w \in BatchWallets(b) : item[b][w] = "finalized"
  /\ op' = [op EXCEPT ![c] = [kind |-> "close", batch |-> b, held |-> alloc[b]]]
  /\ UNCHANGED <<store, chain>>

\* Slip: the source of a ledger transaction is not unique.
CloseCommitTwice(c) ==
  /\ op[c].kind = "close"
  /\ ledger' = [ledger EXCEPT ![op[c].batch] = @ + 1]
  /\ accrual' = [a \in Accruals |->
                   IF a \in op[c].held /\ accrual[a] = "allocated" THEN "paid" ELSE accrual[a]]
  /\ op' = [op EXCEPT ![c] = Idle]
  /\ UNCHANGED <<batch, covers, alloc, item, tx, chain>>

\* Slip: the accruals are paid, but no ledger transaction is inserted.
CloseCommitUnledgered(c) ==
  /\ op[c].kind = "close"
  /\ accrual' = [a \in Accruals |->
                   IF a \in op[c].held /\ accrual[a] = "allocated" THEN "paid" ELSE accrual[a]]
  /\ op' = [op EXCEPT ![c] = Idle]
  /\ UNCHANGED <<batch, covers, alloc, item, tx, ledger, chain>>

\* The source of a ledger transaction is unique; a second closure rolls back.
CloseCommit(c) ==
  /\ op[c].kind = "close"
  /\ LET o == op[c]
     IN  IF ledger[o.batch] = 0
         THEN /\ ledger' = [ledger EXCEPT ![o.batch] = @ + 1]
              /\ accrual' = [a \in Accruals |->
                               IF a \in o.held /\ accrual[a] = "allocated"
                               THEN "paid" ELSE accrual[a]]
         ELSE UNCHANGED <<ledger, accrual>>
  /\ op' = [op EXCEPT ![c] = Idle]
  /\ UNCHANGED <<batch, covers, alloc, item, tx, chain>>

Crash(c) ==
  /\ MayCrash
  /\ op[c] # Idle
  /\ op' = [op EXCEPT ![c] = Idle]
  /\ UNCHANGED <<store, chain>>

-----------------------------------------------------------------------------
ChainNext ==
  \E b \in Batches, k \in Keys :
    \/ Land(b, k) \/ Revert(b, k) \/ FailOnFork(b, k)
    \/ Finalize(b, k) \/ Expire(b, k)

OperatorNext ==
  \E b \in Batches :
    \/ CreateBatch(b)
    \/ \E k \in Keys, W \in SUBSET Wallets, sig \in SignatureChoices :
         SaveSigned(b, k, W, sig)
    \/ \E k \in Keys : BroadcastUnanswered(b, k)

HandlerNext(c) ==
  \E b \in Batches :
    \/ \E k \in Keys : BroadcastAccepted(c, b, k)
    \/ ReconcileRequest(c, b)
    \/ ReleaseRequest(c, b)
    \/ ReleaseOverride(c, b)
    \/ CloseVerify(c, b)

\* A sweep also closes the finalized batches it finds.
WorkerNext(c) ==
  \E b \in Batches :
    \/ \E k \in Keys : SweepList(c, b, k)
    \/ CloseVerify(c, b)

\* The steps of an operation that is under way.
Continue(c) ==
  \/ NotFound(c) \/ SweepMonitor(c) \/ ReconcileMonitor(c) \/ ReleaseMonitor(c)
  \/ MarkBegin(c) \/ MarkCommit(c)
  \/ ReleaseGuard(c) \/ ReleaseApply(c)
  \/ CloseCommit(c)

Next ==
  \/ ChainNext
  \/ OperatorNext
  \/ \E c \in Handlers : HandlerNext(c)
  \/ \E c \in Workers : WorkerNext(c)
  \/ \E c \in Clients : Continue(c) \/ Crash(c)

Spec == Init /\ [][Next]_vars

-----------------------------------------------------------------------------
(* Safety                                                                  *)

\* An accrual is available, allocated to exactly one batch, or paid: a batch
\* holds an allocation row only for accruals nobody else can pick up.
AllocationExclusive ==
  \A a \in Accruals :
    LET holders == {b \in Batches : a \in alloc[b]}
    IN  /\ accrual[a] = "available" => holders = {}
        /\ accrual[a] = "allocated" => holders # {}
        /\ \A b, d \in holders : b = d

CarriesAccrual(b, k, a) ==
  a \in covers[b] /\ PayoutWallet[a] \in tx[b][k].items

Moved(b, k) == chain[b][k] \in {"confirmed", "finalized"}
CanStillMove(b, k) ==
  tx[b][k].status # "none" /\ chain[b][k] \in {"unsent", "inflight", "failing"}

\* An accrual offered for payout has not been paid on chain, and no signed
\* transaction of an earlier batch can still pay it.
AvailableIsUnpaid ==
  \A a \in Accruals : accrual[a] = "available" =>
    \A b \in Batches, k \in Keys :
      CarriesAccrual(b, k, a) => ~ Moved(b, k) /\ ~ CanStillMove(b, k)

\* What is recorded as paid has been transferred, finally, on chain.
PaidIsFinalOnChain ==
  \A a \in Accruals : accrual[a] = "paid" =>
    \E b \in Batches, k \in Keys : CarriesAccrual(b, k, a) /\ chain[b][k] = "finalized"

\* A failure that is seen is final, and a height is as old as the status it is
\* compared with.
Reliable == ~ ForksDrop /\ ~ LateHeights

\* A recorded observation is never ahead of the chain, whoever wrote it and
\* however late: only submitted and outcome_unknown say nothing.  For failed and
\* expired this takes what a monitor sees to be reliable.
RecordedIsTrue ==
  \A b \in Batches, k \in Keys :
    LET s == tx[b][k].status
    IN  /\ s = "confirmed" => Moved(b, k)
        /\ s = "finalized" => chain[b][k] = "finalized"
        /\ Reliable /\ s \in {"failed", "expired"} => chain[b][k] = s

\* A batch the ledger may close has every one of its items paid on chain.
FinalizedBatchIsSettled ==
  \A b \in Batches : batch[b] = "finalized" =>
    \A w \in BatchWallets(b) :
      \E k \in Keys : w \in tx[b][k].items /\ chain[b][k] = "finalized"

\* An accrual is recorded as paid exactly when a batch it was counted in has
\* been closed, and no batch is closed twice.
PaidIffClosed ==
  /\ \A b \in Batches : ledger[b] <= 1
  /\ \A a \in Accruals :
       accrual[a] = "paid" <=> \E b \in Batches : a \in covers[b] /\ ledger[b] = 1

\* The engine implements the obligations it keeps: every accrual is transferred
\* at most once and cleared at most once, after its transfer.
Obligation == INSTANCE CommissionObligation WITH
  transfers <- [a \in Accruals |->
                  Cardinality({p \in Batches \X Keys :
                                 CarriesAccrual(p[1], p[2], a) /\ Moved(p[1], p[2])})],
  clearings <- [a \in Accruals |->
                  Cardinality({b \in Batches : a \in covers[b] /\ ledger[b] > 0})]

ObligationKept == Obligation!Spec

-----------------------------------------------------------------------------
(* What a step may never do                                                *)

\* Unless an operator overrides it, an item recorded as transferred for good is
\* never released, whatever became of the rest of its batch.
FinalizedStaysAllocated ==
  [][\A b \in Batches, a \in Accruals :
       /\ a \in alloc[b] /\ item[b][PayoutWallet[a]] = "finalized"
       /\ accrual'[a] = "available"
       => \E c \in Clients : op[c].kind = "store" /\ op[c].batch = b /\ op[c].override]_vars

-----------------------------------------------------------------------------
(* Progress                                                                *)

\* Writes of these kinds get the row they wait for, and do not die each time.
RowComes(c, kinds) ==
  LET waiting == op[c].kind \in kinds /\ op[c].pc = "write"
  IN  []<>waiting => []<><<waiting /\ MarkBegin(c)>>_vars

\* The worker loops, its requests are answered in the end, no step of it
\* crashes for ever, and the chain decides about every transaction it is sent.
Fairness ==
  /\ \A b \in Batches, k \in Keys :
       /\ WF_vars(Land(b, k) \/ Revert(b, k) \/ Expire(b, k))
       /\ WF_vars(Finalize(b, k))
       /\ \A c \in Workers : SF_vars(SweepList(c, b, k))
  /\ \A c \in Workers :
       /\ SF_vars(SweepMonitor(c) /\ op'[c] # Idle)
       /\ RowComes(c, {"sweep"})
       /\ SF_vars(At(c, "sweep", "commit") /\ MarkCommit(c))
       /\ SF_vars(CloseCommit(c))
       /\ \A b \in Batches : SF_vars(CloseVerify(c, b))
  /\ \A c \in Handlers :
       /\ WF_vars(Continue(c))
       /\ RowComes(c, {"submit", "reconcile", "release"})

FairSpec == Spec /\ Fairness

\* Broadcasting the same bytes again is allowed until they are recorded as
\* landed, and its late record can undo a sweep's; nobody does so for ever.
RebroadcastsEnd ==
  <>[][\A c \in Handlers, b \in Batches, k \in Keys : ~ BroadcastAccepted(c, b, k)]_vars

\* A transaction known to be submitted does not stay so: the sweep finds out
\* what became of it or that it cannot.
SubmittedIsResolved ==
  RebroadcastsEnd =>
    \A b \in Batches, k \in Keys :
      tx[b][k].status = "submitted" ~> tx[b][k].status \notin {"submitted", "confirmed"}

\* A release that has passed its guard and has not written yet.
ReleaseDecided(b) == \E c \in Clients : At(c, "store", "apply") /\ op[c].batch = b

\* A finalized batch is closed in the ledger, unless a late write takes back its
\* outcome.  A forced release may pass its guard before the transfers of the
\* batch are recorded: one that has been cancelled by it, or is about to be, is
\* excepted, but once a batch that holds its accruals is finalized none can begin.
FinalizedIsClosed ==
  RebroadcastsEnd =>
    \A b \in Batches :
      batch[b] = "finalized" /\ alloc[b] # {} /\ ~ ReleaseDecided(b)
        ~> ledger[b] = 1 \/ batch[b] \in {"failed", "outcome_unknown"}

-----------------------------------------------------------------------------
(* What the documents say of the engine and its steps do not keep          *)

\* "Payout items MUST remain allocated while transaction outcome is unknown": no
\* accrual is offered for payout while bytes in flight may still pay it.
UnknownOutcomeStaysAllocated ==
  \A a \in Accruals, b \in Batches, k \in Keys :
    CarriesAccrual(b, k, a) /\ chain[b][k] = "inflight" => accrual[a] # "available"
=============================================================================
