# Split402: a verification development

TLA+ specifications of the Split402 control plane and of the merchant's and the
agent's side of a paid call, the TLC runs that check them on small instances, and
theorems about them that the TLA+ proof system checks for every value of the
constants.

Split402 pays commissions on x402 payments. An agent's router pays a merchant; the
merchant issues a *receipt* for the payment and submits it; the control plane checks
the settlement on Solana and owes the referrer a *commission accrual*; accruals are
collected into *payout batches* whose transactions are planned, signed elsewhere,
broadcast, followed to finality and closed in the ledger. What can go wrong is
concurrent and mostly about money: paying twice, paying what is not owed or to
somebody else, calling paid what is not, or never finishing.

## 1. The system

Paths below are relative to `packages/control-plane/src` unless they start with
another directory.

| Part | State | Operations | What makes it correct |
|---|---|---|---|
| Router and agent SDK (`packages/router`, `packages/agent-sdk`) | the execution under way | inspect an offer, pay, verify and record the receipt, go on to the next provider | what is returned was paid as quoted, and recorded if it says so; a held receipt ends the spending |
| x402 extension, merchant SDK (`packages/x402-extension`, `packages/merchant-sdk`) | cached campaign, key ring, receipt outbox in memory | offer, verify, settle, issue a receipt; enqueue, dispatch, mark | a receipt is submitted until it is accepted or refused |
| Receipt ingestion (`index.ts`, `postgres.ts`) | `payment_receipts` with four unique columns, `commission_accruals`, ledger | look up by hash, id, payment, settlement; verify; save; look up again after a lost race | one credit per settlement; lost races are explained |
| Chain verification (`workers.ts`, `solana.ts`) | verification state of a receipt, status of its accrual | claim a `receipt.accepted.v1` event, verify the settlement, verify or reject, mark the event | only settled commission becomes payable; every receipt is decided |
| Commission and selection (`packages/protocol/src/commission.ts`, `payouts.ts`, `postgres.ts`) | ledger entries, accruals, items and totals of batches | calculate, book, select under limits, close, summarise | ledger, items, allocations and summaries agree; nobody is passed over for ever |
| Payout engine (`payouts.ts`, `postgres.ts`, `index.ts`, `workers.ts`) | batches, items, allocations, transactions and their attempts, ledger | create, save signed, broadcast, sweep, reconcile, release, override, close | nothing is paid twice; allocations are exclusive; what is recorded is true; closing follows payment |
| Planning, signing, transfer verification (`solana.ts`, `apps/payout-signer`) | none | plan transactions, check bytes against the plan, sign, map items, match transfers | a closed batch has paid what its items ask, as far as can be seen; what is signed can be closed |
| Broadcaster, finality monitor (`solana.ts`) | none; they ask RPC nodes | send, ask for a status and the block height | answers fail closed |
| Webhook outbox (`webhooks.ts`, `postgres.ts`) | `outbox_events`: status, attempts | insert, claim, deliver, retry, dead-letter, requeue | one worker per event; all of its attempts; a decision in the end |
| Wallet authentication (`auth.ts`) | challenges, sessions, refresh tokens | log in, refresh, log out, authenticate | a challenge is worth one session; a logout is final |
| Merchant and campaign registry (`merchants.ts`, `campaigns.ts`, `postgres.ts`) | merchants, origins, keys; campaigns and their versions | version, activate, pause, resume, close, revoke | versions are immutable; what is offered was signed and vetted |
| Route registry (`routes.ts`, `postgres.ts`) | `routes`, `route_versions` | activate, rotate, suspend, resume; policy check of receipts | a route shows a registered claim; credit goes where it was signed to |
| Protocol formats, discovery and funding views, Express adapter, migrations, servers, dashboard, demos, tooling | little or none | pure functions, queries, user interface | formats agree |

**How the parts interact.** Inside the control plane everything meets in Postgres.
Request handlers, the three kinds of workers (webhooks, chain verification, payout
finality) and operators' scripts are separate processes, each of which may run in
several replicas. Within one database transaction they are isolated (READ COMMITTED,
row locks through `update`); between a read, an RPC request and the write that follows
nothing is held, and the registries and the authenticator use single statements
without a transaction around them. Receipt ingestion and the payout engine share
`commission_accruals.status`; both emit outbox events inside their transactions.
Merchants and routers submit the same receipts over HTTP, independently of each
other. The chain is the only truth about payments and is seen through RPC nodes
that lag, fail, answer twice or not at all.

**What is hard.** A status read before an RPC call and acted on afterwards; writes
that overwrite without comparing; roll-ups of several rows computed without locks;
two statements that belong together; bytes that may or may not have been accepted;
workers that die between claim and mark; answers lost after money has moved;
transfers told apart by amount and order only; operators who force a release.
`PROJECT.json` lists every such place with its line and the property that covers it,
or why none does.

## 2. The modules

| Module | Models | Extends / composes |
|---|---|---|
| `PayoutStatus` | the pure status functions of `payouts.ts`: roll-up, release guard, who takes up which transaction | |
| `PayoutEngine` | the payout engine over the Postgres store, the chain, RPC nodes, workers, handlers, operators | `PayoutStatus`; refines `CommissionObligation` |
| `CommissionObligation` | what the engine promises per accrual: transferred at most once, then cleared at most once | |
| `PayoutTransfers` | what the transactions of a batch carry, from the plan to the comparison before closure | |
| `CommissionMath` | `calculateCommission` | |
| `CommissionLedger` | amounts: accrual, selection, items, closure, obligation summary | `CommissionMath` |
| `Outbox` | the SQL statements on `outbox_events` | |
| `WebhookDelivery` | `WebhookDispatchWorker` and the merchant's endpoint | `Outbox` |
| `ReceiptIngestion` | `ReceiptIngestionService` and `ReceiptChainVerificationWorker`, with the payout engine as an environment of the accruals | instance of `Outbox` over receipts |
| `MerchantRegistry` | status, origins and service keys of a merchant | |
| `CampaignRegistry` | one campaign and its versions | `MerchantRegistry` |
| `RouteRegistry` | one route, its versions, the policy check of receipts | |
| `WalletAuth` | challenges, sessions and refresh tokens | |
| `MerchantOutbox` | the merchant SDK's outbox, its dispatchers and the control plane's answers | |
| `PaidCall` | one `Split402Router.execute` with the merchants it pays | `MerchantOutbox` |
| `MC...` | constants and symmetry of the TLC instances | |
| `..._proofs` | theorems about the module of the same name | the module proved about |

Definitions marked `Slip:` in the modules are plausible bugs (a dropped guard, an
off-by-one, a swapped status). They are used by no specification; each property
of a passing run is known to fail when one of them replaces the definition that
follows it (`mutants` in `PROJECT.json`).

### 2.1 PayoutEngine

`accrual`, `batch`, `alloc`, `item`, `tx` and `ledger` are the status columns and
rows of the tables; `covers` is the amount of an item, kept as the set of
accruals it was added up from; `chain` is what has really become of each
transaction; `op[c]` is the operation a client has in flight.

An operation that reads the store, asks an RPC node and writes the store is
split exactly there. A sweep, for instance, is `SweepList` (read), `SweepMonitor`
(the RPC answers), `MarkBegin` (the update of the row and the reads of the
roll-up, inside the database transaction) and `MarkCommit` (its commit).
`MarkBegin` and `MarkCommit` are two steps because the roll-up reads the other
rows of the batch without locking them, so that two transactions may each miss
the other; `RowLocked` is the row lock the update itself takes. The release is
the chain check of the handler (`ReleaseRequest`, `ReleaseMonitor`), then the
store's transaction (`ReleaseGuard`, `ReleaseApply`). Any client may crash
between any two steps, which loses the operation and nothing else: nothing is
persisted but the store.

What a monitor answers (`MonitorAnswers`) is a set: any request may fail
(`retry`); a transaction may not be found long after it was submitted
(`outcome_unknown`); a lagging node reports the lower commitment.

Abstractions: which due accruals a batch selects is left open (any non-empty set
of available ones; see `CommissionLedger`); amounts are not modelled; one call of
`SaveSigned` saves one transaction; the sweep treats the transactions it lists one
at a time; the reads a closure makes before its commit (listing, ledger, batch, questions
to the chain) are one step, for what the chain has finalized stays so, and what others do
between them they may do between that step and the commit, too; the failover between RPC URLs is inside the one answer; a confirmed
transaction is not rolled back by the cluster; the status `planned` of a transaction
is never written by the code and left out.

Constants that say what is assumed of operators and nodes:

- `Runbook`: replacements are built as `docs/runbooks/payout-reconciliation.md`
  says, a next attempt only for one recorded as failed. The code does not check
  this; with `FALSE` operators save whatever the store accepts.
- `Exclusive`: nothing is signed for a batch while or after its allocations are
  released. The code does not check this either (see `PayoutSignAfterRelease`).
- `AllowOverride`: operators may force a release.
- `ForksDrop`: a failure may be answered for a fork that is then dropped.
- `LateHeights`: the block height may be read long after the status.
- `MayCrash`, `SignatureChoices`: crashes; whether a signed transaction is saved
  with its expected signature.

### 2.2 WebhookDelivery and Outbox

The operations of `Outbox` are single SQL statements, so single steps. A worker
claims, dispatches and marks; the endpoint may handle an event whose answer is
lost. Signing of the request, the endpoint registry, the order of claims
(`available_at`) and the retry delay are left out. `AttemptCap` bounds the
counter.

### 2.3 ReceiptIngestion

`Receipts` are the distinct receipt objects; `Key` gives each its four unique
identifiers, so that two may collide in some and not in others. Each lookup of
`findConflict` is a query, hence a step, of its own. The outcome of signature and
policy verification and whether a receipt agrees with its transfers (`Matching`)
are left open. A settlement is `settled` when it has the required commitment, and
may be seen failing on a fork that is dropped. The worker retries without a bound
while it cannot see a settlement and never reads the counter of attempts, which
is therefore capped at once (`AttemptCap = 1`). The ledger entry of a receipt is
committed with it. The branches for a receipt that has disappeared are left out:
receipts are never deleted. `Allocate`, `Release` and `Pay` stand for the payout
engine.

### 2.4 CampaignRegistry and MerchantRegistry

A request of an API client is the chain of reads its handler makes
(`RequestActivation`, `CheckProfile`, `CheckKey`, `ReadForActivation`) and one
transaction (`CommitActivation`); only the last two are in the same database
transaction, and they do not lock what they read. The terms of a version are told
apart by version number and resource origin; a signature is the key and the terms
it was made over. `vetted` remembers the origin whose proof the handler checked.
`VersionNamed` says that clients name the version they activate; the code lets them
leave it out, and then activates whichever is current when the transaction reads it,
whose origin may not have been checked. The merchant's rows change at any time.

### 2.5 RouteRegistry

The row of `routes` and the rows of `route_versions` are written by separate
statements, so each is a step: an activation is `InsertRoute` and `InsertVersion`, a
rotation `ReadRoute`, `LookupClaim`, `InsertVersion`, `PointRoute`, and the answers to
unique violations are lookups of their own (`FindByRoute`, `FindByVersion`,
`FindDuplicate`). `orphaned` remembers the claims whose writer died between the two
statements, `known` those a client was told are active. The claims of an instance agree in everything but wallet and
time; drafts store nothing and are left out. `VerifyReceipt` and `MatchVersion` are
the two reads of the policy check.

### 2.6 WalletAuth

Each store call of `WalletAuthenticator` is one statement and a step. The pairs of
access and refresh token issued for a challenge are its lineage; `ended` remembers
when a logout was answered as effective, `lost` the lineages a handler died with
between revoking a token and storing its successor. `Tick` is time; a request reads
the clock when it begins. `MaxPairs` and `MaxTime` bound the instance.

### 2.7 PaidCall and MerchantOutbox

An execution tries the providers the router has ranked, one payment each.
`InspectOffer` and `RequestJson` are two requests: the offer that is checked is not
the offer that is paid. `Settle` settles on chain, issues the receipt from the
campaign and key the merchant has by then and, if the merchant has a receipt sink
(`Sinks`), hands it to the outbox before the answer is sent; `Receive` may lose that
answer. `VerifyReceipts` is the router's option to verify signatures, on by default.
A router may have a receipt recorder or, by default, none (`RecorderChoices`): with one
`RecordProviderReceipt` submits the same receipt the merchant's dispatchers submit,
without one the execution goes on to its output and the result does not say that
anything was recorded (`recorded`). A dispatcher reads a record without
claiming it (`ClaimNextPending`), submits it and marks it with a plain write
(`MarkRecord`), so that dispatchers overwrite each other. `early` says whether the
receipt was on record when the submission began: only then may a refusal meet a
receipt that is on record, the raced copy that is answered with a conflict. `tries`
counts submissions up to `MaxAttempts`. `Changes` says what a merchant
may change during the execution; only what is done before settlement can matter.

### 2.8 CommissionLedger and CommissionMath

One merchant and one asset. `Ingest` is what a receipt accrues and books, `PlanFrom`
a request for a batch in one transaction (`for update skip locked`: `free` are the
accruals nobody else holds), `FinalizeItem` the roll-up, `CloseLedger` the closure.
Transactions, crashes and races of a batch are those of `PayoutEngine`; here are the
amounts. `latest` orders `available_at`, of which equal values occur. A release is
taken before anything has been transferred; `MaxReleases` bounds releases. The
summary (`ObligationStatus`) and the ledger are computed from different tables, as
in the code.

### 2.9 PayoutTransfers

`plan` is the plan made of the batch's items, in the order in which the store lists
them or in that in which the creation of the batch answered them; `bytes` the
transfers the transactions really carry; `saved` the items an operator maps to
each. `Serialize` lets one transaction come out altered: a transfer dropped, added,
redirected, changed in amount, or the order reversed. `Sign` is the policy-enforced
signer, with the remote payout signer's own checks when `who` is `"remote"`;
`SignElsewhere` is a signature made without any of these. `SaveSigned` is one call of
the store, for any of the transactions that have not been saved; within a call no item is
mapped twice, and nothing compares one call with another. `MatchTransfer` is the greedy
matching of the code, by amount first, of the transfers it sees: the code reads parsed
`transferChecked` instructions only and passes over those of another mint, source or
authority, so that `seen` says of each transfer whether it is one of these. `Close`
remembers in `closedWith` the transactions it has looked at; others may still be saved
after it. Each transaction is saved and landed once; attempts, expiry and release are
those of `PayoutEngine`.

## 3. What the runs check

| Run | Instance | Shows |
|---|---|---|
| `PayoutTwoTransactions` | 1 accrual, 2 batches, 2 attempts, 2 transactions in all, 2 clients that do everything, crashes; 2.1 million states | an available accrual is and will be unpaid (`AvailableIsUnpaid`); paid exactly when closed (`PaidIffClosed`); no two batches hold an accrual (`AllocationExclusive`); the engine implements `CommissionObligation`, so that nothing is paid twice (`ObligationKept`) |
| `PayoutTwoItems` | 2 accruals, wallets, items and sequences, crashes; 3.1 million states | finalized batches are settled (`FinalizedBatchIsSettled`); records are true (`RecordedIsTrue`); what is transferred is not released (`FinalizedStaysAllocated`) |
| `PayoutProgress` | 2 handlers that crash, one of them the finality worker too; overrides, dropped forks, late heights; 50,000 states | paid is final on chain (`PaidIsFinalOnChain`); submitted transactions are resolved (`SubmittedIsResolved`); finalized batches are closed, unless a release that had been decided on before cancels them (`FinalizedIsClosed`) |
| `PayoutTransfers` | 3 items of 2 amounts in 1 or 2 transactions, 1 of them altered, saved in 1 or 2 calls; 950,000 states | a closed batch has paid what the verification sees to those it is mapped to, and everybody exactly if the code's signers signed it (`ClosedIsPaid`); what they accepted can be closed (`SignedIsVerified`) |
| `Ledger` | 3 receipts worth nothing, a little or more, 2 payout wallets, 4 batches, 1 release, minimum 15, 1 recipient a batch; 80,000 states | ledger and summaries agree and sum to zero (`LedgerMatchesSummary`); closures balance (`ClosureBalances`); whoever is due enough is planned (`DueIsPlanned`); `CommissionMath` agrees with its definition by comparison (`CommissionIsShare`, an assumption TLC evaluates) |
| `WebhookCrashes` | 2 events, 2 workers, 3 attempts, crashes, requeues | one worker per event (`OneDispatcher`); a retryable failure is given all its attempts (`RetriesNotCutShort`); events are decided (`EventIsDecided`) |
| `ReceiptRaces` | 2 receipts for 1 settlement, 2 handlers, 2 workers, crashes, requeues; 550,000 states | one credit (`OneCreditPerSettlement`), explained races (`LostRaceIsExplained`), nothing payable that is not settled (`PayableIsSettled`), a decision about every receipt (`ReceiptIsDecided`) |
| `CampaignRaces` | 2 handlers, 2 versions, 2 origins, 1 key, crashes; 1.7 million states | signatures cover the terms (`SignatureCoversTerms`), what is offered is signed (`OfferedIsSigned`) and vetted (`SignedOriginIsVetted`), versions stay (`VersionsAreImmutable`), later requests leave a closed campaign closed (`LaterRequestsKeepClosed`) |
| `RouteRotations` | 3 claims to 2 wallets, 3 versions, 2 handlers, crashes; 4.8 million states | `PointerIsRegistered`, `VersionAheadIsInHand`, `AnsweredIsRegistered`, `CreditFollowsClaim` |
| `Sessions` | 1 challenge, 3 handlers, 3 pairs, time to 4, crashes; 1.8 million states | `OneHolder`, `LogoutIsFinal`, `EndedOnlyByLogoutOrCrash`, `AccessEndsAfterLogout` |
| `PaidCalls` | a router with or without a recorder, 2 providers, the first of which has an outbox and changes price, campaign or key, 2 dispatchers, 3 attempts; 150,000 states | what is accepted is ingested (`AcceptedIsIngested`), given up for cause (`GivenUpForCause`), a success was paid as quoted and is on record if it says so (`SuccessIsRecorded`), a held receipt ends the spending (`HeldReceiptEndsIt`), receipts leave the outbox (`ReceiptLeavesOutbox`) |

**Why these bounds.** A double payment needs two transactions that carry an
accrual, of two batches or of two attempts: `PayoutTwoTransactions` has both, and
its constraint, two transactions in all, cuts off only what repeats them. A lost
roll-up needs two transactions of one batch. Every race in the payout engine is
between two operations in flight, and both clients of the safety runs may run any
of them (`Workers = Handlers`, which is also what makes their symmetry sound); the
chain and the operators are actors of their own. In the registries, too, a race is
between two requests; three claims let one rotation follow another and return to the
first wallet, two versions let an activation overlap a versioning. A login that races
a refresh that races a logout takes three handlers, and two lifetimes of a session fit into
the time of `Sessions`. A router needs a provider to pay and another to pay wrongly; both may be paid in one
execution, and only the first has an outbox, for records do not meet and each is dispatched
alike. An override that is decided on while another handler's broadcast is made
final takes two handlers (`PayoutProgress`). Two equal
and a third different amount are the least in which the matching of transfers can go
wrong; transactions of at most 2 or 3 items (`Sizes`) have a batch in two and in
one; those of 1 are left to the theorems, for they multiply the states. The
invariants that matter most are also proved without bounds.

**Liveness and its fairness.** The worker loops poll for ever
(`runWorkerLoop`, `runWebhookDispatchWorkerLoop`), claims are ordered by
`available_at`, so that each pending event's turn comes (strong fairness of its
claim), and the chain decides about every transaction it is sent (weak fairness
of landing, failing, expiring, finalizing). Strong fairness of an answer other
than `retry` says that RPC nodes do not fail for ever. In `PayoutProgress`
clients crash, but not always at the same step: a write gets the row it waits for
again and again (`RowComes`: a row lock is a queue, and the transaction that holds it ends),
and a worker is not killed in each of its closures and each commit of its sweeps.
`FinalizedIsClosed` excepts a batch about which a forced release has already passed its
guard (`ReleaseDecided`), and one whose accruals have been freed; no other release
passes once the batch is finalized, which is what the property rests on. In the webhook and receipt runs an
event whose worker dies is excepted (`Stranded`), because nothing takes back an event
in processing. `RebroadcastsEnd` is the premise that nobody broadcasts the
same bytes again for ever: each late record may undo what the sweep recorded.
In `PaidCalls` dispatchers are polled for as long as the merchant runs and take the
oldest due record first; the router is under no fairness. In `Ledger` the merchant
asks for a batch again and again, with nobody else holding rows at the time; nothing
says that batches are paid. No run uses symmetry together with liveness.

**Deadlock** is not checked: a system whose batches are all closed, whose events are
all decided, whose call has ended or whose bound of time or versions is reached has
nothing left to do.

One run finds a disagreement between the code and what its documents say, quoted
under `findings`: in `PayoutSignAfterRelease` bytes are saved and broadcast for a
batch whose allocations have been released, since `saveSignedPayoutTransactions` does
not look at the status.

### Places that read surprisingly

These are modelled as the code has them. Where a property would be broken by one of
them, the property says what it excepts.

*Payout engine.*
The late record of a broadcast takes a finalized transaction back to submitted
(`postgres.ts:983`; the architecture, line 2157, asks for compare-and-set).
A forced release that passed its guard before the transfers of the batch were recorded
cancels it although it is finalized by then: the transactions are read before the update
and not again (`postgres.ts:661`; `FinalizedIsClosed` excepts it).
A batch finalized by a second attempt is never closed, for the verifier wants every
attempt to be finalized (`solana.ts:1515`).
Two concurrent roll-ups miss each other and the batch stays behind
(`postgres.ts:3395`), and a roll-up overwrites a batch that has been cancelled
(`postgres.ts:3420`).
Reconciliation takes up expired transactions, for which the monitor throws
(`solana.ts:3283`).
A failure at a commitment that is not final, or an expiry decided from a block height
read after the status, is recorded and released as terminal (`FailOnFork`, `NotFound`).
A transaction saved without its expected signature never blocks a release
(`ReleaseHazards`; run any payout configuration with `SignatureChoices = {FALSE}`).

*Planning, signing and transfers.*
Items of equal amounts that are planned in the order in which the creation of the
batch answered them, not in that of the store, are paid and never verify: a transfer
is matched with the first item of its amount, and the token account that would tell
them apart is recorded nowhere (`SignedIsVerified` therefore speaks of plans made
from the store).
The payout signer compares the hash of the whole plan with that of the one
transaction it is asked to sign, in which it wants a single transfer, and so refuses
every batch of several items (`apps/payout-signer/src/app.ts:710` and `:773`,
`AcceptedByService`).
The transactions of separate calls of `saveSigned` are not compared, so that an item
may be mapped to two sequences, and saved bytes are never compared with their items. If both
are signed elsewhere to pay that item, it is paid twice and the batch is closed.
The verification before the closure sees `transferChecked` instructions only
(`solana.ts:3198`): bytes signed elsewhere may carry a plain transfer to anybody besides,
land, verify and be closed. `ClosedIsPaid` says exactly once, and nobody else, only
of what the code's own signers have signed, and of the rest what the verification sees.

*Commission.*
A limit on accruals is applied in the order of the wallets and starves the later ones
(`postgres.ts:3146`).
What was booked for a receipt that is rejected stays booked, which
`LedgerMatchesSummary` counts. A receipt whose credit rounds to zero books nothing,
not even its fee. The obligation summary counts an item as paid when it is final,
before the batch is closed, and reads accruals and batches in separate queries, which
is one step here. The time of planning comes from the client.

*Webhooks and receipts.*
An event whose worker dies stays in processing (`postgres.ts:1487`; the architecture,
line 1259, says at least once).
An exact duplicate that races its first copy may be answered with a conflict (`Look`),
which the merchant's submitter takes for a refusal: the record becomes a dead letter
although its receipt is ingested. Dispatchers overwrite an accepted record with pending or
dead letter. The in-memory outbox is lost at a restart, which is not modelled.

*Registries.*
An activation or a versioning that began before a close reopens the campaign
(`LaterRequestsKeepClosed` has what remains). An activation that overlaps a
versioning makes a campaign active whose current version is unsigned
(`OfferedIsSigned` speaks of some version). An activation that names no version may
sign one whose origin was never checked (`VersionNamed`). A revocation of a key with
a date in the future may take back an earlier one.
A crash between the two statements of a rotation leaves a version no route points to,
which blocks all later rotations, while the same claim is answered with the old route.
A crash between those of an activation leaves a route all of whose receipts are
refused. A rotation reports success when it found another current version.
A rotation moves the route's `issued_at`, after which receipts issued earlier are
refused when they are submitted later.

*Paid calls.*
A router without a receipt recorder, which is the default
(`packages/router/src/index.ts:692`), returns a success whose receipt need not be on
record anywhere: it is there only if the merchant submits it. A router told not to verify
receipts accepts one signed with any key.
The offer that is paid is not the one that was inspected: the router may pay another
amount than it agreed to, beyond its budget, before it finds out from the receipt
(`packages/router/src/index.ts:1290`; `packages/router/README.md:5-6`).
A receipt has its version from the offer and its terms hash from the campaign cached
by then; if the merchant refreshed in between, ingestion refuses it. A key rotated
after discovery makes a paid receipt invalid, and the router pays the next provider.
What discovery found is never looked up again.

## 4. What is proved

The theorems hold for any finite or infinite sets of accruals, wallets, batches,
sequences, attempts, workers, handlers, dispatchers, events, receipts, claims,
origins, keys and challenges, for any number of providers tried, and for every setting
of the switches, so also without `Runbook` and `Exclusive`, with overrides, dropped
forks and late heights, except where a theorem names what it needs (below).
Only `CommissionLedger` and `PayoutTransfers`, which add amounts up, take receipts, wallets,
batches and items to be finitely many: they are rows of tables. The theorems assume the named
assumptions of the modules only, which TLC evaluates on each run: that an accrual has a wallet
(`PayoutWalletAssumption`), that sequences, attempts, times, rates and bounds are naturals
(`NumberingAssumption`, `AttemptCapAssumption`, `DeliveryAssumption`,
`ReceiptAssumption`, `RouteAssumption`, `CampaignAssumption`, `WalletAuthAssumption`,
`OutboxAssumption`, `PaidCallAssumption`, `LedgerAssumption`, `TransfersAssumption`),
that switches are Booleans (`SwitchAssumption`), and that the values that stand for
a missing row are none of the rows.

**`PayoutEngine_proofs`: `TypeCorrect`, `AllocationsAreExclusive`.** The invariant
`IInv` adds to types and exclusiveness that an operation about to write has an
answer to write and one about to commit has computed its roll-up (`Sound`), and
that a batch that is not created holds nothing (`UncreatedIsEmpty`); without the
first the status written might be none, without the second the creation of a
batch might drop a holder. That the first of the transactions still to be
treated exists (`FirstOfIsMember`) rests on the well-foundedness of the naturals.

**`PayoutEngine_proofs`, second part: `RecordsAreTrue`, `FinalizedBatchesAreSettled`,
`PaidIsFinal`.** These are about writes that compare nothing: a record may arrive
arbitrarily late and overwrite a newer one. The argument is that what a monitor
answered was true when it answered and that truth survives (`Advances`: the
chain takes no outcome back, a row keeps its items, a batch its accruals). The
invariant `TInv` therefore says of every operation in flight that its verdict,
its computed roll-up and the accruals it is about to pay are borne out by the
chain (`TrueOp`), next to the same of the store (`TrueStore`) and the order in
which rows come to exist (`Ordered`). Each step either moves an operation on to
another true one or writes what a true operation carries. `Reliable` appears in
`RecordedIsTrue` alone: with dropped forks or late heights recorded failures and
expiries may be wrong, but confirmed, finalized, settled and paid never are.

**`PayoutEngine_proofs`, third part: `AvailableAreUnpaid`, `PaidAreThoseClosed`,
`FinalizedItemsStay`, `ObligationsAreKept`.** These are the promises that a release puts
at risk, and the code keeps them only with discipline outside it. The theorems say which,
as hypotheses on the constants:

- `Disciplined`: nothing is signed while a batch is released or after (`Exclusive`),
  signed bytes are saved together with their signature (`SignatureChoices` without
  `FALSE`), and monitors answer by a fork that stays and a height that is not late
  (`Reliable`). Each is needed: TLC refutes `AvailableIsUnpaid` on the instance of
  `PayoutTwoTransactions` as soon as one of them is dropped. A row saved without a
  signature is invisible to the hazards a release looks for; signing after a release
  is the finding of the run `PayoutSignAfterRelease`; a failure reported from a dropped
  fork, or an expiry by a late height, lets a release go ahead of a transaction that lands.
- no overrides (`~ AllowOverride`), for all but `FinalizedItemsStay`, whose statement
  excepts what was overridden itself: an override releases what may land.
- `Runbook`, for `ObligationsAreKept`: a first attempt is signed only for items for which
  nothing has been signed, a later one only once the one before is recorded as failed.

Under them the argument is this. What may be released is settled by what the
release has read, and `SInv` says that this stays so until it commits: a batch
it is about to free has no transaction that can still land, for every row that
existed when it looked is dead and none is added (`Exclusive`). An accrual on offer thus
belongs to cancelled batches only, all of whose transactions are dead. For the
refinement two more invariants are needed: `AttemptsInTurn`, that of the transactions
of one sequence all but the last are dead, so that no two attempts land, and `OneMover`,
that of all transactions that carry an accrual at most one has moved it or can still. Each
step then maps to a transfer, a clearance or a stutter of `CommissionObligation`.

**`WebhookDelivery_proofs`: `OneDispatcherHolds`, `AttemptsBoundedHolds`,
`RetriesAreNotCutShort`.** Whoever
holds an event holds it in processing, and only pending events are claimed. The
second is proved and not run. For the third, an action property, the attempts a worker
holds are those of its event: nobody else counts one while the event is in processing.

**`ReceiptIngestion_proofs`: `CreditedOnce`, `LostRacesAreExplained`,
`PayablesAreSettled`.** One credit follows from the unique column alone
(`StoredApart`), whatever the lookups before it saw. A lost race is explained because
rows stay: in its second round of lookups a handler still has before it a field in
which a stored row collides (`Sound`). Payability rests on accrual and receipt
waiting together (`PendingTogether`) and on a confirmation in a worker's hand being
true until it is written, for the chain does not take a settlement back.

**`RouteRegistry_proofs`: four theorems, one for each property of the run.** The
number a request writes is at most the next one, the first version is written by one
request only (`OneFirst`), and whoever is about to point the route holds the version it
inserted (`Sound`). Primary key and unique claim hash do the rest: of two rotations
that read the same route one inserts and the other finds a duplicate.

**`CampaignRegistry_proofs`: five theorems, one for each property of the run.** What a
request has read is no newer than what is there (`RequestsAreOlder`), and versions are
numbered without gaps (`VersionChain`), so that a primary key is enough to keep two
versionings apart, and a signature verified earlier is over terms that stay.

**`WalletAuth_proofs`: four theorems, one for each property of the run.** A lineage
begins with the consumption of its challenge, which happens once (`LineageConsumed`);
an issuer's pair is its own (`IssuedApart`); the conditional updates of challenge and
token hand the lineage from one holder to the next. No session outlives its logout by
more than a lifetime (`SessionsBounded`), for a handler's clock is never ahead.

**`PaidCall_proofs`: four theorems, one for each invariant of the run.** A stale mark of
a dispatcher may set the count of a record back, but never above the submissions that
were made (`MarksSound`), so that an exhausted count is a true one. The router holds at
most the receipt of the provider it is at, and has paid no later one
(`SpendingSound`); a receipt that was good stays as it was when it is recorded. What a
success says holds for either choice of recorder, sinks and verification: `recorded`
travels with the execution and is true only after an accepted submission.

**`CommissionLedger_proofs`: `CommissionIsSplit`, `PartsEarnNoMore`.** For every amount and
rate fee and credit add up to the commission and are within it, and a payment in two
parts earns at most as much as the whole, and at most one unit less.

**`CommissionLedger_proofs`, second part: `TypeCorrect`, `ClosuresBalance`,
`LedgerAgreesWithSummary`.** The sums of the model are the community modules'
`SumFunction`, a fold. What is needed to know of it (an element, a part or disjoint
parts can be taken out, in any order; zeros, negatives and positives; a table has the same
sum by rows and by columns) is proved first, by induction over the subsets of the
domain. The library's induction theorems take the property as a parameter, which
the provers cannot instantiate; here it is the *set* of the subsets that have it
(`FiniteSetInduction`), which rests on the well-foundedness of the naturals.
The invariant `LInv` says: what is accrued for a receipt is what was booked for it
(`AccruedIsBooked`); an item of a batch that is not released is worth its
allocations, which are accruals of its wallet, allocated until the closure and paid after it
(`BatchHolds`); no accrual is in two batches, and what is allocated or paid is in one
(`HeldOnce`). `ClosuresBalance` is a part of it. For `LedgerAgreesWithSummary` the accruals of a
wallet fall into those that are outstanding, covered by a final item, rejected, and
never credited (`AccruedInParts`); those covered are worth what was
transferred, closed or not (`TransfersCover`); and what all closures take from all wallets
is what they take from the liability, by summing the table the other way
(`PayablesTogether`). TLC checked `LInv` on the instance of the run `Ledger` before it
was proved.

**`CommissionLedger_proofs`, last part: `ClosedBatchesArePaid`, `SignedPlansAreVerified`.**
These are theorems of `PayoutTransfers`, which the module extends beside `CommissionLedger`
(so the names of its state and specification are its own), for their proofs need the same
lemmas on sums and induction. They assume `TransfersAssumption`: a finite set of
items, positive amounts, and somebody who is not among the wallets.
A fold over a sequence is turned into the sequence of its intermediate results
(`StepsExist`, `StepsStay`: the fold exists, and a step is known as long as the
results so far are of the right kind). For the first theorem, in every intermediate result of a
matching that does not fail, a wallet has received, by transfers that are seen, its amount
if its item is matched and nothing if not (`MatchedIsPaid`), and the items matched are
the recipients of the transfers (`MatchedAreRecipients`). The invariant `PInv` says that
what the ledger was closed with matched its mapping and covered the items
(`ClosedSound`), which nothing done later changes, and that planning, serialising, signing
and saving come in this order (`InOrder`). What the code's signers have signed are
the transfers of the plan, all of them seen (`SignedBytes`), and chunks of a plan have
no item in common (`ChunksApart`); so whatever a transaction was mapped to, if it
verified it was its own chunk, and those that cover all items are all of the plan, each once
(`SignedPaysOnce`). Without such a signer the two gaps of section 3 remain, and the theorem
says no more than the verification sees. For the second,
the stored order exists and holds each item (`StoredIsListing`), its chunks are parts of
it in the same order and cover it, whatever their size (`ChunksHold`), and of a part in
that order the matching takes the items one after the other (`ListingMatches`).
Nothing is said of a plan made from the answer to the creation of the batch, for
which the property is false (section 3).

**Only model-checked:** every liveness property, for liveness under fairness is beyond
the prover (`SubmittedIsResolved`, `FinalizedIsClosed`, `EventIsDecided`,
`ReceiptIsDecided`, `ReceiptLeavesOutbox`, `DueIsPlanned`). Every safety invariant and
action property of the runs has a theorem.

## 5. What is not modelled, and the plan

Not modelled for good: formats and signatures (`packages/protocol`), user interfaces,
demonstrations and the MCP gateway, repository tooling and deployment, which are most of the repository's lines; discovery and
funding views, which only read; migrations and process set-up; the in-memory stores
of the control plane, which stand in for Postgres in tests and development. Of the
parts that are modelled, validation of requests, authorisation of callers and the
text of answers are left open throughout.

In the order planned:

1. `FinalityMonitor`: the failover over several RPC URLs, shown to implement the
   answers of `PayoutEngine`; the limit and order of the sweep's listing.
2. The router's ranking and budget, which `PaidCall` has as assumptions about the
   providers tried, and the merchant's cache of idempotent answers, keyed by an
   identifier the client chooses.

## 6. Running

In this directory, for instance:

    tlc -workers 2 -config PayoutTwoTransactions.cfg MCPayoutEngine
    tlc -workers 2 -config PayoutTransfers.cfg PayoutTransfers
    tlc -workers 2 -config WebhookCrashes.cfg MCWebhookDelivery
    tlc -workers 2 -config ReceiptRaces.cfg MCReceiptIngestion
    tlc -workers 2 -config CampaignRaces.cfg MCCampaignRegistry
    tlc -workers 2 -config RouteRotations.cfg MCRouteRegistry
    tlc -workers 2 -config Sessions.cfg MCWalletAuth
    tlc -workers 2 -config PaidCalls.cfg MCPaidCall
    tlc -workers 2 -config Ledger.cfg MCCommissionLedger
    for m in *_proofs.tla; do tlapm $m; done

The other `Payout...` configurations are for `MCPayoutEngine`, too. `PROJECT.json`
lists the runs with their modules, the mutants, the map from definitions to source
lines, findings, hazards and theorems. The longest runs, `ReceiptRaces` and
`PayoutProgress`, take two to three minutes.
