------------------------ MODULE PayoutEngine_proofs ------------------------
(***************************************************************************)
(* The payout engine for any number of accruals, wallets, batches,         *)
(* transactions, workers and handlers, under every interleaving and crash: *)
(*  - its types, and the exclusiveness of allocations (IInv);              *)
(*  - observations are never ahead of the chain, a finalized batch has all *)
(*    of its items transferred, only transferred commission is paid (TInv);*)
(*  - what is released is unpaid and stays so, what is paid is closed, and *)
(*    no finalized item is released, in a disciplined engine (SInv);       *)
(*  - with the runbook too, it implements CommissionObligation.            *)
(***************************************************************************)
EXTENDS PayoutEngine, FiniteSetTheorems, WellFoundedInduction, TLAPS

-----------------------------------------------------------------------------
(* The order in which an operation treats its transactions                 *)

\* A non-empty set of naturals has a least element.
LEMMA LeastNat ==
  ASSUME NEW T \in SUBSET Nat, T # {}
  PROVE  \E n \in T : \A m \in T : n <= m
<1>1. PICK n \in T : \A m \in T : ~ (<<m, n>> \in OpToRel(<, Nat))
  BY NatLessThanWellFounded, WFMin
<1>2. ASSUME NEW m \in T PROVE ~ (m < n)
  <2>1. m \in Nat /\ n \in Nat /\ ~ (<<m, n>> \in OpToRel(<, Nat))
    BY <1>1
  <2> QED BY <2>1, Zenon DEF OpToRel
<1>3. \A m \in T : n <= m
  BY <1>2
<1> QED
  BY <1>3

\* The first of the transactions an operation still has to treat is one of them.
LEMMA FirstOfIsMember ==
  ASSUME NEW todo \in SUBSET Targets, todo # {}
  PROVE  FirstOf(todo) \in todo
<1>1. \A t \in todo : t.key[1] \in Nat /\ t.key[2] \in Nat
  BY NumberingAssumption DEF Targets, Keys
<1>2. PICK t \in todo : \A u \in todo : t.key[1] <= u.key[1]
  <2> DEFINE T == {u.key[1] : u \in todo}
  <2>1. T \in SUBSET Nat /\ T # {}
    BY <1>1
  <2>2. \E n \in T : \A m \in T : n <= m
    BY <2>1, LeastNat
  <2> QED BY <2>2
<1>3. PICK v \in todo : /\ v.key[1] = t.key[1]
                        /\ \A u \in todo : u.key[1] = t.key[1] => v.key[2] <= u.key[2]
  <2> DEFINE S == {u \in todo : u.key[1] = t.key[1]}
             T == {u.key[2] : u \in S}
  <2>1. T \in SUBSET Nat /\ T # {}
    BY <1>1
  <2>2. \E n \in T : \A m \in T : n <= m
    BY <2>1, LeastNat
  <2> QED BY <2>2
<1>4. \A u \in todo : ~ Before(u.key, v.key)
  BY <1>1, <1>2, <1>3 DEF Before
<1> QED
  BY <1>4 DEF FirstOf

-----------------------------------------------------------------------------
(* The inductive invariant                                                 *)

Operations == {Idle} \cup CheckOps \cup ReleaseOps \cup CloseOps

\* An answer about to be written says something, the roll-up about to be
\* committed has been computed, and no height is read late unless it may be.
Sound(o) ==
  o \in CheckOps =>
    /\ o.pc = "height" => LateHeights
    /\ o.pc \in {"write", "commit"} => o.verdict \in TxStatuses
    /\ o.pc = "commit" => o.roll.status # "none"

SoundOps == {o \in Operations : Sound(o)}

\* A batch that has not been created holds nothing.
UncreatedIsEmpty == \A b \in Batches : batch[b] = "none" => alloc[b] = {}

IInv ==
  /\ TypeOK
  /\ \A c \in Clients : Sound(op[c])
  /\ UncreatedIsEmpty
  /\ AllocationExclusive

-----------------------------------------------------------------------------
(* Operations in flight are of their types                                 *)

\* The kind of an operation tells its type.
LEMMA KindTellsType ==
  ASSUME NEW o \in Operations
  PROVE  /\ o.kind \in {"submit", "sweep", "reconcile", "release"} => o \in CheckOps
         /\ o.kind = "store" => o \in ReleaseOps
         /\ o.kind = "close" => o \in CloseOps
  BY DEF Operations, Idle, CheckOps, ReleaseOps, CloseOps

LEMMA CheckingIsSound ==
  ASSUME NEW kind \in {"submit", "sweep", "reconcile", "release"},
         NEW todo \in SUBSET Targets, todo # {}
  PROVE  Checking(kind, todo) \in CheckOps /\ Sound(Checking(kind, todo))
<1>1. FirstOf(todo) \in todo
  BY FirstOfIsMember
<1>2. NoRoll \in Rolls
  BY DEF NoRoll, Rolls
<1> QED
  BY <1>1, <1>2 DEF Checking, CheckOps, Verdicts, Sound

LEMMA StoringIsSound ==
  ASSUME NEW b \in Batches, NEW proven \in SUBSET Keys, NEW override \in BOOLEAN
  PROVE  Storing(b, proven, override) \in SoundOps
  BY DEF Storing, SoundOps, Operations, Sound, ReleaseOps, CheckOps

LEMMA IdleIsSound == Idle \in SoundOps
  BY DEF Idle, SoundOps, Operations, Sound, CheckOps

LEMMA ProceedIsSound ==
  ASSUME NEW o \in CheckOps
  PROVE  Proceed(o) \in SoundOps
<1>1. /\ o.kind \in {"submit", "sweep", "reconcile", "release"}
      /\ o.todo \in SUBSET Targets /\ o.cur.batch \in Batches
      /\ o.proven \in SUBSET Keys /\ o.blocked \in BOOLEAN
  BY DEF CheckOps, Targets
<1>2. CASE o.todo # {}
  <2> DEFINE n == Checking(o.kind, o.todo)
  <2>1. n \in CheckOps /\ n.pc = "check"
    BY <1>1, <1>2, CheckingIsSound DEF Checking
  <2>2. Proceed(o) = [n EXCEPT !.proven = o.proven, !.blocked = o.blocked]
    BY <1>2 DEF Proceed
  <2> HIDE DEF n
  <2>3. Proceed(o) \in CheckOps /\ Proceed(o).pc = "check"
    BY <1>1, <2>1, <2>2 DEF CheckOps
  <2> QED BY <2>3 DEF SoundOps, Operations, Sound
<1>3. CASE o.todo = {} /\ o.kind = "release" /\ ~ o.blocked
  BY <1>1, <1>3, StoringIsSound DEF Proceed
<1>4. CASE o.todo = {} /\ ~ (o.kind = "release" /\ ~ o.blocked)
  BY <1>4, IdleIsSound DEF Proceed
<1> QED
  BY <1>2, <1>3, <1>4

LEMMA WriteIsSound ==
  ASSUME NEW o \in CheckOps, NEW v \in TxStatuses, v # "signed"
  PROVE  Write(o, v) \in SoundOps
  BY DEF Write, SoundOps, Operations, Sound, CheckOps, TxStatuses, Verdicts

-----------------------------------------------------------------------------
(* Rolled-up statuses are statuses                                         *)

LEMMA RollupIsTyped ==
  ASSUME NEW items \in [Wallets -> ItemStatuses \cup {"none"}],
         NEW txs \in [Keys -> Tx]
  PROVE  Rollup(items, txs) \in Rolls /\ Rollup(items, txs).status \in BatchStatuses
<1>1. ASSUME NEW w \in Wallets PROVE RolledItem(items, txs, w) \in ItemStatuses \cup {"none"}
  <2> DEFINE carrying == {k \in LatestAttempts(txs) : /\ w \in txs[k].items
                                                      /\ txs[k].status \in DictatesItems}
             last == {k \in carrying : \A l \in carrying : ~ Before(k, l)}
  <2>1. RolledItem(items, txs, w) =
          IF items[w] = "none" \/ last = {}
          THEN items[w] ELSE txs[CHOOSE k \in last : TRUE].status
    BY DEF RolledItem
  <2>2. last # {} => (CHOOSE k \in last : TRUE) \in last
    OBVIOUS
  <2>3. \A k \in last : txs[k].status \in ItemStatuses
    BY DEF DictatesItems, ItemStatuses
  <2> HIDE DEF last
  <2> QED BY <2>1, <2>2, <2>3
<1>2. RolledStatus(items, txs) \in BatchStatuses
  BY DEF RolledStatus, BatchStatuses
<1>3. "none" \notin BatchStatuses
  BY DEF BatchStatuses
<1> QED
  BY <1>1, <1>2 DEF Rollup, Rolls

-----------------------------------------------------------------------------
(* Every step preserves the invariant                                      *)

\* A client's operation goes on to a sound one, and nothing is stored.
LEMMA OperationStep ==
  ASSUME IInv, NEW c \in Clients, NEW o \in SoundOps,
         op' = [op EXCEPT ![c] = o],
         chain' \in [Batches -> [Keys -> ChainStates]], UNCHANGED store
  PROVE  IInv'
<1>1. TypeOK'
  BY DEF IInv, TypeOK, store, SoundOps, Operations
<1>2. \A d \in Clients : Sound(op'[d])
  BY DEF IInv, TypeOK, SoundOps
<1>3. UncreatedIsEmpty' /\ AllocationExclusive'
  BY DEF IInv, store, UncreatedIsEmpty, AllocationExclusive
<1> QED
  BY <1>1, <1>2, <1>3 DEF IInv

LEMMA InitIInv == Init => IInv
<1> SUFFICES ASSUME Init PROVE IInv
  OBVIOUS
<1>1. TypeOK
  BY DEF Init, TypeOK, Tx, NoTx, ChainStates
<1>2. \A c \in Clients : Sound(op[c])
  BY DEF Init, Sound, Idle, CheckOps
<1>3. UncreatedIsEmpty /\ AllocationExclusive
  BY DEF Init, UncreatedIsEmpty, AllocationExclusive
<1> QED
  BY <1>1, <1>2, <1>3 DEF IInv

LEMMA CreateBatchStep ==
  ASSUME IInv, NEW b \in Batches, CreateBatch(b)
  PROVE  IInv'
<1>1. PICK S \in SUBSET Accruals :
        /\ \A a \in S : accrual[a] = "available"
        /\ accrual' = [a \in Accruals |-> IF a \in S THEN "allocated" ELSE accrual[a]]
        /\ covers' = [covers EXCEPT ![b] = S]
        /\ alloc' = [alloc EXCEPT ![b] = S]
        /\ item' = [item EXCEPT ![b] = PlannedItems(S)]
  BY DEF CreateBatch, Allocatable
<1>2. /\ batch[b] = "none" /\ batch' = [batch EXCEPT ![b] = "planned"]
      /\ UNCHANGED <<tx, ledger, chain, op>>
  BY DEF CreateBatch
<1>3. PlannedItems(S) \in [Wallets -> ItemStatuses \cup {"none"}]
  BY DEF PlannedItems, ItemStatuses
<1>4. TypeOK'
  BY <1>1, <1>2, <1>3 DEF IInv, TypeOK, BatchStatuses
<1>5. \A c \in Clients : Sound(op'[c])
  BY <1>2 DEF IInv
<1>6. UncreatedIsEmpty'
  BY <1>1, <1>2 DEF IInv, TypeOK, UncreatedIsEmpty
<1>7. AllocationExclusive'
  BY <1>1, <1>2 DEF IInv, TypeOK, AllocationExclusive, UncreatedIsEmpty
<1> QED
  BY <1>4, <1>5, <1>6, <1>7 DEF IInv

LEMMA SaveSignedStep ==
  ASSUME IInv, NEW b \in Batches, NEW k \in Keys, NEW W \in SUBSET Wallets,
         NEW sig \in SignatureChoices, SaveSigned(b, k, W, sig)
  PROVE  IInv'
<1>1. sig \in BOOLEAN
  BY SwitchAssumption
<1>2. /\ UNCHANGED <<accrual, batch, covers, alloc, item, ledger, chain, op>>
      /\ tx' = [tx EXCEPT ![b][k] = [status |-> "signed", items |-> W, sig |-> sig, sent |-> FALSE]]
  BY DEF SaveSigned
<1>3. tx' \in [Batches -> [Keys -> Tx]]
  BY <1>1, <1>2 DEF IInv, TypeOK, Tx, TxStatuses
<1> QED
  BY <1>2, <1>3 DEF IInv, TypeOK, UncreatedIsEmpty, AllocationExclusive

LEMMA ChainStepKeeps ==
  ASSUME IInv, NEW b \in Batches, NEW k \in Keys, NEW from, NEW to \in ChainStates,
         ChainStep(b, k, from, to)
  PROVE  IInv'
<1>1. chain' \in [Batches -> [Keys -> ChainStates]]
  BY DEF ChainStep, IInv, TypeOK
<1> QED
  BY <1>1 DEF ChainStep, store, IInv, TypeOK, UncreatedIsEmpty, AllocationExclusive

\* A transaction with a row, as an operation reads it.
LEMMA ReadIsTarget ==
  ASSUME TypeOK, NEW b \in Batches, NEW k \in Keys, tx[b][k].status # "none"
  PROVE  Read(b, k) \in Targets
  BY DEF TypeOK, Read, Targets, Tx

LEMMA BroadcastAcceptedStep ==
  ASSUME IInv, NEW c \in Clients, NEW b \in Batches, NEW k \in Keys, BroadcastAccepted(c, b, k)
  PROVE  IInv'
<1> DEFINE o == Checking("submit", {Read(b, k)})
<1>1. Read(b, k) \in Targets
  BY ReadIsTarget DEF BroadcastAccepted, CanBroadcast, IInv
<1>2. o \in CheckOps
  BY <1>1, CheckingIsSound
<1> HIDE DEF o
<1>3. Write(o, "submitted") \in SoundOps
  BY <1>2, WriteIsSound DEF TxStatuses
<1>4. chain' \in [Batches -> [Keys -> ChainStates]]
  BY DEF BroadcastAccepted, IInv, TypeOK, ChainStates
<1> QED
  BY <1>3, <1>4, OperationStep DEF BroadcastAccepted, o

LEMMA BroadcastUnansweredStep ==
  ASSUME IInv, NEW b \in Batches, NEW k \in Keys, BroadcastUnanswered(b, k)
  PROVE  IInv'
<1>1. chain' \in [Batches -> [Keys -> ChainStates]]
  BY DEF BroadcastUnanswered, IInv, TypeOK, ChainStates
<1> QED
  BY <1>1 DEF BroadcastUnanswered, store, IInv, TypeOK, UncreatedIsEmpty, AllocationExclusive

\* The row a finality or submission update leaves behind.
LEMMA MarkedIsTyped ==
  ASSUME TypeOK, NEW o \in CheckOps, o.kind # "submit" => o.verdict \in TxStatuses
  PROVE  Marked(o) \in Tx
<1>1. o.cur.batch \in Batches /\ o.cur.key \in Keys
  BY DEF CheckOps, Targets
<1>2. tx[o.cur.batch][o.cur.key] \in Tx
  BY <1>1 DEF TypeOK
<1> QED
  BY <1>2 DEF Marked, Tx, TxStatuses

LEMMA MarkBeginStep ==
  ASSUME IInv, NEW c \in Clients, MarkBegin(c)
  PROVE  IInv'
<1> DEFINE o == op[c]
           b == o.cur.batch
           k == o.cur.key
           roll == Rollup(item[b], [tx[b] EXCEPT ![k] = Marked(o)])
<1>1. o \in CheckOps /\ o.pc = "write" /\ o.verdict \in TxStatuses
  BY KindTellsType DEF MarkBegin, IInv, TypeOK, Operations, Sound
<1>2. b \in Batches /\ k \in Keys
  BY <1>1 DEF CheckOps, Targets
<1>3. Marked(o) \in Tx
  BY <1>1, MarkedIsTyped DEF IInv
<1>4. /\ item[b] \in [Wallets -> ItemStatuses \cup {"none"}]
      /\ [tx[b] EXCEPT ![k] = Marked(o)] \in [Keys -> Tx]
  BY <1>2, <1>3 DEF IInv, TypeOK
<1>5. roll \in Rolls /\ roll.status # "none"
  BY <1>4, RollupIsTyped DEF BatchStatuses
<1>6. /\ UNCHANGED store /\ UNCHANGED chain
      /\ op' = [op EXCEPT ![c] = IF ExpectedStatusHolds(o)
                                 THEN [o EXCEPT !.pc = "commit", !.roll = roll]
                                 ELSE Proceed(o)]
  BY DEF MarkBegin
<1>7. chain' \in [Batches -> [Keys -> ChainStates]]
  BY <1>6 DEF IInv, TypeOK
<1> HIDE DEF roll, o
<1>8. [o EXCEPT !.pc = "commit", !.roll = roll] \in SoundOps
  BY <1>1, <1>5 DEF SoundOps, Operations, Sound, CheckOps
<1>9. Proceed(o) \in SoundOps
  BY <1>1, ProceedIsSound
<1> QED
  BY <1>6, <1>7, <1>8, <1>9, OperationStep

LEMMA MarkCommitStep ==
  ASSUME IInv, NEW c \in Clients, MarkCommit(c)
  PROVE  IInv'
<1> DEFINE o == op[c]
           b == o.cur.batch
<1>1. /\ o \in CheckOps /\ o.pc = "commit"
      /\ o.verdict \in TxStatuses /\ o.roll.status # "none"
  BY KindTellsType DEF MarkCommit, IInv, TypeOK, Operations, Sound
<1>2. b \in Batches /\ o.cur.key \in Keys /\ o.roll \in Rolls
  BY <1>1 DEF CheckOps, Targets
<1>3. Marked(o) \in Tx
  BY <1>1, MarkedIsTyped DEF IInv
<1>4. o.roll.status \in BatchStatuses
  BY <1>1, <1>2 DEF Rolls
<1>5. ApplyItems(item[b], o.roll.items) \in [Wallets -> ItemStatuses \cup {"none"}]
  BY <1>2 DEF IInv, TypeOK, ApplyItems, Rolls
<1>6. Proceed(o) \in SoundOps
  BY <1>1, ProceedIsSound
<1>7. /\ tx' = [tx EXCEPT ![b][o.cur.key] = Marked(o)]
      /\ batch' = [batch EXCEPT ![b] = o.roll.status]
      /\ item' = [item EXCEPT ![b] = ApplyItems(item[b], o.roll.items)]
      /\ op' = [op EXCEPT ![c] = Proceed(o)]
      /\ UNCHANGED <<accrual, covers, alloc, ledger, chain>>
  BY DEF MarkCommit
<1> HIDE DEF o
<1>8. TypeOK'
  BY <1>2, <1>3, <1>4, <1>5, <1>6, <1>7 DEF IInv, TypeOK, SoundOps, Operations
<1>9. \A d \in Clients : Sound(op'[d])
  BY <1>6, <1>7 DEF IInv, TypeOK, SoundOps
<1>10. UncreatedIsEmpty'
  BY <1>1, <1>7 DEF IInv, TypeOK, UncreatedIsEmpty
<1>11. AllocationExclusive'
  BY <1>7 DEF IInv, AllocationExclusive
<1> QED
  BY <1>8, <1>9, <1>10, <1>11 DEF IInv

LEMMA SweepListStep ==
  ASSUME IInv, NEW c \in Clients, NEW b \in Batches, NEW k \in Keys, SweepList(c, b, k)
  PROVE  IInv'
<1>1. Read(b, k) \in Targets
  BY ReadIsTarget DEF SweepList, PendingFinality, IInv
<1>2. Checking("sweep", {Read(b, k)}) \in SoundOps
  BY <1>1, CheckingIsSound DEF SoundOps, Operations
<1>3. chain' \in [Batches -> [Keys -> ChainStates]]
  BY DEF SweepList, IInv, TypeOK
<1> QED
  BY <1>2, <1>3, OperationStep DEF SweepList

LEMMA NotFoundStep ==
  ASSUME IInv, NEW c \in Clients, NotFound(c)
  PROVE  IInv'
<1>1. op[c] \in CheckOps
  BY KindTellsType DEF NotFound, IInv, TypeOK, Operations
<1>2. [op[c] EXCEPT !.pc = "height"] \in SoundOps
  BY <1>1 DEF NotFound, SoundOps, Operations, Sound, CheckOps
<1>3. op' = [op EXCEPT ![c] = [op[c] EXCEPT !.pc = "height"]]
  BY DEF NotFound
<1>4. UNCHANGED store /\ chain' \in [Batches -> [Keys -> ChainStates]]
  BY DEF NotFound, IInv, TypeOK
<1> QED
  BY <1>2, <1>3, <1>4, OperationStep

LEMMA SweepMonitorStep ==
  ASSUME IInv, NEW c \in Clients, SweepMonitor(c)
  PROVE  IInv'
<1>1. op[c] \in CheckOps
  BY KindTellsType DEF SweepMonitor, Monitoring, IInv, TypeOK, Operations
<1>2. PICK v \in Answers(op[c]) :
        op' = [op EXCEPT ![c] = IF v \in {"retry", op[c].cur.status}
                                THEN Proceed(op[c]) ELSE Write(op[c], v)]
  BY DEF SweepMonitor
<1>3. v # "retry" => v \in TxStatuses /\ v # "signed"
  BY DEF Answers, MonitorAnswers, LateAnswers, TxStatuses
<1>4. Proceed(op[c]) \in SoundOps
  BY <1>1, ProceedIsSound
<1>5. v # "retry" => Write(op[c], v) \in SoundOps
  BY <1>1, <1>3, WriteIsSound
<1>6. UNCHANGED store /\ chain' \in [Batches -> [Keys -> ChainStates]]
  BY DEF SweepMonitor, IInv, TypeOK
<1> QED
  BY <1>2, <1>4, <1>5, <1>6, OperationStep

LEMMA ReconcileRequestStep ==
  ASSUME IInv, NEW c \in Clients, NEW b \in Batches, ReconcileRequest(c, b)
  PROVE  IInv'
<1> DEFINE todo == {Read(b, k) : k \in {l \in Keys : NeedsReconciliation(tx[b][l])}}
<1>1. todo \in SUBSET Targets
  BY ReadIsTarget DEF IInv, NeedsReconciliation
<1>2. todo # {} /\ op' = [op EXCEPT ![c] = Checking("reconcile", todo)]
  BY DEF ReconcileRequest
<1> HIDE DEF todo
<1>3. Checking("reconcile", todo) \in SoundOps
  BY <1>1, <1>2, CheckingIsSound DEF SoundOps, Operations
<1>4. UNCHANGED store /\ chain' \in [Batches -> [Keys -> ChainStates]]
  BY DEF ReconcileRequest, IInv, TypeOK
<1> QED
  BY <1>2, <1>3, <1>4, OperationStep

LEMMA ReconcileMonitorStep ==
  ASSUME IInv, NEW c \in Clients, ReconcileMonitor(c)
  PROVE  IInv'
<1>1. op[c] \in CheckOps
  BY KindTellsType DEF ReconcileMonitor, Monitoring, IInv, TypeOK, Operations
<1>2. \/ op' = [op EXCEPT ![c] = Idle]
      \/ \E v \in Answers(op[c]) :
           op' = [op EXCEPT ![c] = IF v = "retry" THEN Proceed(op[c]) ELSE Write(op[c], v)]
  BY DEF ReconcileMonitor
<1>3. ASSUME NEW v \in Answers(op[c]), v # "retry"
      PROVE  Write(op[c], v) \in SoundOps
  <2>1. v \in TxStatuses /\ v # "signed"
    BY <1>3 DEF Answers, MonitorAnswers, LateAnswers, TxStatuses
  <2> QED BY <1>1, <2>1, WriteIsSound
<1>4. Proceed(op[c]) \in SoundOps
  BY <1>1, ProceedIsSound
<1>5. UNCHANGED store /\ chain' \in [Batches -> [Keys -> ChainStates]]
  BY DEF ReconcileMonitor, IInv, TypeOK
<1> QED
  BY <1>2, <1>3, <1>4, <1>5, IdleIsSound, OperationStep

LEMMA ReleaseRequestStep ==
  ASSUME IInv, NEW c \in Clients, NEW b \in Batches,
         ReleaseRequest(c, b) \/ ReleaseOverride(c, b)
  PROVE  IInv'
<1> DEFINE todo == {Read(b, k) : k \in ReleaseHazards(tx[b])}
<1>1. todo \in SUBSET Targets
  BY ReadIsTarget DEF IInv, TypeOK, ReleaseHazards, Existing
<1>2. todo # {} => Checking("release", todo) \in SoundOps
  BY <1>1, CheckingIsSound DEF SoundOps, Operations
<1>3. Storing(b, {}, FALSE) \in SoundOps /\ Storing(b, {}, TRUE) \in SoundOps
  BY StoringIsSound
<1>4. \E o \in SoundOps : op' = [op EXCEPT ![c] = o]
  BY <1>2, <1>3 DEF ReleaseRequest, ReleaseOverride
<1>5. UNCHANGED store /\ chain' \in [Batches -> [Keys -> ChainStates]]
  BY DEF ReleaseRequest, ReleaseOverride, IInv, TypeOK
<1> QED
  BY <1>4, <1>5, OperationStep

LEMMA ReleaseMonitorStep ==
  ASSUME IInv, NEW c \in Clients, ReleaseMonitor(c)
  PROVE  IInv'
<1> DEFINE o == op[c]
           blocked == [o EXCEPT !.blocked = TRUE]
           proven == [o EXCEPT !.proven = @ \cup {o.cur.key}]
<1>1. o \in CheckOps
  BY KindTellsType DEF ReleaseMonitor, Monitoring, IInv, TypeOK, Operations
<1>2. blocked \in CheckOps /\ proven \in CheckOps
  BY <1>1 DEF CheckOps, Targets
<1>3. \/ op' = [op EXCEPT ![c] = Proceed(blocked)]
      \/ op' = [op EXCEPT ![c] = Proceed(proven)]
      \/ op' = [op EXCEPT ![c] = Write(proven, "failed")]
      \/ op' = [op EXCEPT ![c] = Write(blocked, "confirmed")]
      \/ op' = [op EXCEPT ![c] = Write(blocked, "finalized")]
  BY DEF ReleaseMonitor
<1> HIDE DEF o, blocked, proven
<1>4. \E n \in SoundOps : op' = [op EXCEPT ![c] = n]
  BY <1>2, <1>3, ProceedIsSound, WriteIsSound DEF TxStatuses
<1>5. UNCHANGED store /\ chain' \in [Batches -> [Keys -> ChainStates]]
  BY DEF ReleaseMonitor, IInv, TypeOK
<1> QED
  BY <1>4, <1>5, OperationStep

LEMMA ReleaseGuardStep ==
  ASSUME IInv, NEW c \in Clients, ReleaseGuard(c)
  PROVE  IInv'
<1>1. op[c] \in ReleaseOps
  BY KindTellsType DEF ReleaseGuard, At, IInv, TypeOK, Operations
<1>2. [op[c] EXCEPT !.pc = "apply"] \in SoundOps
  BY <1>1 DEF ReleaseOps, SoundOps, Operations, Sound, CheckOps
<1>3. \E n \in SoundOps : op' = [op EXCEPT ![c] = n]
  BY <1>2, IdleIsSound DEF ReleaseGuard
<1>4. UNCHANGED store /\ chain' \in [Batches -> [Keys -> ChainStates]]
  BY DEF ReleaseGuard, IInv, TypeOK
<1> QED
  BY <1>3, <1>4, OperationStep

LEMMA ReleaseApplyStep ==
  ASSUME IInv, NEW c \in Clients, ReleaseApply(c)
  PROVE  IInv'
<1> DEFINE b == op[c].batch
<1>1. b \in Batches
  BY KindTellsType DEF ReleaseApply, At, IInv, TypeOK, Operations, ReleaseOps
<1>2. /\ batch' = [batch EXCEPT ![b] = "cancelled"]
      /\ item' = [item EXCEPT ![b] = [w \in Wallets |->
                    IF w \in BatchWallets(b) THEN "released" ELSE "none"]]
      /\ accrual' = [a \in Accruals |->
                       IF a \in alloc[b] /\ accrual[a] = "allocated"
                       THEN "available" ELSE accrual[a]]
      /\ alloc' = [alloc EXCEPT ![b] = {}]
      /\ op' = [op EXCEPT ![c] = Idle]
      /\ UNCHANGED <<covers, tx, ledger, chain>>
  BY DEF ReleaseApply
<1> HIDE DEF b
<1>3. TypeOK'
  BY <1>1, <1>2 DEF IInv, TypeOK, BatchStatuses, ItemStatuses
<1>4. \A d \in Clients : Sound(op'[d])
  BY <1>2, IdleIsSound DEF IInv, TypeOK, SoundOps
<1>5. UncreatedIsEmpty'
  BY <1>2 DEF IInv, TypeOK, UncreatedIsEmpty
<1>6. AllocationExclusive'
  BY <1>1, <1>2 DEF IInv, TypeOK, AllocationExclusive
<1> QED
  BY <1>3, <1>4, <1>5, <1>6 DEF IInv

LEMMA CloseVerifyStep ==
  ASSUME IInv, NEW c \in Clients, NEW b \in Batches, CloseVerify(c, b)
  PROVE  IInv'
<1>1. [kind |-> "close", batch |-> b, held |-> alloc[b]] \in SoundOps
  BY DEF IInv, TypeOK, SoundOps, Operations, CloseOps, Sound, CheckOps
<1>2. UNCHANGED store /\ chain' \in [Batches -> [Keys -> ChainStates]]
  BY DEF CloseVerify, IInv, TypeOK
<1> QED
  BY <1>1, <1>2, OperationStep DEF CloseVerify

LEMMA CloseCommitStep ==
  ASSUME IInv, NEW c \in Clients, CloseCommit(c)
  PROVE  IInv'
<1>1. op[c].batch \in Batches
  BY KindTellsType DEF CloseCommit, IInv, TypeOK, Operations, CloseOps
<1>2. /\ accrual' \in [Accruals -> {"available", "allocated", "paid"}]
      /\ ledger' \in [Batches -> Nat]
      /\ \A a \in Accruals : accrual'[a] # accrual[a] => accrual'[a] = "paid"
  <2>1. CASE ledger[op[c].batch] = 0
    BY <1>1, <2>1 DEF CloseCommit, IInv, TypeOK
  <2>2. CASE ledger[op[c].batch] # 0
    BY <2>2 DEF CloseCommit, IInv, TypeOK
  <2> QED BY <2>1, <2>2
<1>3. /\ op' = [op EXCEPT ![c] = Idle]
      /\ UNCHANGED <<batch, covers, alloc, item, tx, chain>>
  BY DEF CloseCommit
<1>4. TypeOK'
  BY <1>2, <1>3 DEF IInv, TypeOK
<1>5. \A d \in Clients : Sound(op'[d])
  BY <1>3, IdleIsSound DEF IInv, TypeOK, SoundOps
<1>6. UncreatedIsEmpty' /\ AllocationExclusive'
  BY <1>2, <1>3 DEF IInv, UncreatedIsEmpty, AllocationExclusive
<1> QED
  BY <1>4, <1>5, <1>6 DEF IInv

LEMMA CrashStep ==
  ASSUME IInv, NEW c \in Clients, Crash(c)
  PROVE  IInv'
<1>1. UNCHANGED store /\ chain' \in [Batches -> [Keys -> ChainStates]]
  BY DEF Crash, IInv, TypeOK
<1> QED
  BY <1>1, IdleIsSound, OperationStep DEF Crash

LEMMA StepIInv == IInv /\ [Next]_vars => IInv'
<1> SUFFICES ASSUME IInv, [Next]_vars PROVE IInv'
  OBVIOUS
<1>1. CASE ChainNext
  BY <1>1, ChainStepKeeps DEF ChainNext, Land, Revert, FailOnFork, Finalize, Expire, ChainStates
<1>2. CASE OperatorNext
  BY <1>2, CreateBatchStep, SaveSignedStep, BroadcastUnansweredStep DEF OperatorNext
<1>3. ASSUME NEW c \in Handlers, HandlerNext(c) PROVE IInv'
  <2>1. c \in Clients
    BY DEF Clients
  <2> QED
    BY <1>3, <2>1, BroadcastAcceptedStep, ReconcileRequestStep, ReleaseRequestStep,
       CloseVerifyStep DEF HandlerNext
<1>4. ASSUME NEW c \in Workers, WorkerNext(c) PROVE IInv'
  <2>1. c \in Clients
    BY DEF Clients
  <2> QED
    BY <1>4, <2>1, SweepListStep, CloseVerifyStep DEF WorkerNext
<1>5. ASSUME NEW c \in Clients, Continue(c) \/ Crash(c) PROVE IInv'
  BY <1>5, NotFoundStep, SweepMonitorStep, ReconcileMonitorStep, ReleaseMonitorStep, MarkBeginStep,
     MarkCommitStep, ReleaseGuardStep, ReleaseApplyStep, CloseCommitStep, CrashStep
  DEF Continue
<1>6. CASE UNCHANGED vars
  BY <1>6 DEF IInv, TypeOK, Sound, UncreatedIsEmpty, AllocationExclusive, vars
<1> QED
  BY <1>1, <1>2, <1>3, <1>4, <1>5, <1>6 DEF Next

\* The store, the chain and the operations in flight have their types.
THEOREM TypeCorrect == Spec => []TypeOK
<1>1. IInv => TypeOK
  BY DEF IInv
<1> QED
  BY InitIInv, StepIInv, <1>1, PTL DEF Spec

\* AllocationExclusive: an accrual is never available while a batch holds it,
\* never allocated without one, and never held by two.
THEOREM AllocationsAreExclusive == Spec => []AllocationExclusive
<1>1. IInv => AllocationExclusive
  BY DEF IInv
<1> QED
  BY InitIInv, StepIInv, <1>1, PTL DEF Spec

-----------------------------------------------------------------------------
(* What the engine records is true of the chain, whatever operators do     *)

\* A recorded status does not contradict what has become of the transaction.
Truthful(s, seen) ==
  /\ s = "confirmed" => seen \in {"confirmed", "finalized"}
  /\ s = "finalized" => seen = s
  /\ Reliable /\ s \in {"failed", "expired"} => seen = s

Settled(b, w) == \E k \in Keys : w \in tx[b][k].items /\ chain[b][k] = "finalized"

TrueRoll(b, roll) ==
  /\ roll.status = "finalized" => \A w \in BatchWallets(b) : Settled(b, w)
  /\ \A w \in Wallets : roll.items[w] = "finalized" => Settled(b, w)
  /\ \A w \in Wallets : roll.items[w] # "none" => w \in BatchWallets(b)

\* An operation in flight carries only what the chain bears out.
TrueOp(o) ==
  /\ o \in CheckOps =>
       /\ \A t \in o.todo \cup {o.cur} : batch[t.batch] # "none"
       /\ o.pc \in {"write", "commit"} => Truthful(o.verdict, chain[o.cur.batch][o.cur.key])
       /\ o.pc = "commit" => TrueRoll(o.cur.batch, o.roll)
  /\ o \in CloseOps =>
       \A a \in o.held : a \in covers[o.batch] /\ Settled(o.batch, PayoutWallet[a])

\* Rows and batches exist in the order they are created in, and a failure is
\* pending only where forks may be dropped.
Ordered ==
  /\ \A b \in Batches, k \in Keys :
       /\ tx[b][k].status = "none" => chain[b][k] = "unsent"
       /\ chain[b][k] = "failing" => ForksDrop
  /\ \A b \in Batches : batch[b] = "none" =>
       covers[b] = {} /\ \A k \in Keys : tx[b][k].status = "none"
  /\ \A b \in Batches : alloc[b] \subseteq covers[b]
  /\ \A b \in Batches : \A a \in covers[b] : PayoutWallet[a] \in BatchWallets(b)

\* What the store says of items, batches and accruals is borne out too.
TrueStore ==
  /\ RecordedIsTrue
  /\ \A b \in Batches, w \in Wallets : item[b][w] = "finalized" => Settled(b, w)
  /\ FinalizedBatchIsSettled
  /\ \A a \in Accruals : accrual[a] = "paid" =>
       \E b \in Batches : a \in covers[b] /\ Settled(b, PayoutWallet[a])

TInv == IInv /\ Ordered /\ TrueStore /\ \A c \in Clients : TrueOp(op[c])

-----------------------------------------------------------------------------
(* How steps move on                                                       *)

\* The chain never takes an outcome back, and a row, a batch or an item that
\* exists keeps what it carries.
Advances ==
  /\ \A b \in Batches, k \in Keys :
       /\ \/ chain'[b][k] = chain[b][k]
          \/ chain[b][k] \in {"unsent", "inflight", "failing"}
          \/ chain[b][k] = "confirmed" /\ chain'[b][k] = "finalized"
       /\ tx[b][k].status # "none" => tx'[b][k].items = tx[b][k].items
  /\ \A b \in Batches : batch[b] # "none" =>
       batch'[b] # "none" /\ covers'[b] = covers[b] /\ BatchWallets(b)' = BatchWallets(b)

\* Truth survives a step that moves on.
LEMMA TruthSurvives ==
  ASSUME Advances, NEW b \in Batches, NEW k \in Keys, NEW s, Truthful(s, chain[b][k])
  PROVE  Truthful(s, chain'[b][k])
  BY DEF Advances, Truthful

LEMMA SettledSurvives ==
  ASSUME TypeOK, Ordered, Advances, NEW b \in Batches, NEW w \in Wallets, Settled(b, w)
  PROVE  Settled(b, w)'
<1>1. PICK k \in Keys : w \in tx[b][k].items /\ chain[b][k] = "finalized"
  BY DEF Settled
<1>2. chain'[b][k] = "finalized" /\ tx'[b][k].items = tx[b][k].items
  BY <1>1 DEF Advances, Ordered
<1> QED
  BY <1>1, <1>2 DEF Settled

LEMMA TrueOpSurvives ==
  ASSUME TypeOK, Ordered, Advances, NEW o \in Operations, TrueOp(o)
  PROVE  TrueOp(o)'
<1>1. CASE o \in CheckOps
  <2>1. /\ o.cur \in Targets /\ o.todo \in SUBSET Targets
        /\ o.cur.batch \in Batches /\ o.cur.key \in Keys
    BY <1>1 DEF CheckOps, Targets
  <2>2. \A t \in o.todo \cup {o.cur} : t.batch \in Batches /\ batch[t.batch] # "none"
    BY <1>1, <2>1 DEF TrueOp, Targets
  <2>3. \A t \in o.todo \cup {o.cur} : batch'[t.batch] # "none"
    BY <2>2 DEF Advances
  <2>4. o.pc \in {"write", "commit"} => Truthful(o.verdict, chain'[o.cur.batch][o.cur.key])
    BY <1>1, <2>1, TruthSurvives DEF TrueOp
  <2>5. BatchWallets(o.cur.batch)' = BatchWallets(o.cur.batch)
    BY <2>1, <2>2 DEF Advances
  <2>6. \A w \in Wallets : Settled(o.cur.batch, w) => Settled(o.cur.batch, w)'
    BY <2>1, SettledSurvives
  <2>7. ASSUME o.pc = "commit" PROVE TrueRoll(o.cur.batch, o.roll)'
    <3>1. TrueRoll(o.cur.batch, o.roll)
      BY <1>1, <2>7 DEF TrueOp
    <3>2. BatchWallets(o.cur.batch) \subseteq Wallets
      BY DEF BatchWallets
    <3> QED BY <3>1, <3>2, <2>5, <2>6 DEF TrueRoll
  <2>8. o \notin CloseOps
    BY <1>1 DEF CheckOps, CloseOps
  <2> QED BY <2>3, <2>4, <2>7, <2>8 DEF TrueOp
<1>2. CASE o \in CloseOps
  <2>1. o.batch \in Batches /\ o.held \in SUBSET Accruals
    BY <1>2 DEF CloseOps
  <2>2. ASSUME NEW a \in o.held
        PROVE  a \in covers'[o.batch] /\ Settled(o.batch, PayoutWallet[a])'
    <3>1. a \in covers[o.batch] /\ Settled(o.batch, PayoutWallet[a])
      BY <1>2 DEF TrueOp
    <3>2. covers'[o.batch] = covers[o.batch]
      BY <2>1, <3>1 DEF Advances, Ordered
    <3>3. PayoutWallet[a] \in Wallets
      BY <2>1, PayoutWalletAssumption
    <3> QED BY <2>1, <3>1, <3>2, <3>3, SettledSurvives
  <2>3. o \notin CheckOps
    BY <1>2 DEF CheckOps, CloseOps
  <2> QED BY <2>2, <2>3 DEF TrueOp
<1>3. CASE o \notin CheckOps /\ o \notin CloseOps
  BY <1>3 DEF TrueOp
<1> QED
  BY <1>1, <1>2, <1>3

-----------------------------------------------------------------------------
(* Steps that store nothing                                                *)

\* Only the chain moves on, for transactions that have a row.
ChainAdvances ==
  /\ UNCHANGED store
  /\ \A b \in Batches, k \in Keys :
       /\ \/ chain'[b][k] = chain[b][k]
          \/ chain[b][k] \in {"unsent", "inflight", "failing"} /\ tx[b][k].status # "none"
          \/ chain[b][k] = "confirmed" /\ chain'[b][k] = "finalized"
       /\ chain'[b][k] = "failing" => ForksDrop \/ chain[b][k] = "failing"

LEMMA ChainAdvancesIsAdvance ==
  ASSUME TypeOK, ChainAdvances
  PROVE  Advances
  BY DEF ChainAdvances, Advances, store, BatchWallets

LEMMA ChainAdvancesKeepsStore ==
  ASSUME TInv, ChainAdvances
  PROVE  Ordered' /\ TrueStore'
<1>1. Advances
  BY ChainAdvancesIsAdvance DEF TInv, IInv
<1>2. \A b \in Batches, w \in Wallets : Settled(b, w) => Settled(b, w)'
  BY <1>1, SettledSurvives DEF TInv, IInv
<1>3. Ordered'
  BY DEF TInv, Ordered, ChainAdvances, store, BatchWallets
<1>4. RecordedIsTrue'
  BY DEF TInv, TrueStore, RecordedIsTrue, Moved, ChainAdvances, store
<1>5. \A b \in Batches, w \in Wallets : item'[b][w] = "finalized" => Settled(b, w)'
  BY <1>2 DEF TInv, TrueStore, ChainAdvances, store
<1>6. FinalizedBatchIsSettled'
  <2>1. \A b \in Batches : batch[b] = "finalized" => \A w \in BatchWallets(b) : Settled(b, w)
    BY DEF TInv, TrueStore, FinalizedBatchIsSettled, Settled
  <2>2. \A b \in Batches : batch'[b] = "finalized" => \A w \in BatchWallets(b) : Settled(b, w)'
    BY <1>2, <2>1 DEF ChainAdvances, store, BatchWallets
  <2> QED
    BY <2>2 DEF FinalizedBatchIsSettled, Settled, BatchWallets, ChainAdvances, store
<1>7. \A a \in Accruals : accrual'[a] = "paid" =>
        \E b \in Batches : a \in covers'[b] /\ Settled(b, PayoutWallet[a])'
  BY <1>2, PayoutWalletAssumption DEF TInv, TrueStore, ChainAdvances, store
<1> QED
  BY <1>3, <1>4, <1>5, <1>6, <1>7 DEF TrueStore

\* A client's operation goes on to one the chain bears out, and nothing is
\* stored.
LEMMA TrueOperationStep ==
  ASSUME TInv, IInv', ChainAdvances,
         NEW c \in Clients, NEW o \in Operations, TrueOp(o), op' = [op EXCEPT ![c] = o]
  PROVE  TInv'
<1>1. Advances
  BY ChainAdvancesIsAdvance DEF TInv, IInv
<1>2. \A d \in Clients : op[d] \in Operations
  BY DEF TInv, IInv, TypeOK, Operations
<1>3. \A p \in Operations : TrueOp(p) => TrueOp(p)'
  BY <1>1, TrueOpSurvives DEF TInv, IInv
<1>4. ASSUME NEW d \in Clients PROVE TrueOp(op[d])'
  <2> DEFINE p == IF d = c THEN o ELSE op[d]
  <2>1. op'[d] = p
    BY DEF TInv, IInv, TypeOK
  <2>2. p \in Operations /\ TrueOp(p)
    BY <1>2 DEF TInv
  <2>3. \A q \in Operations : q = op'[d] /\ TrueOp(q)' => TrueOp(op[d])'
    BY DEF TrueOp
  <2> HIDE DEF p
  <2> QED BY <1>3, <2>1, <2>2, <2>3
<1> QED
  BY <1>4, ChainAdvancesKeepsStore DEF TInv

\* Nobody's operation goes on.
LEMMA TrueEnvironmentStep ==
  ASSUME TInv, IInv', ChainAdvances, op' = op
  PROVE  TInv'
<1>1. Advances
  BY ChainAdvancesIsAdvance DEF TInv, IInv
<1>2. \A d \in Clients : op[d] \in Operations
  BY DEF TInv, IInv, TypeOK, Operations
<1>3. \A p \in Operations : TrueOp(p) => TrueOp(p)'
  BY <1>1, TrueOpSurvives DEF TInv, IInv
<1>4. ASSUME NEW d \in Clients PROVE TrueOp(op[d])'
  <2>1. \A q \in Operations : q = op'[d] /\ TrueOp(q)' => TrueOp(op[d])'
    BY DEF TrueOp
  <2> QED BY <1>2, <1>3, <2>1 DEF TInv
<1> QED
  BY <1>4, ChainAdvancesKeepsStore DEF TInv

\* The chain, or an RPC node, moves one transaction on.
LEMMA OneMoves ==
  ASSUME TypeOK, UNCHANGED store, NEW b \in Batches, NEW k \in Keys, NEW to,
         chain' = [chain EXCEPT ![b][k] = to],
         tx[b][k].status # "none",
         \/ chain[b][k] \in {"unsent", "inflight", "failing"}
         \/ chain[b][k] = "confirmed" /\ to = "finalized"
         \/ to = chain[b][k],
         to = "failing" => ForksDrop \/ to = chain[b][k]
  PROVE  ChainAdvances
<1>1. \A d \in Batches, l \in Keys : chain'[d][l] = IF d = b /\ l = k THEN to ELSE chain[d][l]
  BY DEF TypeOK
<1> QED
  BY <1>1 DEF ChainAdvances

LEMMA TrueChainStep ==
  ASSUME TInv, IInv', NEW b \in Batches, NEW k \in Keys,
         \/ Land(b, k) \/ Revert(b, k) \/ FailOnFork(b, k)
         \/ Finalize(b, k) \/ Expire(b, k)
  PROVE  TInv'
<1>1. PICK to \in ChainStates :
        /\ tx[b][k].status # "none" /\ chain' = [chain EXCEPT ![b][k] = to]
        /\ UNCHANGED store /\ op' = op
        /\ \/ chain[b][k] \in {"unsent", "inflight", "failing"}
           \/ chain[b][k] = "confirmed" /\ to = "finalized"
        /\ to = "failing" => ForksDrop
  BY DEF Land, Revert, FailOnFork, Finalize, Expire, ChainStep, ChainStates
<1>2. ChainAdvances
  BY <1>1, OneMoves DEF TInv, IInv
<1> QED
  BY <1>1, <1>2, TrueEnvironmentStep

-----------------------------------------------------------------------------
(* Operations                                                              *)

LEMMA TrueIdle == TrueOp(Idle)
  BY DEF TrueOp, Idle, CheckOps, CloseOps

LEMMA TrueStoring ==
  ASSUME NEW b, NEW proven, NEW override
  PROVE  TrueOp(Storing(b, proven, override))
  BY DEF TrueOp, Storing, CheckOps, CloseOps

\* Created(o): the transactions o treats are of batches that exist.
Created(o) == \A t \in o.todo \cup {o.cur} : batch[t.batch] # "none"

LEMMA TrueChecking ==
  ASSUME NEW kind \in {"submit", "sweep", "reconcile", "release"},
         NEW todo \in SUBSET Targets, todo # {}, \A t \in todo : batch[t.batch] # "none"
  PROVE  TrueOp(Checking(kind, todo)) /\ Created(Checking(kind, todo))
<1>1. FirstOf(todo) \in todo
  BY FirstOfIsMember
<1>2. Checking(kind, todo).cur \in todo /\ Checking(kind, todo).todo \subseteq todo
  BY <1>1 DEF Checking
<1>3. Checking(kind, todo).pc = "check" /\ Checking(kind, todo) \notin CloseOps
  BY DEF Checking, CloseOps
<1> QED
  BY <1>2, <1>3 DEF TrueOp, Created

LEMMA TrueProceed ==
  ASSUME NEW o \in CheckOps, Created(o)
  PROVE  TrueOp(Proceed(o))
<1>1. o.kind \in {"submit", "sweep", "reconcile", "release"} /\ o.todo \in SUBSET Targets
  BY DEF CheckOps
<1>2. CASE o.todo # {}
  <2> DEFINE n == Checking(o.kind, o.todo)
  <2>1. n \in CheckOps /\ n.pc = "check" /\ Created(n)
    BY <1>1, <1>2, CheckingIsSound, TrueChecking DEF Checking, Created
  <2>2. Proceed(o) = [n EXCEPT !.proven = o.proven, !.blocked = o.blocked]
    BY <1>2 DEF Proceed
  <2> HIDE DEF n
  <2>3. /\ Proceed(o).pc = "check" /\ Proceed(o).kind = n.kind
        /\ Proceed(o).cur = n.cur /\ Proceed(o).todo = n.todo
    BY <2>1, <2>2 DEF CheckOps
  <2>4. Proceed(o) \notin CloseOps
    BY <2>1, <2>3 DEF CheckOps, CloseOps
  <2> QED BY <2>1, <2>3, <2>4 DEF TrueOp, Created
<1>3. CASE o.todo = {}
  BY <1>3, TrueIdle, TrueStoring DEF Proceed
<1> QED
  BY <1>2, <1>3

LEMMA TrueWrite ==
  ASSUME NEW o \in CheckOps, Created(o), NEW v,
         Truthful(v, chain[o.cur.batch][o.cur.key])
  PROVE  TrueOp(Write(o, v))
<1>1. /\ Write(o, v).pc = "write" /\ Write(o, v).verdict = v
      /\ Write(o, v).cur = o.cur /\ Write(o, v).todo = o.todo /\ Write(o, v).kind = o.kind
  BY DEF Write, CheckOps
<1>2. Write(o, v) \notin CloseOps
  BY <1>1 DEF CheckOps, CloseOps
<1> QED
  BY <1>1, <1>2 DEF TrueOp, Created

\* What a monitor answers is true.
LEMMA AnswersAreTrue ==
  ASSUME TInv, NEW o \in CheckOps, Sound(o), NEW v \in Answers(o)
  PROVE  Truthful(v, chain[o.cur.batch][o.cur.key])
<1>1. o.cur.batch \in Batches /\ o.cur.key \in Keys
  BY DEF CheckOps, Targets
<1>2. chain[o.cur.batch][o.cur.key] = "failing" => ~ Reliable
  BY <1>1 DEF TInv, Ordered, Reliable
<1>3. CASE o.pc = "height"
  <2>1. ~ Reliable
    BY <1>3 DEF Sound, Reliable
  <2> QED BY <1>3, <2>1 DEF Answers, LateAnswers, Truthful
<1>4. CASE o.pc # "height"
  BY <1>2, <1>4 DEF Answers, MonitorAnswers, Truthful
<1> QED
  BY <1>3, <1>4

\* An operation of a client that is treating transactions.
LEMMA CheckOpFacts ==
  ASSUME TInv, NEW c \in Clients, op[c].kind \in {"submit", "sweep", "reconcile", "release"}
  PROVE  /\ op[c] \in CheckOps /\ Created(op[c]) /\ Sound(op[c])
         /\ op[c].cur.batch \in Batches /\ op[c].cur.key \in Keys
<1>1. op[c] \in CheckOps
  BY KindTellsType DEF TInv, IInv, TypeOK, Operations
<1> QED
  BY <1>1 DEF TInv, IInv, TrueOp, Created, CheckOps, Targets

-----------------------------------------------------------------------------
(* Steps of operations that store nothing                                  *)

LEMMA QuietStep ==
  ASSUME TInv, IInv', UNCHANGED <<store, chain>>,
         NEW c \in Clients, NEW o \in Operations, TrueOp(o), op' = [op EXCEPT ![c] = o]
  PROVE  TInv'
<1>1. ChainAdvances
  BY DEF ChainAdvances
<1> QED
  BY <1>1, TrueOperationStep

\* The transactions an operation starts with have rows, so their batches exist.
LEMMA StartIsTrue ==
  ASSUME TInv, NEW kind \in {"submit", "sweep", "reconcile", "release"},
         NEW b \in Batches, NEW K \in SUBSET Keys, K # {},
         \A k \in K : tx[b][k].status # "none"
  PROVE  LET o == Checking(kind, {Read(b, k) : k \in K})
         IN  o \in CheckOps /\ TrueOp(o) /\ Created(o)
<1> DEFINE todo == {Read(b, k) : k \in K}
<1>1. todo \in SUBSET Targets /\ todo # {}
  BY ReadIsTarget DEF TInv, IInv
<1>2. \A t \in todo : batch[t.batch] # "none"
  BY DEF TInv, Ordered, Read
<1> HIDE DEF todo
<1>3. Checking(kind, todo) \in CheckOps /\ TrueOp(Checking(kind, todo)) /\ Created(Checking(kind, todo))
  BY <1>1, <1>2, CheckingIsSound, TrueChecking
<1> QED
  BY <1>3 DEF todo

LEMMA StartOneIsTrue ==
  ASSUME TInv, NEW kind \in {"submit", "sweep", "reconcile", "release"},
         NEW b \in Batches, NEW k \in Keys, tx[b][k].status # "none"
  PROVE  LET o == Checking(kind, {Read(b, k)})
         IN  o \in CheckOps /\ TrueOp(o) /\ Created(o)
<1>1. {Read(b, l) : l \in {k}} = {Read(b, k)}
  OBVIOUS
<1> QED
  BY <1>1, StartIsTrue

LEMMA TrueBroadcastAccepted ==
  ASSUME TInv, IInv', NEW c \in Clients, NEW b \in Batches, NEW k \in Keys,
         BroadcastAccepted(c, b, k)
  PROVE  TInv'
<1> DEFINE o == Checking("submit", {Read(b, k)})
           to == IF chain[b][k] = "unsent" THEN "inflight" ELSE chain[b][k]
<1>1. tx[b][k].status # "none" /\ UNCHANGED store /\ chain' = [chain EXCEPT ![b][k] = to]
  BY DEF BroadcastAccepted, CanBroadcast
<1>2. ChainAdvances
  BY <1>1, OneMoves DEF TInv, IInv
<1>3. o \in CheckOps /\ TrueOp(o) /\ Created(o)
  BY <1>1, StartOneIsTrue
<1>4. op' = [op EXCEPT ![c] = Write(o, "submitted")]
  BY DEF BroadcastAccepted
<1> HIDE DEF o
<1>5. TrueOp(Write(o, "submitted"))
  BY <1>3, TrueWrite DEF Truthful
<1>6. Write(o, "submitted") \in Operations
  BY <1>3, WriteIsSound DEF SoundOps, TxStatuses
<1> QED
  BY <1>2, <1>4, <1>5, <1>6, TrueOperationStep

LEMMA TrueBroadcastUnanswered ==
  ASSUME TInv, IInv', NEW b \in Batches, NEW k \in Keys, BroadcastUnanswered(b, k)
  PROVE  TInv'
<1>1. ChainAdvances
  BY OneMoves DEF BroadcastUnanswered, CanBroadcast, TInv, IInv
<1> QED
  BY <1>1, TrueEnvironmentStep DEF BroadcastUnanswered

LEMMA TrueSweepList ==
  ASSUME TInv, IInv', NEW c \in Clients, NEW b \in Batches, NEW k \in Keys, SweepList(c, b, k)
  PROVE  TInv'
<1>1. /\ Checking("sweep", {Read(b, k)}) \in CheckOps
      /\ TrueOp(Checking("sweep", {Read(b, k)}))
  BY StartOneIsTrue DEF SweepList, PendingFinality
<1> QED
  BY <1>1, QuietStep DEF SweepList, Operations

\* Whatever a monitor answers, an operation goes on to a true one: it proceeds,
\* or writes the answer.
LEMMA TrueAnswer ==
  ASSUME TInv, NEW o \in CheckOps, Created(o), Sound(o)
  PROVE  /\ Proceed(o) \in Operations /\ TrueOp(Proceed(o))
         /\ \A v \in Answers(o) : v # "retry" =>
              Write(o, v) \in Operations /\ TrueOp(Write(o, v))
<1>1. Proceed(o) \in Operations /\ TrueOp(Proceed(o))
  BY ProceedIsSound, TrueProceed DEF SoundOps
<1>2. ASSUME NEW v \in Answers(o), v # "retry"
      PROVE  Write(o, v) \in Operations /\ TrueOp(Write(o, v))
  <2>1. v \in TxStatuses /\ v # "signed"
    BY <1>2 DEF Answers, MonitorAnswers, LateAnswers, TxStatuses
  <2>2. Write(o, v) \in Operations
    BY <2>1, WriteIsSound DEF SoundOps
  <2>3. TrueOp(Write(o, v))
    BY AnswersAreTrue, TrueWrite
  <2> QED BY <2>2, <2>3
<1> QED
  BY <1>1, <1>2

LEMMA TrueNotFound ==
  ASSUME TInv, IInv', NEW c \in Clients, NotFound(c)
  PROVE  TInv'
<1> DEFINE o == op[c]
           n == [o EXCEPT !.pc = "height"]
<1>1. o \in CheckOps /\ Created(o)
  BY CheckOpFacts DEF NotFound
<1>2. op' = [op EXCEPT ![c] = n]
  BY DEF NotFound
<1> HIDE DEF o
<1>3. n \in CheckOps /\ n.pc = "height" /\ n.cur = o.cur /\ n.todo = o.todo
  BY <1>1 DEF CheckOps
<1>4. n \notin CloseOps
  BY <1>3 DEF CheckOps, CloseOps
<1> HIDE DEF n
<1>5. TrueOp(n) /\ n \in Operations
  BY <1>1, <1>3, <1>4 DEF TrueOp, Created, Operations
<1> QED
  BY <1>2, <1>5, QuietStep DEF NotFound

LEMMA TrueSweepMonitor ==
  ASSUME TInv, IInv', NEW c \in Clients, SweepMonitor(c)
  PROVE  TInv'
<1>1. op[c] \in CheckOps /\ Created(op[c]) /\ Sound(op[c])
  BY CheckOpFacts DEF SweepMonitor, Monitoring
<1>2. \E o \in Operations : TrueOp(o) /\ op' = [op EXCEPT ![c] = o]
  BY <1>1, TrueAnswer DEF SweepMonitor
<1> QED
  BY <1>2, QuietStep DEF SweepMonitor

LEMMA TrueReconcile ==
  ASSUME TInv, IInv', NEW c \in Clients, NEW b \in Batches,
         ReconcileRequest(c, b) \/ ReconcileMonitor(c)
  PROVE  TInv'
<1>1. CASE ReconcileRequest(c, b)
  <2> DEFINE K == {l \in Keys : NeedsReconciliation(tx[b][l])}
             o == Checking("reconcile", {Read(b, k) : k \in K})
  <2>1. K # {} /\ op' = [op EXCEPT ![c] = o]
    BY <1>1 DEF ReconcileRequest
  <2>2. \A k \in K : tx[b][k].status # "none"
    BY DEF NeedsReconciliation
  <2>3. o \in CheckOps /\ TrueOp(o)
    BY <2>1, <2>2, StartIsTrue
  <2> HIDE DEF o
  <2> QED BY <1>1, <2>1, <2>3, QuietStep DEF ReconcileRequest, Operations
<1>2. CASE ReconcileMonitor(c)
  <2>1. op[c] \in CheckOps /\ Created(op[c]) /\ Sound(op[c])
    BY <1>2, CheckOpFacts DEF ReconcileMonitor, Monitoring
  <2>2. Idle \in Operations
    BY DEF Operations
  <2>3. \E o \in Operations : TrueOp(o) /\ op' = [op EXCEPT ![c] = o]
    BY <1>2, <2>1, <2>2, TrueAnswer, TrueIdle DEF ReconcileMonitor
  <2> QED BY <1>2, <2>3, QuietStep DEF ReconcileMonitor
<1> QED
  BY <1>1, <1>2

LEMMA TrueRelease ==
  ASSUME TInv, IInv', NEW c \in Clients, NEW b \in Batches,
         ReleaseRequest(c, b) \/ ReleaseOverride(c, b)
  PROVE  TInv'
<1> DEFINE K == ReleaseHazards(tx[b])
           o == Checking("release", {Read(b, k) : k \in K})
<1>1. K \in SUBSET Keys /\ \A k \in K : tx[b][k].status # "none"
  BY DEF ReleaseHazards, Existing, TInv, IInv, TypeOK
<1>2. K # {} => o \in CheckOps /\ TrueOp(o)
  BY <1>1, StartIsTrue
<1>3. \/ op' = [op EXCEPT ![c] = Storing(b, {}, FALSE)]
      \/ op' = [op EXCEPT ![c] = Storing(b, {}, TRUE)]
      \/ K # {} /\ op' = [op EXCEPT ![c] = o]
  BY DEF ReleaseRequest, ReleaseOverride
<1> HIDE DEF o, K
<1>4. Storing(b, {}, FALSE) \in Operations /\ Storing(b, {}, TRUE) \in Operations
  BY StoringIsSound DEF SoundOps
<1>5. \E n \in Operations : TrueOp(n) /\ op' = [op EXCEPT ![c] = n]
  BY <1>2, <1>3, <1>4, TrueStoring DEF Operations
<1> QED
  BY <1>5, QuietStep DEF ReleaseRequest, ReleaseOverride

LEMMA TrueReleaseMonitor ==
  ASSUME TInv, IInv', NEW c \in Clients, ReleaseMonitor(c)
  PROVE  TInv'
<1> DEFINE o == op[c]
           blocked == [o EXCEPT !.blocked = TRUE]
           proven == [o EXCEPT !.proven = @ \cup {o.cur.key}]
<1>1. o \in CheckOps /\ Created(o) /\ Sound(o)
  BY CheckOpFacts DEF ReleaseMonitor, Monitoring
<1>2. blocked \in CheckOps /\ proven \in CheckOps
  BY <1>1 DEF CheckOps, Targets
<1>3. /\ blocked.cur = o.cur /\ blocked.todo = o.todo
      /\ proven.cur = o.cur /\ proven.todo = o.todo
  BY <1>1 DEF CheckOps
<1>4. /\ Created(blocked) /\ Sound(blocked) /\ Created(proven) /\ Sound(proven)
      /\ Answers(blocked) = Answers(o) /\ Answers(proven) = Answers(o)
  <2>1. /\ blocked.pc = o.pc /\ blocked.verdict = o.verdict /\ blocked.roll = o.roll
        /\ proven.pc = o.pc /\ proven.verdict = o.verdict /\ proven.roll = o.roll
    BY <1>1 DEF CheckOps
  <2> QED BY <1>1, <1>3, <2>1 DEF Created, Sound, Answers
<1>5. \/ op' = [op EXCEPT ![c] = Proceed(blocked)]
      \/ op' = [op EXCEPT ![c] = Proceed(proven)]
      \/ \E v \in Answers(o) :
           /\ v # "retry"
           /\ op' = [op EXCEPT ![c] = Write(proven, v)] \/ op' = [op EXCEPT ![c] = Write(blocked, v)]
  BY DEF ReleaseMonitor
<1> HIDE DEF o, blocked, proven
<1>6. \E n \in Operations : TrueOp(n) /\ op' = [op EXCEPT ![c] = n]
  BY <1>2, <1>3, <1>4, <1>5, TrueAnswer
<1> QED
  BY <1>6, QuietStep DEF ReleaseMonitor

LEMMA TrueReleaseGuard ==
  ASSUME TInv, IInv', NEW c \in Clients, ReleaseGuard(c)
  PROVE  TInv'
<1>1. op[c] \in ReleaseOps
  BY KindTellsType DEF ReleaseGuard, At, TInv, IInv, TypeOK, Operations
<1>2. /\ [op[c] EXCEPT !.pc = "apply"] \in Operations
      /\ TrueOp([op[c] EXCEPT !.pc = "apply"])
  BY <1>1 DEF ReleaseOps, Operations, TrueOp, CheckOps, CloseOps
<1>3. \E n \in Operations : TrueOp(n) /\ op' = [op EXCEPT ![c] = n]
  BY <1>2, TrueIdle DEF ReleaseGuard, Operations
<1> QED
  BY <1>3, QuietStep DEF ReleaseGuard

LEMMA TrueCrash ==
  ASSUME TInv, IInv', NEW c \in Clients, Crash(c)
  PROVE  TInv'
  BY QuietStep, TrueIdle DEF Crash, Operations

\* What a closure is about to mark paid has been transferred.
LEMMA TrueCloseVerify ==
  ASSUME TInv, IInv', NEW c \in Clients, NEW b \in Batches, CloseVerify(c, b)
  PROVE  TInv'
<1> DEFINE o == [kind |-> "close", batch |-> b, held |-> alloc[b]]
<1>1. o \in CloseOps /\ o \notin CheckOps
  BY DEF TInv, IInv, TypeOK, CloseOps, CheckOps
<1>2. ASSUME NEW a \in alloc[b] PROVE a \in covers[b] /\ Settled(b, PayoutWallet[a])
  <2>1. a \in covers[b] /\ PayoutWallet[a] \in BatchWallets(b)
    BY DEF TInv, Ordered
  <2>2. item[b][PayoutWallet[a]] = "finalized" /\ PayoutWallet[a] \in Wallets
    BY <2>1 DEF CloseVerify, BatchWallets
  <2> QED BY <2>1, <2>2 DEF TInv, TrueStore
<1>3. TrueOp(o)
  BY <1>1, <1>2 DEF TrueOp
<1> QED
  BY <1>1, <1>3, QuietStep DEF CloseVerify, Operations

-----------------------------------------------------------------------------
(* The roll-up of a batch                                                  *)

\* A roll-up says finalized only of items and batches that are settled: of the
\* rows it reads, all but one are recorded, and that one is about to be.
LEMMA RollupIsTrue ==
  ASSUME TInv, NEW b \in Batches, NEW k \in Keys, NEW row \in Tx,
         row.items = tx[b][k].items, Truthful(row.status, chain[b][k])
  PROVE  TrueRoll(b, Rollup(item[b], [tx[b] EXCEPT ![k] = row]))
<1> DEFINE txs == [tx[b] EXCEPT ![k] = row]
           items == item[b]
<1>1. txs \in [Keys -> Tx] /\ items \in [Wallets -> ItemStatuses \cup {"none"}]
  BY DEF TInv, IInv, TypeOK
<1>2. \A l \in Keys : /\ txs[l].items = tx[b][l].items
                      /\ txs[l].status = "finalized" => chain[b][l] = "finalized"
  BY DEF TInv, IInv, TypeOK, TrueStore, RecordedIsTrue, Truthful
<1>3. ASSUME NEW w \in Wallets
      PROVE  /\ RolledItem(items, txs, w) = "finalized" => Settled(b, w)
             /\ RolledItem(items, txs, w) = "none" <=> items[w] = "none"
  <2> DEFINE carrying == {l \in LatestAttempts(txs) : /\ w \in txs[l].items
                                                      /\ txs[l].status \in DictatesItems}
             last == {l \in carrying : \A m \in carrying : ~ Before(l, m)}
             l0 == CHOOSE l \in last : TRUE
  <2>1. RolledItem(items, txs, w) =
          IF items[w] = "none" \/ last = {} THEN items[w] ELSE txs[l0].status
    BY DEF RolledItem
  <2>2. ASSUME last # {}
        PROVE  l0 \in Keys /\ w \in txs[l0].items /\ txs[l0].status \in DictatesItems
    <3>1. l0 \in last
      BY <2>2
    <3>2. last \subseteq Keys
      BY <1>1 DEF LatestAttempts, Existing
    <3> QED BY <3>1, <3>2
  <2> HIDE DEF last, l0
  <2>3. items[w] = "finalized" => Settled(b, w)
    BY DEF TInv, TrueStore
  <2>4. last # {} /\ txs[l0].status = "finalized" => Settled(b, w)
    BY <1>2, <2>2 DEF Settled
  <2>5. last # {} => txs[l0].status # "none"
    BY <2>2 DEF DictatesItems
  <2> QED BY <2>1, <2>3, <2>4, <2>5
<1>4. ASSUME RolledStatus(items, txs) = "finalized", NEW w \in BatchWallets(b)
      PROVE  Settled(b, w)
  <2>1. {RolledItem(items, txs, v) : v \in DOMAIN items} \ {"none"} \subseteq {"finalized"}
    BY <1>4 DEF RolledStatus
  <2>2. w \in Wallets /\ items[w] # "none" /\ w \in DOMAIN items
    BY <1>1 DEF BatchWallets
  <2>3. RolledItem(items, txs, w) # "none"
    BY <1>3, <2>2
  <2>4. RolledItem(items, txs, w) = "finalized"
    BY <2>1, <2>2, <2>3
  <2> QED BY <1>3, <2>2, <2>4
<1>5. /\ Rollup(items, txs).status = RolledStatus(items, txs)
      /\ \A w \in Wallets : Rollup(items, txs).items[w] =
           IF RolledItem(items, txs, w) = items[w] THEN "none" ELSE RolledItem(items, txs, w)
  BY <1>1 DEF Rollup
<1> HIDE DEF txs, items
<1>6. \A w \in Wallets : Rollup(items, txs).items[w] # "none" => w \in BatchWallets(b)
  BY <1>3, <1>5 DEF BatchWallets, items
<1>7. TrueRoll(b, Rollup(items, txs))
  BY <1>3, <1>4, <1>5, <1>6 DEF TrueRoll
<1> QED
  BY <1>7 DEF txs, items

\* The row an update leaves behind carries the same items, and its status does
\* not contradict the chain.
LEMMA MarkedIsTrue ==
  ASSUME TInv, NEW o \in CheckOps, TrueOp(o), Sound(o), o.pc \in {"write", "commit"}
  PROVE  LET row == tx[o.cur.batch][o.cur.key]
         IN  /\ Marked(o) \in Tx
             /\ Marked(o).items = row.items
             /\ Marked(o).status # "none"
             /\ Truthful(Marked(o).status, chain[o.cur.batch][o.cur.key])
<1>1. o.cur.batch \in Batches /\ o.cur.key \in Keys
  BY DEF CheckOps, Targets
<1>2. tx[o.cur.batch][o.cur.key] \in Tx
  BY <1>1 DEF TInv, IInv, TypeOK
<1>3. o.verdict \in TxStatuses /\ Truthful(o.verdict, chain[o.cur.batch][o.cur.key])
  BY DEF Sound, TrueOp
<1>4. Marked(o) \in Tx
  BY <1>3, MarkedIsTyped DEF TInv, IInv
<1>5. CASE o.kind = "submit"
  BY <1>2, <1>4, <1>5 DEF Marked, Tx, Truthful
<1>6. CASE o.kind # "submit"
  BY <1>2, <1>3, <1>4, <1>6 DEF Marked, Tx, TxStatuses
<1> QED
  BY <1>5, <1>6, <1>4

LEMMA TrueMarkBegin ==
  ASSUME TInv, IInv', NEW c \in Clients, MarkBegin(c)
  PROVE  TInv'
<1> DEFINE o == op[c]
           b == o.cur.batch
           k == o.cur.key
           roll == Rollup(item[b], [tx[b] EXCEPT ![k] = Marked(o)])
           n == [o EXCEPT !.pc = "commit", !.roll = roll]
<1>1. /\ o \in CheckOps /\ Created(o) /\ b \in Batches /\ k \in Keys
      /\ o.pc = "write" /\ TrueOp(o) /\ Sound(o)
  BY CheckOpFacts DEF MarkBegin, TInv, IInv
<1>2. TrueRoll(b, roll)
  BY <1>1, MarkedIsTrue, RollupIsTrue
<1>3. op' = [op EXCEPT ![c] = IF ExpectedStatusHolds(o) THEN n ELSE Proceed(o)]
  BY DEF MarkBegin
<1>4. roll \in Rolls
  BY <1>1, MarkedIsTrue, RollupIsTyped DEF TInv, IInv, TypeOK
<1>5. Truthful(o.verdict, chain[b][k])
  BY <1>1 DEF TrueOp
<1> HIDE DEF roll, o
<1>6. n \in CheckOps /\ n.cur = o.cur /\ n.todo = o.todo /\ n.pc = "commit"
      /\ n.roll = roll /\ n.verdict = o.verdict
  BY <1>1, <1>4 DEF CheckOps
<1>7. n \notin CloseOps
  BY <1>6 DEF CheckOps, CloseOps
<1> HIDE DEF n
<1>8. TrueOp(n)
  BY <1>1, <1>2, <1>5, <1>6, <1>7 DEF TrueOp, Created
<1>9. Proceed(o) \in Operations /\ TrueOp(Proceed(o))
  BY <1>1, TrueAnswer
<1>10. n \in Operations
  BY <1>6 DEF Operations
<1>11. \E p \in Operations : TrueOp(p) /\ op' = [op EXCEPT ![c] = p]
  BY <1>3, <1>8, <1>9, <1>10
<1> QED
  BY <1>11, QuietStep DEF MarkBegin

-----------------------------------------------------------------------------
(* Steps that store                                                        *)

\* Operations under way survive a step of the store, whoever takes it.
LEMMA OperationsSurvive ==
  ASSUME TInv, Advances,
         \A d \in Clients : \/ op'[d] = op[d]
                            \/ op'[d] \in Operations /\ TrueOp(op'[d])
  PROVE  \A d \in Clients : TrueOp(op[d])'
<1>1. \A d \in Clients : op[d] \in Operations /\ TrueOp(op[d])
  BY DEF TInv, IInv, TypeOK, Operations
<1>2. \A p \in Operations : TrueOp(p) => TrueOp(p)'
  BY TrueOpSurvives DEF TInv, IInv
<1>3. ASSUME NEW d \in Clients PROVE TrueOp(op[d])'
  <2>1. PICK p \in Operations : p = op'[d] /\ TrueOp(p)
    BY <1>1
  <2>2. TrueOp(p)'
    BY <1>2, <2>1
  <2> QED BY <2>1, <2>2 DEF TrueOp
<1> QED
  BY <1>3

\* The parts of TrueStore, each in terms of what is settled.
LEMMA TrueStoreAfter ==
  ASSUME TInv, Advances,
         RecordedIsTrue',
         \A b \in Batches, w \in Wallets :
           item'[b][w] = "finalized" => item[b][w] = "finalized" \/ Settled(b, w),
         \A b \in Batches : batch'[b] = "finalized" =>
           /\ BatchWallets(b)' = BatchWallets(b)
           /\ batch[b] = "finalized" \/ \A w \in BatchWallets(b) : Settled(b, w),
         \A a \in Accruals : accrual'[a] = "paid" =>
           \/ accrual[a] = "paid"
           \/ \E b \in Batches : a \in covers[b] /\ Settled(b, PayoutWallet[a])
  PROVE  TrueStore'
<1>1. \A b \in Batches, w \in Wallets : Settled(b, w) => Settled(b, w)'
  BY SettledSurvives DEF TInv, IInv
<1>2. \A b \in Batches, w \in Wallets : item'[b][w] = "finalized" => Settled(b, w)'
  BY <1>1 DEF TInv, TrueStore
<1>3. FinalizedBatchIsSettled'
  <2>1. \A b \in Batches : batch[b] = "finalized" => \A w \in BatchWallets(b) : Settled(b, w)
    BY DEF TInv, TrueStore, FinalizedBatchIsSettled, Settled
  <2>2. \A b \in Batches : BatchWallets(b) \subseteq Wallets
    BY DEF BatchWallets
  <2>3. \A b \in Batches : batch'[b] = "finalized" => \A w \in BatchWallets(b)' : Settled(b, w)'
    BY <1>1, <2>1, <2>2
  <2> QED
    BY <2>3 DEF FinalizedBatchIsSettled, Settled
<1>4. \A a \in Accruals : accrual'[a] = "paid" =>
        \E b \in Batches : a \in covers'[b] /\ Settled(b, PayoutWallet[a])'
  <2>1. ASSUME NEW a \in Accruals, accrual'[a] = "paid"
        PROVE  \E b \in Batches : a \in covers'[b] /\ Settled(b, PayoutWallet[a])'
    <3>1. PICK b \in Batches : a \in covers[b] /\ Settled(b, PayoutWallet[a])
      BY <2>1 DEF TInv, TrueStore
    <3>2. covers'[b] = covers[b]
      BY <3>1 DEF Advances, TInv, Ordered
    <3> QED BY <1>1, <3>1, <3>2, PayoutWalletAssumption
  <2> QED BY <2>1
<1> QED
  BY <1>2, <1>3, <1>4 DEF TrueStore

LEMMA CreateBatchAdvances ==
  ASSUME TInv, NEW b \in Batches, CreateBatch(b)
  PROVE  Advances
<1>1. PICK S \in SUBSET Accruals :
        /\ accrual' = [a \in Accruals |-> IF a \in S THEN "allocated" ELSE accrual[a]]
        /\ covers' = [covers EXCEPT ![b] = S]
        /\ alloc' = [alloc EXCEPT ![b] = S]
        /\ item' = [item EXCEPT ![b] = PlannedItems(S)]
  BY DEF CreateBatch
<1>2. /\ batch[b] = "none" /\ batch' = [batch EXCEPT ![b] = "planned"]
      /\ UNCHANGED <<tx, ledger, chain, op>>
  BY DEF CreateBatch
<1>3. /\ \A d \in Batches : d # b => item'[d] = item[d] /\ covers'[d] = covers[d]
                                     /\ alloc'[d] = alloc[d] /\ batch'[d] = batch[d]
      /\ item'[b] = PlannedItems(S) /\ covers'[b] = S /\ alloc'[b] = S /\ batch'[b] = "planned"
  BY <1>1, <1>2 DEF TInv, IInv, TypeOK
<1>4. \A d \in Batches : d # b => BatchWallets(d)' = BatchWallets(d)
  BY <1>3 DEF BatchWallets
<1> QED
  BY <1>2, <1>3, <1>4 DEF Advances

LEMMA TrueCreateBatch ==
  ASSUME TInv, IInv', NEW b \in Batches, CreateBatch(b)
  PROVE  TInv'
<1>1. PICK S \in SUBSET Accruals :
        /\ accrual' = [a \in Accruals |-> IF a \in S THEN "allocated" ELSE accrual[a]]
        /\ covers' = [covers EXCEPT ![b] = S]
        /\ alloc' = [alloc EXCEPT ![b] = S]
        /\ item' = [item EXCEPT ![b] = PlannedItems(S)]
  BY DEF CreateBatch
<1>2. /\ batch[b] = "none" /\ batch' = [batch EXCEPT ![b] = "planned"]
      /\ UNCHANGED <<tx, ledger, chain, op>>
  BY DEF CreateBatch
<1>3. /\ \A d \in Batches : d # b => item'[d] = item[d] /\ covers'[d] = covers[d]
                                     /\ alloc'[d] = alloc[d] /\ batch'[d] = batch[d]
      /\ item'[b] = PlannedItems(S) /\ covers'[b] = S /\ alloc'[b] = S /\ batch'[b] = "planned"
  BY <1>1, <1>2 DEF TInv, IInv, TypeOK
<1>4. \A d \in Batches : d # b => BatchWallets(d)' = BatchWallets(d)
  BY <1>3 DEF BatchWallets
<1>5. Advances
  BY CreateBatchAdvances
<1>6. \A a \in S : PayoutWallet[a] \in BatchWallets(b)'
  BY <1>3, PayoutWalletAssumption DEF BatchWallets, PlannedItems
<1>7. Ordered'
  BY <1>2, <1>3, <1>4, <1>6 DEF TInv, Ordered
<1>8. RecordedIsTrue'
  BY <1>2 DEF TInv, TrueStore, RecordedIsTrue, Moved
<1>9. \A w \in Wallets : item'[b][w] # "finalized"
  BY <1>3 DEF PlannedItems
<1>10. TrueStore'
  BY <1>1, <1>3, <1>4, <1>5, <1>8, <1>9, TrueStoreAfter
<1>11. \A d \in Clients : TrueOp(op[d])'
  BY <1>2, <1>5, OperationsSurvive
<1> QED
  BY <1>7, <1>10, <1>11 DEF TInv

LEMMA SaveSignedAdvances ==
  ASSUME TInv, NEW b \in Batches, NEW k \in Keys, NEW W \in SUBSET Wallets,
         NEW sig \in SignatureChoices, SaveSigned(b, k, W, sig)
  PROVE  Advances
<1>1. /\ batch[b] # "none" /\ tx[b][k].status = "none"
      /\ UNCHANGED <<accrual, batch, covers, alloc, item, ledger, chain, op>>
      /\ tx' = [tx EXCEPT ![b][k] =
                  [status |-> "signed", items |-> W, sig |-> sig, sent |-> FALSE]]
  BY DEF SaveSigned
<1>2. /\ \A d \in Batches, l \in Keys : ~ (d = b /\ l = k) => tx'[d][l] = tx[d][l]
      /\ tx'[b][k].status = "signed"
  BY <1>1 DEF TInv, IInv, TypeOK
<1> QED
  BY <1>1, <1>2 DEF Advances, BatchWallets

LEMMA TrueSaveSigned ==
  ASSUME TInv, IInv', NEW b \in Batches, NEW k \in Keys, NEW W \in SUBSET Wallets,
         NEW sig \in SignatureChoices, SaveSigned(b, k, W, sig)
  PROVE  TInv'
<1>1. /\ batch[b] # "none" /\ tx[b][k].status = "none"
      /\ UNCHANGED <<accrual, batch, covers, alloc, item, ledger, chain, op>>
      /\ tx' = [tx EXCEPT ![b][k] =
                  [status |-> "signed", items |-> W, sig |-> sig, sent |-> FALSE]]
  BY DEF SaveSigned
<1>2. /\ \A d \in Batches, l \in Keys : ~ (d = b /\ l = k) => tx'[d][l] = tx[d][l]
      /\ tx'[b][k].status = "signed"
  BY <1>1 DEF TInv, IInv, TypeOK
<1>3. Advances
  BY SaveSignedAdvances
<1>4. Ordered'
  BY <1>1, <1>2 DEF TInv, Ordered, BatchWallets
<1>5. RecordedIsTrue'
  BY <1>1, <1>2 DEF TInv, TrueStore, RecordedIsTrue, Moved
<1>6. \A d \in Batches : BatchWallets(d)' = BatchWallets(d)
  BY <1>1 DEF BatchWallets
<1>7. TrueStore'
  BY <1>1, <1>3, <1>5, <1>6, TrueStoreAfter
<1>8. \A d \in Clients : TrueOp(op[d])'
  BY <1>1, <1>3, OperationsSurvive
<1> QED
  BY <1>4, <1>7, <1>8 DEF TInv

LEMMA MarkCommitAdvances ==
  ASSUME TInv, NEW c \in Clients, MarkCommit(c)
  PROVE  Advances
<1> DEFINE o == op[c]
           b == o.cur.batch
           k == o.cur.key
           row == Marked(o)
<1>1. /\ o \in CheckOps /\ Created(o) /\ b \in Batches /\ k \in Keys
      /\ o.pc = "commit" /\ TrueOp(o) /\ Sound(o)
  BY CheckOpFacts DEF MarkCommit, TInv, IInv
<1>2. /\ row \in Tx /\ row.items = tx[b][k].items /\ row.status # "none"
      /\ Truthful(row.status, chain[b][k])
  BY <1>1, MarkedIsTrue
<1>3. TrueRoll(b, o.roll)
  BY <1>1 DEF TrueOp
<1>4. o.roll.status # "none" /\ batch[b] # "none"
  BY <1>1 DEF Sound, Created
<1>5. /\ tx' = [tx EXCEPT ![b][k] = row]
      /\ batch' = [batch EXCEPT ![b] = o.roll.status]
      /\ item' = [item EXCEPT ![b] = ApplyItems(item[b], o.roll.items)]
      /\ UNCHANGED <<accrual, covers, alloc, ledger, chain>>
  BY DEF MarkCommit
<1> HIDE DEF o, row
<1>6. /\ \A d \in Batches, l \in Keys : ~ (d = b /\ l = k) => tx'[d][l] = tx[d][l]
      /\ tx'[b][k] = row
      /\ \A d \in Batches : d # b => batch'[d] = batch[d] /\ item'[d] = item[d]
      /\ batch'[b] = o.roll.status
      /\ \A w \in Wallets : item'[b][w] =
           IF o.roll.items[w] = "none" THEN item[b][w] ELSE o.roll.items[w]
  BY <1>1, <1>5 DEF TInv, IInv, TypeOK, ApplyItems
<1>7. \A d \in Batches : BatchWallets(d)' = BatchWallets(d)
  <2>1. \A w \in Wallets : item'[b][w] # "none" <=> item[b][w] # "none"
    BY <1>3, <1>6 DEF TrueRoll, BatchWallets
  <2> QED BY <1>6, <2>1 DEF BatchWallets
<1> QED
  BY <1>2, <1>4, <1>5, <1>6, <1>7 DEF Advances

LEMMA TrueMarkCommit ==
  ASSUME TInv, IInv', NEW c \in Clients, MarkCommit(c)
  PROVE  TInv'
<1> DEFINE o == op[c]
           b == o.cur.batch
           k == o.cur.key
           row == Marked(o)
           next == Proceed(o)
<1>1. /\ o \in CheckOps /\ Created(o) /\ b \in Batches /\ k \in Keys
      /\ o.pc = "commit" /\ TrueOp(o) /\ Sound(o)
  BY CheckOpFacts DEF MarkCommit, TInv, IInv
<1>2. /\ row \in Tx /\ row.items = tx[b][k].items /\ row.status # "none"
      /\ Truthful(row.status, chain[b][k])
  BY <1>1, MarkedIsTrue
<1>3. TrueRoll(b, o.roll)
  BY <1>1 DEF TrueOp
<1>4. next \in Operations /\ TrueOp(next)
  BY <1>1, TrueAnswer
<1>5. o.roll.status # "none" /\ batch[b] # "none"
  BY <1>1 DEF Sound, Created
<1>6. /\ tx' = [tx EXCEPT ![b][k] = row]
      /\ batch' = [batch EXCEPT ![b] = o.roll.status]
      /\ item' = [item EXCEPT ![b] = ApplyItems(item[b], o.roll.items)]
      /\ op' = [op EXCEPT ![c] = next]
      /\ UNCHANGED <<accrual, covers, alloc, ledger, chain>>
  BY DEF MarkCommit
<1> HIDE DEF o, row, next
<1>7. /\ \A d \in Batches, l \in Keys : ~ (d = b /\ l = k) => tx'[d][l] = tx[d][l]
      /\ tx'[b][k] = row
      /\ \A d \in Batches : d # b => batch'[d] = batch[d] /\ item'[d] = item[d]
      /\ batch'[b] = o.roll.status
      /\ \A w \in Wallets : item'[b][w] =
           IF o.roll.items[w] = "none" THEN item[b][w] ELSE o.roll.items[w]
  BY <1>1, <1>6 DEF TInv, IInv, TypeOK, ApplyItems
<1>8. \A d \in Batches : BatchWallets(d)' = BatchWallets(d)
  <2>1. \A w \in Wallets : item'[b][w] # "none" <=> item[b][w] # "none"
    BY <1>3, <1>7 DEF TrueRoll, BatchWallets
  <2> QED BY <1>7, <2>1 DEF BatchWallets
<1>9. Advances
  BY MarkCommitAdvances
<1>10. Ordered'
  BY <1>2, <1>5, <1>6, <1>7, <1>8 DEF TInv, Ordered
<1>11. RecordedIsTrue'
  BY <1>2, <1>6, <1>7 DEF TInv, TrueStore, RecordedIsTrue, Moved, Truthful
<1>12. \A d \in Batches, w \in Wallets :
         item'[d][w] = "finalized" => item[d][w] = "finalized" \/ Settled(d, w)
  BY <1>1, <1>3, <1>7 DEF TrueRoll
<1>13. \A d \in Batches : batch'[d] = "finalized" =>
         batch[d] = "finalized" \/ \A w \in BatchWallets(d) : Settled(d, w)
  BY <1>1, <1>3, <1>7 DEF TrueRoll
<1>14. TrueStore'
  BY <1>6, <1>8, <1>9, <1>11, <1>12, <1>13, TrueStoreAfter
<1>15. \A d \in Clients : TrueOp(op[d])'
  <2>1. \A d \in Clients : op'[d] = IF d = c THEN next ELSE op[d]
    BY <1>6 DEF TInv, IInv, TypeOK
  <2> QED BY <1>4, <1>9, <2>1, OperationsSurvive
<1> QED
  BY <1>10, <1>14, <1>15 DEF TInv

LEMMA ReleaseApplyAdvances ==
  ASSUME TInv, NEW c \in Clients, ReleaseApply(c)
  PROVE  Advances
<1> DEFINE b == op[c].batch
<1>1. b \in Batches
  BY KindTellsType DEF ReleaseApply, At, TInv, IInv, TypeOK, Operations, ReleaseOps
<1>2. /\ batch' = [batch EXCEPT ![b] = "cancelled"]
      /\ item' = [item EXCEPT ![b] = [w \in Wallets |->
                    IF w \in BatchWallets(b) THEN "released" ELSE "none"]]
      /\ accrual' = [a \in Accruals |->
                       IF a \in alloc[b] /\ accrual[a] = "allocated"
                       THEN "available" ELSE accrual[a]]
      /\ alloc' = [alloc EXCEPT ![b] = {}]
      /\ op' = [op EXCEPT ![c] = Idle]
      /\ UNCHANGED <<covers, tx, ledger, chain>>
  BY DEF ReleaseApply
<1> HIDE DEF b
<1>3. /\ \A d \in Batches : d # b => /\ batch'[d] = batch[d] /\ item'[d] = item[d]
                                     /\ alloc'[d] = alloc[d]
      /\ batch'[b] = "cancelled" /\ alloc'[b] = {}
      /\ \A w \in Wallets : item'[b][w] = IF w \in BatchWallets(b) THEN "released" ELSE "none"
  BY <1>1, <1>2 DEF TInv, IInv, TypeOK
<1>4. \A d \in Batches : BatchWallets(d)' = BatchWallets(d)
  <2>1. \A w \in Wallets : item'[b][w] # "none" <=> item[b][w] # "none"
    BY <1>3 DEF BatchWallets
  <2> QED BY <1>3, <2>1 DEF BatchWallets
<1> QED
  BY <1>2, <1>3, <1>4 DEF Advances

\* A release cancels its batch and moves no allocation out of what the batch
\* covers.
LEMMA TrueReleaseApply ==
  ASSUME TInv, IInv', NEW c \in Clients, ReleaseApply(c)
  PROVE  TInv'
<1> DEFINE b == op[c].batch
<1>1. b \in Batches
  BY KindTellsType DEF ReleaseApply, At, TInv, IInv, TypeOK, Operations, ReleaseOps
<1>2. /\ batch' = [batch EXCEPT ![b] = "cancelled"]
      /\ item' = [item EXCEPT ![b] = [w \in Wallets |->
                    IF w \in BatchWallets(b) THEN "released" ELSE "none"]]
      /\ accrual' = [a \in Accruals |->
                       IF a \in alloc[b] /\ accrual[a] = "allocated"
                       THEN "available" ELSE accrual[a]]
      /\ alloc' = [alloc EXCEPT ![b] = {}]
      /\ op' = [op EXCEPT ![c] = Idle]
      /\ UNCHANGED <<covers, tx, ledger, chain>>
  BY DEF ReleaseApply
<1> HIDE DEF b
<1>3. /\ \A d \in Batches : d # b => /\ batch'[d] = batch[d] /\ item'[d] = item[d]
                                     /\ alloc'[d] = alloc[d]
      /\ batch'[b] = "cancelled" /\ alloc'[b] = {}
      /\ \A w \in Wallets : item'[b][w] = IF w \in BatchWallets(b) THEN "released" ELSE "none"
  BY <1>1, <1>2 DEF TInv, IInv, TypeOK
<1>4. \A d \in Batches : BatchWallets(d)' = BatchWallets(d)
  <2>1. \A w \in Wallets : item'[b][w] # "none" <=> item[b][w] # "none"
    BY <1>3 DEF BatchWallets
  <2> QED BY <1>3, <2>1 DEF BatchWallets
<1>5. Advances
  BY ReleaseApplyAdvances
<1>6. Ordered'
  BY <1>1, <1>2, <1>3, <1>4 DEF TInv, Ordered
<1>7. RecordedIsTrue'
  BY <1>2 DEF TInv, TrueStore, RecordedIsTrue, Moved
<1>8. \A d \in Batches, w \in Wallets :
        item'[d][w] = "finalized" => item[d][w] = "finalized"
  BY <1>3
<1>9. \A d \in Batches : batch'[d] = "finalized" => batch[d] = "finalized"
  BY <1>3
<1>10. \A a \in Accruals : accrual'[a] = "paid" => accrual[a] = "paid"
  BY <1>2
<1>11. TrueStore'
  BY <1>4, <1>5, <1>7, <1>8, <1>9, <1>10, TrueStoreAfter
<1>12. \A d \in Clients : TrueOp(op[d])'
  <2>1. \A d \in Clients : op'[d] = IF d = c THEN Idle ELSE op[d]
    BY <1>2 DEF TInv, IInv, TypeOK
  <2>2. Idle \in Operations
    BY DEF Operations
  <2> QED BY <1>5, <2>1, <2>2, TrueIdle, OperationsSurvive
<1> QED
  BY <1>6, <1>11, <1>12 DEF TInv

LEMMA CloseCommitAdvances ==
  ASSUME NEW c \in Clients, CloseCommit(c)
  PROVE  Advances
  BY DEF CloseCommit, Advances, BatchWallets

LEMMA TrueCloseCommit ==
  ASSUME TInv, IInv', NEW c \in Clients, CloseCommit(c)
  PROVE  TInv'
<1> DEFINE o == op[c]
<1>1. o \in CloseOps /\ o.batch \in Batches /\ TrueOp(o)
  BY KindTellsType DEF CloseCommit, TInv, IInv, TypeOK, Operations, CloseOps
<1>2. /\ op' = [op EXCEPT ![c] = Idle]
      /\ UNCHANGED <<batch, covers, alloc, item, tx, chain>>
  BY DEF CloseCommit
<1>3. \A a \in Accruals : accrual'[a] = "paid" => accrual[a] = "paid" \/ a \in o.held
  BY DEF CloseCommit
<1>4. Advances
  BY CloseCommitAdvances
<1>5. Ordered'
  BY <1>2 DEF TInv, Ordered, BatchWallets
<1>6. RecordedIsTrue'
  BY <1>2 DEF TInv, TrueStore, RecordedIsTrue, Moved
<1>7. \A d \in Batches : BatchWallets(d)' = BatchWallets(d)
  BY <1>2 DEF BatchWallets
<1>8. \A a \in Accruals : accrual'[a] = "paid" =>
        \/ accrual[a] = "paid"
        \/ \E b \in Batches : a \in covers[b] /\ Settled(b, PayoutWallet[a])
  BY <1>1, <1>3 DEF TrueOp
<1>9. TrueStore'
  BY <1>2, <1>4, <1>6, <1>7, <1>8, TrueStoreAfter
<1>10. \A d \in Clients : TrueOp(op[d])'
  <2>1. \A d \in Clients : op'[d] = IF d = c THEN Idle ELSE op[d]
    BY <1>2 DEF TInv, IInv, TypeOK
  <2>2. Idle \in Operations
    BY DEF Operations
  <2> QED BY <1>4, <2>1, <2>2, TrueIdle, OperationsSurvive
<1> QED
  BY <1>5, <1>9, <1>10 DEF TInv

-----------------------------------------------------------------------------
(* The invariant                                                           *)

LEMMA InitTInv == Init => TInv
<1> SUFFICES ASSUME Init PROVE TInv
  OBVIOUS
<1>1. IInv
  BY InitIInv
<1>2. Ordered
  BY DEF Init, Ordered, NoTx
<1>3. TrueStore
  BY DEF Init, TrueStore, RecordedIsTrue, FinalizedBatchIsSettled, NoTx
<1>4. \A c \in Clients : TrueOp(op[c])
  BY TrueIdle DEF Init
<1> QED
  BY <1>1, <1>2, <1>3, <1>4 DEF TInv

LEMMA StepTInv == TInv /\ [Next]_vars => TInv'
<1> SUFFICES ASSUME TInv, [Next]_vars PROVE TInv'
  OBVIOUS
<1>1. IInv'
  BY StepIInv DEF TInv
<1>2. CASE ChainNext
  BY <1>1, <1>2, TrueChainStep DEF ChainNext
<1>3. CASE OperatorNext
  BY <1>1, <1>3, TrueCreateBatch, TrueSaveSigned, TrueBroadcastUnanswered DEF OperatorNext
<1>4. ASSUME NEW c \in Handlers, HandlerNext(c) PROVE TInv'
  <2>1. c \in Clients
    BY DEF Clients
  <2>2. PICK b \in Batches :
          \/ \E k \in Keys : BroadcastAccepted(c, b, k)
          \/ ReconcileRequest(c, b)
          \/ ReleaseRequest(c, b) \/ ReleaseOverride(c, b)
          \/ CloseVerify(c, b)
    BY <1>4 DEF HandlerNext
  <2> QED
    BY <1>1, <2>1, <2>2, TrueBroadcastAccepted, TrueReconcile, TrueRelease, TrueCloseVerify
<1>5. ASSUME NEW c \in Workers, WorkerNext(c) PROVE TInv'
  <2>1. c \in Clients
    BY DEF Clients
  <2> QED
    BY <1>1, <1>5, <2>1, TrueSweepList, TrueCloseVerify DEF WorkerNext
<1>6. ASSUME NEW c \in Clients, Continue(c) \/ Crash(c) PROVE TInv'
  <2>1. CASE ReconcileMonitor(c)
    <3>1. op[c].cur.batch \in Batches
      BY <2>1, CheckOpFacts DEF ReconcileMonitor, Monitoring
    <3> QED BY <1>1, <2>1, <3>1, TrueReconcile
  <2>2. CASE NotFound(c) \/ SweepMonitor(c) \/ ReleaseMonitor(c)
    BY <1>1, <2>2, TrueNotFound, TrueSweepMonitor, TrueReleaseMonitor
  <2>3. CASE MarkBegin(c) \/ MarkCommit(c)
    BY <1>1, <2>3, TrueMarkBegin, TrueMarkCommit
  <2>4. CASE ReleaseGuard(c) \/ ReleaseApply(c)
    BY <1>1, <2>4, TrueReleaseGuard, TrueReleaseApply
  <2>5. CASE CloseCommit(c) \/ Crash(c)
    BY <1>1, <2>5, TrueCloseCommit, TrueCrash
  <2> QED
    BY <1>6, <2>1, <2>2, <2>3, <2>4, <2>5 DEF Continue
<1>7. CASE UNCHANGED vars
  <2>1. Advances
    BY <1>7 DEF Advances, vars, BatchWallets
  <2>2. \A d \in Clients : TrueOp(op[d])'
    BY <1>7, <2>1, OperationsSurvive DEF vars
  <2>3. Ordered' /\ TrueStore'
    <3>1. ChainAdvances
      BY <1>7 DEF ChainAdvances, vars, store
    <3> QED BY <3>1, ChainAdvancesKeepsStore
  <2> QED BY <1>1, <2>2, <2>3 DEF TInv
<1> QED
  BY <1>2, <1>3, <1>4, <1>5, <1>6, <1>7 DEF Next

\* RecordedIsTrue: whoever writes a transaction's confirmed, finalized, failed
\* or expired status, and however late, the chain bears it out.
THEOREM RecordsAreTrue == Spec => []RecordedIsTrue
<1>1. TInv => RecordedIsTrue
  BY DEF TInv, TrueStore
<1> QED
  BY InitTInv, StepTInv, <1>1, PTL DEF Spec

\* FinalizedBatchIsSettled: the roll-up calls a batch finalized only when every
\* one of its items has been transferred for good.
THEOREM FinalizedBatchesAreSettled == Spec => []FinalizedBatchIsSettled
<1>1. TInv => FinalizedBatchIsSettled
  BY DEF TInv, TrueStore
<1> QED
  BY InitTInv, StepTInv, <1>1, PTL DEF Spec

\* PaidIsFinalOnChain: closing a ledger marks an accrual paid only when its
\* amount has been transferred, whatever stale allocation list it works from.
THEOREM PaidIsFinal == Spec => []PaidIsFinalOnChain
<1>1. TInv => PaidIsFinalOnChain
  BY DEF TInv, TrueStore, Settled, PaidIsFinalOnChain, CarriesAccrual
<1> QED
  BY InitTInv, StepTInv, <1>1, PTL DEF Spec

-----------------------------------------------------------------------------
(* What is released is unpaid, and what is paid is closed                  *)

\* How the engine has to be run for its releases to be safe, whatever its
\* clients do otherwise: nothing is signed during or after a release, what is
\* signed is saved with its signature, and what a monitor sees is reliable.
Disciplined == Exclusive /\ Reliable /\ SignatureChoices \subseteq {TRUE}

Dead(b, k) == chain[b][k] \in {"failed", "expired"}

\* None of the transactions of batch b has moved or can still move anything.
AllDead(b) == \A k \in Keys : tx[b][k].status # "none" => Dead(b, k)

Cleared(b) == \A a \in covers[b] : Settled(b, PayoutWallet[a])

\* An operation treats transactions of one batch, and has proven dead what it
\* says it has.
Targeted(o) ==
  /\ \A t \in o.todo \cup {o.cur} :
       t.batch = o.cur.batch /\ tx[t.batch][t.key].status # "none"
  /\ \A k \in o.proven : Dead(o.cur.batch, k)
  /\ covers[o.cur.batch] # {}

\* A release works on one batch, whose transactions it has found dead, and a
\* closure on a batch that has been transferred as a whole.
SafeOp(o) ==
  /\ o \in CheckOps => Targeted(o)
  /\ o \in ReleaseOps =>
       /\ covers[o.batch] # {}
       /\ \A k \in o.proven : Dead(o.batch, k)
       /\ o.override => AllowOverride
       /\ o.pc = "apply" /\ ~ o.override => AllDead(o.batch)
  /\ o \in CloseOps =>
       /\ covers[o.batch] # {} /\ Cleared(o.batch)
       /\ AllowOverride \/ o.held = covers[o.batch]

\* A batch holds all of its accruals or, its transactions being dead, none.
Released(b) == covers[b] # {} /\ alloc[b] = {}

SafeStore ==
  /\ \A b \in Batches, k \in Keys :
       IF tx[b][k].status = "none" THEN tx[b][k].items = {} ELSE tx[b][k].sig
  /\ \A b \in Batches :
       /\ batch[b] = "none" <=> covers[b] = {}
       /\ batch[b] = "none" => ledger[b] = 0
       /\ alloc[b] \in {{}, covers[b]}
       /\ Released(b) => AllowOverride \/ AllDead(b)

ClosedAreCleared ==
  \A b \in Batches :
    /\ ledger[b] <= 1
    /\ ledger[b] = 1 => Cleared(b) /\ \A a \in covers[b] : AllowOverride \/ accrual[a] = "paid"

PaidAreClosed ==
  \A a \in Accruals : accrual[a] = "paid" =>
    \E b \in Batches : a \in covers[b] /\ ledger[b] = 1

SInv ==
  /\ TInv /\ SafeStore /\ ClosedAreCleared /\ PaidAreClosed
  /\ \A c \in Clients : SafeOp(op[c])

\* With the runbook, the attempts of a sequence follow one another, each after
\* the failure of the one before, and no other sequence carries their items.
AttemptsInTurn ==
  \A b \in Batches :
    /\ \A k \in Existing(tx[b]) :
         k[2] # 0 /\ \A n \in 1 .. k[2] : <<k[1], n>> \in Existing(tx[b])
    /\ \A k, l \in Existing(tx[b]) :
         /\ k[1] = l[1] => tx[b][k].items = tx[b][l].items
         /\ k[1] # l[1] => tx[b][k].items \cap tx[b][l].items = {}
         /\ k[1] = l[1] /\ k[2] < l[2] => Dead(b, k)

\* Rows are never deleted.
RowsStay ==
  \A b \in Batches, k \in Keys : tx[b][k].status # "none" => tx'[b][k].status # "none"

NoNewRows(b) ==
  \A k \in Keys : tx'[b][k].status # "none" => tx[b][k].status # "none"

LEMMA DeadStays ==
  ASSUME Advances, NEW b \in Batches, NEW k \in Keys, Dead(b, k)
  PROVE  Dead(b, k)'
  BY DEF Advances, Dead

LEMMA AllDeadStays ==
  ASSUME Advances, NEW b \in Batches, AllDead(b), NoNewRows(b)
  PROVE  AllDead(b)'
  BY DeadStays DEF AllDead, NoNewRows

\* A batch that exists keeps the accruals it was created for.
LEMMA CoversStay ==
  ASSUME SafeStore, Advances, NEW b \in Batches, covers[b] # {}
  PROVE  covers'[b] = covers[b]
  BY DEF SafeStore, Advances

LEMMA ClearedStays ==
  ASSUME TInv, SafeStore, Advances, NEW b \in Batches, covers[b] # {}, Cleared(b)
  PROVE  Cleared(b)'
<1>1. covers'[b] = covers[b] /\ covers[b] \subseteq Accruals
  BY CoversStay DEF TInv, IInv, TypeOK
<1>2. \A a \in Accruals : PayoutWallet[a] \in Wallets
  BY PayoutWalletAssumption
<1>3. \A w \in Wallets : Settled(b, w) => Settled(b, w)'
  BY SettledSurvives DEF TInv, IInv
<1> QED
  BY <1>1, <1>2, <1>3 DEF Cleared

\* What a safe operation relies on stays, as long as no transaction is added to
\* a batch that is being released.
LEMMA SafeOpSurvives ==
  ASSUME TInv, SafeStore, Advances, RowsStay, NEW o \in Operations, SafeOp(o),
         o \in ReleaseOps => NoNewRows(o.batch)
  PROVE  SafeOp(o)'
<1>1. CASE o \in CheckOps
  <2>1. /\ o.cur \in Targets /\ o.todo \in SUBSET Targets /\ o.proven \in SUBSET Keys
        /\ o.cur.batch \in Batches
    BY <1>1 DEF CheckOps, Targets
  <2>2. \A t \in o.todo \cup {o.cur} :
          /\ t.batch \in Batches /\ t.key \in Keys
          /\ t.batch = o.cur.batch /\ tx[t.batch][t.key].status # "none"
    BY <1>1, <2>1 DEF SafeOp, Targeted, Targets
  <2>3. \A t \in o.todo \cup {o.cur} :
          t.batch = o.cur.batch /\ tx'[t.batch][t.key].status # "none"
    BY <2>2 DEF RowsStay
  <2>4. \A k \in o.proven : Dead(o.cur.batch, k)'
    BY <1>1, <2>1, DeadStays DEF SafeOp, Targeted
  <2>5. covers'[o.cur.batch] # {}
    BY <1>1, <2>1, CoversStay DEF SafeOp, Targeted
  <2>6. o \notin ReleaseOps /\ o \notin CloseOps
    BY <1>1 DEF CheckOps, ReleaseOps, CloseOps
  <2> QED BY <2>3, <2>4, <2>5, <2>6 DEF SafeOp, Targeted
<1>2. CASE o \in ReleaseOps
  <2>1. o.batch \in Batches /\ o.proven \in SUBSET Keys
    BY <1>2 DEF ReleaseOps
  <2>2. \A k \in o.proven : Dead(o.batch, k)'
    BY <1>2, <2>1, DeadStays DEF SafeOp
  <2>3. AllDead(o.batch) => AllDead(o.batch)'
    BY <1>2, <2>1, AllDeadStays
  <2>4. covers'[o.batch] # {}
    BY <1>2, <2>1, CoversStay DEF SafeOp
  <2>5. o \notin CheckOps /\ o \notin CloseOps
    BY <1>2 DEF CheckOps, ReleaseOps, CloseOps
  <2> QED BY <1>2, <2>2, <2>3, <2>4, <2>5 DEF SafeOp
<1>3. CASE o \in CloseOps
  <2>1. o.batch \in Batches /\ covers[o.batch] # {}
    BY <1>3 DEF CloseOps, SafeOp
  <2>2. covers'[o.batch] = covers[o.batch] /\ Cleared(o.batch)'
    BY <1>3, <2>1, CoversStay, ClearedStays DEF SafeOp
  <2>3. o \notin CheckOps /\ o \notin ReleaseOps
    BY <1>3 DEF CheckOps, ReleaseOps, CloseOps
  <2> QED BY <1>3, <2>1, <2>2, <2>3 DEF SafeOp
<1>4. CASE o \notin CheckOps \cup ReleaseOps \cup CloseOps
  BY <1>4 DEF SafeOp
<1> QED
  BY <1>1, <1>2, <1>3, <1>4

LEMMA SafeOpsSurvive ==
  ASSUME SInv, Advances, RowsStay,
         \A d \in Clients : \/ op'[d] = op[d]
                            \/ op'[d] \in Operations /\ SafeOp(op'[d]),
         \A d \in Clients : op'[d] \in ReleaseOps => NoNewRows(op'[d].batch)
  PROVE  \A d \in Clients : SafeOp(op[d])'
<1>1. \A d \in Clients : op[d] \in Operations /\ SafeOp(op[d])
  BY DEF SInv, TInv, IInv, TypeOK, Operations
<1>2. \A p \in Operations : SafeOp(p) /\ (p \in ReleaseOps => NoNewRows(p.batch)) => SafeOp(p)'
  BY SafeOpSurvives DEF SInv
<1>3. ASSUME NEW d \in Clients PROVE SafeOp(op[d])'
  <2>1. PICK p \in Operations : p = op'[d] /\ SafeOp(p)
    BY <1>1
  <2>2. SafeOp(p)'
    BY <1>2, <2>1
  <2> QED BY <2>1, <2>2 DEF SafeOp, Targeted
<1> QED
  BY <1>3

-----------------------------------------------------------------------------
(* Steps that store nothing keep releases safe                             *)

LEMMA SafeChainStep ==
  ASSUME SInv, TInv', ChainAdvances,
         \A d \in Clients : \/ op'[d] = op[d]
                            \/ op'[d] \in Operations /\ SafeOp(op'[d])
  PROVE  SInv'
<1>1. Advances /\ RowsStay /\ \A b \in Batches : NoNewRows(b)
  BY ChainAdvancesIsAdvance DEF SInv, TInv, IInv, ChainAdvances, store, RowsStay, NoNewRows
<1>2. \A d \in Clients : op'[d] \in ReleaseOps => op'[d].batch \in Batches
  BY DEF ReleaseOps
<1>3. \A d \in Clients : SafeOp(op[d])'
  BY <1>1, <1>2, SafeOpsSurvive
<1>4. \A b \in Batches : AllDead(b) => AllDead(b)'
  BY <1>1, AllDeadStays
<1>5. SafeStore'
  BY <1>4 DEF SInv, SafeStore, Released, ChainAdvances, store
<1>6. \A b \in Batches : covers[b] # {} /\ Cleared(b) => Cleared(b)'
  BY <1>1, ClearedStays DEF SInv
<1>7. ClosedAreCleared'
  BY <1>6 DEF SInv, SafeStore, ClosedAreCleared, ChainAdvances, store
<1>8. PaidAreClosed'
  BY DEF SInv, PaidAreClosed, ChainAdvances, store
<1> QED
  BY <1>3, <1>5, <1>7, <1>8 DEF SInv

LEMMA SafeQuietStep ==
  ASSUME SInv, TInv', UNCHANGED <<store, chain>>,
         NEW c \in Clients, NEW o \in Operations, SafeOp(o), op' = [op EXCEPT ![c] = o]
  PROVE  SInv'
<1>1. ChainAdvances
  BY DEF ChainAdvances
<1>2. \A d \in Clients : op'[d] = IF d = c THEN o ELSE op[d]
  BY DEF SInv, TInv, IInv, TypeOK
<1> QED
  BY <1>1, <1>2, SafeChainStep

LEMMA SafeIdle == SafeOp(Idle)
  BY DEF SafeOp, Idle, CheckOps, ReleaseOps, CloseOps

LEMMA SafeStoring ==
  ASSUME NEW b, NEW proven, NEW override,
         covers[b] # {}, \A k \in proven : Dead(b, k), override => AllowOverride
  PROVE  SafeOp(Storing(b, proven, override))
  BY DEF SafeOp, Storing, CheckOps, CloseOps

LEMMA SafeChecking ==
  ASSUME NEW kind \in {"submit", "sweep", "reconcile", "release"},
         NEW todo \in SUBSET Targets, todo # {}, NEW b, covers[b] # {},
         \A t \in todo : t.batch = b /\ tx[t.batch][t.key].status # "none"
  PROVE  /\ SafeOp(Checking(kind, todo)) /\ Targeted(Checking(kind, todo))
         /\ Checking(kind, todo).cur.batch = b
<1>1. FirstOf(todo) \in todo
  BY FirstOfIsMember
<1>2. /\ Checking(kind, todo).cur \in todo /\ Checking(kind, todo).todo \subseteq todo
      /\ Checking(kind, todo).proven = {}
  BY <1>1 DEF Checking
<1>3. Checking(kind, todo) \notin CloseOps /\ Checking(kind, todo) \notin ReleaseOps
  BY DEF Checking, CloseOps, ReleaseOps
<1>4. Targeted(Checking(kind, todo)) /\ Checking(kind, todo).cur.batch = b
  BY <1>2 DEF Targeted
<1> QED
  BY <1>3, <1>4 DEF SafeOp

LEMMA SafeProceed ==
  ASSUME NEW o \in CheckOps, Targeted(o)
  PROVE  SafeOp(Proceed(o))
<1>1. o.kind \in {"submit", "sweep", "reconcile", "release"} /\ o.todo \in SUBSET Targets
  BY DEF CheckOps
<1>2. CASE o.todo # {}
  <2> DEFINE n == Checking(o.kind, o.todo)
  <2>1. n \in CheckOps /\ Targeted(n) /\ n.cur.batch = o.cur.batch
    <3>1. \A t \in o.todo : t.batch = o.cur.batch /\ tx[t.batch][t.key].status # "none"
      BY DEF Targeted
    <3>2. n \in CheckOps
      BY <1>1, <1>2, CheckingIsSound
    <3>3. Targeted(n) /\ n.cur.batch = o.cur.batch
      BY <1>1, <1>2, <3>1, SafeChecking DEF Targeted
    <3> QED BY <3>2, <3>3
  <2>2. Proceed(o) = [n EXCEPT !.proven = o.proven, !.blocked = o.blocked]
    BY <1>2 DEF Proceed
  <2> HIDE DEF n
  <2>3. /\ Proceed(o).kind = n.kind /\ Proceed(o).proven = o.proven
        /\ Proceed(o).cur = n.cur /\ Proceed(o).todo = n.todo
    BY <2>1, <2>2 DEF CheckOps
  <2>4. Proceed(o) \notin CloseOps /\ Proceed(o) \notin ReleaseOps
    BY <2>1, <2>3 DEF CheckOps, CloseOps, ReleaseOps
  <2> QED BY <2>1, <2>3, <2>4 DEF SafeOp, Targeted
<1>3. CASE o.todo = {}
  BY <1>3, SafeIdle, SafeStoring DEF Proceed, Targeted
<1> QED
  BY <1>2, <1>3

LEMMA SafeWrite ==
  ASSUME NEW o \in CheckOps, Targeted(o), NEW v
  PROVE  SafeOp(Write(o, v))
<1>1. /\ Write(o, v).cur = o.cur /\ Write(o, v).todo = o.todo /\ Write(o, v).kind = o.kind
      /\ Write(o, v).proven = o.proven
  BY DEF Write, CheckOps
<1>2. Write(o, v) \notin CloseOps /\ Write(o, v) \notin ReleaseOps
  BY <1>1 DEF CheckOps, CloseOps, ReleaseOps
<1> QED
  BY <1>1, <1>2 DEF SafeOp, Targeted

LEMMA TargetedFacts ==
  ASSUME SInv, NEW c \in Clients, op[c].kind \in {"submit", "sweep", "reconcile", "release"}
  PROVE  /\ op[c] \in CheckOps /\ Created(op[c]) /\ Sound(op[c]) /\ Targeted(op[c])
         /\ op[c].cur.batch \in Batches /\ op[c].cur.key \in Keys
  BY CheckOpFacts DEF SInv, SafeOp

-----------------------------------------------------------------------------
(* Operations start, answer and go on safely                               *)

LEMMA StartIsSafe ==
  ASSUME SInv, NEW kind \in {"submit", "sweep", "reconcile", "release"},
         NEW b \in Batches, NEW K \in SUBSET Keys, K # {},
         \A k \in K : tx[b][k].status # "none"
  PROVE  LET o == Checking(kind, {Read(b, k) : k \in K})
         IN  o \in CheckOps /\ SafeOp(o) /\ Targeted(o)
<1> DEFINE todo == {Read(b, k) : k \in K}
<1>1. todo \in SUBSET Targets /\ todo # {}
  BY ReadIsTarget DEF SInv, TInv, IInv
<1>2. \A t \in todo : t.batch = b /\ tx[t.batch][t.key].status # "none"
  BY DEF Read
<1>3. covers[b] # {}
  BY DEF SInv, SafeStore, TInv, Ordered
<1> HIDE DEF todo
<1>4. Checking(kind, todo) \in CheckOps /\ SafeOp(Checking(kind, todo)) /\ Targeted(Checking(kind, todo))
  BY <1>1, <1>2, <1>3, CheckingIsSound, SafeChecking
<1> QED
  BY <1>4 DEF todo

LEMMA StartOneIsSafe ==
  ASSUME SInv, NEW kind \in {"submit", "sweep", "reconcile", "release"},
         NEW b \in Batches, NEW k \in Keys, tx[b][k].status # "none"
  PROVE  LET o == Checking(kind, {Read(b, k)})
         IN  o \in CheckOps /\ SafeOp(o) /\ Targeted(o)
<1>1. {Read(b, l) : l \in {k}} = {Read(b, k)}
  OBVIOUS
<1> QED
  BY <1>1, StartIsSafe

LEMMA SafeBroadcastAccepted ==
  ASSUME SInv, TInv', NEW c \in Clients, NEW b \in Batches, NEW k \in Keys,
         BroadcastAccepted(c, b, k)
  PROVE  SInv'
<1> DEFINE o == Checking("submit", {Read(b, k)})
           to == IF chain[b][k] = "unsent" THEN "inflight" ELSE chain[b][k]
<1>1. tx[b][k].status # "none" /\ UNCHANGED store /\ chain' = [chain EXCEPT ![b][k] = to]
  BY DEF BroadcastAccepted, CanBroadcast
<1>2. ChainAdvances
  BY <1>1, OneMoves DEF SInv, TInv, IInv
<1>3. o \in CheckOps /\ Targeted(o)
  BY <1>1, StartOneIsSafe
<1>4. op' = [op EXCEPT ![c] = Write(o, "submitted")]
  BY DEF BroadcastAccepted
<1> HIDE DEF o
<1>5. Write(o, "submitted") \in Operations /\ SafeOp(Write(o, "submitted"))
  BY <1>3, SafeWrite, WriteIsSound DEF SoundOps, TxStatuses
<1>6. \A d \in Clients : op'[d] = IF d = c THEN Write(o, "submitted") ELSE op[d]
  BY <1>4 DEF SInv, TInv, IInv, TypeOK
<1> QED
  BY <1>2, <1>5, <1>6, SafeChainStep

\* Steps of the chain alone.
LEMMA SafeEnvironmentStep ==
  ASSUME SInv, TInv', NEW b \in Batches, NEW k \in Keys,
         \/ Land(b, k) \/ Revert(b, k) \/ FailOnFork(b, k)
         \/ Finalize(b, k) \/ Expire(b, k) \/ BroadcastUnanswered(b, k)
  PROVE  SInv'
<1>1. PICK to \in ChainStates :
        /\ tx[b][k].status # "none" /\ chain' = [chain EXCEPT ![b][k] = to]
        /\ UNCHANGED store /\ op' = op
        /\ \/ chain[b][k] \in {"unsent", "inflight", "failing"}
           \/ chain[b][k] = "confirmed" /\ to = "finalized"
        /\ to = "failing" => ForksDrop
  BY DEF Land, Revert, FailOnFork, Finalize, Expire, ChainStep, ChainStates,
         BroadcastUnanswered, CanBroadcast
<1>2. ChainAdvances
  BY <1>1, OneMoves DEF SInv, TInv, IInv
<1> QED
  BY <1>1, <1>2, SafeChainStep

LEMMA SafeAnswer ==
  ASSUME NEW o \in CheckOps, Targeted(o)
  PROVE  /\ Proceed(o) \in Operations /\ SafeOp(Proceed(o))
         /\ \A v \in TxStatuses \ {"signed"} : Write(o, v) \in Operations /\ SafeOp(Write(o, v))
  BY ProceedIsSound, SafeProceed, WriteIsSound, SafeWrite DEF SoundOps

\* The answers that are written or that prove something.
LEMMA AnswersAreStatuses ==
  ASSUME NEW o, NEW v \in Answers(o), v # "retry"
  PROVE  v \in TxStatuses \ {"signed"}
  BY DEF Answers, MonitorAnswers, LateAnswers, TxStatuses

LEMMA SafeSweep ==
  ASSUME SInv, TInv', NEW c \in Clients, NEW b \in Batches, NEW k \in Keys,
         SweepList(c, b, k) \/ SweepMonitor(c)
  PROVE  SInv'
<1>1. CASE SweepList(c, b, k)
  <2>1. /\ Checking("sweep", {Read(b, k)}) \in CheckOps
        /\ SafeOp(Checking("sweep", {Read(b, k)}))
    BY <1>1, StartOneIsSafe DEF SweepList, PendingFinality
  <2> QED BY <1>1, <2>1, SafeQuietStep DEF SweepList, Operations
<1>2. CASE SweepMonitor(c)
  <2>1. op[c] \in CheckOps /\ Targeted(op[c])
    BY <1>2, TargetedFacts DEF SweepMonitor, Monitoring
  <2>2. \E o \in Operations : SafeOp(o) /\ op' = [op EXCEPT ![c] = o]
    BY <1>2, <2>1, SafeAnswer, AnswersAreStatuses DEF SweepMonitor
  <2> QED BY <1>2, <2>2, SafeQuietStep DEF SweepMonitor
<1> QED
  BY <1>1, <1>2

LEMMA SafeReconcile ==
  ASSUME SInv, TInv', NEW c \in Clients, NEW b \in Batches,
         ReconcileRequest(c, b) \/ ReconcileMonitor(c)
  PROVE  SInv'
<1>1. CASE ReconcileRequest(c, b)
  <2> DEFINE K == {l \in Keys : NeedsReconciliation(tx[b][l])}
             o == Checking("reconcile", {Read(b, k) : k \in K})
  <2>1. K # {} /\ op' = [op EXCEPT ![c] = o]
    BY <1>1 DEF ReconcileRequest
  <2>2. \A k \in K : tx[b][k].status # "none"
    BY DEF NeedsReconciliation
  <2>3. o \in CheckOps /\ SafeOp(o)
    BY <2>1, <2>2, StartIsSafe
  <2> HIDE DEF o
  <2> QED BY <1>1, <2>1, <2>3, SafeQuietStep DEF ReconcileRequest, Operations
<1>2. CASE ReconcileMonitor(c)
  <2>1. op[c] \in CheckOps /\ Targeted(op[c])
    BY <1>2, TargetedFacts DEF ReconcileMonitor, Monitoring
  <2>2. Idle \in Operations
    BY DEF Operations
  <2>3. \E o \in Operations : SafeOp(o) /\ op' = [op EXCEPT ![c] = o]
    BY <1>2, <2>1, <2>2, SafeAnswer, AnswersAreStatuses, SafeIdle DEF ReconcileMonitor
  <2> QED BY <1>2, <2>3, SafeQuietStep DEF ReconcileMonitor
<1> QED
  BY <1>1, <1>2

LEMMA SafeNotFound ==
  ASSUME SInv, TInv', NEW c \in Clients, NotFound(c)
  PROVE  SInv'
<1> DEFINE o == op[c]
           n == [o EXCEPT !.pc = "height"]
<1>1. o \in CheckOps /\ Targeted(o)
  BY TargetedFacts DEF NotFound
<1>2. op' = [op EXCEPT ![c] = n]
  BY DEF NotFound
<1> HIDE DEF o
<1>3. n \in CheckOps /\ n.cur = o.cur /\ n.todo = o.todo /\ n.proven = o.proven
  BY <1>1 DEF CheckOps
<1>4. n \notin CloseOps /\ n \notin ReleaseOps
  BY <1>3 DEF CheckOps, CloseOps, ReleaseOps
<1> HIDE DEF n
<1>5. SafeOp(n) /\ n \in Operations
  BY <1>1, <1>3, <1>4 DEF SafeOp, Targeted, Operations
<1> QED
  BY <1>2, <1>5, SafeQuietStep DEF NotFound

LEMMA SafeReleaseRequest ==
  ASSUME SInv, TInv', NEW c \in Clients, NEW b \in Batches,
         ReleaseRequest(c, b) \/ ReleaseOverride(c, b)
  PROVE  SInv'
<1> DEFINE K == ReleaseHazards(tx[b])
           o == Checking("release", {Read(b, k) : k \in K})
<1>1. K \in SUBSET Keys /\ \A k \in K : tx[b][k].status # "none"
  BY DEF ReleaseHazards, Existing, SInv, TInv, IInv, TypeOK
<1>2. K # {} => o \in CheckOps /\ SafeOp(o)
  BY <1>1, StartIsSafe
<1>3. \/ op' = [op EXCEPT ![c] = Storing(b, {}, FALSE)]
      \/ AllowOverride /\ op' = [op EXCEPT ![c] = Storing(b, {}, TRUE)]
      \/ K # {} /\ op' = [op EXCEPT ![c] = o]
  BY DEF ReleaseRequest, ReleaseOverride
<1>4. covers[b] # {}
  BY DEF ReleaseRequest, ReleaseOverride, ReleaseCheckable, ReleaseAllowed, SInv, SafeStore
<1> HIDE DEF o, K
<1>5. /\ Storing(b, {}, FALSE) \in Operations /\ Storing(b, {}, TRUE) \in Operations
      /\ SafeOp(Storing(b, {}, FALSE))
      /\ AllowOverride => SafeOp(Storing(b, {}, TRUE))
  BY <1>4, StoringIsSound, SafeStoring DEF SoundOps
<1>6. \E n \in Operations : SafeOp(n) /\ op' = [op EXCEPT ![c] = n]
  BY <1>2, <1>3, <1>5 DEF Operations
<1> QED
  BY <1>6, SafeQuietStep DEF ReleaseRequest, ReleaseOverride

\* A release takes for dead only what a reliable monitor has found so.
LEMMA SafeReleaseMonitor ==
  ASSUME Disciplined, SInv, TInv', NEW c \in Clients, ReleaseMonitor(c)
  PROVE  SInv'
<1> DEFINE o == op[c]
           blocked == [o EXCEPT !.blocked = TRUE]
           proven == [o EXCEPT !.proven = @ \cup {o.cur.key}]
<1>1. /\ o \in CheckOps /\ Targeted(o) /\ Sound(o)
      /\ o.cur.batch \in Batches /\ o.cur.key \in Keys
  BY TargetedFacts DEF ReleaseMonitor, Monitoring
<1>2. blocked \in CheckOps /\ proven \in CheckOps
  BY <1>1 DEF CheckOps, Targets
<1>3. /\ blocked.cur = o.cur /\ blocked.todo = o.todo /\ blocked.proven = o.proven
      /\ proven.cur = o.cur /\ proven.todo = o.todo
      /\ proven.proven = o.proven \cup {o.cur.key}
  BY <1>1 DEF CheckOps
<1>4. \A v \in Answers(o) : v \in {"failed", "expired"} => Dead(o.cur.batch, o.cur.key)
  BY <1>1, AnswersAreTrue DEF SInv, Truthful, Disciplined, Dead
<1>5. \/ op' = [op EXCEPT ![c] = Proceed(blocked)]
      \/ \E v \in Answers(o) :
           \/ /\ v \in {"failed", "expired"}
              /\ \/ op' = [op EXCEPT ![c] = Proceed(proven)]
                 \/ op' = [op EXCEPT ![c] = Write(proven, "failed")]
           \/ /\ v \in {"confirmed", "finalized"}
              /\ op' = [op EXCEPT ![c] = Write(blocked, v)]
  BY DEF ReleaseMonitor
<1>6. Targeted(blocked)
  BY <1>1, <1>3 DEF Targeted
<1>7. Dead(o.cur.batch, o.cur.key) => Targeted(proven)
  BY <1>1, <1>3 DEF Targeted
<1> HIDE DEF o, blocked, proven
<1>8. \E n \in Operations : SafeOp(n) /\ op' = [op EXCEPT ![c] = n]
  BY <1>2, <1>4, <1>5, <1>6, <1>7, SafeAnswer DEF TxStatuses
<1> QED
  BY <1>8, SafeQuietStep DEF ReleaseMonitor

\* The store's own look at the rows leaves no transaction alive: what is neither
\* recorded as dead nor proven so is a hazard.
LEMMA ReleasableIsDead ==
  ASSUME Disciplined, SInv, NEW b \in Batches, NEW proven,
         \A k \in proven : Dead(b, k), Releasable(tx[b], proven)
  PROVE  AllDead(b)
<1> SUFFICES ASSUME NEW k \in Keys, tx[b][k].status # "none" PROVE Dead(b, k)
  BY DEF AllDead
<1>1. CASE tx[b][k].status \in {"failed", "expired"}
  BY <1>1 DEF SInv, TInv, TrueStore, RecordedIsTrue, Disciplined, Dead
<1>2. CASE tx[b][k].status \notin {"failed", "expired"}
  <2>1. k \in Existing(tx[b]) /\ tx[b][k].sig
    BY DEF Existing, SInv, SafeStore, TInv, IInv, TypeOK
  <2>2. k \in ReleaseHazards(tx[b])
    BY <1>2, <2>1 DEF ReleaseHazards
  <2> QED BY <2>2 DEF Releasable
<1> QED
  BY <1>1, <1>2

LEMMA SafeReleaseGuard ==
  ASSUME Disciplined, SInv, TInv', NEW c \in Clients, ReleaseGuard(c)
  PROVE  SInv'
<1> DEFINE o == op[c]
           n == [o EXCEPT !.pc = "apply"]
<1>1. o \in ReleaseOps /\ SafeOp(o) /\ o.batch \in Batches
  BY KindTellsType DEF ReleaseGuard, At, SInv, TInv, IInv, TypeOK, Operations, ReleaseOps
<1>2. \/ op' = [op EXCEPT ![c] = Idle]
      \/ /\ MayRelease(batch[o.batch], tx[o.batch], o.proven, o.override)
         /\ op' = [op EXCEPT ![c] = n]
  BY DEF ReleaseGuard
<1> HIDE DEF o
<1>3. /\ n \in ReleaseOps /\ n \in Operations /\ n \notin CheckOps /\ n \notin CloseOps
      /\ n.batch = o.batch /\ n.proven = o.proven /\ n.override = o.override
  BY <1>1 DEF ReleaseOps, Operations, CheckOps, CloseOps
<1>4. MayRelease(batch[o.batch], tx[o.batch], o.proven, o.override) /\ ~ o.override => AllDead(o.batch)
  BY <1>1, ReleasableIsDead DEF SafeOp, MayRelease
<1>5. /\ covers[o.batch] # {} /\ \A k \in o.proven : Dead(o.batch, k)
      /\ o.override => AllowOverride
  BY <1>1 DEF SafeOp
<1> HIDE DEF n
<1>6. MayRelease(batch[o.batch], tx[o.batch], o.proven, o.override) => SafeOp(n)
  BY <1>3, <1>4, <1>5 DEF SafeOp
<1>7. \E p \in Operations : SafeOp(p) /\ op' = [op EXCEPT ![c] = p]
  BY <1>2, <1>3, <1>6, SafeIdle DEF Operations
<1> QED
  BY <1>7, SafeQuietStep DEF ReleaseGuard

LEMMA SafeCrash ==
  ASSUME SInv, TInv', NEW c \in Clients, Crash(c)
  PROVE  SInv'
  BY SafeQuietStep, SafeIdle DEF Crash, Operations

\* Nothing dead has been transferred.
LEMMA ClearedIsAlive ==
  ASSUME SInv, NEW b \in Batches, covers[b] # {}, Cleared(b)
  PROVE  ~ AllDead(b)
<1>1. PICK a \in covers[b] : Settled(b, PayoutWallet[a])
  BY DEF Cleared
<1>2. PICK k \in Keys : PayoutWallet[a] \in tx[b][k].items /\ chain[b][k] = "finalized"
  BY <1>1 DEF Settled
<1>3. tx[b][k].status # "none"
  BY <1>2 DEF SInv, SafeStore
<1> QED
  BY <1>2, <1>3 DEF AllDead, Dead

\* A closure finds the whole batch transferred, and so still allocated.
LEMMA SafeCloseVerify ==
  ASSUME SInv, TInv', NEW c \in Clients, NEW b \in Batches, CloseVerify(c, b)
  PROVE  SInv'
<1> DEFINE o == [kind |-> "close", batch |-> b, held |-> alloc[b]]
<1>1. o \in CloseOps /\ o \notin CheckOps /\ o \notin ReleaseOps /\ o \in Operations
  BY DEF SInv, TInv, IInv, TypeOK, CloseOps, CheckOps, ReleaseOps, Operations
<1>2. covers[b] # {}
  BY DEF CloseVerify, SInv, SafeStore
<1>3. Cleared(b)
  <2> SUFFICES ASSUME NEW a \in covers[b] PROVE Settled(b, PayoutWallet[a])
    BY DEF Cleared
  <2>1. PayoutWallet[a] \in BatchWallets(b)
    BY DEF SInv, TInv, Ordered
  <2>2. item[b][PayoutWallet[a]] = "finalized" /\ PayoutWallet[a] \in Wallets
    BY <2>1 DEF CloseVerify, BatchWallets
  <2> QED BY <2>2 DEF SInv, TInv, TrueStore
<1>4. AllowOverride \/ alloc[b] = covers[b]
  BY <1>2, <1>3, ClearedIsAlive DEF SInv, SafeStore, Released
<1>5. SafeOp(o)
  BY <1>1, <1>2, <1>3, <1>4 DEF SafeOp
<1> QED
  BY <1>1, <1>5, SafeQuietStep DEF CloseVerify

\* A marking begins.
LEMMA SafeMarkBegin ==
  ASSUME SInv, TInv', NEW c \in Clients, MarkBegin(c)
  PROVE  SInv'
<1> DEFINE o == op[c]
           roll == Rollup(item[o.cur.batch], [tx[o.cur.batch] EXCEPT ![o.cur.key] = Marked(o)])
           n == [o EXCEPT !.pc = "commit", !.roll = roll]
<1>1. o \in CheckOps /\ Targeted(o)
  BY TargetedFacts DEF MarkBegin
<1>2. op' = [op EXCEPT ![c] = IF ExpectedStatusHolds(o) THEN n ELSE Proceed(o)]
  BY DEF MarkBegin
<1>3. op'[c] \in Operations
  BY DEF TInv, IInv, TypeOK, Operations
<1>4. op'[c] = IF ExpectedStatusHolds(o) THEN n ELSE Proceed(o)
  BY <1>2 DEF SInv, TInv, IInv, TypeOK
<1> HIDE DEF o, roll
<1>5. n.kind = o.kind /\ n.cur = o.cur /\ n.todo = o.todo /\ n.proven = o.proven
  BY <1>1 DEF CheckOps
<1>6. n \notin CloseOps /\ n \notin ReleaseOps
  BY <1>1, <1>5 DEF CheckOps, CloseOps, ReleaseOps
<1> HIDE DEF n
<1>7. SafeOp(n)
  BY <1>1, <1>5, <1>6 DEF SafeOp, Targeted
<1>8. Proceed(o) \in Operations /\ SafeOp(Proceed(o))
  BY <1>1, SafeAnswer
<1>9. \E p \in Operations : SafeOp(p) /\ op' = [op EXCEPT ![c] = p]
  BY <1>2, <1>3, <1>4, <1>7, <1>8
<1> QED
  BY <1>9, SafeQuietStep DEF MarkBegin

-----------------------------------------------------------------------------
(* Steps that store keep releases safe                                     *)

LEMMA SafeCreateBatch ==
  ASSUME SInv, TInv', NEW b \in Batches, CreateBatch(b)
  PROVE  SInv'
<1>1. PICK S \in SUBSET Accruals :
        /\ S # {} /\ \A a \in S : accrual[a] = "available"
        /\ accrual' = [a \in Accruals |-> IF a \in S THEN "allocated" ELSE accrual[a]]
        /\ covers' = [covers EXCEPT ![b] = S]
        /\ alloc' = [alloc EXCEPT ![b] = S]
  BY DEF CreateBatch, Allocatable
<1>2. /\ batch[b] = "none" /\ batch' = [batch EXCEPT ![b] = "planned"]
      /\ UNCHANGED <<tx, ledger, chain, op>>
  BY DEF CreateBatch
<1>3. /\ covers'[b] = S /\ alloc'[b] = S /\ batch'[b] = "planned"
      /\ \A d \in Batches : d # b => /\ covers'[d] = covers[d] /\ alloc'[d] = alloc[d]
                                     /\ batch'[d] = batch[d]
  BY <1>1, <1>2 DEF SInv, TInv, IInv, TypeOK
<1>4. Advances
  BY CreateBatchAdvances DEF SInv
<1>5. RowsStay /\ \A d \in Batches : NoNewRows(d)
  BY <1>2 DEF RowsStay, NoNewRows
<1>6. \A d \in Clients : SafeOp(op[d])'
  BY <1>2, <1>4, <1>5, SafeOpsSurvive DEF ReleaseOps
<1>7. SafeStore'
  <2>1. \A d \in Batches : AllDead(d) => AllDead(d)'
    BY <1>4, <1>5, AllDeadStays
  <2> QED BY <1>1, <1>2, <1>3, <2>1 DEF SInv, SafeStore, Released
<1>8. \A d \in Batches : ledger[d] = 1 => d # b /\ covers[d] # {}
  BY <1>2 DEF SInv, SafeStore
<1>9. \A d \in Batches : covers[d] # {} /\ Cleared(d) => Cleared(d)'
  BY <1>4, ClearedStays DEF SInv
<1>10. \A a \in Accruals : accrual[a] = "paid" <=> accrual'[a] = "paid"
  BY <1>1
<1>11. ClosedAreCleared'
  BY <1>2, <1>3, <1>8, <1>9, <1>10 DEF SInv, ClosedAreCleared, TInv, IInv, TypeOK
<1>12. PaidAreClosed'
  BY <1>2, <1>3, <1>8, <1>10 DEF SInv, PaidAreClosed
<1> QED
  BY <1>6, <1>7, <1>11, <1>12 DEF SInv

\* Nothing is signed for a batch that is being released or has been.
LEMMA SafeSaveSigned ==
  ASSUME Disciplined, SInv, TInv', NEW b \in Batches, NEW k \in Keys, NEW W \in SUBSET Wallets,
         NEW sig \in SignatureChoices, SaveSigned(b, k, W, sig)
  PROVE  SInv'
<1>1. /\ batch[b] # "none" /\ tx[b][k].status = "none"
      /\ UNCHANGED <<accrual, batch, covers, alloc, item, ledger, chain, op>>
      /\ tx' = [tx EXCEPT ![b][k] =
                  [status |-> "signed", items |-> W, sig |-> sig, sent |-> FALSE]]
  BY DEF SaveSigned
<1>2. sig = TRUE /\ alloc[b] # {} /\ ~ ReleaseInProgress(b)
  BY DEF SaveSigned, Disciplined
<1>3. /\ \A d \in Batches, l \in Keys : ~ (d = b /\ l = k) => tx'[d][l] = tx[d][l]
      /\ tx'[b][k].status = "signed" /\ tx'[b][k].sig
  BY <1>1, <1>2 DEF SInv, TInv, IInv, TypeOK
<1>4. Advances
  BY SaveSignedAdvances DEF SInv
<1>5. RowsStay /\ \A d \in Batches : d # b => NoNewRows(d)
  BY <1>1, <1>3 DEF RowsStay, NoNewRows
<1>6. ASSUME NEW d \in Clients, op[d] \in ReleaseOps PROVE op[d].batch \in Batches \ {b}
  BY <1>2, <1>6 DEF ReleaseOps, ReleaseInProgress
<1>7. \A d \in Clients : SafeOp(op[d])'
  BY <1>1, <1>4, <1>5, <1>6, SafeOpsSurvive
<1>8. SafeStore'
  <2>1. \A d \in Batches : d # b /\ AllDead(d) => AllDead(d)'
    BY <1>4, <1>5, AllDeadStays
  <2> QED BY <1>1, <1>2, <1>3, <2>1 DEF SInv, SafeStore, Released
<1>9. \A d \in Batches : covers[d] # {} /\ Cleared(d) => Cleared(d)'
  BY <1>4, ClearedStays DEF SInv
<1>10. ClosedAreCleared'
  BY <1>1, <1>9 DEF SInv, SafeStore, ClosedAreCleared
<1>11. PaidAreClosed'
  BY <1>1 DEF SInv, PaidAreClosed
<1> QED
  BY <1>7, <1>8, <1>10, <1>11 DEF SInv

\* The row that is marked exists, so marking it adds none.
LEMMA SafeMarkCommit ==
  ASSUME SInv, TInv', NEW c \in Clients, MarkCommit(c)
  PROVE  SInv'
<1> DEFINE o == op[c]
           b == o.cur.batch
           k == o.cur.key
           row == Marked(o)
           next == Proceed(o)
<1>1. /\ o \in CheckOps /\ Created(o) /\ Targeted(o) /\ b \in Batches /\ k \in Keys
      /\ o.pc = "commit" /\ TrueOp(o) /\ Sound(o)
  BY TargetedFacts DEF MarkCommit, SInv, TInv
<1>2. /\ row.items = tx[b][k].items /\ row.status # "none"
      /\ tx[b][k].status # "none" /\ row.sig
  <2>1. row.items = tx[b][k].items /\ row.status # "none"
    BY <1>1, MarkedIsTrue DEF SInv
  <2>2. tx[b][k].status # "none"
    BY <1>1 DEF Targeted
  <2>3. tx[b][k].sig /\ tx[b][k] \in Tx
    BY <1>1, <2>2 DEF SInv, SafeStore, TInv, IInv, TypeOK
  <2>4. row.sig
    BY <2>3 DEF Marked, Tx
  <2> QED BY <2>1, <2>2, <2>4
<1>3. next \in Operations /\ SafeOp(next)
  BY <1>1, SafeAnswer
<1>4. o.roll.status # "none" /\ batch[b] # "none"
  BY <1>1 DEF Sound, Created
<1>5. /\ tx' = [tx EXCEPT ![b][k] = row]
      /\ batch' = [batch EXCEPT ![b] = o.roll.status]
      /\ op' = [op EXCEPT ![c] = next]
      /\ UNCHANGED <<accrual, covers, alloc, ledger, chain>>
  BY DEF MarkCommit
<1>6. Advances
  BY MarkCommitAdvances DEF SInv
<1> HIDE DEF o, row, next
<1>7. /\ \A d \in Batches, l \in Keys : ~ (d = b /\ l = k) => tx'[d][l] = tx[d][l]
      /\ tx'[b][k] = row
      /\ \A d \in Batches : batch'[d] = "none" <=> batch[d] = "none"
      /\ \A d \in Clients : op'[d] = IF d = c THEN next ELSE op[d]
  BY <1>1, <1>4, <1>5 DEF SInv, TInv, IInv, TypeOK
<1>8. RowsStay /\ \A d \in Batches : NoNewRows(d)
  BY <1>1, <1>2, <1>7 DEF RowsStay, NoNewRows
<1>9. \A d \in Clients : SafeOp(op[d])'
  <2>1. \A d \in Clients : op'[d] \in ReleaseOps => op'[d].batch \in Batches
    BY DEF ReleaseOps
  <2> QED BY <1>3, <1>6, <1>7, <1>8, <2>1, SafeOpsSurvive
<1>10. SafeStore'
  <2>1. \A d \in Batches : AllDead(d) => AllDead(d)'
    BY <1>6, <1>8, AllDeadStays
  <2>2. \A d \in Batches, l \in Keys :
          IF tx'[d][l].status = "none" THEN tx'[d][l].items = {} ELSE tx'[d][l].sig
    BY <1>1, <1>2, <1>7 DEF SInv, SafeStore
  <2> QED BY <1>5, <1>7, <2>1, <2>2 DEF SInv, SafeStore, Released
<1>11. \A d \in Batches : covers[d] # {} /\ Cleared(d) => Cleared(d)'
  BY <1>6, ClearedStays DEF SInv
<1>12. ClosedAreCleared'
  BY <1>5, <1>11 DEF SInv, SafeStore, ClosedAreCleared
<1>13. PaidAreClosed'
  BY <1>5 DEF SInv, PaidAreClosed
<1> QED
  BY <1>9, <1>10, <1>12, <1>13 DEF SInv

\* What is released is dead, unless it is released by override.
LEMMA SafeReleaseApply ==
  ASSUME SInv, TInv', NEW c \in Clients, ReleaseApply(c)
  PROVE  SInv'
<1> DEFINE o == op[c]
           b == o.batch
<1>1. o \in ReleaseOps /\ b \in Batches /\ SafeOp(o)
  BY KindTellsType
  DEF ReleaseApply, At, SInv, TInv, IInv, TypeOK, Operations, ReleaseOps
<1>2. AllowOverride \/ AllDead(b)
  BY <1>1 DEF ReleaseApply, At, SafeOp
<1>3. /\ batch' = [batch EXCEPT ![b] = "cancelled"]
      /\ accrual' = [a \in Accruals |->
                       IF a \in alloc[b] /\ accrual[a] = "allocated"
                       THEN "available" ELSE accrual[a]]
      /\ alloc' = [alloc EXCEPT ![b] = {}]
      /\ op' = [op EXCEPT ![c] = Idle]
      /\ UNCHANGED <<covers, tx, ledger, chain>>
  BY DEF ReleaseApply
<1>4. Advances
  BY ReleaseApplyAdvances DEF SInv
<1>5. batch[b] # "none"
  BY <1>1 DEF SafeOp, SInv, SafeStore
<1> HIDE DEF o
<1>6. /\ batch'[b] = "cancelled" /\ alloc'[b] = {}
      /\ \A d \in Batches : d # b => batch'[d] = batch[d] /\ alloc'[d] = alloc[d]
      /\ \A d \in Clients : op'[d] = IF d = c THEN Idle ELSE op[d]
  BY <1>1, <1>3 DEF SInv, TInv, IInv, TypeOK
<1>7. RowsStay /\ \A d \in Batches : NoNewRows(d)
  BY <1>3 DEF RowsStay, NoNewRows
<1>8. \A d \in Clients : SafeOp(op[d])'
  <2>1. \A d \in Clients : op'[d] \in ReleaseOps => op'[d].batch \in Batches
    BY DEF ReleaseOps
  <2>2. Idle \in Operations
    BY DEF Operations
  <2> QED BY <1>4, <1>6, <1>7, <2>1, <2>2, SafeIdle, SafeOpsSurvive
<1>9. SafeStore'
  <2>1. \A d \in Batches : AllDead(d) => AllDead(d)'
    BY <1>4, <1>7, AllDeadStays
  <2> QED BY <1>2, <1>3, <1>5, <1>6, <2>1 DEF SInv, SafeStore, Released
<1>10. \A d \in Batches : covers[d] # {} /\ Cleared(d) => Cleared(d)'
  BY <1>4, ClearedStays DEF SInv
<1>11. \A a \in Accruals : accrual[a] = "paid" <=> accrual'[a] = "paid"
  BY <1>3
<1>12. ClosedAreCleared'
  <2>1. \A d \in Batches : covers[d] \subseteq Accruals
    BY DEF SInv, TInv, IInv, TypeOK
  <2>2. \A d \in Batches : ledger[d] = 1 => covers[d] # {}
    BY DEF SInv, SafeStore
  <2> QED BY <1>3, <1>10, <1>11, <2>1, <2>2 DEF SInv, ClosedAreCleared
<1>13. PaidAreClosed'
  BY <1>3, <1>11 DEF SInv, PaidAreClosed
<1> QED
  BY <1>8, <1>9, <1>12, <1>13 DEF SInv

\* The batch of a closure is still allocated as a whole, so all of it is paid.
LEMMA SafeCloseCommit ==
  ASSUME SInv, TInv', NEW c \in Clients, CloseCommit(c)
  PROVE  SInv'
<1> DEFINE o == op[c]
           b == o.batch
<1>1. /\ o \in CloseOps /\ b \in Batches /\ SafeOp(o) /\ TrueOp(o)
      /\ covers[b] # {} /\ Cleared(b)
  BY KindTellsType
  DEF CloseCommit, SInv, TInv, IInv, TypeOK, Operations, CloseOps, SafeOp
<1>2. /\ op' = [op EXCEPT ![c] = Idle]
      /\ UNCHANGED <<batch, covers, alloc, item, tx, chain>>
      /\ ledger' = [ledger EXCEPT ![b] = IF ledger[b] = 0 THEN ledger[b] + 1 ELSE ledger[b]]
      /\ \A a \in Accruals :
           accrual'[a] = IF ledger[b] = 0 /\ a \in o.held /\ accrual[a] = "allocated"
                         THEN "paid" ELSE accrual[a]
  BY <1>1 DEF CloseCommit, SInv, TInv, IInv, TypeOK
<1>3. Advances
  BY CloseCommitAdvances
<1>4. \A a \in o.held : a \in covers[b]
  BY <1>1 DEF TrueOp
<1>5. ASSUME ~ AllowOverride
      PROVE  o.held = covers[b] /\ \A a \in covers[b] : accrual[a] \in {"allocated", "paid"}
  <2>1. o.held = covers[b]
    BY <1>1, <1>5 DEF SafeOp
  <2>2. alloc[b] = covers[b]
    BY <1>1, <1>5, ClearedIsAlive DEF SInv, SafeStore, Released
  <2>3. \A a \in covers[b] : a \in Accruals /\ accrual[a] # "available"
    BY <1>1, <2>2 DEF SInv, TInv, IInv, TypeOK, AllocationExclusive
  <2>4. \A a \in covers[b] : accrual[a] \in {"allocated", "paid"}
    BY <2>3 DEF SInv, TInv, IInv, TypeOK
  <2> QED BY <2>1, <2>4
<1> HIDE DEF o
<1>6. /\ ledger'[b] = (IF ledger[b] = 0 THEN ledger[b] + 1 ELSE ledger[b])
      /\ \A d \in Batches : d # b => ledger'[d] = ledger[d]
      /\ \A d \in Clients : op'[d] = IF d = c THEN Idle ELSE op[d]
      /\ \A d \in Batches : ledger[d] \in Nat
  BY <1>1, <1>2 DEF SInv, TInv, IInv, TypeOK
<1>7. RowsStay /\ \A d \in Batches : NoNewRows(d)
  BY <1>2 DEF RowsStay, NoNewRows
<1>8. \A d \in Clients : SafeOp(op[d])'
  <2>1. \A d \in Clients : op'[d] \in ReleaseOps => op'[d].batch \in Batches
    BY DEF ReleaseOps
  <2>2. Idle \in Operations
    BY DEF Operations
  <2> QED BY <1>3, <1>6, <1>7, <2>1, <2>2, SafeIdle, SafeOpsSurvive
<1>9. SafeStore'
  <2>1. \A d \in Batches : AllDead(d) => AllDead(d)'
    BY <1>3, <1>7, AllDeadStays
  <2>2. batch[b] # "none"
    BY <1>1 DEF SInv, SafeStore
  <2> QED BY <1>2, <1>6, <2>1, <2>2 DEF SInv, SafeStore, Released
<1>10. \A d \in Batches : covers[d] # {} /\ Cleared(d) => Cleared(d)'
  BY <1>3, ClearedStays DEF SInv
<1>11. \A d \in Batches : covers[d] \subseteq Accruals
  BY DEF SInv, TInv, IInv, TypeOK
<1>12. ClosedAreCleared'
  <2>1. ASSUME NEW d \in Batches, d # b
        PROVE  /\ ledger'[d] <= 1
               /\ ledger'[d] = 1 => /\ Cleared(d)'
                                    /\ \A a \in covers'[d] : AllowOverride \/ accrual'[a] = "paid"
    BY <2>1, <1>2, <1>6, <1>10, <1>11 DEF SInv, SafeStore, ClosedAreCleared
  <2>2. \A d \in Batches : d = b => ledger'[d] <= 1 /\ Cleared(d)'
    BY <1>1, <1>6, <1>10 DEF SInv, ClosedAreCleared
  <2>3. ASSUME NEW a \in covers[b], ~ AllowOverride, ledger'[b] = 1 PROVE accrual'[a] = "paid"
    <3>1. CASE ledger[b] = 0
      BY <1>2, <1>5, <1>11, <1>1, <2>3, <3>1
    <3>2. CASE ledger[b] # 0
      BY <1>1, <1>2, <1>6, <1>11, <2>3, <3>2 DEF SInv, ClosedAreCleared
    <3> QED BY <3>1, <3>2
  <2> QED BY <1>2, <2>1, <2>2, <2>3 DEF ClosedAreCleared
<1>13. PaidAreClosed'
  <2> SUFFICES ASSUME NEW a \in Accruals, accrual'[a] = "paid"
               PROVE  \E d \in Batches : a \in covers[d] /\ ledger'[d] = 1
    BY <1>2 DEF PaidAreClosed
  <2>1. CASE accrual[a] = "paid"
    <3>1. PICK d \in Batches : a \in covers[d] /\ ledger[d] = 1
      BY <2>1 DEF SInv, PaidAreClosed
    <3>2. ledger'[d] = 1
      BY <1>6, <3>1
    <3> QED BY <3>1, <3>2
  <2>2. CASE accrual[a] # "paid"
    <3>1. ledger[b] = 0 /\ a \in covers[b]
      BY <1>2, <1>4, <2>2
    <3> QED BY <1>1, <1>6, <3>1
  <2> QED BY <2>1, <2>2
<1> QED
  BY <1>8, <1>9, <1>12, <1>13 DEF SInv

LEMMA InitSInv == Init => SInv
<1> SUFFICES ASSUME Init PROVE SInv
  OBVIOUS
<1>1. TInv
  BY InitTInv
<1>2. SafeStore
  BY DEF Init, SafeStore, Released, NoTx
<1>3. ClosedAreCleared /\ PaidAreClosed
  BY DEF Init, ClosedAreCleared, PaidAreClosed
<1>4. \A c \in Clients : SafeOp(op[c])
  BY SafeIdle DEF Init
<1> QED
  BY <1>1, <1>2, <1>3, <1>4 DEF SInv

LEMMA StepSInv == Disciplined /\ SInv /\ [Next]_vars => SInv'
<1> SUFFICES ASSUME Disciplined, SInv, [Next]_vars PROVE SInv'
  OBVIOUS
<1>1. TInv'
  BY StepTInv DEF SInv
<1>2. CASE ChainNext
  BY <1>1, <1>2, SafeEnvironmentStep DEF ChainNext
<1>3. CASE OperatorNext
  BY <1>1, <1>3, SafeCreateBatch, SafeSaveSigned, SafeEnvironmentStep DEF OperatorNext
<1>4. ASSUME NEW c \in Handlers, HandlerNext(c) PROVE SInv'
  <2>1. c \in Clients
    BY DEF Clients
  <2>2. PICK b \in Batches :
          \/ \E k \in Keys : BroadcastAccepted(c, b, k)
          \/ ReconcileRequest(c, b)
          \/ ReleaseRequest(c, b) \/ ReleaseOverride(c, b)
          \/ CloseVerify(c, b)
    BY <1>4 DEF HandlerNext
  <2> QED
    BY <1>1, <2>1, <2>2, SafeBroadcastAccepted, SafeReconcile, SafeReleaseRequest, SafeCloseVerify
<1>5. ASSUME NEW c \in Workers, WorkerNext(c) PROVE SInv'
  <2>1. c \in Clients
    BY DEF Clients
  <2> QED
    BY <1>1, <1>5, <2>1, SafeSweep, SafeCloseVerify DEF WorkerNext
<1>6. ASSUME NEW c \in Clients, Continue(c) \/ Crash(c) PROVE SInv'
  <2>1. CASE ReconcileMonitor(c) \/ SweepMonitor(c)
    <3>1. op[c].cur.batch \in Batches /\ op[c].cur.key \in Keys
      BY <2>1, TargetedFacts DEF ReconcileMonitor, SweepMonitor, Monitoring
    <3> QED BY <1>1, <2>1, <3>1, SafeReconcile, SafeSweep
  <2>2. CASE NotFound(c) \/ ReleaseMonitor(c)
    BY <1>1, <2>2, SafeNotFound, SafeReleaseMonitor
  <2>3. CASE MarkBegin(c) \/ MarkCommit(c)
    BY <1>1, <2>3, SafeMarkBegin, SafeMarkCommit
  <2>4. CASE ReleaseGuard(c) \/ ReleaseApply(c)
    BY <1>1, <2>4, SafeReleaseGuard, SafeReleaseApply
  <2>5. CASE CloseCommit(c) \/ Crash(c)
    BY <1>1, <2>5, SafeCloseCommit, SafeCrash
  <2> QED
    BY <1>6, <2>1, <2>2, <2>3, <2>4, <2>5 DEF Continue
<1>7. CASE UNCHANGED vars
  <2>1. ChainAdvances /\ op' = op
    BY <1>7 DEF ChainAdvances, vars, store
  <2> QED BY <1>1, <2>1, SafeChainStep
<1> QED
  BY <1>2, <1>3, <1>4, <1>5, <1>6, <1>7 DEF Next

\* The invariant of an engine that is run so.
LEMMA DisciplinedInv == Disciplined => (Spec => []SInv)
<1> SUFFICES ASSUME Disciplined PROVE Spec => []SInv
  OBVIOUS
<1>1. SInv /\ [Next]_vars => SInv'
  BY StepSInv
<1> QED
  BY InitSInv, <1>1, PTL DEF Spec

\* AvailableIsUnpaid: an accrual that is offered for payout has not been paid,
\* and nothing signed for an earlier batch can still pay it, as long as nobody
\* overrides a release.
THEOREM AvailableAreUnpaid ==
  Disciplined /\ ~ AllowOverride => (Spec => []AvailableIsUnpaid)
<1> SUFFICES ASSUME Disciplined, ~ AllowOverride PROVE Spec => []AvailableIsUnpaid
  OBVIOUS
<1>1. SInv => AvailableIsUnpaid
  <2> SUFFICES ASSUME SInv, NEW a \in Accruals, accrual[a] = "available",
                      NEW b \in Batches, NEW k \in Keys, CarriesAccrual(b, k, a)
               PROVE  ~ Moved(b, k) /\ ~ CanStillMove(b, k)
    BY DEF AvailableIsUnpaid
  <2>1. a \notin alloc[b]
    BY DEF SInv, TInv, IInv, AllocationExclusive
  <2>2. AllDead(b)
    BY <2>1 DEF SInv, SafeStore, Released, CarriesAccrual
  <2>3. tx[b][k].status # "none"
    BY DEF SInv, SafeStore, CarriesAccrual
  <2> QED BY <2>2, <2>3 DEF AllDead, Dead, Moved, CanStillMove
<1> QED
  BY DisciplinedInv, <1>1, PTL

\* PaidIffClosed: commission is recorded as paid when, and only when, a batch it
\* was counted in is closed, whatever stale allocation list the closure has.
THEOREM PaidAreThoseClosed ==
  Disciplined /\ ~ AllowOverride => (Spec => []PaidIffClosed)
<1> SUFFICES ASSUME Disciplined, ~ AllowOverride PROVE Spec => []PaidIffClosed
  OBVIOUS
<1>1. SInv => PaidIffClosed
  BY DEF SInv, ClosedAreCleared, PaidAreClosed, PaidIffClosed
<1> QED
  BY DisciplinedInv, <1>1, PTL

\* FinalizedStaysAllocated: however a release interleaves with broadcasts and
\* sweeps, it never frees an item recorded as transferred for good, unless it
\* is an override.
THEOREM FinalizedItemsStay == Disciplined => (Spec => FinalizedStaysAllocated)
<1> SUFFICES ASSUME Disciplined PROVE Spec => FinalizedStaysAllocated
  OBVIOUS
<1> DEFINE Freed(b, a) == /\ a \in alloc[b] /\ item[b][PayoutWallet[a]] = "finalized"
                          /\ accrual'[a] = "available"
           Overridden(b) == \E c \in Clients : /\ op[c].kind = "store" /\ op[c].batch = b
                                               /\ op[c].override
<1>1. ASSUME SInv, [Next]_vars, NEW b \in Batches, NEW a \in Accruals, Freed(b, a)
      PROVE  Overridden(b)
  <2>1. accrual[a] # "available"
    BY <1>1 DEF SInv, TInv, IInv, AllocationExclusive
  <2>2. PICK c \in Clients : ReleaseApply(c) /\ a \in alloc[op[c].batch]
    <3>1. ASSUME NEW d \in Batches, CreateBatch(d) PROVE FALSE
      BY <1>1, <2>1, <3>1 DEF CreateBatch
    <3>2. ASSUME NEW c \in Clients, CloseCommit(c) PROVE FALSE
      BY <1>1, <2>1, <3>2 DEF CloseCommit
    <3>3. CASE UNCHANGED accrual
      BY <1>1, <2>1, <3>3
    <3>4. ASSUME NEW c \in Clients, ReleaseApply(c) PROVE a \in alloc[op[c].batch]
      BY <1>1, <2>1, <3>4 DEF ReleaseApply
    <3>5. \/ UNCHANGED accrual
          \/ \E d \in Batches : CreateBatch(d)
          \/ \E c \in Clients : ReleaseApply(c) \/ CloseCommit(c)
      BY <1>1
      DEF Next, vars, store, ChainNext, Land, Revert, FailOnFork, Finalize, Expire, ChainStep,
          OperatorNext, SaveSigned, BroadcastUnanswered, HandlerNext, BroadcastAccepted,
          ReconcileRequest, ReleaseRequest, ReleaseOverride, CloseVerify, WorkerNext, SweepList,
          Continue, NotFound, SweepMonitor, ReconcileMonitor, ReleaseMonitor, MarkBegin,
          MarkCommit, ReleaseGuard, Crash
    <3> QED BY <3>1, <3>2, <3>3, <3>4, <3>5
  <2>3. /\ op[c] \in ReleaseOps /\ op[c].kind = "store" /\ op[c].pc = "apply"
        /\ op[c].batch \in Batches /\ SafeOp(op[c])
    BY <1>1, <2>2, KindTellsType
    DEF ReleaseApply, At, SInv, TInv, IInv, TypeOK, Operations, ReleaseOps
  <2>4. op[c].batch = b
    BY <1>1, <2>2, <2>3 DEF SInv, TInv, IInv, AllocationExclusive
  <2>5. PICK k \in Keys : PayoutWallet[a] \in tx[b][k].items /\ chain[b][k] = "finalized"
    BY <1>1, PayoutWalletAssumption DEF SInv, TInv, TrueStore, Settled
  <2>6. tx[b][k].status # "none"
    BY <1>1, <2>5 DEF SInv, SafeStore
  <2>7. ~ AllDead(b)
    BY <2>5, <2>6 DEF AllDead, Dead
  <2> QED BY <2>3, <2>4, <2>7 DEF SafeOp
<1>2. SInv /\ [Next]_vars =>
        [\A b \in Batches, a \in Accruals :
           /\ a \in alloc[b] /\ item[b][PayoutWallet[a]] = "finalized"
           /\ accrual'[a] = "available"
           => \E c \in Clients : op[c].kind = "store" /\ op[c].batch = b /\ op[c].override]_vars
  BY <1>1
<1> QED
  BY DisciplinedInv, <1>2, PTL DEF Spec, FinalizedStaysAllocated

-----------------------------------------------------------------------------
(* The engine keeps every obligation once                                  *)

\* What a step does to the store and to what has been transferred: it lands one
\* transaction, writes the store, or leaves both alone.
Quiet == ChainAdvances /\ \A b \in Batches, k \in Keys : Moved(b, k)' = Moved(b, k)

LEMMA QuietMove ==
  ASSUME TypeOK, UNCHANGED store, NEW b \in Batches, NEW k \in Keys, NEW to,
         chain' = [chain EXCEPT ![b][k] = to], tx[b][k].status # "none",
         \/ /\ chain[b][k] \in {"unsent", "inflight", "failing"}
            /\ to \notin {"confirmed", "finalized"}
         \/ chain[b][k] = "confirmed" /\ to = "finalized"
         \/ to = chain[b][k],
         to = "failing" => ForksDrop \/ to = chain[b][k]
  PROVE  Quiet
<1>1. \A d \in Batches, l \in Keys : chain'[d][l] = IF d = b /\ l = k THEN to ELSE chain[d][l]
  BY DEF TypeOK
<1>2. ChainAdvances
  BY OneMoves
<1> QED
  BY <1>1, <1>2 DEF Quiet, Moved

LEMMA LandAdvances ==
  ASSUME TypeOK, NEW b \in Batches, NEW k \in Keys, Land(b, k)
  PROVE  ChainAdvances
<1>1. /\ tx[b][k].status # "none" /\ chain[b][k] \in {"inflight", "failing"}
      /\ chain' = [chain EXCEPT ![b][k] = "confirmed"] /\ UNCHANGED store
  BY DEF Land, ChainStep
<1> QED
  BY <1>1, OneMoves

LEMMA StepKinds ==
  ASSUME SInv, [Next]_vars
  PROVE  \/ Quiet
         \/ \E b \in Batches, k \in Keys : Land(b, k)
         \/ \E b \in Batches : CreateBatch(b)
         \/ \E b \in Batches, k \in Keys, W \in SUBSET Wallets, sig \in SignatureChoices :
              SaveSigned(b, k, W, sig)
         \/ \E c \in Clients : MarkCommit(c) \/ ReleaseApply(c) \/ CloseCommit(c)
<1>1. TypeOK
  BY DEF SInv, TInv, IInv
<1>2. ASSUME NEW b \in Batches, NEW k \in Keys,
             Revert(b, k) \/ FailOnFork(b, k) \/ Finalize(b, k) \/ Expire(b, k)
      PROVE  Quiet
  <2>1. PICK to \in {"failed", "failing", "finalized", "expired"} :
          /\ tx[b][k].status # "none" /\ chain' = [chain EXCEPT ![b][k] = to]
          /\ UNCHANGED store
          /\ \/ chain[b][k] \in {"unsent", "inflight", "failing"} /\ to # "finalized"
             \/ chain[b][k] = "confirmed" /\ to = "finalized"
          /\ to = "failing" => ForksDrop
    BY <1>2 DEF Revert, FailOnFork, Finalize, Expire, ChainStep
  <2> QED BY <1>1, <2>1, QuietMove
<1>3. ASSUME NEW b \in Batches, NEW k \in Keys,
             BroadcastUnanswered(b, k) \/ \E c \in Clients : BroadcastAccepted(c, b, k)
      PROVE  Quiet
  <2> DEFINE to == IF chain[b][k] = "unsent" THEN "inflight" ELSE chain[b][k]
  <2>1. /\ CanBroadcast(tx[b][k]) /\ UNCHANGED store
        /\ chain' = [chain EXCEPT ![b][k] = to]
    BY <1>3 DEF BroadcastUnanswered, BroadcastAccepted
  <2>2. tx[b][k].status # "none"
    BY <2>1 DEF CanBroadcast
  <2>3. \/ chain[b][k] = "unsent" /\ to = "inflight"
        \/ to = chain[b][k]
    OBVIOUS
  <2> HIDE DEF to
  <2> QED BY <1>1, <2>1, <2>2, <2>3, QuietMove
<1>4. ASSUME UNCHANGED <<store, chain>> PROVE Quiet
  BY <1>4 DEF Quiet, ChainAdvances, Moved
<1>5. CASE ChainNext
  BY <1>2, <1>5 DEF ChainNext
<1>6. CASE OperatorNext
  BY <1>3, <1>6 DEF OperatorNext
<1>7. ASSUME NEW c \in Handlers, HandlerNext(c) PROVE Quiet
  <2>1. c \in Clients
    BY DEF Clients
  <2>2. ASSUME NEW b \in Batches,
               \/ ReconcileRequest(c, b) \/ ReleaseRequest(c, b) \/ ReleaseOverride(c, b)
               \/ CloseVerify(c, b)
        PROVE  UNCHANGED <<store, chain>>
    BY <2>2 DEF ReconcileRequest, ReleaseRequest, ReleaseOverride, CloseVerify
  <2> QED BY <1>3, <1>4, <1>7, <2>1, <2>2 DEF HandlerNext
<1>8. ASSUME NEW c \in Workers, WorkerNext(c) PROVE Quiet
  BY <1>4, <1>8 DEF WorkerNext, SweepList, CloseVerify
<1>9. ASSUME NEW c \in Clients, Continue(c) \/ Crash(c)
      PROVE  Quiet \/ MarkCommit(c) \/ ReleaseApply(c) \/ CloseCommit(c)
  <2>1. ASSUME \/ NotFound(c) \/ SweepMonitor(c) \/ ReconcileMonitor(c) \/ ReleaseMonitor(c)
               \/ MarkBegin(c) \/ ReleaseGuard(c) \/ Crash(c)
        PROVE  UNCHANGED <<store, chain>>
    BY <2>1
    DEF NotFound, SweepMonitor, ReconcileMonitor, ReleaseMonitor, MarkBegin, ReleaseGuard, Crash
  <2> QED BY <1>4, <1>9, <2>1 DEF Continue
<1>10. CASE UNCHANGED vars
  BY <1>4, <1>10 DEF vars, store
<1> QED
  BY <1>5, <1>6, <1>7, <1>8, <1>9, <1>10 DEF Next

\* All the other steps leave the rows, what they carry and the dead alone.
LEMMA RowsOfStep ==
  ASSUME SInv, [Next]_vars,
         ~ \E b \in Batches, k \in Keys, W \in SUBSET Wallets, sig \in SignatureChoices :
             SaveSigned(b, k, W, sig)
  PROVE  Advances /\ RowsStay /\ \A b \in Batches : NoNewRows(b)
<1>1. CASE Quiet \/ \E b \in Batches, k \in Keys : Land(b, k)
  <2>1. ChainAdvances
    BY <1>1, LandAdvances DEF Quiet, SInv, TInv, IInv
  <2> QED
    BY <2>1, ChainAdvancesIsAdvance
    DEF SInv, TInv, IInv, ChainAdvances, store, RowsStay, NoNewRows
<1>2. ASSUME NEW b \in Batches, CreateBatch(b)
      PROVE  Advances /\ RowsStay /\ \A d \in Batches : NoNewRows(d)
  BY <1>2, CreateBatchAdvances DEF SInv, CreateBatch, RowsStay, NoNewRows
<1>3. ASSUME NEW c \in Clients, MarkCommit(c)
      PROVE  Advances /\ RowsStay /\ \A d \in Batches : NoNewRows(d)
  <2>1. Advances
    BY <1>3, MarkCommitAdvances DEF SInv
  <2>2. /\ op[c] \in CheckOps /\ Targeted(op[c]) /\ TrueOp(op[c]) /\ Sound(op[c])
        /\ op[c].pc = "commit"
        /\ op[c].cur.batch \in Batches /\ op[c].cur.key \in Keys
    BY <1>3, TargetedFacts DEF MarkCommit, SInv, TInv
  <2>3. /\ tx[op[c].cur.batch][op[c].cur.key].status # "none"
        /\ Marked(op[c]).status # "none"
    BY <2>2, MarkedIsTrue DEF Targeted, SInv
  <2>4. /\ \A d \in Batches, l \in Keys :
             ~ (d = op[c].cur.batch /\ l = op[c].cur.key) => tx'[d][l] = tx[d][l]
        /\ tx'[op[c].cur.batch][op[c].cur.key].status # "none"
    <3>1. tx' = [tx EXCEPT ![op[c].cur.batch][op[c].cur.key] = Marked(op[c])]
      BY <1>3 DEF MarkCommit
    <3> QED BY <2>2, <2>3, <3>1 DEF SInv, TInv, IInv, TypeOK
  <2> QED BY <2>1, <2>3, <2>4, <2>2 DEF RowsStay, NoNewRows
<1>4. ASSUME NEW c \in Clients, ReleaseApply(c)
      PROVE  Advances /\ RowsStay /\ \A d \in Batches : NoNewRows(d)
  BY <1>4, ReleaseApplyAdvances DEF SInv, ReleaseApply, RowsStay, NoNewRows
<1>5. ASSUME NEW c \in Clients, CloseCommit(c)
      PROVE  Advances /\ RowsStay /\ \A d \in Batches : NoNewRows(d)
  BY <1>5, CloseCommitAdvances DEF SInv, CloseCommit, RowsStay, NoNewRows
<1> QED
  BY <1>1, <1>2, <1>3, <1>4, <1>5, StepKinds

Rows(b) == {k \in Keys : tx[b][k].status # "none"}

LEMMA RowsAreExisting ==
  ASSUME TypeOK, NEW b \in Batches
  PROVE  Existing(tx[b]) = Rows(b)
  BY DEF TypeOK, Existing, Rows

LEMMA InitTurn == Init => AttemptsInTurn
  BY DEF Init, NoTx, AttemptsInTurn, Existing

LEMMA TurnSurvives ==
  ASSUME SInv, SInv', AttemptsInTurn, Advances, RowsStay, \A b \in Batches : NoNewRows(b)
  PROVE  AttemptsInTurn'
<1>1. ASSUME NEW b \in Batches
      PROVE  /\ Existing(tx[b])' = Existing(tx[b])
             /\ \A k \in Existing(tx[b]) : k \in Keys /\ tx'[b][k].items = tx[b][k].items
             /\ \A k \in Existing(tx[b]) : Dead(b, k) => Dead(b, k)'
  <2>1. Existing(tx[b]) = Rows(b)
    BY RowsAreExisting DEF SInv, TInv, IInv
  <2>2. Existing(tx[b])' = Rows(b)'
    BY DEF SInv, TInv, IInv, TypeOK, Existing, Rows
  <2>3. Rows(b)' = Rows(b)
    BY DEF Rows, RowsStay, NoNewRows
  <2>4. \A k \in Rows(b) : k \in Keys /\ tx'[b][k].items = tx[b][k].items
    BY DEF Rows, Advances
  <2>5. \A k \in Keys : Dead(b, k) => Dead(b, k)'
    BY DeadStays
  <2> QED BY <2>1, <2>2, <2>3, <2>4, <2>5
<1> QED
  BY <1>1 DEF AttemptsInTurn

LEMMA TurnSaveSigned ==
  ASSUME Disciplined, Runbook, SInv, SInv', AttemptsInTurn, Advances, RowsStay,
         NEW b \in Batches, NEW k \in Keys, NEW W \in SUBSET Wallets,
         NEW sig \in SignatureChoices, SaveSigned(b, k, W, sig)
  PROVE  AttemptsInTurn'
<1> DEFINE prev == <<k[1], k[2] - 1>>
<1>1. /\ tx[b][k].status = "none" /\ FollowsRunbook(b, k, W) /\ W # {}
      /\ chain' = chain
      /\ tx' = [tx EXCEPT ![b][k] =
                  [status |-> "signed", items |-> W, sig |-> sig, sent |-> FALSE]]
  BY DEF SaveSigned
<1>2. /\ \A d \in Batches, l \in Keys : ~ (d = b /\ l = k) => tx'[d][l] = tx[d][l]
      /\ tx'[b][k].status = "signed" /\ tx'[b][k].items = W
  BY <1>1 DEF SInv, TInv, IInv, TypeOK
<1>3. \A d \in Batches : Existing(tx[d]) = Rows(d)
  BY RowsAreExisting DEF SInv, TInv, IInv
<1>4. TypeOK'
  BY DEF SInv, TInv, IInv
<1>5. \A d \in Batches : Existing(tx'[d]) = {l \in Keys : tx'[d][l].status # "none"}
  BY <1>4 DEF TypeOK, Existing
<1>6. /\ Existing(tx'[b]) = Existing(tx[b]) \cup {k}
      /\ \A d \in Batches : d # b => Existing(tx'[d]) = Existing(tx[d])
      /\ k \notin Existing(tx[b])
      /\ \A d \in Batches : \A l \in Existing(tx[d]) :
           l \in Keys /\ tx'[d][l].items = tx[d][l].items
  <2>1. Existing(tx'[b]) = Existing(tx[b]) \cup {k} /\ k \notin Existing(tx[b])
    BY <1>1, <1>2, <1>3, <1>5 DEF Rows
  <2>2. ASSUME NEW d \in Batches, d # b PROVE Existing(tx'[d]) = Existing(tx[d])
    <3>1. \A l \in Keys : tx'[d][l].status = tx[d][l].status
      BY <1>2, <2>2
    <3>2. Existing(tx[d]) = {l \in Keys : tx[d][l].status # "none"}
      BY <1>3 DEF Rows
    <3> QED BY <1>5, <3>1, <3>2
  <2>3. \A d \in Batches : \A l \in Existing(tx[d]) :
          l \in Keys /\ tx'[d][l].items = tx[d][l].items
    BY <1>1, <1>2, <1>3 DEF Rows
  <2> QED BY <2>1, <2>2, <2>3
<1>7. \A l \in Keys : l = <<l[1], l[2]>> /\ l[1] \in Nat /\ l[2] \in Nat
  <2> TAKE l \in Keys
  <2>1. PICK s \in Sequences, n \in Attempts : l = <<s, n>>
    BY DEF Keys
  <2> QED BY <2>1, NumberingAssumption
<1>8. \A l \in Existing(tx[b]) : l \in Keys
  BY <1>6
<1>9. /\ k[2] # 0 /\ \A n \in 1 .. k[2] : <<k[1], n>> \in Existing(tx[b]) \cup {k}
      /\ \A l \in Existing(tx[b]) :
           /\ k[1] = l[1] => /\ tx[b][l].items = W /\ l[2] < k[2] /\ Dead(b, l)
           /\ k[1] # l[1] => tx[b][l].items \cap W = {}
  <2>1. CASE k[2] = 1
    <3>1. \A l \in Existing(tx[b]) : tx[b][l].items \cap W = {}
      BY <1>1, <2>1 DEF FollowsRunbook
    <3>2. \A l \in Existing(tx[b]) : l[1] # k[1]
      <4> SUFFICES ASSUME NEW l \in Existing(tx[b]), l[1] = k[1] PROVE FALSE
        OBVIOUS
      <4>1. l[2] # 0 /\ l[2] \in Nat /\ \A n \in 1 .. l[2] : <<l[1], n>> \in Existing(tx[b])
        BY <1>7, <1>8 DEF AttemptsInTurn
      <4>2. <<l[1], 1>> \in Existing(tx[b])
        BY <4>1
      <4> QED BY <1>6, <1>7, <2>1, <4>2
    <3>3. \A n \in 1 .. k[2] : <<k[1], n>> = k
      BY <1>7, <2>1
    <3> QED BY <2>1, <3>1, <3>2, <3>3
  <2>2. CASE k[2] # 1
    <3>1. /\ prev \in Existing(tx[b]) /\ tx[b][prev].items = W
          /\ tx[b][prev].status = "failed"
      BY <1>1, <2>2 DEF FollowsRunbook
    <3>2. prev[1] = k[1] /\ prev[2] = k[2] - 1 /\ k[2] \in Nat /\ prev[2] \in Nat
      BY <1>7, <1>8, <3>1
    <3>3. Dead(b, prev)
      BY <1>8, <3>1 DEF Disciplined, SInv, TInv, TrueStore, RecordedIsTrue, Dead
    <3> HIDE DEF prev
    <3>4. prev[2] # 0 /\ \A n \in 1 .. prev[2] : <<k[1], n>> \in Existing(tx[b])
      BY <3>1, <3>2 DEF AttemptsInTurn
    <3>5. ASSUME NEW n \in 1 .. k[2] PROVE <<k[1], n>> \in Existing(tx[b]) \cup {k}
      <4>1. n = k[2] \/ n \in 1 .. prev[2]
        BY <3>2, <3>5
      <4> QED BY <1>7, <3>4, <4>1
    <3>6. ASSUME NEW l \in Existing(tx[b]), k[1] = l[1]
          PROVE  tx[b][l].items = W /\ l[2] < k[2] /\ Dead(b, l)
      <4>1. /\ \A n \in 1 .. l[2] : <<l[1], n>> \in Existing(tx[b])
            /\ tx[b][l].items = W
            /\ l[2] < prev[2] => Dead(b, l)
        BY <3>1, <3>2, <3>6 DEF AttemptsInTurn
      <4>2. l[2] \in Nat /\ l = <<k[1], l[2]>> /\ k = <<k[1], k[2]>>
        BY <1>7, <1>8, <3>6
      <4>3. ~ (k[2] <= l[2])
        BY <1>6, <3>2, <3>4, <3>6, <4>1, <4>2
      <4>4. l[2] < prev[2] \/ l[2] = prev[2]
        BY <3>2, <4>2, <4>3
      <4>5. l[2] = prev[2] => l = prev
        BY <1>7, <1>8, <3>1, <3>2, <4>2
      <4> QED BY <3>2, <3>3, <4>1, <4>2, <4>3, <4>4, <4>5
    <3>7. ASSUME NEW l \in Existing(tx[b]), k[1] # l[1] PROVE tx[b][l].items \cap W = {}
      BY <3>1, <3>2, <3>7 DEF AttemptsInTurn
    <3> QED BY <3>2, <3>4, <3>5, <3>6, <3>7
  <2> QED BY <2>1, <2>2
<1>10. \A d \in Batches, l \in Keys : Dead(d, l)' <=> Dead(d, l)
  BY <1>1 DEF Dead
<1>11. ASSUME NEW d \in Batches
       PROVE  /\ \A l \in Existing(tx'[d]) :
                   l[2] # 0 /\ \A n \in 1 .. l[2] : <<l[1], n>> \in Existing(tx'[d])
              /\ \A l, m \in Existing(tx'[d]) :
                   /\ l[1] = m[1] => tx'[d][l].items = tx'[d][m].items
                   /\ l[1] # m[1] => tx'[d][l].items \cap tx'[d][m].items = {}
                   /\ l[1] = m[1] /\ l[2] < m[2] => Dead(d, l)'
  <2>1. CASE d # b
    BY <1>6, <1>10, <2>1 DEF AttemptsInTurn
  <2>2. CASE d = b
    <3>1. \A l \in Existing(tx'[b]) :
            l[2] # 0 /\ \A n \in 1 .. l[2] : <<l[1], n>> \in Existing(tx'[b])
      BY <1>6, <1>9 DEF AttemptsInTurn
    <3>2. ASSUME NEW l \in Existing(tx'[b]), NEW m \in Existing(tx'[b])
          PROVE  /\ l[1] = m[1] => tx'[b][l].items = tx'[b][m].items
                 /\ l[1] # m[1] => tx'[b][l].items \cap tx'[b][m].items = {}
                 /\ l[1] = m[1] /\ l[2] < m[2] => Dead(b, l)'
      <4>1. CASE l # k /\ m # k
        BY <1>6, <1>10, <3>2, <4>1 DEF AttemptsInTurn
      <4>2. CASE l = k /\ m # k
        <5>1. m \in Existing(tx[b]) /\ m \in Keys /\ tx'[b][m].items = tx[b][m].items
          BY <1>6, <3>2, <4>2
        <5>2. k[2] \in Nat /\ m[2] \in Nat
          BY <1>7, <5>1
        <5> QED BY <1>2, <1>9, <4>2, <5>1, <5>2
      <4>3. CASE m = k /\ l # k
        <5>1. l \in Existing(tx[b]) /\ l \in Keys /\ tx'[b][l].items = tx[b][l].items
          BY <1>6, <3>2, <4>3
        <5> QED BY <1>2, <1>9, <1>10, <4>3, <5>1
      <4>4. CASE l = k /\ m = k
        BY <1>7, <4>4
      <4> QED BY <4>1, <4>2, <4>3, <4>4
    <3> QED BY <2>2, <3>1, <3>2
  <2> QED BY <2>1, <2>2
<1> QED
  BY <1>11 DEF AttemptsInTurn

LEMMA InTurnInv ==
  Disciplined /\ Runbook => (Spec => []SInv /\ []AttemptsInTurn)
<1> SUFFICES ASSUME Disciplined, Runbook PROVE Spec => []SInv /\ []AttemptsInTurn
  OBVIOUS
<1>1. SInv /\ AttemptsInTurn /\ [Next]_vars => (SInv /\ AttemptsInTurn)'
  <2> SUFFICES ASSUME SInv, AttemptsInTurn, [Next]_vars PROVE (SInv /\ AttemptsInTurn)'
    OBVIOUS
  <2>1. SInv'
    BY StepSInv
  <2>2. ASSUME NEW b \in Batches, NEW k \in Keys, NEW W \in SUBSET Wallets,
               NEW sig \in SignatureChoices, SaveSigned(b, k, W, sig)
        PROVE  AttemptsInTurn'
    <3>1. Advances
      BY <2>2, SaveSignedAdvances DEF SInv
    <3>2. RowsStay
      BY <2>2 DEF SaveSigned, RowsStay, SInv, TInv, IInv, TypeOK
    <3> QED BY <2>1, <2>2, <3>1, <3>2, TurnSaveSigned
  <2>3. AttemptsInTurn'
    BY <2>1, <2>2, RowsOfStep, TurnSurvives
  <2> QED BY <2>1, <2>3
<1> QED
  BY InitSInv, InitTurn, <1>1, PTL DEF Spec

Movers(a) == {p \in Batches \X Keys : CarriesAccrual(p[1], p[2], a) /\ Moved(p[1], p[2])}
Closers(a) == {b \in Batches : a \in covers[b] /\ ledger[b] > 0}

\* A batch that is closed, or that has a transaction which moved or still may
\* move, holds all its accruals.
LEMMA AliveIsHeld ==
  ASSUME SInv, ~ AllowOverride, NEW b \in Batches, covers[b] # {}, ~ AllDead(b)
  PROVE  alloc[b] = covers[b]
  BY DEF SInv, SafeStore, Released

\* No two transactions that carry an accrual are alive: across batches because a
\* live one keeps the batch's allocations, within a batch because of the runbook.
LEMMA OneMover ==
  ASSUME SInv, AttemptsInTurn, ~ AllowOverride, NEW a \in Accruals,
         NEW b \in Batches, NEW k \in Keys, CarriesAccrual(b, k, a), ~ Dead(b, k),
         NEW d \in Batches, NEW l \in Keys, CarriesAccrual(d, l, a), ~ Dead(d, l)
  PROVE  b = d /\ k = l
<1>1. tx[b][k].status # "none" /\ tx[d][l].status # "none"
  BY DEF SInv, SafeStore, CarriesAccrual
<1>2. a \in alloc[b] /\ a \in alloc[d]
  BY <1>1, AliveIsHeld DEF AllDead, CarriesAccrual
<1>3. b = d
  BY <1>2 DEF SInv, TInv, IInv, AllocationExclusive
<1>4. k \in Existing(tx[b]) /\ l \in Existing(tx[b])
  BY <1>1, <1>3, RowsAreExisting DEF Rows, SInv, TInv, IInv
<1>5. k[1] = l[1]
  BY <1>3, <1>4 DEF AttemptsInTurn, CarriesAccrual
<1>6. ~ (k[2] < l[2]) /\ ~ (l[2] < k[2])
  BY <1>3, <1>4, <1>5 DEF AttemptsInTurn
<1>7. k = <<k[1], k[2]>> /\ l = <<l[1], l[2]>> /\ k[2] \in Nat /\ l[2] \in Nat
  <2>1. PICK s \in Sequences, n \in Attempts : k = <<s, n>>
    BY DEF Keys
  <2>2. PICK r \in Sequences, m \in Attempts : l = <<r, m>>
    BY DEF Keys
  <2> QED BY <2>1, <2>2, NumberingAssumption
<1>8. k[2] = l[2]
  BY <1>6, <1>7
<1> QED
  BY <1>3, <1>5, <1>7, <1>8

LEMMA MoversAreOne ==
  ASSUME SInv, AttemptsInTurn, ~ AllowOverride, NEW a \in Accruals,
         NEW b \in Batches, NEW k \in Keys, CarriesAccrual(b, k, a), ~ Dead(b, k)
  PROVE  Movers(a) = IF Moved(b, k) THEN {<<b, k>>} ELSE {}
<1>1. ASSUME NEW p \in Movers(a) PROVE p = <<b, k>>
  <2>1. PICK d \in Batches, l \in Keys :
          p = <<d, l>> /\ CarriesAccrual(d, l, a) /\ Moved(d, l)
    BY DEF Movers
  <2>2. ~ Dead(d, l)
    BY <2>1 DEF Dead, Moved
  <2> QED BY <2>1, <2>2, OneMover
<1>2. Moved(b, k) => <<b, k>> \in Movers(a)
  BY DEF Movers
<1>3. <<b, k>> \in Movers(a) => Moved(b, k)
  BY DEF Movers
<1> QED
  BY <1>1, <1>2, <1>3

\* A batch that is being closed, or is closed, is the only one to clear its
\* accruals.
LEMMA OneCloser ==
  ASSUME SInv, ~ AllowOverride, NEW a \in Accruals,
         NEW b \in Batches, a \in covers[b], Cleared(b),
         NEW d \in Batches, a \in covers[d], ledger[d] > 0
  PROVE  b = d
<1>1. Cleared(d)
  <2>1. ledger[d] \in Nat /\ ledger[d] <= 1
    BY DEF SInv, TInv, IInv, TypeOK, ClosedAreCleared
  <2>2. ledger[d] = 1
    BY <2>1
  <2> QED BY <2>2 DEF SInv, ClosedAreCleared
<1>2. alloc[b] = covers[b]
  BY AliveIsHeld, ClearedIsAlive
<1>3. alloc[d] = covers[d]
  BY <1>1, AliveIsHeld, ClearedIsAlive
<1> QED
  BY <1>2, <1>3 DEF SInv, TInv, IInv, AllocationExclusive

TransfersOf == [a \in Accruals |-> Cardinality(Movers(a))]
ClearingsOf == [a \in Accruals |-> Cardinality(Closers(a))]

LEMMA SameMoversAndClosers ==
  ASSUME \A a \in Accruals : Movers(a)' = Movers(a),
         \A a \in Accruals : Closers(a)' = Closers(a)
  PROVE  UNCHANGED <<TransfersOf, ClearingsOf>>
  BY DEF TransfersOf, ClearingsOf

\* The transaction that lands transfers what it carries, and none of it has been
\* transferred before.
LEMMA LandTransfers ==
  ASSUME SInv, AttemptsInTurn, ~ AllowOverride, NEW b \in Batches, NEW k \in Keys, Land(b, k)
  PROVE  LET S == {a \in Accruals : CarriesAccrual(b, k, a)}
         IN  /\ \A a \in S : TransfersOf[a] = 0
             /\ TransfersOf' = [a \in Accruals |-> IF a \in S THEN 1 ELSE TransfersOf[a]]
             /\ ClearingsOf' = ClearingsOf
<1>1. /\ chain[b][k] \in {"inflight", "failing"} /\ UNCHANGED store
      /\ \A d \in Batches, l \in Keys :
           chain'[d][l] = IF d = b /\ l = k THEN "confirmed" ELSE chain[d][l]
  BY DEF Land, ChainStep, SInv, TInv, IInv, TypeOK
<1>2. \A d \in Batches, l \in Keys :
        Moved(d, l)' <=> Moved(d, l) \/ (d = b /\ l = k)
  BY <1>1 DEF Moved
<1>3. \A d, l, a : CarriesAccrual(d, l, a)' <=> CarriesAccrual(d, l, a)
  BY <1>1 DEF CarriesAccrual, store
<1>4. ASSUME NEW a \in Accruals, CarriesAccrual(b, k, a)
      PROVE  Movers(a) = {} /\ Movers(a)' = {<<b, k>>}
  <2>1. Movers(a) = {}
    BY <1>1, <1>4, MoversAreOne DEF Moved, Dead
  <2>2. \A p \in Batches \X Keys :
          CarriesAccrual(p[1], p[2], a)' /\ Moved(p[1], p[2])' <=> p = <<b, k>>
    <3> TAKE p \in Batches \X Keys
    <3>1. PICK d \in Batches, l \in Keys : p = <<d, l>>
      OBVIOUS
    <3>2. ~ (CarriesAccrual(p[1], p[2], a) /\ Moved(p[1], p[2]))
      BY <2>1 DEF Movers
    <3>3. ~ (CarriesAccrual(d, l, a) /\ Moved(d, l))
      BY <3>1, <3>2
    <3> QED BY <1>2, <1>3, <1>4, <3>1, <3>3
  <2> QED BY <2>1, <2>2 DEF Movers
<1>5. ASSUME NEW a \in Accruals, ~ CarriesAccrual(b, k, a) PROVE Movers(a)' = Movers(a)
  <2>1. \A p \in Batches \X Keys :
          /\ CarriesAccrual(p[1], p[2], a)' <=> CarriesAccrual(p[1], p[2], a)
          /\ CarriesAccrual(p[1], p[2], a) => (Moved(p[1], p[2])' <=> Moved(p[1], p[2]))
    BY <1>2, <1>3, <1>5
  <2> QED BY <2>1 DEF Movers
<1>6. \A a \in Accruals : Closers(a)' = Closers(a)
  BY <1>1 DEF Closers, store
<1>7. /\ \A a \in Accruals : CarriesAccrual(b, k, a) =>
           Cardinality(Movers(a)) = 0 /\ Cardinality(Movers(a)') = 1
  BY <1>4, FS_EmptySet, FS_Singleton
<1>8. ClearingsOf' = ClearingsOf
  BY <1>6 DEF ClearingsOf
<1> QED
  BY <1>5, <1>7, <1>8 DEF TransfersOf

\* A closure clears all accruals of a batch, whose transfers it found final, and
\* none of them has been cleared before.
LEMMA CloseClears ==
  ASSUME SInv, AttemptsInTurn, ~ AllowOverride, NEW c \in Clients, CloseCommit(c),
         ledger[op[c].batch] = 0
  PROVE  LET S == covers[op[c].batch]
         IN  /\ \A a \in S : TransfersOf[a] = 1 /\ ClearingsOf[a] = 0
             /\ ClearingsOf' = [a \in Accruals |-> IF a \in S THEN 1 ELSE ClearingsOf[a]]
             /\ TransfersOf' = TransfersOf
<1> DEFINE b == op[c].batch
<1>1. /\ b \in Batches /\ covers[b] # {} /\ Cleared(b) /\ covers[b] \subseteq Accruals
      /\ op[c] \in CloseOps
  BY KindTellsType
  DEF CloseCommit, SInv, TInv, IInv, TypeOK, Operations, CloseOps, SafeOp
<1>2. /\ UNCHANGED <<covers, tx, chain>>
      /\ ledger' = [ledger EXCEPT ![b] = ledger[b] + 1]
      /\ ledger[b] = 0
  BY DEF CloseCommit
<1> HIDE DEF b
<1>3. \A d \in Batches : ledger'[d] = IF d = b THEN 1 ELSE ledger[d]
  BY <1>1, <1>2 DEF SInv, TInv, IInv, TypeOK
<1>4. \A a \in Accruals : Movers(a)' = Movers(a)
  BY <1>2 DEF Movers, CarriesAccrual, Moved
<1>5. ASSUME NEW a \in covers[b]
      PROVE  /\ \E p \in Batches \X Keys : Movers(a) = {p}
             /\ Closers(a) = {} /\ Closers(a)' = {b}
  <2>1. PICK k \in Keys : PayoutWallet[a] \in tx[b][k].items /\ chain[b][k] = "finalized"
    BY <1>1, <1>5 DEF Cleared, Settled
  <2>2. CarriesAccrual(b, k, a) /\ ~ Dead(b, k) /\ Moved(b, k) /\ a \in Accruals
    BY <1>1, <1>5, <2>1 DEF CarriesAccrual, Dead, Moved
  <2>3. Movers(a) = {<<b, k>>}
    BY <1>1, <2>2, MoversAreOne
  <2>4. \A d \in Batches : ~ (a \in covers[d] /\ ledger[d] > 0)
    BY <1>1, <1>2, <1>5, <2>2, OneCloser
  <2>5. Closers(a) = {}
    BY <2>4 DEF Closers
  <2>6. Closers(a)' = {b}
    BY <1>1, <1>2, <1>3, <1>5, <2>4 DEF Closers
  <2> QED BY <1>1, <2>3, <2>5, <2>6
<1>6. ASSUME NEW a \in Accruals, a \notin covers[b] PROVE Closers(a)' = Closers(a)
  BY <1>2, <1>3, <1>6 DEF Closers
<1>7. \A a \in covers[b] : /\ Cardinality(Movers(a)) = 1
                           /\ Cardinality(Closers(a)) = 0 /\ Cardinality(Closers(a)') = 1
  BY <1>5, FS_EmptySet, FS_Singleton
<1>8. TransfersOf' = TransfersOf
  BY <1>4 DEF TransfersOf
<1>9. covers[b] \subseteq Accruals /\ b = op[c].batch
  BY <1>1 DEF b
<1> QED
  BY <1>6, <1>7, <1>8, <1>9 DEF TransfersOf, ClearingsOf

\* No other step transfers or clears anything: a new batch has no transactions,
\* a new transaction has not moved, and what a marked one carries stays.
LEMMA OthersStutter ==
  ASSUME SInv, [Next]_vars, UNCHANGED ledger,
         \A b \in Batches, k \in Keys : Moved(b, k)' = Moved(b, k)
  PROVE  UNCHANGED <<TransfersOf, ClearingsOf>>
<1>1. ASSUME NEW a \in Accruals PROVE Movers(a)' = Movers(a) /\ Closers(a)' = Closers(a)
  <2>1. ASSUME NEW b \in Batches
        PROVE  \/ covers[b] = {} /\ ledger[b] = 0 /\ \A k \in Keys : ~ Moved(b, k)
               \/ covers'[b] = covers[b] /\ \A k \in Keys :
                    Moved(b, k) => tx'[b][k].items = tx[b][k].items
    <3>1. CASE batch[b] = "none"
      BY <3>1 DEF SInv, TInv, Ordered, SafeStore, Moved
    <3>2. CASE batch[b] # "none"
      <4>1. Advances
        BY RowsOfStep, SaveSignedAdvances DEF SInv
      <4>2. \A k \in Keys : Moved(b, k) => tx[b][k].status # "none"
        BY DEF SInv, TInv, Ordered, Moved
      <4> QED BY <3>2, <4>1, <4>2 DEF Advances
    <3> QED BY <3>1, <3>2
  <2>2. ASSUME NEW b \in Batches, NEW k \in Keys
        PROVE  CarriesAccrual(b, k, a)' /\ Moved(b, k)' <=> CarriesAccrual(b, k, a) /\ Moved(b, k)
    BY <2>1 DEF CarriesAccrual
  <2>3. Movers(a)' = Movers(a)
    <3>1. \A p \in Batches \X Keys :
            CarriesAccrual(p[1], p[2], a)' /\ Moved(p[1], p[2])'
              <=> CarriesAccrual(p[1], p[2], a) /\ Moved(p[1], p[2])
      BY <2>2
    <3> QED BY <3>1 DEF Movers
  <2>4. Closers(a)' = Closers(a)
    <3>1. \A b \in Batches : a \in covers'[b] /\ ledger[b] > 0 <=> a \in covers[b] /\ ledger[b] > 0
      BY <2>1
    <3> QED BY <3>1 DEF Closers
  <2> QED BY <2>3, <2>4
<1> QED
  BY <1>1, SameMoversAndClosers

\* ObligationKept: run with the runbook, without overrides, the engine
\* implements the obligations: every accrual is transferred at most once, and
\* cleared at most once, after its transfer, whatever its clients' steps and
\* crashes.
THEOREM ObligationsAreKept ==
  Disciplined /\ Runbook /\ ~ AllowOverride => (Spec => ObligationKept)
<1> SUFFICES ASSUME Disciplined, Runbook, ~ AllowOverride PROVE Spec => ObligationKept
  OBVIOUS
<1>1. Init => TransfersOf = [a \in Accruals |-> 0] /\ ClearingsOf = [a \in Accruals |-> 0]
  <2> SUFFICES ASSUME Init, NEW a \in Accruals PROVE Movers(a) = {} /\ Closers(a) = {}
    BY FS_EmptySet DEF TransfersOf, ClearingsOf
  <2> QED BY DEF Init, Movers, Closers, CarriesAccrual
<1>2. Init => Obligation!Init
  BY <1>1
  DEF Obligation!Init, TransfersOf, ClearingsOf, Movers, Closers
<1>3. SInv /\ AttemptsInTurn /\ [Next]_vars =>
        \/ UNCHANGED <<TransfersOf, ClearingsOf>>
        \/ \E S \in SUBSET Accruals :
             \/ /\ \A a \in S : TransfersOf[a] = 0
                /\ TransfersOf' = [a \in Accruals |-> IF a \in S THEN 1 ELSE TransfersOf[a]]
                /\ ClearingsOf' = ClearingsOf
             \/ /\ \A a \in S : TransfersOf[a] = 1 /\ ClearingsOf[a] = 0
                /\ ClearingsOf' = [a \in Accruals |-> IF a \in S THEN 1 ELSE ClearingsOf[a]]
                /\ TransfersOf' = TransfersOf
  <2> SUFFICES ASSUME SInv, AttemptsInTurn, [Next]_vars,
                      ~ UNCHANGED <<TransfersOf, ClearingsOf>>
               PROVE  \E S \in SUBSET Accruals :
                        \/ /\ \A a \in S : TransfersOf[a] = 0
                           /\ TransfersOf' =
                                [a \in Accruals |-> IF a \in S THEN 1 ELSE TransfersOf[a]]
                           /\ ClearingsOf' = ClearingsOf
                        \/ /\ \A a \in S : TransfersOf[a] = 1 /\ ClearingsOf[a] = 0
                           /\ ClearingsOf' =
                                [a \in Accruals |-> IF a \in S THEN 1 ELSE ClearingsOf[a]]
                           /\ TransfersOf' = TransfersOf
    OBVIOUS
  <2>1. CASE \E b \in Batches, k \in Keys : Land(b, k)
    <3>1. PICK b \in Batches, k \in Keys : Land(b, k)
      BY <2>1
    <3>2. {a \in Accruals : CarriesAccrual(b, k, a)} \in SUBSET Accruals
      OBVIOUS
    <3> QED BY <3>1, <3>2, LandTransfers
  <2>2. CASE \E c \in Clients : CloseCommit(c) /\ ledger[op[c].batch] = 0
    <3>1. PICK c \in Clients : CloseCommit(c) /\ ledger[op[c].batch] = 0
      BY <2>2
    <3>2. covers[op[c].batch] \in SUBSET Accruals
      BY <3>1, KindTellsType
      DEF CloseCommit, SInv, TInv, IInv, TypeOK, Operations, CloseOps
    <3> QED BY <3>1, <3>2, CloseClears
  <2>3. CASE /\ ~ \E b \in Batches, k \in Keys : Land(b, k)
             /\ ~ \E c \in Clients : CloseCommit(c) /\ ledger[op[c].batch] = 0
    <3>1. \/ Quiet
          \/ \E b \in Batches : CreateBatch(b)
          \/ \E b \in Batches, k \in Keys, W \in SUBSET Wallets, sig \in SignatureChoices :
               SaveSigned(b, k, W, sig)
          \/ \E c \in Clients :
               \/ MarkCommit(c) \/ ReleaseApply(c)
               \/ CloseCommit(c) /\ ledger[op[c].batch] # 0
      BY <2>3, StepKinds
    <3>2. UNCHANGED ledger /\ \A b \in Batches, k \in Keys : Moved(b, k)' = Moved(b, k)
      BY <3>1
      DEF Quiet, ChainAdvances, store, CreateBatch, SaveSigned, MarkCommit, ReleaseApply,
          CloseCommit, Moved
    <3> QED BY <3>2, OthersStutter
  <2> QED BY <2>1, <2>2, <2>3
<1>4. SInv /\ AttemptsInTurn /\ [Next]_vars =>
        Obligation!Next \/ UNCHANGED <<TransfersOf, ClearingsOf>>
  BY <1>3
  DEF Obligation!Next, Obligation!Transfer, Obligation!Clear,
      TransfersOf, ClearingsOf, Movers, Closers
<1> QED
  BY <1>2, <1>4, InTurnInv, PTL
  DEF Spec, ObligationKept, Obligation!Spec, TransfersOf, ClearingsOf, Movers, Closers
=============================================================================
