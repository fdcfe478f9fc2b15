-------------------------- MODULE PayoutTransfers --------------------------
(***************************************************************************)
(* What the transactions of one payout batch carry: the plan made of its   *)
(* items, the bytes somebody serialised, what a signer agrees to sign, the *)
(* item mappings saved with the bytes, the transfers that land, and the    *)
(* comparison of those transfers with the items before the ledger is       *)
(* closed.  PayoutEngine has the life of a transaction and nothing inside  *)
(* it; here there is one plan, of which each transaction is signed, saved  *)
(* and landed once.                                                        *)
(*                                                                         *)
(* A batch has one item per payout wallet, named by a number in the order  *)
(* of the identifiers.  Nothing in the code records a token account with   *)
(* an item, so a transfer goes to the associated account of a wallet.      *)
(* State and specification are named apart from those of CommissionLedger, *)
(* beside which this module stands in the proofs.                          *)
(***************************************************************************)
EXTENDS Naturals, SequencesExt

CONSTANTS Items, Amounts, Stranger,
          Sizes,                 \* maxItemsPerTransaction, as an operator may choose it
          MaxTransactionAmount   \* of the signer's policy

ASSUME TransfersAssumption ==
  /\ Items \subseteq Nat /\ IsFiniteSet(Items) /\ Amounts \subseteq Nat \ {0}
  /\ Stranger \notin Items /\ Sizes \subseteq Nat \ {0}
  /\ MaxTransactionAmount \in Nat

VARIABLES
  itemAmount,    \* payout_items: what is due to the wallet of each item
  plan,          \* the transactions planned: each a sequence of items
  planned,       \* where the plan was made from: the "store" or the "answer" to its creation
  bytes,         \* the transfers each transaction really carries
  signed,        \* who signed them: "no", "local", "remote", "elsewhere"
  saved,         \* payout_transaction_items: the items of each transaction saved so far
  landed,        \* the transactions that have landed
  closedWith     \* those the ledger was closed with, {} until it is closed

transfersVars == <<itemAmount, plan, planned, bytes, signed, saved, landed, closedWith>>

\* A transfer out of the funding account.  The verification sees transferChecked
\* instructions of the mint, the source and the authority of the policy, and
\* passes over whatever else moves tokens: seen tells the two apart.
Transfers == [to : Items \cup {Stranger}, amount : Amounts, seen : BOOLEAN]

TransfersTypeOK ==
  /\ itemAmount \in [Items -> Amounts]
  /\ plan \in Seq(Seq(Items)) /\ planned \in {"no", "store", "answer"}
  /\ bytes \in Seq(Seq(Transfers))
  /\ signed \in {"no", "local", "remote", "elsewhere"}
  /\ saved \in [DOMAIN saved -> SUBSET Items] /\ DOMAIN saved \subseteq DOMAIN plan
  /\ landed \subseteq DOMAIN saved
  /\ closedWith \subseteq DOMAIN saved

TransfersInit ==
  /\ itemAmount \in [Items -> Amounts]
  /\ plan = <<>> /\ planned = "no" /\ bytes = <<>> /\ signed = "no"
  /\ saved = <<>> /\ landed = {} /\ closedWith = {}

-----------------------------------------------------------------------------
(* Planning                                                                *)

\* chunkItems
Chunks(s, size) ==
  LET count == (Len(s) + size - 1) \div size
      end(k) == IF k * size < Len(s) THEN k * size ELSE Len(s)
  IN  [k \in 1 .. count |-> SubSeq(s, (k - 1) * size + 1, end(k))]

\* loadPayoutBatch orders items by identifier, for they are created at once.
Stored == CHOOSE s \in SetToSeqs(Items) : \A m, n \in DOMAIN s : m < n => s[m] < s[n]

\* createSolanaPayoutTransactionPlan, by an operator, of the batch as it is
\* stored or as it was answered when it was created, in the order of selection.
CreateTransactionPlan(order, size) ==
  /\ plan = <<>>
  /\ plan' = Chunks(order, size)
  /\ planned' = IF order = Stored THEN "store" ELSE "answer"
  /\ UNCHANGED <<itemAmount, bytes, signed, saved, landed, closedWith>>

\* createSolanaPayoutInstructions; the creation of the account goes with it.
TransferOf(i) == [to |-> i, amount |-> itemAmount[i], seen |-> TRUE]
Instructions(items) == [n \in DOMAIN items |-> TransferOf(items[n])]

-----------------------------------------------------------------------------
(* Serialisation, by tools of the operator                                 *)

\* The transfers asked for, or one too few, one too many or one altered.
Serializations(s) ==
  {s} \cup {RemoveAt(s, n) : n \in DOMAIN s}
      \cup {Append(s, t) : t \in Transfers}
      \cup {ReplaceAt(s, n, t) : n \in DOMAIN s, t \in Transfers}
      \cup {Reverse(s)}

Serialize(k, b) ==
  /\ plan # <<>> /\ bytes = <<>>
  /\ bytes' = [n \in DOMAIN plan |-> IF n = k THEN b ELSE Instructions(plan[n])]
  /\ UNCHANGED <<itemAmount, plan, planned, signed, saved, landed, closedWith>>

-----------------------------------------------------------------------------
(* Signing                                                                 *)

\* verifySolanaPayoutTransactionBytesAgainstPlan: instruction by instruction.
MatchesPlan(b, items) ==
  /\ Len(b) = Len(items)
  /\ \A n \in DOMAIN b : b[n] = Instructions(items)[n]

\* sumPlannedTransactionAmount
PlannedAmount(items) == FoldLeft(LAMBDA sum, i : sum + itemAmount[i], 0, items)

\* assertPayoutSignerAmountLimits
WithinLimits(p) == \A k \in DOMAIN p : PlannedAmount(p[k]) <= MaxTransactionAmount

\* hashSolanaPayoutDestinationAmountList, one to one: of the index and the
\* items of every transaction.
ListHash(p) == {<<k, p[k]>> : k \in DOMAIN p}

\* The payout signer looks at one transaction at a time: it must have a single
\* transfer, and the hash that comes with it, which is that of the whole
\* plan, must be the hash of this transaction alone.
AcceptedByService(k) ==
  /\ Len(plan[k]) = 1
  /\ ListHash(plan) = {<<k, plan[k]>>}
  /\ MatchesPlan(bytes[k], plan[k])

\* SolanaPolicyEnforcedPayoutSigner.sign: all of them or none.
Sign(who) ==
  /\ bytes # <<>> /\ signed = "no"
  /\ WithinLimits(plan)
  /\ \A k \in DOMAIN plan : MatchesPlan(bytes[k], plan[k])
  /\ who = "remote" => \A k \in DOMAIN plan : AcceptedByService(k)
  /\ signed' = who
  /\ UNCHANGED <<itemAmount, plan, planned, bytes, saved, landed, closedWith>>

\* Whoever holds the key may sign without these checks.
SignElsewhere ==
  /\ bytes # <<>> /\ signed = "no"
  /\ signed' = "elsewhere"
  /\ UNCHANGED <<itemAmount, plan, planned, bytes, saved, landed, closedWith>>

-----------------------------------------------------------------------------
(* Saving, landing                                                         *)

\* attachPayoutTransactionItemMappings, for the transactions of one call; the
\* only one of a call is mapped to all items if it names none.
Mappable(m) ==
  /\ \A k \in DOMAIN m : m[k] # {}
  /\ \A k, l \in DOMAIN m : k # l => m[k] \cap m[l] = {}

\* The mappings of calls for some transactions that have not been saved yet.
Calls == UNION {[D -> SUBSET Items] : D \in SUBSET (DOMAIN plan \ DOMAIN saved) \ {{}}}

\* saveSignedPayoutTransactions: the bytes are not compared with the mapping,
\* nor the mapping with that of an earlier call.
SaveSigned(m) ==
  /\ signed # "no"
  /\ Mappable(m)
  /\ saved' = [k \in DOMAIN saved \cup DOMAIN m |-> IF k \in DOMAIN m THEN m[k] ELSE saved[k]]
  /\ UNCHANGED <<itemAmount, plan, planned, bytes, signed, landed, closedWith>>

Land(k) ==
  /\ k \in DOMAIN saved \ landed
  /\ landed' = landed \cup {k}
  /\ UNCHANGED <<itemAmount, plan, planned, bytes, signed, saved, closedWith>>

-----------------------------------------------------------------------------
(* Verification of the transfers                                           *)

Smallest(S) == CHOOSE i \in S : \A j \in S : i <= j

\* Slip: any of the items with the amount is taken, as an unordered listing
\* would have it.
CandidateLast(S) == CHOOSE i \in S : \A j \in S : i >= j

\* The items of a transaction are listed in the order of their identifiers,
\* and a transfer is matched with the first that has its amount.
Candidate(S) == Smallest(S)

\* Slip: whose account received it is not looked at.
RecipientIgnored(t, i) == TRUE

\* transferRecipientMatchesPayoutItem
RecipientMatches(t, i) == t.to = i

\* One transfer that is seen, after those matched before it.
MatchSeen(items, found, t) ==
  LET same == {i \in items \ found.matched : itemAmount[i] = t.amount}
  IN  IF same = {} THEN [found EXCEPT !.ok = FALSE]
      ELSE [matched |-> found.matched \cup {Candidate(same)},
            ok |-> found.ok /\ RecipientMatches(t, Candidate(same))]

\* readTransfer and the filter on mint, source and authority: one that is not
\* seen is neither matched nor reported.
MatchTransfer(items, found, t) == IF t.seen THEN MatchSeen(items, found, t) ELSE found

\* verifyFinalizedPayoutTransfersForTransaction: of the transfers that are seen,
\* there are neither extra nor missing ones.
TransfersMatch(transfers, items) ==
  LET found == FoldLeft(LAMBDA acc, t : MatchTransfer(items, acc, t),
                        [matched |-> {}, ok |-> TRUE], transfers)
  IN  found.ok /\ found.matched = items

\* verifyFinalizedPayout: a batch is finalized when the transactions that all
\* of its items are mapped to have landed.
Finalized == saved # <<>> /\ UNION {saved[k] : k \in landed} = Items
Verified  ==
  /\ Finalized
  /\ \A k \in DOMAIN saved : k \in landed /\ TransfersMatch(bytes[k], saved[k])

\* What is saved while the chain is asked about these is not looked at any more.
Close ==
  /\ Verified /\ closedWith = {}
  /\ closedWith' = DOMAIN saved
  /\ UNCHANGED <<itemAmount, plan, planned, bytes, signed, saved, landed>>

-----------------------------------------------------------------------------

TransfersNext ==
  \/ \E order \in SetToSeqs(Items), size \in Sizes :
       CreateTransactionPlan(order, size)
  \/ \E k \in DOMAIN plan : \E b \in Serializations(Instructions(plan[k])) : Serialize(k, b)
  \/ \E who \in {"local", "remote"} : Sign(who)
  \/ SignElsewhere
  \/ \E m \in Calls : SaveSigned(m)
  \/ \E k \in DOMAIN saved : Land(k)
  \/ Close

TransfersSpec == TransfersInit /\ [][TransfersNext]_transfersVars

-----------------------------------------------------------------------------
(* Properties                                                              *)

\* What wallet w receives by the transfers of b that are seen, or by all.
Given(b, w, kinds) ==
  FoldLeft(LAMBDA sum, t : IF t.to = w /\ t.seen \in kinds THEN sum + t.amount ELSE sum, 0, b)
SeenGiven(b, w) == Given(b, w, {TRUE})
Received(w)     == SumFunction([k \in landed |-> Given(bytes[k], w, BOOLEAN)])

\* The ledger is closed with transactions that all items are mapped to.  As far
\* as the verification sees, each of them gave the wallets of its items their
\* amounts and nobody else anything, whoever signed it and whatever it was mapped
\* to.  What the code's own signers have signed has paid each wallet its amount
\* exactly once, and nobody else, also if it was saved with other items than it
\* was planned for and in several calls.  For what was signed elsewhere, transfers
\* that are not seen, and items mapped in two calls, are not accounted for.
ClosedIsPaid ==
  closedWith # {} =>
    /\ UNION {saved[k] : k \in closedWith} = Items
    /\ \A k \in closedWith, w \in Items \cup {Stranger} :
         SeenGiven(bytes[k], w) = IF w \in saved[k] THEN itemAmount[w] ELSE 0
    /\ signed \in {"local", "remote"} =>
         /\ \A i \in Items : Received(i) = itemAmount[i]
         /\ Received(Stranger) = 0

\* What a signer of the code has signed, of a plan made from the store and
\* saved with the items it was planned for, can be closed once it has landed,
\* although items of equal amounts are told apart by their order alone.
SignedIsVerified ==
  /\ signed \in {"local", "remote"} /\ planned = "store"
  /\ DOMAIN saved = DOMAIN plan /\ \A k \in DOMAIN saved : saved[k] = ToSet(plan[k])
  /\ landed = DOMAIN saved /\ saved # <<>>
  => Verified
=============================================================================
