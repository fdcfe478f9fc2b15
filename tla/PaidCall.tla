------------------------------ MODULE PaidCall ------------------------------
(***************************************************************************)
(* One Split402Router.execute: it tries ranked providers one after the     *)
(* other; each try inspects an offer (Split402AgentSdkExecutor), pays for  *)
(* a second one (Split402AgentClient), has the merchant verify, settle and *)
(* issue a receipt (x402-extension), and verifies and records the receipt. *)
(* Merchants change their price, refresh the campaign they have cached and *)
(* rotate their service key meanwhile, and submit the receipts themselves  *)
(* (MerchantOutbox).  A payment is named by its provider: one try each.    *)
(***************************************************************************)
EXTENDS MerchantOutbox

CONSTANTS Tries,     \* maxAttempts: the providers 1 .. Tries were ranked
          Budget, Quoted,     \* amounts; Quoted[p] is the price p was found with
          Prices, MaxVersion, MaxKey,
          Changes,   \* what each merchant may change during the execution
          VerifyReceipts,     \* the router's option of that name
          RecorderChoices,    \* may the router have a receiptRecorder, or none
          Sinks      \* merchants whose extension has a receiptSink, an outbox

Ranking == 1 .. Tries

ASSUME PaidCallAssumption ==
  /\ Tries \in Nat \ {0}
  /\ Payments = Ranking
  /\ Prices \subseteq Nat
  /\ Quoted \in [Ranking -> Prices]
  /\ Budget \in Nat /\ \A p \in Ranking : Quoted[p] <= Budget
  /\ {MaxVersion, MaxKey} \subseteq Nat \ {0}
  /\ Changes \in [Ranking -> SUBSET {"price", "campaign", "key"}]
  /\ VerifyReceipts \in BOOLEAN /\ RecorderChoices \subseteq BOOLEAN
  /\ Sinks \subseteq Ranking

VARIABLES
  merchant,  \* price, cached campaign version and key of the provider at hand
  paid,      \* the amount settled with each provider, or 0
  held,      \* providers whose receipt the router has verified
  call       \* the execution: its step and the provider it is at

routerVars == <<merchant, paid, held, call>>
vars == <<outboxVars, routerVars>>

\* Advertised at discovery and not looked up again during an execution.
PinnedKey == 1

Versions == 1 .. MaxVersion
Keys     == 1 .. MaxKey
Offers   == [amount : Prices, version : Versions, key : Keys]
Receipts == [version : Versions, terms : Versions, amount : Prices, key : Keys,
             credited : BOOLEAN]

\* A provider as it was when it was discovered.
AsFound(p) == [price |-> Quoted[p], campaign |-> 1, key |-> PinnedKey]

TypeOK ==
  /\ OutboxTypeOK
  /\ receipt \in [Payments -> Receipts \cup {NoReceipt}]
  /\ merchant \in [price : Prices, campaign : Versions, key : Keys]
  /\ paid \in [Ranking -> Prices \cup {0}]
  /\ held \subseteq Ranking
  /\ call \in [pc : {"inspect", "pay"}, at : Ranking]
        \cup [pc : {"verify"}, at : Ranking, offer : Offers]
        \cup [pc : {"settle"}, at : Ranking, offer : Offers, claim : {"valid", "none"}]
        \cup [pc : {"record"}, at : Ranking, early : BOOLEAN]
        \cup [pc : {"output", "success"}, at : Ranking, recorded : BOOLEAN]
        \cup [pc : {"receive", "receipt", "failed"}, at : Ranking]

Init ==
  /\ OutboxInit
  /\ merchant = AsFound(1)
  /\ paid = [p \in Ranking |-> 0]
  /\ held = {}
  /\ call = [pc |-> "inspect", at |-> 1]

-----------------------------------------------------------------------------
(* The merchants                                                           *)

\* Only what the merchant at hand does before it settles is read, and one
\* change of each merchant is enough to be caught between two steps.
MerchantChanges ==
  /\ call.pc \in {"inspect", "pay", "verify", "settle"}
  /\ merchant = AsFound(call.at)
  /\ \/ /\ "price" \in Changes[call.at]
        /\ \E a \in Prices : merchant' = [merchant EXCEPT !.price = a]
     \/ /\ "campaign" \in Changes[call.at] /\ merchant.campaign < MaxVersion
        /\ merchant' = [merchant EXCEPT !.campaign = @ + 1]
     \/ /\ "key" \in Changes[call.at] /\ merchant.key < MaxKey
        /\ merchant' = [merchant EXCEPT !.key = @ + 1]
  /\ UNCHANGED <<outboxVars, paid, held, call>>

\* enrichPaymentRequiredResponse
Offer == [amount |-> merchant.price, version |-> merchant.campaign, key |-> merchant.key]

-----------------------------------------------------------------------------
(* The router                                                              *)

Goto(c) == call' = c /\ UNCHANGED merchant
Fatal   == Goto([pc |-> "failed", at |-> call.at])

\* A retryable error moves on to the next provider, another one (Fatal) ends it.
Retryable ==
  IF call.at + 1 \in Ranking
  THEN /\ call' = [pc |-> "inspect", at |-> call.at + 1]
       /\ merchant' = AsFound(call.at + 1)
  ELSE Fatal

\* inspectOffer: the offer is checked against the provider as it was found.
InspectOffer ==
  /\ call.pc = "inspect"
  /\ LET p == call.at
         o == Offer
     IN  \/ /\ o.key = PinnedKey /\ o.amount = Quoted[p]
            /\ Goto([pc |-> "pay", at |-> p])
         \/ /\ o.key # PinnedKey \/ o.amount # Quoted[p]
            /\ Retryable
         \/ Retryable                      \* no answer
  /\ UNCHANGED <<outboxVars, paid, held>>

\* requestJson asks again without payment and signs a payment of what it is
\* offered now.
RequestJson ==
  /\ call.pc = "pay"
  /\ \/ Goto([pc |-> "verify", at |-> call.at, offer |-> Offer])
     \/ Retryable
  /\ UNCHANGED <<outboxVars, paid, held>>

\* onBeforeVerify: an offer signed by any key of the ring, for what is
\* required now; an invalid claim is let through unless it is required.
\* A refusal is answered with 402, which is not retried.
BeforeVerify ==
  /\ call.pc = "verify"
  /\ \/ /\ call.offer.amount = merchant.price
        /\ \E claim \in {"valid", "none"} :
             Goto([pc |-> "settle", at |-> call.at, offer |-> call.offer, claim |-> claim])
     \/ Fatal
  /\ UNCHANGED <<outboxVars, paid, held>>

\* buildReceipt: the version is the offer's, the terms hash that of the
\* campaign that is cached by now, the key the current one.
ReceiptFor(offer, claim) ==
  [version |-> offer.version, terms |-> merchant.campaign, amount |-> offer.amount,
   key |-> merchant.key, credited |-> claim = "valid"]

\* The facilitator settles, or the request fails; enrichSettlementResponse
\* issues the receipt and hands it to its sink, if there is one, before the
\* answer is sent.
Settle ==
  /\ call.pc = "settle"
  /\ \/ LET p == call.at
        IN  /\ paid' = [paid EXCEPT ![p] = call.offer.amount]
            /\ receipt' = [receipt EXCEPT ![p] = ReceiptFor(call.offer, call.claim)]
            /\ IF p \in Sinks THEN Enqueue(p) ELSE UNCHANGED outbox
            /\ Goto([pc |-> "receive", at |-> p])
     \/ Fatal /\ UNCHANGED <<paid, receipt, outbox>>
  /\ UNCHANGED <<held, ingested, tries, dispatch>>

\* The answer is lost, or arrives without its receipt: the router goes on.
Receive ==
  /\ call.pc = "receive"
  /\ \/ Goto([call EXCEPT !.pc = "receipt"])
     \/ Retryable
  /\ UNCHANGED <<outboxVars, paid, held>>

\* Slip: the receipt is not compared with the provider.
ReceiptGoodUnmatched(p) == VerifyReceipts => receipt[p].key = PinnedKey

\* verifyProviderReceipt, for a provider found with a route and a key: the
\* signature is verified only by a router that is to verify receipts.
ReceiptGood(p) ==
  /\ VerifyReceipts => receipt[p].key = PinnedKey
  /\ receipt[p].amount = Quoted[p]
  /\ receipt[p].credited

VerifyProviderReceipt ==
  /\ call.pc = "receipt"
  /\ IF ReceiptGood(call.at)
     THEN /\ Goto([pc |-> "record", at |-> call.at, early |-> call.at \notin ingested])
          /\ held' = held \cup {call.at}
     ELSE Retryable /\ UNCHANGED held
  /\ UNCHANGED <<outboxVars, paid>>

\* The result says whether a recorder has recorded the receipt.
Returns(recorded) == Goto([pc |-> "output", at |-> call.at, recorded |-> recorded])

\* Slip: a receipt that could not be recorded is paid for with the next provider.
RecordProviderReceiptRetry ==
  /\ call.pc = "record"
  /\ \/ FALSE \in RecorderChoices /\ UNCHANGED ingested /\ Returns(FALSE)
     \/ TRUE \in RecorderChoices /\ Submission(call.at, call.early, "accepted") /\ Returns(TRUE)
     \/ \E answer \in {"retry", "rejected"} :
          TRUE \in RecorderChoices /\ Submission(call.at, call.early, answer) /\ Retryable
  /\ UNCHANGED <<receipt, outbox, tries, dispatch, paid, held>>

\* recordProviderReceipt: a router without a recorder goes on.  With one, a
\* conflict on the receipt's own identifier counts as a duplicate, and every
\* other failure ends the execution.
RecordProviderReceipt ==
  /\ call.pc = "record"
  /\ \/ FALSE \in RecorderChoices /\ UNCHANGED ingested /\ Returns(FALSE)
     \/ TRUE \in RecorderChoices /\ Submission(call.at, call.early, "accepted") /\ Returns(TRUE)
     \/ \E answer \in {"retry", "rejected"} :
          TRUE \in RecorderChoices /\ Submission(call.at, call.early, answer) /\ Fatal
  /\ UNCHANGED <<receipt, outbox, tries, dispatch, paid, held>>

\* validateOutputAgainstProviderSchema
CheckOutput ==
  /\ call.pc = "output"
  /\ \/ Goto([call EXCEPT !.pc = "success"])
     \/ Fatal
  /\ UNCHANGED <<outboxVars, paid, held>>

\* The caller dies; merchants go on.
Die ==
  /\ call.pc \notin {"success", "failed"}
  /\ Fatal
  /\ UNCHANGED <<outboxVars, paid, held>>

RouterStep ==
  \/ InspectOffer \/ RequestJson \/ BeforeVerify \/ Settle \/ Receive
  \/ VerifyProviderReceipt \/ RecordProviderReceipt \/ CheckOutput

-----------------------------------------------------------------------------

Next ==
  \/ RouterStep
  \/ Die
  \/ MerchantChanges
  \/ \E d \in Dispatchers : DispatcherStep(d) /\ UNCHANGED routerVars

Spec == Init /\ [][Next]_vars

\* Dispatchers are polled for as long as the merchant runs, and the oldest
\* due record comes first, so that each record's turn comes.
FairSpec ==
  /\ Spec
  /\ \A p \in Payments :
       SF_vars(\E d \in Dispatchers : ClaimNextPending(d, p) /\ UNCHANGED routerVars)
  /\ \A d \in Dispatchers :
       WF_vars(/\ UNCHANGED routerVars
               /\ \/ \E answer \in Answers : SubmitReceipt(d, answer)
                  \/ MarkRecord(d))

-----------------------------------------------------------------------------
(* Properties                                                              *)

Paid(p) == paid[p] > 0

\* A successful execution has paid the quoted price, and its receipt says so
\* and is signed with the advertised key if receipts are verified, whatever the
\* merchant changed.  The receipt is on record if the result says so, whoever
\* submitted it first; without a recorder, a merchant that keeps an outbox
\* still has it there.  With neither, nothing is said of where it is.
SuccessIsRecorded ==
  call.pc = "success" =>
    /\ receipt[call.at].amount = Quoted[call.at] /\ paid[call.at] = Quoted[call.at]
    /\ VerifyReceipts => receipt[call.at].key = PinnedKey
    /\ call.recorded => call.at \in ingested
    /\ call.at \in Sinks => outbox[call.at] # Absent

\* A good receipt ends the execution: no further provider is paid once the
\* router holds one, also when recording it or its result fails.
HeldReceiptEndsIt == \A p \in held, q \in Ranking : Paid(q) => q <= p

=============================================================================
