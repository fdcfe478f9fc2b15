--------------------------- MODULE PaidCall_proofs ---------------------------
(***************************************************************************)
(* A paid call for any number of providers, dispatchers and attempts,      *)
(* whatever prices, campaigns and keys change to: dispatchers overwrite    *)
(* each other's marks and answers are lost, and still what is reported as  *)
(* accepted or recorded is on record, nothing is given up early, and a     *)
(* receipt that was good ends the spending.                                *)
(***************************************************************************)
EXTENDS PaidCall, TLAPS

\* What a dispatcher and a record say is borne out by the submissions made.
MarksSound ==
  /\ \A p \in Payments :
       /\ outbox[p].attempts <= tries[p]
       /\ Claimable(p) => outbox[p].attempts < MaxAttempts
  /\ \A d \in Dispatchers :
       /\ dispatch[d].pc = "submit" => dispatch[d].attempts - 1 <= tries[dispatch[d].of]
       /\ dispatch[d].pc = "mark" =>
            /\ dispatch[d].attempts <= tries[dispatch[d].of]
            /\ dispatch[d].answer = "rejected" => tries[dispatch[d].of] = MaxAttempts
            /\ dispatch[d].answer = "accepted" => dispatch[d].of \in ingested

OutboxInv == OutboxTypeOK /\ MarksSound /\ AcceptedIsIngested /\ GivenUpForCause

\* Steps at which the router holds a good receipt of the provider it is at,
\* those at which it is past recording it, and those after its issue.
Holding  == {"record", "output", "success"}
Recorded == {"output", "success"}
Issued   == {"receive", "receipt"} \cup Holding

\* A receipt that was put into an outbox is never taken out of it.
Kept(p) == outbox[p] # Absent

\* Providers after the one at hand have not been paid, and the one at hand only
\* once it has settled; its receipt is of what was paid.
SpendingSound ==
  /\ \A q \in Ranking : q > call.at => paid[q] = 0
  /\ call.pc \in Issued =>
       /\ receipt[call.at] \in Receipts /\ receipt[call.at].amount = paid[call.at]
       /\ call.at \in Sinks => Kept(call.at)
  /\ call.pc \in Holding => ReceiptGood(call.at)
  /\ call.pc \in Recorded /\ call.recorded => call.at \in ingested
  /\ held # {} => held = {call.at} /\ call.pc \in Holding \cup {"failed"}

IInv == TypeOK /\ OutboxInv /\ SpendingSound

-----------------------------------------------------------------------------
(* The outbox and its dispatchers                                          *)

\* Submitting a receipt takes nothing off the record of the control plane.
LEMMA SubmissionKeeps ==
  ASSUME OutboxInv, NEW p \in Payments, NEW early \in BOOLEAN, NEW answer \in Answers,
         Submission(p, early, answer)
  PROVE  /\ ingested \subseteq ingested' /\ ingested' \subseteq Payments
         /\ answer = "accepted" => p \in ingested'
  BY DEF OutboxInv, OutboxTypeOK, Submission

\* A router's submission, which the outbox does not count, leaves it sound.
LEMMA SubmissionAlone ==
  ASSUME OutboxInv, ingested \subseteq ingested', ingested' \subseteq Payments,
         UNCHANGED <<receipt, outbox, tries, dispatch>>
  PROVE  OutboxInv'
  BY DEF OutboxInv, OutboxTypeOK, MarksSound, AcceptedIsIngested, GivenUpForCause, Claimable

LEMMA ClaimKeeps ==
  ASSUME OutboxInv, NEW d \in Dispatchers, NEW p \in Payments, ClaimNextPending(d, p)
  PROVE  OutboxInv'
<1> DEFINE o == [pc |-> "submit", of |-> p, attempts |-> outbox[p].attempts + 1,
                 early |-> p \notin ingested]
<1>1. /\ outbox[p].attempts \in 0 .. MaxAttempts /\ outbox[p].attempts < MaxAttempts
      /\ tries[p] \in 0 .. MaxAttempts /\ outbox[p].attempts <= tries[p]
      /\ MaxAttempts \in Nat
  BY OutboxAssumption DEF OutboxInv, OutboxTypeOK, MarksSound, ClaimNextPending
<1>2. dispatch' = [dispatch EXCEPT ![d] = o]
      /\ UNCHANGED <<receipt, outbox, ingested, tries>>
  BY DEF ClaimNextPending
<1>3. o.attempts \in 1 .. MaxAttempts /\ o.attempts - 1 <= tries[o.of]
  BY <1>1
<1>4. OutboxTypeOK'
  BY <1>2, <1>3 DEF OutboxInv, OutboxTypeOK
<1>5. MarksSound'
  <2>1. dispatch'[d] = o /\ \A e \in Dispatchers \ {d} : dispatch'[e] = dispatch[e]
    BY <1>2 DEF OutboxInv, OutboxTypeOK
  <2> QED
    BY <1>2, <1>3, <2>1 DEF OutboxInv, MarksSound, Claimable
<1> QED
  BY <1>2, <1>4, <1>5 DEF OutboxInv, AcceptedIsIngested, GivenUpForCause

LEMMA SubmitKeeps ==
  ASSUME OutboxInv, NEW d \in Dispatchers, NEW answer \in Answers, SubmitReceipt(d, answer)
  PROVE  OutboxInv' /\ ingested \subseteq ingested'
<1> DEFINE o == dispatch[d]
           n == IF answer = "rejected" \/ tries[o.of] = MaxAttempts
                THEN MaxAttempts ELSE tries[o.of] + 1
           m == [pc |-> "mark", of |-> o.of, attempts |-> o.attempts, answer |-> answer]
<1>1. /\ o \in [pc : {"submit"}, of : Payments, attempts : 1 .. MaxAttempts, early : BOOLEAN]
      /\ o.attempts - 1 <= tries[o.of]
  BY DEF OutboxInv, OutboxTypeOK, MarksSound, SubmitReceipt, Waiting
<1>2. /\ ingested \subseteq ingested' /\ ingested' \subseteq Payments
      /\ answer = "accepted" => o.of \in ingested'
  BY <1>1, SubmissionKeeps DEF SubmitReceipt
<1>3. /\ tries' = [tries EXCEPT ![o.of] = n] /\ dispatch' = [dispatch EXCEPT ![d] = m]
      /\ UNCHANGED <<receipt, outbox>>
  BY DEF SubmitReceipt
<1>4. /\ tries[o.of] \in 0 .. MaxAttempts /\ MaxAttempts \in Nat
      /\ n \in 0 .. MaxAttempts /\ tries[o.of] <= n /\ o.attempts <= n
      /\ answer = "rejected" => n = MaxAttempts
      /\ tries[o.of] = MaxAttempts => n = MaxAttempts
  BY <1>1, OutboxAssumption DEF OutboxInv, OutboxTypeOK
<1> HIDE DEF n
<1>5. \A p \in Payments : /\ tries'[p] = IF p = o.of THEN n ELSE tries[p]
                          /\ tries[p] \in 0 .. MaxAttempts
  BY <1>3 DEF OutboxInv, OutboxTypeOK
<1>6. \A p \in Payments : /\ tries[p] <= tries'[p] /\ tries'[p] \in 0 .. MaxAttempts
                          /\ tries[p] = MaxAttempts => tries'[p] = MaxAttempts
  BY <1>4, <1>5
<1>7. OutboxTypeOK'
  BY <1>1, <1>2, <1>3, <1>4 DEF OutboxInv, OutboxTypeOK
<1>8. dispatch'[d] = m /\ \A e \in Dispatchers \ {d} : dispatch'[e] = dispatch[e]
  BY <1>3 DEF OutboxInv, OutboxTypeOK
<1>9. MarksSound'
  <2>1. \A p \in Payments : /\ outbox'[p].attempts <= tries'[p]
                            /\ Claimable(p)' => outbox'[p].attempts < MaxAttempts
    BY <1>3, <1>6 DEF OutboxInv, OutboxTypeOK, MarksSound, Claimable
  <2>2. m.attempts <= tries'[m.of] /\ (m.answer = "rejected" => tries'[m.of] = MaxAttempts)
        /\ (m.answer = "accepted" => m.of \in ingested')
    BY <1>1, <1>2, <1>4, <1>5
  <2>3. ASSUME NEW e \in Dispatchers \ {d}
        PROVE  /\ dispatch[e].pc = "submit" => dispatch[e].attempts - 1 <= tries'[dispatch[e].of]
               /\ dispatch[e].pc = "mark" =>
                    /\ dispatch[e].attempts <= tries'[dispatch[e].of]
                    /\ dispatch[e].answer = "rejected" => tries'[dispatch[e].of] = MaxAttempts
                    /\ dispatch[e].answer = "accepted" => dispatch[e].of \in ingested'
    <3> DEFINE q == dispatch[e].of
               k == dispatch[e].attempts
    <3>1. SUFFICES ASSUME dispatch[e].pc \in {"submit", "mark"}
                   PROVE  /\ k - 1 <= tries[q] => k - 1 <= tries'[q]
                          /\ k <= tries[q] => k <= tries'[q]
                          /\ tries[q] = MaxAttempts => tries'[q] = MaxAttempts
      BY <1>2 DEF OutboxInv, MarksSound
    <3>2. q \in Payments /\ k \in 1 .. MaxAttempts
      BY <3>1 DEF OutboxInv, OutboxTypeOK, Waiting
    <3>3. tries[q] \in Nat /\ tries'[q] \in Nat /\ k \in Nat
      BY <1>5, <1>6, <3>2, OutboxAssumption
    <3> QED
      BY <1>6, <3>2, <3>3
  <2> QED
    BY <1>8, <2>1, <2>2, <2>3 DEF MarksSound
<1> QED
  BY <1>2, <1>3, <1>6, <1>7, <1>9 DEF OutboxInv, AcceptedIsIngested, GivenUpForCause

LEMMA MarkKeeps ==
  ASSUME OutboxInv, NEW d \in Dispatchers, MarkRecord(d)
  PROVE  OutboxInv' /\ \A p \in Payments : Kept(p) => Kept(p)'
<1> DEFINE o == dispatch[d]
           s == Outcome(o.attempts, o.answer)
           row == [status |-> s, attempts |-> o.attempts]
<1>1. /\ o \in [pc : {"mark"}, of : Payments, attempts : 1 .. MaxAttempts, answer : Answers]
      /\ o.attempts <= tries[o.of]
      /\ o.answer = "rejected" => tries[o.of] = MaxAttempts
      /\ o.answer = "accepted" => o.of \in ingested
  BY DEF OutboxInv, OutboxTypeOK, MarksSound, MarkRecord, Waiting
<1>2. /\ outbox' = [outbox EXCEPT ![o.of] = row] /\ dispatch' = [dispatch EXCEPT ![d] = Waiting]
      /\ UNCHANGED <<receipt, ingested, tries>>
  BY DEF MarkRecord
<1>3. tries[o.of] \in 0 .. MaxAttempts /\ MaxAttempts \in Nat
  BY <1>1, OutboxAssumption DEF OutboxInv, OutboxTypeOK
<1>4. /\ s \in {"accepted", "dead_letter", "pending"}
      /\ s = "pending" => o.attempts < MaxAttempts
      /\ s = "accepted" => o.of \in ingested
      /\ s = "dead_letter" => tries[o.of] = MaxAttempts
  BY <1>1, <1>3 DEF Outcome
<1> HIDE DEF s
<1>5. \A p \in Payments : outbox'[p] = IF p = o.of THEN row ELSE outbox[p]
  BY <1>2 DEF OutboxInv, OutboxTypeOK
<1>6. dispatch'[d] = Waiting /\ \A e \in Dispatchers \ {d} : dispatch'[e] = dispatch[e]
  BY <1>2 DEF OutboxInv, OutboxTypeOK
<1>7. OutboxTypeOK'
  BY <1>1, <1>2, <1>3, <1>4 DEF OutboxInv, OutboxTypeOK, Statuses
<1>8. MarksSound'
  BY <1>1, <1>2, <1>4, <1>5, <1>6 DEF OutboxInv, MarksSound, Claimable, Waiting
<1>9. \A p \in Payments : Kept(p) => Kept(p)'
  BY <1>4, <1>5 DEF Kept, Absent
<1> QED
  BY <1>1, <1>2, <1>4, <1>5, <1>7, <1>8, <1>9 DEF OutboxInv, AcceptedIsIngested, GivenUpForCause

\* Issuing a receipt puts it into the outbox, where it has not been submitted.
LEMMA EnqueueKeeps ==
  ASSUME OutboxInv, NEW p \in Payments, Enqueue(p), UNCHANGED <<ingested, tries, dispatch>>
  PROVE  OutboxInv' /\ Kept(p)'
<1>1. /\ MaxAttempts \in Nat /\ 0 < MaxAttempts
      /\ \A q \in Payments : tries[q] \in 0 .. MaxAttempts
      /\ \A q \in Payments :
           \/ outbox'[q] = outbox[q]
           \/ outbox'[q] = [status |-> "pending", attempts |-> 0]
  BY OutboxAssumption DEF OutboxInv, OutboxTypeOK, Enqueue
<1>2. OutboxTypeOK'
  BY <1>1 DEF OutboxInv, OutboxTypeOK, Enqueue, Statuses
<1>3. MarksSound'
  BY <1>1 DEF OutboxInv, MarksSound, Claimable
<1>4. Kept(p)'
  BY DEF OutboxInv, OutboxTypeOK, Enqueue, Kept, Absent
<1> QED
  BY <1>1, <1>2, <1>3, <1>4 DEF OutboxInv, AcceptedIsIngested, GivenUpForCause

-----------------------------------------------------------------------------
(* The router and the merchants                                            *)

\* What a call carries at each step.
LEMMA CallShape ==
  ASSUME TypeOK
  PROVE  /\ call.at \in Ranking /\ call.at \in Nat /\ Ranking \subseteq Nat
         /\ call.pc \in {"inspect", "pay", "verify", "settle", "receive", "receipt", "record",
                         "output", "success", "failed"}
         /\ call.pc = "verify" => call.offer \in Offers
         /\ call.pc = "settle" => call.offer \in Offers /\ call.claim \in {"valid", "none"}
         /\ call.pc = "record" => call.early \in BOOLEAN
         /\ call.pc \in Recorded =>
              call = [pc |-> call.pc, at |-> call.at, recorded |-> call.recorded]
              /\ call.recorded \in BOOLEAN
<1>1. Ranking \subseteq Nat
  BY PaidCallAssumption DEF Ranking
<1> QED
  BY <1>1 DEF TypeOK, Recorded

\* The shape of an offer, and what the merchant offers now.
LEMMA OfferShape ==
  ASSUME TypeOK
  PROVE  Offer \in Offers
  BY DEF TypeOK, Offer, Offers

\* A call that goes on without settling, receiving or holding anything new.
LEMMA GoingOn ==
  ASSUME IInv, UNCHANGED <<outboxVars, merchant, paid, held>>,
         held = {}, call'.at = call.at, TypeOK',
         call'.pc \in {"inspect", "pay", "verify", "settle", "failed"}
  PROVE  IInv'
<1>1. OutboxInv'
  BY DEF IInv, OutboxInv, OutboxTypeOK, MarksSound, AcceptedIsIngested, GivenUpForCause,
         Claimable, outboxVars
<1>2. SpendingSound'
  BY DEF IInv, SpendingSound, Holding, Recorded, Issued
<1> QED
  BY <1>1, <1>2 DEF IInv

\* The end of a call, whatever it has submitted.
LEMMA FatalKeeps ==
  ASSUME IInv, Fatal, UNCHANGED <<receipt, paid, held>>, OutboxInv'
  PROVE  IInv'
<1>1. call' = [pc |-> "failed", at |-> call.at] /\ merchant' = merchant
  BY DEF Fatal, Goto
<1>2. TypeOK'
  BY <1>1, CallShape DEF IInv, TypeOK, OutboxInv
<1>3. SpendingSound'
  BY <1>1 DEF IInv, SpendingSound, Holding, Recorded, Issued
<1> QED
  BY <1>2, <1>3 DEF IInv

\* An outbox that is left alone stays sound.
LEMMA OutboxStays ==
  ASSUME IInv, UNCHANGED outboxVars
  PROVE  OutboxInv'
  BY DEF IInv, OutboxInv, OutboxTypeOK, MarksSound, AcceptedIsIngested, GivenUpForCause,
         Claimable, outboxVars

\* The next provider is tried only by a router that holds no receipt.
LEMMA RetryKeeps ==
  ASSUME IInv, Retryable, UNCHANGED <<outboxVars, paid, held>>, held = {}
  PROVE  IInv'
<1>1. CASE call.at + 1 \in Ranking
  <2> DEFINE next == [pc |-> "inspect", at |-> call.at + 1]
  <2>1. call' = next /\ merchant' = AsFound(call.at + 1)
    BY <1>1 DEF Retryable
  <2>2. merchant' \in [price : Prices, campaign : Versions, key : Keys]
    BY <1>1, <2>1, PaidCallAssumption DEF AsFound, Versions, Keys, PinnedKey
  <2>3. TypeOK'
    BY <1>1, <2>1, <2>2, OutboxStays DEF IInv, TypeOK, OutboxInv, outboxVars
  <2>4. \A q \in Ranking : q > call'.at => q > call.at
    BY <2>1, CallShape DEF IInv
  <2>5. SpendingSound'
    BY <2>1, <2>4 DEF IInv, SpendingSound, Holding, Recorded, Issued
  <2> QED
    BY <2>3, <2>5, OutboxStays DEF IInv
<1>2. CASE ~ (call.at + 1 \in Ranking)
  BY <1>2, FatalKeeps, OutboxStays DEF Retryable, outboxVars
<1> QED
  BY <1>1, <1>2

\* Before it holds a receipt the router holds none of an earlier provider.
LEMMA NothingHeld ==
  ASSUME IInv, call.pc \in {"inspect", "pay", "verify", "settle", "receive", "receipt"}
  PROVE  held = {}
  BY DEF IInv, SpendingSound, Holding

LEMMA MerchantKeeps ==
  ASSUME IInv, MerchantChanges
  PROVE  IInv'
<1>1. merchant' \in [price : Prices, campaign : Versions, key : Keys]
  <2>1. merchant \in [price : Prices, campaign : Versions, key : Keys]
    BY DEF IInv, TypeOK
  <2>2. MaxVersion \in Nat /\ MaxKey \in Nat
    BY PaidCallAssumption
  <2>3. merchant.campaign < MaxVersion => merchant.campaign + 1 \in Versions
    BY <2>1, <2>2 DEF Versions
  <2>4. merchant.key < MaxKey => merchant.key + 1 \in Keys
    BY <2>1, <2>2 DEF Keys
  <2> QED
    BY <2>1, <2>3, <2>4 DEF MerchantChanges
<1>2. UNCHANGED <<outboxVars, paid, held, call>>
  BY DEF MerchantChanges
<1>3. OutboxInv'
  BY <1>2, OutboxStays
<1> QED
  BY <1>1, <1>2, <1>3
  DEF IInv, TypeOK, OutboxInv, SpendingSound, ReceiptGood, Kept, outboxVars

LEMMA InspectKeeps ==
  ASSUME IInv, InspectOffer
  PROVE  IInv'
<1>1. held = {} /\ UNCHANGED <<outboxVars, paid, held>>
  BY NothingHeld DEF InspectOffer
<1>2. CASE Retryable
  BY <1>1, <1>2, RetryKeeps
<1>3. CASE Goto([pc |-> "pay", at |-> call.at])
  BY <1>1, <1>3, GoingOn, CallShape, OutboxStays
  DEF IInv, Goto, TypeOK, OutboxInv, outboxVars
<1> QED
  BY <1>2, <1>3 DEF InspectOffer

LEMMA RequestKeeps ==
  ASSUME IInv, RequestJson
  PROVE  IInv'
<1>1. held = {} /\ UNCHANGED <<outboxVars, paid, held>>
  BY NothingHeld DEF RequestJson
<1>2. CASE Retryable
  BY <1>1, <1>2, RetryKeeps
<1>3. CASE Goto([pc |-> "verify", at |-> call.at, offer |-> Offer])
  BY <1>1, <1>3, GoingOn, CallShape, OfferShape, OutboxStays
  DEF IInv, Goto, TypeOK, OutboxInv, outboxVars
<1> QED
  BY <1>2, <1>3 DEF RequestJson

LEMMA VerifyKeeps ==
  ASSUME IInv, BeforeVerify
  PROVE  IInv'
<1>1. held = {} /\ UNCHANGED <<outboxVars, paid, held>>
  BY NothingHeld DEF BeforeVerify
<1>2. CASE Fatal
  BY <1>1, <1>2, FatalKeeps, OutboxStays DEF outboxVars
<1>3. ASSUME NEW claim \in {"valid", "none"},
             Goto([pc |-> "settle", at |-> call.at, offer |-> call.offer, claim |-> claim])
      PROVE  IInv'
  <2>1. call.offer \in Offers
    BY CallShape DEF IInv, BeforeVerify
  <2> QED
    BY <1>1, <1>3, <2>1, GoingOn, CallShape, OutboxStays
    DEF IInv, Goto, TypeOK, OutboxInv, outboxVars
<1> QED
  BY <1>2, <1>3 DEF BeforeVerify

LEMMA SettleKeeps ==
  ASSUME IInv, Settle
  PROVE  IInv'
<1>1. held = {} /\ held' = held /\ UNCHANGED <<ingested, tries, dispatch>>
  BY NothingHeld DEF Settle
<1>2. CASE Fatal /\ UNCHANGED <<paid, receipt, outbox>>
  BY <1>1, <1>2, FatalKeeps, OutboxStays DEF outboxVars
<1>3. CASE ~ (Fatal /\ UNCHANGED <<paid, receipt, outbox>>)
  <2> DEFINE p == call.at
             r == ReceiptFor(call.offer, call.claim)
  <2>1. /\ paid' = [paid EXCEPT ![p] = call.offer.amount]
        /\ receipt' = [receipt EXCEPT ![p] = r]
        /\ IF p \in Sinks THEN Enqueue(p) ELSE UNCHANGED outbox
        /\ call' = [pc |-> "receive", at |-> p] /\ merchant' = merchant
    BY <1>3 DEF Settle, Goto
  <2>2. /\ p \in Ranking /\ p \in Payments /\ call.offer \in Offers
        /\ Ranking \subseteq Nat
    BY CallShape, PaidCallAssumption DEF IInv, Settle
  <2>3. r \in Receipts /\ r.amount = call.offer.amount
    BY <2>2 DEF IInv, TypeOK, ReceiptFor, Receipts, Offers
  <2>4. OutboxInv' /\ (p \in Sinks => Kept(p)')
    <3>1. CASE p \in Sinks
      BY <1>1, <2>1, <2>2, <3>1, EnqueueKeeps DEF IInv
    <3>2. CASE p \notin Sinks
      BY <1>1, <2>1, <3>2 DEF IInv, OutboxInv, OutboxTypeOK, MarksSound, AcceptedIsIngested,
                              GivenUpForCause, Claimable
    <3> QED
      BY <3>1, <3>2
  <2>5. TypeOK'
    BY <1>1, <2>1, <2>2, <2>3, <2>4, PaidCallAssumption DEF IInv, TypeOK, OutboxInv, Offers
  <2>6. receipt'[p] = r /\ paid'[p] = r.amount
        /\ \A q \in Ranking : q > p => paid'[q] = paid[q]
    <3>1. DOMAIN receipt = Payments /\ DOMAIN paid = Ranking
      BY DEF IInv, TypeOK
    <3> HIDE DEF r
    <3>2. receipt'[p] = r /\ paid'[p] = r.amount
      BY <2>1, <2>2, <2>3, <3>1
    <3>3. \A q \in Ranking : q # p => paid'[q] = paid[q]
      BY <2>1, <3>1
    <3> QED
      BY <2>2, <3>2, <3>3
  <2>7. SpendingSound'
    BY <1>1, <2>1, <2>2, <2>3, <2>4, <2>6 DEF IInv, SpendingSound, Holding, Recorded, Issued, Kept
  <2> QED
    BY <2>4, <2>5, <2>7 DEF IInv
<1> QED
  BY <1>2, <1>3

LEMMA ReceiveKeeps ==
  ASSUME IInv, Receive
  PROVE  IInv'
<1>1. held = {} /\ UNCHANGED <<outboxVars, paid, held>>
  BY NothingHeld DEF Receive
<1>2. CASE Retryable
  BY <1>1, <1>2, RetryKeeps
<1>3. CASE Goto([call EXCEPT !.pc = "receipt"])
  <2>1. call' = [pc |-> "receipt", at |-> call.at] /\ merchant' = merchant
    BY <1>3 DEF Goto, Receive, IInv, TypeOK
  <2>2. TypeOK'
    BY <1>1, <2>1, CallShape, OutboxStays DEF IInv, TypeOK, OutboxInv, outboxVars
  <2>3. SpendingSound'
    BY <1>1, <2>1 DEF IInv, SpendingSound, Receive, Holding, Recorded, Issued, Kept, outboxVars
  <2> QED
    BY <1>1, <2>2, <2>3, OutboxStays DEF IInv
<1> QED
  BY <1>2, <1>3 DEF Receive

LEMMA VerifyReceiptKeeps ==
  ASSUME IInv, VerifyProviderReceipt
  PROVE  IInv'
<1>1. held = {} /\ UNCHANGED <<outboxVars, paid>>
  BY NothingHeld DEF VerifyProviderReceipt
<1>2. CASE ~ ReceiptGood(call.at)
  BY <1>1, <1>2, RetryKeeps DEF VerifyProviderReceipt
<1>3. CASE ReceiptGood(call.at)
  <2> DEFINE early == call.at \notin ingested
  <2>1. /\ call' = [pc |-> "record", at |-> call.at, early |-> early]
        /\ merchant' = merchant /\ held' = {call.at}
    BY <1>1, <1>3 DEF VerifyProviderReceipt, Goto
  <2>2. early \in BOOLEAN /\ call.at \in Ranking
    BY CallShape DEF IInv
  <2> HIDE DEF early
  <2>3. TypeOK'
    BY <1>1, <2>1, <2>2, OutboxStays DEF IInv, TypeOK, OutboxInv, outboxVars
  <2>4. ReceiptGood(call.at)'
    BY <1>1, <1>3, <2>1 DEF ReceiptGood, outboxVars
  <2>5. SpendingSound'
    BY <1>1, <2>1, <2>4 DEF IInv, SpendingSound, VerifyProviderReceipt, Holding, Recorded,
                            Issued, Kept, outboxVars
  <2> QED
    BY <1>1, <2>3, <2>5, OutboxStays DEF IInv
<1> QED
  BY <1>2, <1>3

LEMMA RecordKeeps ==
  ASSUME IInv, RecordProviderReceipt
  PROVE  IInv'
<1> DEFINE p == call.at
<1>1. /\ p \in Payments /\ call.early \in BOOLEAN
      /\ UNCHANGED <<receipt, outbox, tries, dispatch, paid, held>>
  BY CallShape, PaidCallAssumption DEF IInv, RecordProviderReceipt
<1>2. ASSUME NEW answer \in Answers, Submission(p, call.early, answer)
      PROVE  /\ OutboxInv'
             /\ answer = "accepted" => p \in ingested'
  BY <1>1, <1>2, SubmissionKeeps, SubmissionAlone DEF IInv
<1>3. ASSUME NEW recorded \in BOOLEAN, Returns(recorded), OutboxInv',
             recorded => p \in ingested'
      PROVE  IInv'
  <2>1. /\ call' = [pc |-> "output", at |-> p, recorded |-> recorded] /\ merchant' = merchant
    BY <1>3 DEF Returns, Goto
  <2>2. TypeOK'
    BY <1>1, <1>3, <2>1, CallShape DEF IInv, TypeOK, OutboxInv
  <2>3. SpendingSound'
    BY <1>1, <1>3, <2>1 DEF IInv, SpendingSound, RecordProviderReceipt, ReceiptGood,
                            Holding, Recorded, Issued, Kept
  <2> QED
    BY <1>3, <2>2, <2>3 DEF IInv
<1>4. CASE UNCHANGED ingested /\ Returns(FALSE)
  BY <1>1, <1>3, <1>4, OutboxStays DEF outboxVars
<1>5. CASE Submission(p, call.early, "accepted") /\ Returns(TRUE)
  BY <1>2, <1>3, <1>5 DEF Answers
<1>6. ASSUME NEW answer \in {"retry", "rejected"}, Submission(p, call.early, answer), Fatal
      PROVE  IInv'
  BY <1>1, <1>2, <1>6, FatalKeeps DEF Answers
<1> QED
  BY <1>4, <1>5, <1>6 DEF RecordProviderReceipt

LEMMA OutputKeeps ==
  ASSUME IInv, CheckOutput
  PROVE  IInv'
<1>1. UNCHANGED <<outboxVars, paid, held>> /\ call.pc = "output"
  BY DEF CheckOutput
<1>2. CASE Fatal
  BY <1>1, <1>2, FatalKeeps, OutboxStays DEF outboxVars
<1>3. CASE Goto([call EXCEPT !.pc = "success"])
  <2>1. /\ call' = [pc |-> "success", at |-> call.at, recorded |-> call.recorded]
        /\ call.recorded \in BOOLEAN /\ merchant' = merchant
    BY <1>1, <1>3, CallShape DEF IInv, Goto, Recorded
  <2>2. TypeOK'
    BY <1>1, <2>1, CallShape, OutboxStays DEF IInv, TypeOK, OutboxInv, outboxVars
  <2>3. SpendingSound'
    BY <1>1, <2>1 DEF IInv, SpendingSound, ReceiptGood, Holding, Recorded, Issued, Kept,
                      outboxVars
  <2> QED
    BY <1>1, <2>2, <2>3, OutboxStays DEF IInv
<1> QED
  BY <1>2, <1>3 DEF CheckOutput

\* A merchant's dispatcher touches no part of the call.
LEMMA DispatcherKeeps ==
  ASSUME IInv, NEW d \in Dispatchers, DispatcherStep(d), UNCHANGED routerVars
  PROVE  IInv'
<1> DEFINE Sound == /\ OutboxInv' /\ ingested \subseteq ingested' /\ receipt' = receipt
                    /\ \A p \in Payments : Kept(p) => Kept(p)'
<1>1. Sound
  <2>1. ASSUME NEW p \in Payments, ClaimNextPending(d, p) PROVE Sound
    BY <2>1, ClaimKeeps DEF IInv, ClaimNextPending, Kept
  <2>2. ASSUME NEW answer \in Answers, SubmitReceipt(d, answer) PROVE Sound
    BY <2>2, SubmitKeeps DEF IInv, SubmitReceipt, Kept
  <2>3. CASE MarkRecord(d)
    BY <2>3, MarkKeeps DEF IInv, MarkRecord
  <2> QED
    BY <2>1, <2>2, <2>3 DEF DispatcherStep
<1>2. TypeOK'
  BY <1>1 DEF IInv, TypeOK, OutboxInv, routerVars
<1>3. SpendingSound'
  BY <1>1, CallShape, PaidCallAssumption
  DEF IInv, SpendingSound, ReceiptGood, Recorded, routerVars
<1> QED
  BY <1>1, <1>2, <1>3 DEF IInv

-----------------------------------------------------------------------------
(* Theorems                                                                *)

LEMMA InitIInv == Init => IInv
<1> SUFFICES ASSUME Init PROVE IInv
  OBVIOUS
<1>1. 1 \in Ranking /\ 1 \in Versions /\ 1 \in Keys
  BY PaidCallAssumption DEF Ranking, Versions, Keys
<1>2. OutboxInv
  BY OutboxAssumption
  DEF Init, OutboxInit, OutboxInv, OutboxTypeOK, MarksSound, AcceptedIsIngested,
      GivenUpForCause, Claimable, Absent, Waiting, Statuses
<1>3. TypeOK
  BY <1>1, <1>2, PaidCallAssumption
  DEF Init, OutboxInit, OutboxInv, TypeOK, AsFound, PinnedKey
<1>4. SpendingSound
  BY DEF Init, SpendingSound, Holding, Recorded, Issued
<1> QED
  BY <1>2, <1>3, <1>4 DEF IInv

LEMMA StepIInv == IInv /\ [Next]_vars => IInv'
<1> SUFFICES ASSUME IInv, [Next]_vars PROVE IInv'
  OBVIOUS
<1>1. CASE RouterStep
  BY <1>1, InspectKeeps, RequestKeeps, VerifyKeeps, SettleKeeps, ReceiveKeeps,
     VerifyReceiptKeeps, RecordKeeps, OutputKeeps DEF RouterStep
<1>2. CASE Die
  BY <1>2, FatalKeeps, OutboxStays DEF Die, outboxVars
<1>3. CASE MerchantChanges
  BY <1>3, MerchantKeeps
<1>4. ASSUME NEW d \in Dispatchers, DispatcherStep(d), UNCHANGED routerVars PROVE IInv'
  BY <1>4, DispatcherKeeps
<1>5. CASE UNCHANGED vars
  BY <1>5, OutboxStays
  DEF IInv, TypeOK, OutboxInv, SpendingSound, ReceiptGood, Kept, vars, outboxVars, routerVars
<1> QED
  BY <1>1, <1>2, <1>3, <1>4, <1>5 DEF Next

LEMMA IInvHolds == Spec => []IInv
  BY InitIInv, StepIInv, PTL DEF Spec

\* AcceptedIsIngested: dispatchers mark records they have not claimed, and still
\* one that says accepted is on record at the control plane.
THEOREM AcceptedAreIngested == Spec => []AcceptedIsIngested
<1>1. IInv => AcceptedIsIngested
  BY DEF IInv, OutboxInv
<1> QED BY <1>1, IInvHolds, PTL

\* GivenUpForCause: a record that is a dead letter has been refused, or submitted
\* as often as it may be, although stale marks set its count back.
THEOREM GivenUpForCauseHolds == Spec => []GivenUpForCause
<1>1. IInv => GivenUpForCause
  BY DEF IInv, OutboxInv
<1> QED BY <1>1, IInvHolds, PTL

\* SuccessIsRecorded: what the router returns has been paid as quoted, signed with
\* the advertised key if it verifies receipts, and put on record if its recorder
\* says so; a merchant with an outbox has it there, with or without a recorder.
THEOREM SuccessesAreRecorded == Spec => []SuccessIsRecorded
<1>1. IInv => SuccessIsRecorded
  BY DEF IInv, SpendingSound, SuccessIsRecorded, ReceiptGood, Holding, Recorded, Issued, Kept
<1> QED BY <1>1, IInvHolds, PTL

\* HeldReceiptEndsIt: no provider after one whose receipt was good is paid.
THEOREM HeldReceiptsEndIt == Spec => []HeldReceiptEndsIt
<1>1. IInv => HeldReceiptEndsIt
  <2> SUFFICES ASSUME IInv, NEW p \in held, NEW q \in Ranking, Paid(q), ~ (q <= p)
               PROVE  FALSE
    BY DEF HeldReceiptEndsIt
  <2>1. p = call.at /\ call.at \in Nat /\ q \in Nat
    BY CallShape DEF IInv, SpendingSound
  <2>2. paid[q] = 0
    BY <2>1 DEF IInv, SpendingSound
  <2> QED
    BY <2>2 DEF Paid
<1> QED BY <1>1, IInvHolds, PTL
=============================================================================
