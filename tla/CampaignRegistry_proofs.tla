----------------------- MODULE CampaignRegistry_proofs -----------------------
(***************************************************************************)
(* The campaign registry for any number of handlers, versions, origins and *)
(* keys: its transactions look at part of what their requests read, and    *)
(* still versions are immutable, signatures are over the terms they are    *)
(* recorded with, what is offered has been signed, and a closed campaign   *)
(* is brought back only by requests that had read it before.               *)
(***************************************************************************)
EXTENDS CampaignRegistry, TLAPS

\* The versions are numbered without a gap up to the current one, and what is
\* not there is not signed.
VersionChain ==
  /\ \A n \in Versions : Exists(n) <=> n <= campaign.current
  /\ campaign.current = 0 <=> campaign.status = "none"

\* What a request has read is no newer than what is there.
RequestsAreOlder ==
  \A h \in Handlers :
    /\ op[h].pc = "version" =>
         /\ op[h].seen.current <= campaign.current
         /\ op[h].seen.current < MaxVersion
         /\ op[h].seen.status \notin {"none", "closed"}
    /\ op[h].pc = "status" =>
         op[h].seen.status # "none" /\ Allowed(op[h].seen.status, op[h].next)
    /\ op[h].pc \in {"profile", "key", "registry", "activate"} =>
         /\ Exists(op[h].n)
         /\ VersionNamed => op[h].origin = version[op[h].n].origin
    /\ op[h].pc = "activate" =>
         /\ op[h].seen.status # "closed"
         /\ Verifies(op[h].sig, op[h].n)

IInv ==
  /\ TypeOK /\ VersionChain /\ RequestsAreOlder
  /\ SignatureCoversTerms /\ OfferedIsSigned /\ SignedOriginIsVetted

\* The inductive invariant holds initially.
LEMMA InitIInv == Init => IInv
  BY CampaignAssumption
  DEF Init, IInv, TypeOK, MerchantInit, MerchantTypeOK, MerchantStatuses, OriginStatuses,
      KeyStates, VersionChain, RequestsAreOlder, SignatureCoversTerms, OfferedIsSigned,
      SignedOriginIsVetted, Exists, Signed, NoVersion, Versions, Campaigns,
      CampaignStatuses, Ops, Idle

\* A step of the merchant's registry keeps the types of its tables.
LEMMA MerchantKeepsTypes == MerchantTypeOK /\ MerchantNext => MerchantTypeOK'
  BY DEF MerchantTypeOK, MerchantNext, OperatorStep, OwnerStep, MerchantStatuses,
     OriginStatuses, KeyStates, CreateMerchant, UpdateMerchantStatus, AddOrigin,
     UpdateOriginStatus, AddKey, RevokeKey

\* A request knows what its place says it knows.
LEMMA OpShape ==
  ASSUME TypeOK, NEW h \in Handlers
  PROVE  /\ op[h].pc \in {"profile", "key", "registry"} =>
              op[h] \in [pc : {"profile", "key", "registry"}, sig : Signatures,
                         n : Versions, origin : Origins]
         /\ op[h].pc = "activate" =>
              op[h] \in [pc : {"activate"}, sig : Signatures, n : Versions,
                         origin : Origins, seen : Campaigns]
         /\ op[h].pc = "version" =>
              op[h] \in [pc : {"version"}, origin : Origins, seen : Campaigns]
         /\ op[h].pc = "status" =>
              op[h] \in [pc : {"status"}, next : CampaignStatuses, seen : Campaigns]
  BY DEF TypeOK, Ops, Idle

\* What a request may know at its place in this state.
Sound(o) ==
  /\ o.pc = "version" =>
       /\ o.seen.current <= campaign.current
       /\ o.seen.current < MaxVersion
       /\ o.seen.status \notin {"none", "closed"}
  /\ o.pc = "status" => o.seen.status # "none" /\ Allowed(o.seen.status, o.next)
  /\ o.pc \in {"profile", "key", "registry", "activate"} =>
       /\ Exists(o.n)
       /\ VersionNamed => o.origin = version[o.n].origin
  /\ o.pc = "activate" => o.seen.status # "closed" /\ Verifies(o.sig, o.n)

\* A step that only moves its own request on, to one that fits the state.
LEMMA Moving ==
  ASSUME IInv, NEW h \in Handlers, NEW o \in Ops, Sound(o),
         op' = [op EXCEPT ![h] = o], UNCHANGED <<merchantVars, db>>
  PROVE  IInv'
<1>1. \A g \in Handlers : g # h => op'[g] = op[g]
  BY DEF IInv, TypeOK
<1>2. op'[h] = o
  BY DEF IInv, TypeOK
<1>3. TypeOK' /\ VersionChain'
  BY DEF IInv, TypeOK, MerchantTypeOK, merchantVars, db, VersionChain, Exists
<1>4. RequestsAreOlder'
  BY <1>1, <1>2 DEF IInv, RequestsAreOlder, Sound, Exists, Verifies, db
<1>5. SignatureCoversTerms' /\ OfferedIsSigned' /\ SignedOriginIsVetted'
  BY DEF IInv, SignatureCoversTerms, OfferedIsSigned, SignedOriginIsVetted, Signed, db
<1> QED BY <1>3, <1>4, <1>5 DEF IInv

-----------------------------------------------------------------------------
(* Preservation                                                            *)

\* A request is given up, and nothing written.
LEMMA GivingUp ==
  ASSUME IInv, NEW h \in Handlers, Fail(h), UNCHANGED <<merchantVars, db>>
  PROVE  IInv'
<1>1. Idle \in Ops /\ Sound(Idle) /\ op' = [op EXCEPT ![h] = Idle]
  BY DEF Ops, Sound, Idle, Fail
<1> QED BY <1>1, Moving

\* A write of the campaign, its versions or their vetting that leaves what is
\* there as it is leaves all requests sound.
LEMMA Writing ==
  ASSUME IInv, NEW h \in Handlers, op' = [op EXCEPT ![h] = Idle],
         UNCHANGED merchantVars, TypeOK',
         campaign'.current >= campaign.current, VersionChain',
         \A n \in Versions : Exists(n) => Exists(n)' /\ version'[n].origin = version[n].origin,
         SignatureCoversTerms', OfferedIsSigned', SignedOriginIsVetted'
  PROVE  IInv'
<1>1. /\ op'[h] = Idle
      /\ \A g \in Handlers : g # h => op'[g] = op[g]
  BY DEF IInv, TypeOK
<1>2. \A g \in Handlers :
        /\ op[g].pc \in {"profile", "key", "registry", "activate"} => op[g].n \in Versions
        /\ op[g].pc = "version" => op[g].seen.current \in Nat
  BY OpShape DEF IInv, Campaigns
<1>3. campaign.current \in Nat /\ campaign'.current \in Nat
  BY DEF IInv, TypeOK, Campaigns
<1>4. RequestsAreOlder'
  <2> SUFFICES ASSUME NEW g \in Handlers PROVE RequestsAreOlder!(g)'
    BY DEF RequestsAreOlder
  <2>1. CASE g = h
    BY <1>1, <2>1 DEF Idle
  <2>2. CASE g # h
    BY <1>1, <1>2, <1>3, <2>2, CampaignAssumption DEF IInv, RequestsAreOlder, Verifies
  <2> QED BY <2>1, <2>2
<1> QED BY <1>4 DEF IInv

\* The merchant's registry is not looked at by the transactions.
LEMMA MerchantStep ==
  ASSUME IInv, MerchantNext, UNCHANGED <<db, op>>
  PROVE  IInv'
  BY MerchantKeepsTypes
  DEF IInv, TypeOK, VersionChain, RequestsAreOlder, SignatureCoversTerms,
      OfferedIsSigned, SignedOriginIsVetted, Exists, Signed, Verifies, db

\* The steps that read and remember.
LEMMA RequestVersionStep ==
  ASSUME IInv, NEW h \in Handlers, NEW o \in Origins, RequestVersion(h, o)
  PROVE  IInv'
<1> DEFINE r == [pc |-> "version", origin |-> o, seen |-> campaign]
<1>1. r \in Ops /\ Sound(r)
  BY DEF RequestVersion, Versionable, IInv, TypeOK, Ops, Sound, Campaigns
<1> QED BY <1>1, Moving DEF RequestVersion

LEMMA RequestStatusStep ==
  ASSUME IInv, NEW h \in Handlers, NEW to \in {"active", "paused", "closed"},
         RequestStatus(h, to)
  PROVE  IInv'
<1> DEFINE r == [pc |-> "status", next |-> to, seen |-> campaign]
<1>1. r \in Ops /\ Sound(r)
  BY DEF RequestStatus, IInv, TypeOK, Ops, Sound, CampaignStatuses
<1> QED BY <1>1, Moving DEF RequestStatus

LEMMA RequestActivationStep ==
  ASSUME IInv, NEW h \in Handlers, NEW sig \in Signatures, RequestActivation(h, sig)
  PROVE  IInv'
<1>1. PICK n \in IF VersionNamed THEN Versions ELSE {campaign.current} :
        /\ Exists(n)
        /\ op' = [op EXCEPT ![h] = [pc |-> "profile", sig |-> sig, n |-> n,
                                    origin |-> version[n].origin]]
  BY DEF RequestActivation
<1>2. n \in Versions
  BY DEF RequestActivation, IInv, TypeOK, Campaigns, VersionChain, Versions
<1>3. version[n].origin \in Origins
  BY <1>1, <1>2 DEF IInv, TypeOK, Exists
<1> DEFINE r == [pc |-> "profile", sig |-> sig, n |-> n, origin |-> version[n].origin]
<1>4. r \in Ops /\ Sound(r)
  BY <1>1, <1>2, <1>3 DEF Ops, Sound
<1> QED BY <1>1, <1>4, Moving DEF RequestActivation

LEMMA CheckStep ==
  ASSUME IInv, NEW h \in Handlers, CheckProfile(h) \/ CheckKey(h)
  PROVE  IInv'
<1>1. CASE Fail(h)
  BY <1>1, GivingUp DEF CheckProfile, CheckKey
<1>2. ASSUME NEW pc \in {"key", "registry"}, op[h].pc \in {"profile", "key"},
             op' = [op EXCEPT ![h].pc = pc], UNCHANGED <<merchantVars, db>>
      PROVE  IInv'
  <2> DEFINE o == [op[h] EXCEPT !.pc = pc]
  <2>1. /\ o \in Ops /\ o.pc = pc /\ o.n = op[h].n /\ o.origin = op[h].origin
        /\ op' = [op EXCEPT ![h] = o]
    BY <1>2, OpShape DEF IInv, TypeOK, Ops
  <2> HIDE DEF o
  <2>2. Sound(o)
    BY <1>2, <2>1 DEF IInv, RequestsAreOlder, Sound
  <2> QED BY <1>2, <2>1, <2>2, Moving
<1> QED BY <1>1, <1>2 DEF CheckProfile, CheckKey

LEMMA ReadForActivationStep ==
  ASSUME IInv, NEW h \in Handlers, ReadForActivation(h)
  PROVE  IInv'
<1>1. CASE Fail(h)
  BY <1>1, GivingUp DEF ReadForActivation
<1>2. CASE ~ Fail(h)
  <2> DEFINE n == Target(op[h])
             r == [pc |-> "activate", sig |-> op[h].sig, n |-> n,
                   origin |-> op[h].origin, seen |-> campaign]
  <2>1. /\ campaign.status # "closed" /\ n = campaign.current
        /\ Verifies(op[h].sig, n) /\ op' = [op EXCEPT ![h] = r]
    BY <1>2 DEF ReadForActivation
  <2>2. /\ op[h] \in [pc : {"profile", "key", "registry"}, sig : Signatures,
                      n : Versions, origin : Origins]
        /\ op[h].pc = "registry"
    BY OpShape DEF ReadForActivation, IInv
  <2>3. Exists(op[h].n) /\ (VersionNamed => op[h].origin = version[op[h].n].origin)
    BY <2>2 DEF IInv, RequestsAreOlder
  <2>4. op[h].n <= campaign.current /\ op[h].n \in Versions
    BY <2>2, <2>3 DEF IInv, VersionChain
  <2>5. n \in Versions /\ Exists(n) /\ (VersionNamed => n = op[h].n)
    BY <2>1, <2>4 DEF IInv, TypeOK, Campaigns, VersionChain, Target, Versions
  <2>6. r \in Ops
    BY <2>2, <2>5 DEF IInv, TypeOK, Ops
  <2> HIDE DEF n
  <2>7. Sound(r)
    BY <2>1, <2>3, <2>5 DEF Sound
  <2> QED BY <2>1, <2>6, <2>7, Moving DEF ReadForActivation
<1> QED BY <1>1, <1>2

\* The steps that write.  A version is inserted where there is none ...
LEMMA InsertVersion ==
  ASSUME IInv, NEW h \in Handlers, NEW n \in Versions, NEW o \in Origins,
         n = campaign.current + 1,
         campaign' = [status |-> "draft", current |-> n],
         version' = [version EXCEPT ![n] = [origin |-> o, sig |-> NoSignature]],
         op' = [op EXCEPT ![h] = Idle], UNCHANGED <<merchantVars, vetted>>
  PROVE  IInv'
<1>1. /\ campaign'.current = n /\ campaign'.status = "draft"
      /\ campaign.current \in Nat /\ n \in Nat /\ MaxVersion \in Nat
      /\ ~ Exists(n)
  BY CampaignAssumption DEF IInv, TypeOK, Campaigns, VersionChain, Versions
<1>2. /\ version'[n] = [origin |-> o, sig |-> NoSignature]
      /\ \A i \in Versions : i # n => version'[i] = version[i]
  BY DEF IInv, TypeOK
<1>3. Exists(n)' /\ ~ Signed(n)'
  BY <1>2, CampaignAssumption DEF Exists, Signed, NoVersion
<1>4. \A i \in Versions : i # n => (Exists(i)' <=> Exists(i)) /\ (Signed(i)' <=> Signed(i))
  BY <1>2 DEF Exists, Signed
<1>5. TypeOK'
  BY <1>1, CampaignAssumption
  DEF IInv, TypeOK, Campaigns, CampaignStatuses, Versions, MerchantTypeOK, merchantVars,
      Ops
<1>6. \A i \in Versions : i \in Nat
  BY DEF Versions
<1>7. VersionChain'
  BY <1>1, <1>3, <1>4, <1>6 DEF IInv, VersionChain
<1>8. SignatureCoversTerms' /\ OfferedIsSigned' /\ SignedOriginIsVetted'
  BY <1>1, <1>2, <1>3, <1>4 DEF IInv, SignatureCoversTerms, OfferedIsSigned,
                                SignedOriginIsVetted
<1>9. \A i \in Versions : Exists(i) => Exists(i)' /\ version'[i].origin = version[i].origin
  BY <1>1, <1>2, <1>4
<1>10. campaign'.current >= campaign.current
  BY <1>1
<1> QED BY <1>5, <1>7, <1>8, <1>9, <1>10, Writing

\* ... a signature is recorded where there is none ...
LEMMA RecordSignature ==
  ASSUME IInv, NEW h \in Handlers, CommitActivation(h), ~ Signed(op[h].n)
  PROVE  IInv'
<1>1. /\ op[h] \in [pc : {"activate"}, sig : Signatures, n : Versions,
                    origin : Origins, seen : Campaigns]
      /\ Exists(op[h].n) /\ Verifies(op[h].sig, op[h].n)
      /\ VersionNamed => op[h].origin = version[op[h].n].origin
  BY OpShape DEF CommitActivation, IInv, RequestsAreOlder
<1>2. PICK n \in Versions, sig \in Signatures, o \in Origins :
        n = op[h].n /\ sig = op[h].sig /\ o = op[h].origin
  BY <1>1
<1>3. /\ version' = [version EXCEPT ![n].sig = sig]
      /\ vetted' = [vetted EXCEPT ![n] = o]
      /\ campaign' = [campaign EXCEPT !.status = "active"]
      /\ op' = [op EXCEPT ![h] = Idle]
      /\ UNCHANGED merchantVars
  BY <1>2 DEF CommitActivation, Fail
<1>4. version[n] \in [origin : Origins, sig : Signatures \cup {NoSignature}]
  BY <1>1, <1>2 DEF IInv, TypeOK, Exists
<1>5. /\ version'[n] \in [origin : Origins, sig : Signatures]
      /\ version'[n].sig = sig /\ version'[n].origin = version[n].origin
      /\ \A i \in Versions : i # n => version'[i] = version[i]
      /\ vetted'[n] = o /\ \A i \in Versions : i # n => vetted'[i] = vetted[i]
      /\ campaign' = [status |-> "active", current |-> campaign.current]
  BY <1>3, <1>4 DEF IInv, TypeOK, Campaigns
<1>6. sig # NoSignature
  BY CampaignAssumption DEF Signatures, Versions
<1>7. Signed(n)' /\ Exists(n)' /\ Exists(n)
  <2>1. version'[n].sig # NoSignature
    BY <1>5, <1>6
  <2> QED BY <1>1, <1>2, <2>1 DEF Signed, Exists, NoVersion
<1>8. \A i \in Versions : i # n => (Exists(i)' <=> Exists(i)) /\ (Signed(i)' <=> Signed(i))
  BY <1>5 DEF Exists, Signed
<1>9. TypeOK'
  BY <1>3, <1>4, <1>5
  DEF IInv, TypeOK, Campaigns, CampaignStatuses, MerchantTypeOK, merchantVars, Ops
<1>10. VersionChain'
  <2>1. campaign.status # "none"
    BY <1>7 DEF IInv, VersionChain, TypeOK, Campaigns, Versions
  <2> QED BY <1>5, <1>7, <1>8, <2>1 DEF IInv, VersionChain
<1>11. SignatureCoversTerms'
  BY <1>1, <1>2, <1>5, <1>8 DEF IInv, SignatureCoversTerms, Verifies
<1>12. OfferedIsSigned'
  BY <1>7 DEF OfferedIsSigned
<1>13. SignedOriginIsVetted'
  BY <1>1, <1>2, <1>5, <1>8 DEF IInv, SignedOriginIsVetted
<1>14. campaign'.current >= campaign.current
  BY <1>5 DEF IInv, TypeOK, Campaigns
<1>15. \A i \in Versions : Exists(i) => Exists(i)' /\ version'[i].origin = version[i].origin
  BY <1>5, <1>7, <1>8
<1> QED BY <1>3, <1>9, <1>10, <1>11, <1>12, <1>13, <1>14, <1>15, Writing

\* ... and a status is changed from the one that was read.
LEMMA CommitStatusStep ==
  ASSUME IInv, NEW h \in Handlers, CommitStatus(h)
  PROVE  IInv'
<1>1. CASE campaign.status # op[h].seen.status
  BY <1>1, GivingUp DEF CommitStatus, db
<1>2. CASE campaign.status = op[h].seen.status
  <2>1. /\ op[h] \in [pc : {"status"}, next : CampaignStatuses, seen : Campaigns]
        /\ campaign.status # "none" /\ Allowed(campaign.status, op[h].next)
    BY <1>2, OpShape DEF CommitStatus, IInv, RequestsAreOlder
  <2>2. PICK s \in CampaignStatuses : s = op[h].next
    BY <2>1
  <2>3. /\ campaign' = [status |-> s, current |-> campaign.current]
        /\ op' = [op EXCEPT ![h] = Idle]
        /\ UNCHANGED <<merchantVars, version, vetted>>
    BY <1>2, <2>2 DEF CommitStatus, Fail, IInv, TypeOK, Campaigns
  <2>4. s # "none" /\ (s \in {"active", "paused"} => campaign.status \in {"active", "paused"})
    BY <2>1, <2>2 DEF Allowed
  <2>5. TypeOK'
    BY <2>3 DEF IInv, TypeOK, Campaigns, MerchantTypeOK, merchantVars, Ops
  <2>6. VersionChain' /\ campaign'.current >= campaign.current
    BY <2>1, <2>3, <2>4 DEF IInv, VersionChain, Exists, TypeOK, Campaigns
  <2>7. SignatureCoversTerms' /\ OfferedIsSigned' /\ SignedOriginIsVetted'
    BY <2>3, <2>4 DEF IInv, SignatureCoversTerms, OfferedIsSigned, SignedOriginIsVetted,
                      Signed
  <2>8. \A i \in Versions : Exists(i) => Exists(i)' /\ version'[i].origin = version[i].origin
    BY <2>3 DEF Exists
  <2> QED BY <2>3, <2>5, <2>6, <2>7, <2>8, Writing
<1> QED BY <1>1, <1>2

LEMMA CreateCampaignStep ==
  ASSUME IInv, NEW h \in Handlers, NEW o \in Origins, CreateCampaign(h, o)
  PROVE  IInv'
<1>1. /\ op[h] = Idle /\ campaign.current = 0 /\ 1 \in Versions
      /\ campaign' = [status |-> "draft", current |-> 1]
      /\ version' = [version EXCEPT ![1] = [origin |-> o, sig |-> NoSignature]]
      /\ UNCHANGED <<merchantVars, vetted, op>>
  BY CampaignAssumption DEF CreateCampaign, IInv, VersionChain, Versions
<1>2. op' = [op EXCEPT ![h] = Idle]
  BY <1>1 DEF IInv, TypeOK
<1>3. 1 = campaign.current + 1
  BY <1>1
<1> QED BY <1>1, <1>2, <1>3, InsertVersion

\* A number that is free is the next one.
LEMMA FreeIsNext ==
  ASSUME IInv, NEW h \in Handlers, CommitVersion(h), NumberFree(op[h].seen.current + 1)
  PROVE  /\ op[h].seen.current + 1 = campaign.current + 1
         /\ op[h].seen.current + 1 \in Versions
         /\ op[h].origin \in Origins
<1>1. /\ op[h] \in [pc : {"version"}, origin : Origins, seen : Campaigns]
      /\ op[h].seen.current <= campaign.current /\ op[h].seen.current < MaxVersion
  BY OpShape DEF CommitVersion, IInv, RequestsAreOlder
<1>2. op[h].seen.current \in Nat /\ campaign.current \in Nat /\ MaxVersion \in Nat
  BY <1>1, CampaignAssumption DEF IInv, TypeOK, Campaigns
<1>3. op[h].seen.current + 1 \in Versions
  BY <1>1, <1>2 DEF Versions
<1>4. ~ (op[h].seen.current + 1 <= campaign.current)
  BY <1>3 DEF NumberFree, IInv, VersionChain
<1> QED BY <1>1, <1>2, <1>3, <1>4

LEMMA CommitVersionStep ==
  ASSUME IInv, NEW h \in Handlers, CommitVersion(h)
  PROVE  IInv'
<1>1. CASE ~ NumberFree(op[h].seen.current + 1)
  BY <1>1, GivingUp DEF CommitVersion, db, Fail
<1>2. CASE NumberFree(op[h].seen.current + 1)
  <2>1. PICK n \in Versions, o \in Origins :
          n = op[h].seen.current + 1 /\ o = op[h].origin /\ n = campaign.current + 1
    BY <1>2, FreeIsNext
  <2>2. /\ version' = [version EXCEPT ![n] = [origin |-> o, sig |-> NoSignature]]
        /\ campaign' = [status |-> "draft", current |-> n]
        /\ op' = [op EXCEPT ![h] = Idle] /\ UNCHANGED <<merchantVars, vetted>>
    BY <1>2, <2>1 DEF CommitVersion
  <2> QED BY <2>1, <2>2, InsertVersion
<1> QED BY <1>1, <1>2

\* Every step of the registry preserves the inductive invariant.
LEMMA StepIInv == IInv /\ [Next]_vars => IInv'
<1> SUFFICES ASSUME IInv, [Next]_vars PROVE IInv'
  OBVIOUS
<1>1. CASE MerchantNext /\ UNCHANGED <<db, op>>
  BY <1>1, MerchantStep
<1>2. ASSUME NEW h \in Handlers, CommitActivation(h) PROVE IInv'
  <2>1. CASE Signed(op[h].n)
    BY <1>2, <2>1, GivingUp DEF CommitActivation
  <2> QED BY <1>2, <2>1, RecordSignature
<1>3. ASSUME NEW h \in Handlers, Crash(h) PROVE IInv'
  BY <1>3, GivingUp DEF Crash
<1>4. ASSUME NEW h \in Handlers, HandlerStep(h) PROVE IInv'
  BY <1>2, <1>3, <1>4, CreateCampaignStep, RequestVersionStep, CommitVersionStep,
     RequestActivationStep, CheckStep, ReadForActivationStep, RequestStatusStep,
     CommitStatusStep DEF HandlerStep
<1>5. CASE UNCHANGED vars
  BY <1>5
  DEF IInv, TypeOK, MerchantTypeOK, merchantVars, VersionChain, RequestsAreOlder,
      SignatureCoversTerms, OfferedIsSigned, SignedOriginIsVetted, Exists, Signed,
      Verifies, db, vars
<1> QED BY <1>1, <1>4, <1>5 DEF Next

\* The inductive invariant holds in every reachable state.
LEMMA IInvHolds == Spec => []IInv
  BY InitIInv, StepIInv, PTL DEF Spec

-----------------------------------------------------------------------------
(* The theorems                                                            *)

\* A signature on record is over the terms it is recorded with.
THEOREM SignaturesCoverTerms == Spec => []SignatureCoversTerms
<1>1. IInv => SignatureCoversTerms
  BY DEF IInv
<1> QED BY <1>1, IInvHolds, PTL

\* No overlap of requests offers a campaign that was never signed.
THEOREM OfferedAreSigned == Spec => []OfferedIsSigned
<1>1. IInv => OfferedIsSigned
  BY DEF IInv
<1> QED BY <1>1, IInvHolds, PTL

\* When clients name the version, the origin that was checked is its own.
THEOREM SignedOriginsAreVetted == Spec => []SignedOriginIsVetted
<1>1. IInv => SignedOriginIsVetted
  BY DEF IInv
<1> QED BY <1>1, IInvHolds, PTL

\* What a step does to the versions, which both action properties rest on.
LEMMA WritesOnce ==
  ASSUME IInv, NEW h \in Handlers, HandlerStep(h)
  PROVE  /\ \A n \in Versions :
              /\ Exists(n) => Exists(n)' /\ version'[n].origin = version[n].origin
              /\ Signed(n) => version'[n].sig = version[n].sig
         /\ campaign'.current >= campaign.current
<1>1. campaign \in Campaigns /\ campaign.current \in Nat
  BY DEF IInv, TypeOK, Campaigns
<1>2. CASE campaign' = campaign /\ version' = version
  BY <1>1, <1>2 DEF Exists
<1>3. ASSUME NEW n \in Versions, n = campaign.current + 1,
             campaign' = [status |-> "draft", current |-> n],
             \E o \in Origins :
               version' = [version EXCEPT ![n] = [origin |-> o, sig |-> NoSignature]]
      PROVE  /\ \A i \in Versions :
                  /\ Exists(i) => Exists(i)' /\ version'[i].origin = version[i].origin
                  /\ Signed(i) => version'[i].sig = version[i].sig
             /\ campaign'.current >= campaign.current
  <2>1. ~ Exists(n) /\ ~ Signed(n)
    BY <1>1, <1>3 DEF IInv, VersionChain, Exists, Signed, NoVersion
  <2>2. \A i \in Versions : i # n => version'[i] = version[i]
    BY <1>3 DEF IInv, TypeOK
  <2> QED BY <1>1, <1>3, <2>1, <2>2 DEF Exists
<1>4. ASSUME NEW o \in Origins, CreateCampaign(h, o)
      PROVE  /\ \A i \in Versions :
                  /\ Exists(i) => Exists(i)' /\ version'[i].origin = version[i].origin
                  /\ Signed(i) => version'[i].sig = version[i].sig
             /\ campaign'.current >= campaign.current
  <2>1. 1 \in Versions /\ 1 = campaign.current + 1
    BY <1>4, CampaignAssumption DEF CreateCampaign, IInv, VersionChain, Versions
  <2> QED BY <1>3, <1>4, <2>1 DEF CreateCampaign
<1>5. CASE CommitVersion(h)
  <2>1. CASE ~ NumberFree(op[h].seen.current + 1)
    BY <1>2, <1>5, <2>1 DEF CommitVersion
  <2>2. CASE NumberFree(op[h].seen.current + 1)
    <3>1. PICK n \in Versions, o \in Origins :
            n = op[h].seen.current + 1 /\ o = op[h].origin /\ n = campaign.current + 1
      BY <1>5, <2>2, FreeIsNext
    <3>2. /\ version' = [version EXCEPT ![n] = [origin |-> o, sig |-> NoSignature]]
          /\ campaign' = [status |-> "draft", current |-> n]
      BY <1>5, <2>2, <3>1 DEF CommitVersion
    <3> QED BY <1>3, <3>1, <3>2
  <2> QED BY <2>1, <2>2
<1>6. CASE CommitActivation(h)
  <2>1. CASE Signed(op[h].n)
    BY <1>2, <1>6, <2>1 DEF CommitActivation, db
  <2>2. CASE ~ Signed(op[h].n)
    <3>1. /\ op[h].n \in Versions /\ Exists(op[h].n)
      BY <1>6, OpShape DEF CommitActivation, IInv, RequestsAreOlder
    <3>2. PICK n \in Versions : n = op[h].n
      BY <3>1
    <3>3. version[n] \in [origin : Origins, sig : Signatures \cup {NoSignature}]
      BY <3>1, <3>2 DEF IInv, TypeOK, Exists
    <3>4. /\ version'[n].origin = version[n].origin
          /\ version'[n].sig = op[h].sig
          /\ \A i \in Versions : i # n => version'[i] = version[i]
          /\ campaign'.current = campaign.current
      BY <1>1, <1>6, <2>2, <3>2, <3>3 DEF CommitActivation, IInv, TypeOK, Campaigns
    <3>5. op[h].sig # NoSignature
      BY <1>6, OpShape, CampaignAssumption DEF CommitActivation, IInv, Signatures, Versions
    <3>6. Exists(n)'
      BY <3>4, <3>5 DEF Exists, NoVersion
    <3> QED BY <1>1, <2>2, <3>2, <3>4, <3>6 DEF Exists
  <2> QED BY <2>1, <2>2
<1>7. CASE CommitStatus(h)
  BY <1>1, <1>7 DEF CommitStatus, Exists, Campaigns
<1>8. CASE \/ \E o \in Origins : RequestVersion(h, o)
           \/ \E sig \in Signatures : RequestActivation(h, sig)
           \/ CheckProfile(h) \/ CheckKey(h) \/ ReadForActivation(h) \/ Crash(h)
           \/ \E to \in {"active", "paused", "closed"} : RequestStatus(h, to)
  BY <1>2, <1>8 DEF RequestVersion, RequestActivation, CheckProfile, CheckKey,
                    ReadForActivation, Crash, RequestStatus, db
<1> QED BY <1>4, <1>5, <1>6, <1>7, <1>8 DEF HandlerStep

\* Versions stay as they are, once signed with their signature, and the current
\* one is always the last, for any overlap of requests.
THEOREM VersionsStay == Spec => VersionsAreImmutable
<1>1. ASSUME IInv, IInv', [Next]_vars
      PROVE  [/\ \A n \in Versions :
                   /\ Exists(n) => Exists(n)' /\ version'[n].origin = version[n].origin
                   /\ Signed(n) => version'[n].sig = version[n].sig
              /\ campaign'.current >= campaign.current
              /\ \A n \in Versions : Exists(n)' <=> n <= campaign'.current]_vars
  <2>1. \A n \in Versions : Exists(n)' <=> n <= campaign'.current
    BY <1>1 DEF IInv, VersionChain
  <2>2. CASE \E h \in Handlers : HandlerStep(h)
    BY <1>1, <2>1, <2>2, WritesOnce
  <2>3. CASE MerchantNext /\ UNCHANGED <<db, op>>
    BY <1>1, <2>1, <2>3 DEF IInv, TypeOK, Campaigns, db, Exists
  <2> QED BY <1>1, <2>2, <2>3 DEF Next
<1> QED BY <1>1, IInvHolds, PTL DEF Spec, VersionsAreImmutable

\* Only a request that had read the campaign before it was closed reopens it.
THEOREM ReopenedByEarlierRequests == Spec => LaterRequestsKeepClosed
<1>1. ASSUME IInv, [Next]_vars
      PROVE  [campaign.status = "closed" /\ campaign'.status # "closed"
              => \E h \in Handlers : /\ op[h].pc \in {"version", "activate"}
                                     /\ op[h].seen.status # "closed"
                                     /\ op'[h] = Idle]_vars
  <2> SUFFICES ASSUME NEW h \in Handlers, HandlerStep(h), campaign.status = "closed",
                      campaign'.status # "closed"
               PROVE  /\ op[h].pc \in {"version", "activate"}
                      /\ op[h].seen.status # "closed"
                      /\ op'[h] = Idle
    BY <1>1 DEF Next, db
  <2>1. CASE CommitVersion(h)
    BY <1>1, <2>1 DEF CommitVersion, IInv, TypeOK, RequestsAreOlder
  <2>2. CASE CommitActivation(h)
    BY <1>1, <2>2 DEF CommitActivation, IInv, TypeOK, RequestsAreOlder, Fail
  <2>3. CASE CommitStatus(h)
    <3>1. op[h].pc = "status" /\ op[h].seen.status = "closed"
          /\ campaign' = [campaign EXCEPT !.status = op[h].next]
      BY <2>3 DEF CommitStatus
    <3>2. op[h].next = "closed"
      BY <1>1, <3>1 DEF IInv, RequestsAreOlder, Allowed
    <3> QED BY <1>1, <3>1, <3>2 DEF IInv, TypeOK, Campaigns
  <2>4. CASE \/ \E o \in Origins : RequestVersion(h, o) \/ CreateCampaign(h, o)
             \/ \E sig \in Signatures : RequestActivation(h, sig)
             \/ CheckProfile(h) \/ CheckKey(h) \/ ReadForActivation(h) \/ Crash(h)
             \/ \E to \in {"active", "paused", "closed"} : RequestStatus(h, to)
    BY <2>4 DEF RequestVersion, CreateCampaign, RequestActivation, CheckProfile, CheckKey,
                ReadForActivation, Crash, RequestStatus, db
  <2> QED BY <2>1, <2>2, <2>3, <2>4 DEF HandlerStep
<1> QED BY <1>1, IInvHolds, PTL DEF Spec, LaterRequestsKeepClosed
=============================================================================
