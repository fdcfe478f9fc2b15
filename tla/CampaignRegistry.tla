-------------------------- MODULE CampaignRegistry --------------------------
(***************************************************************************)
(* One campaign in PostgresCampaignRegistry and the request handlers that  *)
(* version, activate, pause, resume and close it while the registry of its *)
(* merchant changes.  Requests read first and write later, in a            *)
(* transaction that looks at only part of what was read.                   *)
(*                                                                         *)
(* The terms of a version are told apart by its number, which is part of   *)
(* them, and by their resource origin; a signature is the key and the      *)
(* terms it was made over.                                                 *)
(***************************************************************************)
EXTENDS MerchantRegistry, Naturals

CONSTANTS Handlers, MaxVersion, NoSignature,
          VersionNamed   \* clients name the version they activate

ASSUME CampaignAssumption ==
  /\ MaxVersion \in Nat \ {0}
  /\ VersionNamed \in BOOLEAN
  /\ "none" \notin Origins
  /\ NoSignature \notin [kid : Keys, n : 1 .. MaxVersion, origin : Origins]

VARIABLES campaign,  \* the row of campaigns: status and current version
          version,   \* the rows of campaign_versions
          vetted,    \* the origin whose proof was checked for a signed version
          op         \* the request each handler serves

db   == <<campaign, version, vetted>>
vars == <<merchantVars, db, op>>

Versions   == 1 .. MaxVersion
Signatures == [kid : Keys, n : Versions, origin : Origins]
NoVersion  == [origin |-> "none", sig |-> NoSignature]
CampaignStatuses == {"none", "draft", "active", "paused", "closed"}
Campaigns  == [status : CampaignStatuses, current : 0 .. MaxVersion]

Idle == [pc |-> "idle"]
Ops  ==
  {Idle}
  \cup [pc : {"profile", "key", "registry"}, sig : Signatures, n : Versions, origin : Origins]
  \cup [pc : {"activate"}, sig : Signatures, n : Versions, origin : Origins, seen : Campaigns]
  \cup [pc : {"version"}, origin : Origins, seen : Campaigns]
  \cup [pc : {"status"}, next : CampaignStatuses, seen : Campaigns]

Exists(n) == version[n] # NoVersion
Signed(n) == version[n].sig # NoSignature

TypeOK ==
  /\ MerchantTypeOK
  /\ campaign \in Campaigns
  /\ version \in [Versions -> {NoVersion} \cup
                     [origin : Origins, sig : Signatures \cup {NoSignature}]]
  /\ vetted \in [Versions -> {"none"} \cup Origins]
  /\ op \in [Handlers -> Ops]

Init ==
  /\ MerchantInit
  /\ campaign = [status |-> "none", current |-> 0]
  /\ version = [n \in Versions |-> NoVersion]
  /\ vetted = [n \in Versions |-> "none"]
  /\ op = [h \in Handlers |-> Idle]

-----------------------------------------------------------------------------
(* Versions                                                                *)

\* createCampaign: the campaign, its first version and the version's
\* operations are inserted by one transaction.
CreateCampaign(h, o) ==
  /\ op[h] = Idle /\ merchant # "none"
  /\ campaign.status = "none"
  /\ campaign' = [status |-> "draft", current |-> 1]
  /\ version' = [version EXCEPT ![1] = [origin |-> o, sig |-> NoSignature]]
  /\ UNCHANGED <<merchantVars, vetted, op>>

\* Slip: a closed campaign can be versioned.
VersionableAlways(c) == c.status # "none"

Versionable(c) == c.status \notin {"none", "closed"}

\* createCampaignVersion reads the campaign ...
RequestVersion(h, o) ==
  /\ op[h] = Idle
  /\ Versionable(campaign) /\ campaign.current < MaxVersion
  /\ op' = [op EXCEPT ![h] = [pc |-> "version", origin |-> o, seen |-> campaign]]
  /\ UNCHANGED <<merchantVars, db>>

\* Slip: the version is inserted over the one that is there.
NumberFreeAlways(n) == TRUE

\* The primary key of campaign_versions.
NumberFree(n) == ~Exists(n)

\* ... and a transaction inserts the next version and makes it the current
\* one, whatever has become of the campaign; a taken number is a conflict.
CommitVersion(h) ==
  /\ op[h].pc = "version"
  /\ LET n == op[h].seen.current + 1
     IN  IF NumberFree(n)
         THEN /\ version' = [version EXCEPT ![n] =
                               [origin |-> op[h].origin, sig |-> NoSignature]]
              /\ campaign' = [status |-> "draft", current |-> n]
         ELSE UNCHANGED <<version, campaign>>
  /\ op' = [op EXCEPT ![h] = Idle]
  /\ UNCHANGED <<merchantVars, vetted>>

-----------------------------------------------------------------------------
(* Activation                                                              *)

\* The handler takes the version the client names, or else the current one
\* (n), whose origin it is going to check; the body holds a signature.
RequestActivation(h, sig) ==
  /\ op[h] = Idle
  /\ campaign.status # "none"
  /\ \E n \in IF VersionNamed THEN Versions ELSE {campaign.current} :
        /\ Exists(n)
        /\ op' = [op EXCEPT ![h] = [pc |-> "profile", sig |-> sig, n |-> n,
                                    origin |-> version[n].origin]]
  /\ UNCHANGED <<merchantVars, db>>

ProfileVetted(o) == merchant = "active" /\ origin[o] = "verified"

Fail(h) == op' = [op EXCEPT ![h] = Idle]

CheckProfile(h) ==
  /\ op[h].pc = "profile"
  /\ IF ProfileVetted(op[h].origin)
     THEN op' = [op EXCEPT ![h].pc = "key"]
     ELSE Fail(h)
  /\ UNCHANGED <<merchantVars, db>>

CheckKey(h) ==
  /\ op[h].pc = "key"
  /\ IF ResolvesKey(op[h].sig.kid)
     THEN op' = [op EXCEPT ![h].pc = "registry"]
     ELSE Fail(h)
  /\ UNCHANGED <<merchantVars, db>>

\* Slip: the signature is not compared with the terms.
VerifiesAny(sig, n) == TRUE

\* verifyCampaignTermsSignature
Verifies(sig, n) == sig.n = n /\ sig.origin = version[n].origin

\* Slip: the registry activates the current version, not the one named.
TargetCurrent(o) == campaign.current

\* Without a named version the one to activate is the current one of now.
Target(o) == IF VersionNamed THEN o.n ELSE campaign.current

\* activateCampaignVersion reads the campaign again.
ReadForActivation(h) ==
  /\ op[h].pc = "registry"
  /\ LET o == op[h]
         n == Target(o)
     IN  IF /\ campaign.status # "closed"
            /\ n = campaign.current
            /\ ~Signed(n)              \* else an answer or a conflict
            /\ Verifies(o.sig, n)
         THEN op' = [op EXCEPT ![h] = [pc |-> "activate", sig |-> o.sig, n |-> n,
                                       origin |-> o.origin, seen |-> campaign]]
         ELSE Fail(h)
  /\ UNCHANGED <<merchantVars, db>>

\* The transaction signs the version if nobody else has, and only then sets
\* the campaign active, whatever has become of it.
CommitActivation(h) ==
  /\ op[h].pc = "activate"
  /\ LET n == op[h].n
     IN  IF ~Signed(n)
         THEN /\ version' = [version EXCEPT ![n].sig = op[h].sig]
              /\ vetted' = [vetted EXCEPT ![n] = op[h].origin]
              /\ campaign' = [campaign EXCEPT !.status = "active"]
         ELSE UNCHANGED db
  /\ Fail(h)
  /\ UNCHANGED merchantVars

-----------------------------------------------------------------------------
(* Pausing, resuming and closing                                           *)

\* Slip: a draft can be resumed.
AllowedFromDraft(from, to) ==
  \/ to = "closed"
  \/ to = "paused" /\ from = "active"
  \/ to = "active" /\ from \in {"paused", "draft"}

\* assertCampaignStatusTransition
Allowed(from, to) ==
  \/ to = "closed"
  \/ to = "paused" /\ from = "active"
  \/ to = "active" /\ from = "paused"

RequestStatus(h, to) ==
  /\ op[h] = Idle
  /\ campaign.status # "none"
  /\ Allowed(campaign.status, to)
  /\ op' = [op EXCEPT ![h] = [pc |-> "status", next |-> to, seen |-> campaign]]
  /\ UNCHANGED <<merchantVars, db>>

\* The update names the status that was read; when another one is found the
\* request is a conflict, or done already.
CommitStatus(h) ==
  /\ op[h].pc = "status"
  /\ IF campaign.status = op[h].seen.status
     THEN campaign' = [campaign EXCEPT !.status = op[h].next]
     ELSE UNCHANGED campaign
  /\ Fail(h)
  /\ UNCHANGED <<merchantVars, version, vetted>>

Crash(h) ==
  /\ op[h] # Idle
  /\ Fail(h)
  /\ UNCHANGED <<merchantVars, db>>

-----------------------------------------------------------------------------

HandlerStep(h) ==
  \/ \E o \in Origins : CreateCampaign(h, o) \/ RequestVersion(h, o)
  \/ CommitVersion(h)
  \/ \E sig \in Signatures : RequestActivation(h, sig)
  \/ CheckProfile(h) \/ CheckKey(h)
  \/ ReadForActivation(h) \/ CommitActivation(h)
  \/ \E to \in {"active", "paused", "closed"} : RequestStatus(h, to)
  \/ CommitStatus(h)
  \/ Crash(h)

Next ==
  \/ MerchantNext /\ UNCHANGED <<db, op>>
  \/ \E h \in Handlers : HandlerStep(h)

Spec == Init /\ [][Next]_vars

-----------------------------------------------------------------------------
(* Properties                                                              *)

\* A signature on record is one over the terms on record, although it was
\* verified against terms read before the transaction that records it.
SignatureCoversTerms ==
  \A n \in Versions :
    Signed(n) => version[n].sig.n = n /\ version[n].sig.origin = version[n].origin

\* Versions are immutable: whatever requests overlap, a version stays, keeps
\* its terms and, once signed, its signature, and the current version is the
\* last one and never an earlier one than before.
VersionsAreImmutable ==
  [][/\ \A n \in Versions :
          /\ Exists(n) => Exists(n)' /\ version'[n].origin = version[n].origin
          /\ Signed(n) => version'[n].sig = version[n].sig
     /\ campaign'.current >= campaign.current
     /\ \A n \in Versions : Exists(n)' <=> n <= campaign'.current]_vars

\* A campaign is offered, or can be resumed, only once the merchant has signed
\* a version of it: no overlap of versioning, pausing, resuming and activation
\* makes an unsigned campaign active.
OfferedIsSigned ==
  campaign.status \in {"active", "paused"} => \E n \in Versions : Signed(n)

\* A closed campaign is brought back only by a request that had read it before
\* it was closed; what is asked for afterwards leaves it closed.
LaterRequestsKeepClosed ==
  [][campaign.status = "closed" /\ campaign'.status # "closed"
     => \E h \in Handlers : /\ op[h].pc \in {"version", "activate"}
                            /\ op[h].seen.status # "closed"
                            /\ op'[h] = Idle]_vars

\* A version is signed only after the proof of its own origin was found to be
\* verified, also when the campaign is versioned while it is activated.
\* Clients that leave the version out may lose this.
SignedOriginIsVetted ==
  VersionNamed => \A n \in Versions : Signed(n) => vetted[n] = version[n].origin

=============================================================================
