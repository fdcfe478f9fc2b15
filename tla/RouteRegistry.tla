--------------------------- MODULE RouteRegistry ---------------------------
(***************************************************************************)
(* One route in PostgresRouteRegistry: its activation by a signed claim,   *)
(* the rotation of its payout wallet by further claims, suspension, and    *)
(* the policy check of receipts that name one of its claims.  The row of   *)
(* routes and the rows of route_versions are written by separate           *)
(* statements without a transaction, so requests meet between them and a   *)
(* crash leaves one without the other.                                     *)
(*                                                                         *)
(* Claims that could rotate the route agree in everything but their payout *)
(* wallet and their times; of the campaign only what requests read is kept.*)
(***************************************************************************)
EXTENDS Naturals

CONSTANTS Claims,      \* referrer-signed claims for the route
          Wallets,     \* payout wallets
          PayoutWallet, IssuedAt,  \* wallet and time of each claim
          VersionMin,  \* the campaign version all of them require
          Handlers, MaxVersion, MaxCampaign, NoClaim

ASSUME RouteAssumption ==
  /\ NoClaim \notin Claims
  /\ PayoutWallet \in [Claims -> Wallets] /\ IssuedAt \in [Claims -> Nat]
  /\ VersionMin \in Nat /\ MaxVersion \in Nat \ {0} /\ MaxCampaign \in Nat \ {0}

VARIABLES
  campaign,  \* whether the route's campaign is active, and its current version
  route,     \* the row of routes
  version,   \* the rows of route_versions: the claim of each version
  known,     \* claims a client was told are those of an active route
  orphaned,  \* claims whose writer died between its two statements
  accepted,  \* claim and wallet of the receipts found to conform to policy
  op         \* the request each handler serves

db   == <<route, version>>
vars == <<campaign, db, known, orphaned, accepted, op>>

Versions == 1 .. MaxVersion
Receipts == [claim : Claims, wallet : Wallets, at : {IssuedAt[c] : c \in Claims}]

Idle == [pc |-> "idle"]
Ops  ==
  {Idle}
  \cup [pc : {"insert", "byRoute", "byVersion", "rotate"}, claim : Claims]
  \cup [pc : {"lookup", "point", "duplicate"}, claim : Claims, n : Versions]
  \cup [pc : {"insertVersion"}, claim : Claims, n : Versions, first : BOOLEAN]
  \cup [pc : {"toggle"}, to : {"active", "suspended"}]
  \cup [pc : {"versions"}, receipt : Receipts]

TypeOK ==
  /\ campaign \in [active : BOOLEAN, current : 1 .. MaxCampaign]
  /\ route \in [status : {"none", "active", "suspended"}, current : 0 .. MaxVersion,
                claim : Claims \cup {NoClaim}]
  /\ version \in [Versions -> Claims \cup {NoClaim}]
  /\ known \subseteq Claims /\ orphaned \subseteq Claims
  /\ accepted \subseteq [claim : Claims, wallet : Wallets]
  /\ op \in [Handlers -> Ops]

Init ==
  /\ campaign = [active |-> FALSE, current |-> 1]
  /\ route = [status |-> "none", current |-> 0, claim |-> NoClaim]
  /\ version = [n \in Versions |-> NoClaim]
  /\ known = {} /\ orphaned = {} /\ accepted = {}
  /\ op = [h \in Handlers |-> Idle]

Registered(c) == \E n \in Versions : version[n] = c

Goto(h, o)   == op' = [op EXCEPT ![h] = o]
Refuse(h)    == Goto(h, Idle) /\ UNCHANGED <<known, orphaned>>
Answer(h, c) == Goto(h, Idle) /\ known' = known \cup {c} /\ UNCHANGED orphaned
GoOn(h, o)   == Goto(h, o) /\ UNCHANGED <<known, orphaned>>

\* The campaign registry: a new version is a draft.
CampaignStep ==
  /\ \/ campaign' = [campaign EXCEPT !.active = ~@]
     \/ /\ campaign.current < MaxCampaign
        /\ campaign' = [active |-> FALSE, current |-> campaign.current + 1]
  /\ UNCHANGED <<db, known, orphaned, accepted, op>>

\* loadActiveCampaignForRoute and the handler's check of the claim against it.
CampaignAllows == campaign.active /\ VersionMin <= campaign.current

-----------------------------------------------------------------------------
(* Activation                                                              *)

\* A claim that has expired, or fails another check of its own, goes no further.
RequestRoute(h, c) ==
  /\ op[h] = Idle /\ CampaignAllows
  /\ GoOn(h, [pc |-> "insert", claim |-> c])
  /\ UNCHANGED <<campaign, db, accepted>>

InsertRoute(h) ==
  /\ op[h].pc = "insert"
  /\ LET c == op[h].claim
     IN  IF route.status = "none"
         THEN /\ route' = [status |-> "active", current |-> 1, claim |-> c]
              /\ GoOn(h, [pc |-> "insertVersion", claim |-> c, n |-> 1, first |-> TRUE])
         ELSE /\ GoOn(h, [pc |-> "byRoute", claim |-> c])
              /\ UNCHANGED route
  /\ UNCHANGED <<campaign, version, accepted>>

\* A unique violation of an activation: the route of this claim, or the one
\* that has it as a version, is the answer, another claim's is a conflict.
FindByRoute(h) ==
  /\ op[h].pc = "byRoute"
  /\ LET c == op[h].claim
     IN  IF route.claim = c THEN Answer(h, c)
         ELSE GoOn(h, [pc |-> "byVersion", claim |-> c])
  /\ UNCHANGED <<campaign, db, accepted>>

FindByVersion(h) ==
  /\ op[h].pc = "byVersion"
  /\ LET c == op[h].claim
     IN  IF Registered(c) THEN Answer(h, c) ELSE Refuse(h)
  /\ UNCHANGED <<campaign, db, accepted>>

-----------------------------------------------------------------------------
(* Rotation                                                                *)

RequestRotation(h, c) ==
  /\ op[h] = Idle /\ CampaignAllows
  /\ GoOn(h, [pc |-> "rotate", claim |-> c])
  /\ UNCHANGED <<campaign, db, accepted>>

ReadRoute(h) ==
  /\ op[h].pc = "rotate"
  /\ IF route.status = "active" /\ route.current < MaxVersion
     THEN GoOn(h, [pc |-> "lookup", claim |-> op[h].claim, n |-> route.current + 1])
     ELSE Refuse(h)
  /\ UNCHANGED <<campaign, db, accepted>>

\* A claim that is a version already is answered with the route that was read.
LookupClaim(h) ==
  /\ op[h].pc = "lookup"
  /\ LET c == op[h].claim
     IN  IF Registered(c) THEN Answer(h, c)
         ELSE GoOn(h, [pc |-> "insertVersion", claim |-> c, n |-> op[h].n, first |-> FALSE])
  /\ UNCHANGED <<campaign, db, accepted>>

\* Slip: only the claim is unique.
FreeForAnyNumber(n, c) == ~Registered(c)

\* The primary key of route_versions and the unique claim_hash.
Free(n, c) == version[n] = NoClaim /\ ~Registered(c)

InsertVersion(h) ==
  /\ op[h].pc = "insertVersion"
  /\ LET o == op[h]
     IN  IF Free(o.n, o.claim)
         THEN /\ version' = [version EXCEPT ![o.n] = o.claim]
              /\ IF o.first THEN Answer(h, o.claim)
                 ELSE GoOn(h, [pc |-> "point", claim |-> o.claim, n |-> o.n])
         ELSE /\ GoOn(h, IF o.first THEN [pc |-> "byRoute", claim |-> o.claim]
                         ELSE [pc |-> "duplicate", claim |-> o.claim, n |-> o.n])
              /\ UNCHANGED version
  /\ UNCHANGED <<campaign, route, accepted>>

\* Slip: a route suspended meanwhile is not pointed to its new version.
PointRouteIfActive(h) ==
  /\ op[h].pc = "point"
  /\ LET o == op[h]
     IN  /\ IF route.current = o.n - 1 /\ route.status = "active"
            THEN route' = [route EXCEPT !.current = o.n, !.claim = o.claim]
            ELSE UNCHANGED route
         /\ Answer(h, o.claim)
  /\ UNCHANGED <<campaign, version, accepted>>

\* updateRouteCurrentVersion; the rotation is reported also if it finds
\* another current version.
PointRoute(h) ==
  /\ op[h].pc = "point"
  /\ LET o == op[h]
     IN  /\ IF route.current = o.n - 1
            THEN route' = [route EXCEPT !.current = o.n, !.claim = o.claim]
            ELSE UNCHANGED route
         /\ Answer(h, o.claim)
  /\ UNCHANGED <<campaign, version, accepted>>

\* Slip: whatever was there already is taken for this claim.
FindDuplicateAssumed(h) ==
  /\ op[h].pc = "duplicate"
  /\ Answer(h, op[h].claim)
  /\ UNCHANGED <<campaign, db, accepted>>

\* A unique violation of a rotation: a duplicate of this claim, or a conflict.
FindDuplicate(h) ==
  /\ op[h].pc = "duplicate"
  /\ IF Registered(op[h].claim) THEN Answer(h, op[h].claim) ELSE Refuse(h)
  /\ UNCHANGED <<campaign, db, accepted>>

-----------------------------------------------------------------------------
(* Suspension                                                              *)

Opposite(s) == IF s = "active" THEN "suspended" ELSE "active"

RequestStatus(h, to) ==
  /\ op[h] = Idle
  /\ route.status = Opposite(to)
  /\ GoOn(h, [pc |-> "toggle", to |-> to])
  /\ UNCHANGED <<campaign, db, accepted>>

CommitStatus(h) ==
  /\ op[h].pc = "toggle"
  /\ route' = IF route.status = Opposite(op[h].to)
              THEN [route EXCEPT !.status = op[h].to] ELSE route
  /\ Refuse(h)
  /\ UNCHANGED <<campaign, version, accepted>>

-----------------------------------------------------------------------------
(* The route part of ControlPlaneReceiptPolicyVerifier                     *)

\* The route must be active and not have been issued after the receipt.
VerifyReceipt(h, r) ==
  /\ op[h] = Idle /\ campaign.active
  /\ route.status = "active" /\ IssuedAt[route.claim] <= r.at
  /\ GoOn(h, [pc |-> "versions", receipt |-> r])
  /\ UNCHANGED <<campaign, db, accepted>>

\* Slip: any wallet the route has had is good enough.
ConformsToRoute(r) ==
  /\ Registered(r.claim)
  /\ \E c \in Claims : Registered(c) /\ r.wallet = PayoutWallet[c]

\* The claim the receipt names must be a version, and pay the same wallet.
Conforms(r) == Registered(r.claim) /\ r.wallet = PayoutWallet[r.claim]

MatchVersion(h) ==
  /\ op[h].pc = "versions"
  /\ LET r == op[h].receipt
     IN  accepted' = accepted \cup
           (IF Conforms(r) THEN {[claim |-> r.claim, wallet |-> r.wallet]} ELSE {})
  /\ Refuse(h)
  /\ UNCHANGED <<campaign, db>>

Crash(h) ==
  /\ op[h] # Idle
  /\ Goto(h, Idle)
  /\ orphaned' = orphaned \cup
       (IF op[h].pc \in {"insertVersion", "point"} THEN {op[h].claim} ELSE {})
  /\ UNCHANGED <<campaign, db, known, accepted>>

-----------------------------------------------------------------------------

HandlerStep(h) ==
  \/ \E c \in Claims : RequestRoute(h, c) \/ RequestRotation(h, c)
  \/ InsertRoute(h) \/ FindByRoute(h) \/ FindByVersion(h)
  \/ ReadRoute(h) \/ LookupClaim(h) \/ InsertVersion(h)
  \/ PointRoute(h) \/ FindDuplicate(h)
  \/ \E to \in {"active", "suspended"} : RequestStatus(h, to)
  \/ CommitStatus(h)
  \/ \E r \in Receipts : VerifyReceipt(h, r)
  \/ MatchVersion(h)
  \/ Crash(h)

Next == CampaignStep \/ \E h \in Handlers : HandlerStep(h)

Spec == Init /\ [][Next]_vars

-----------------------------------------------------------------------------
(* Properties                                                              *)

\* The claim a route shows is the one its current version is registered with,
\* whatever rotations raced; only a first version may still be missing.
PointerIsRegistered ==
  route.current > 0 =>
    \/ version[route.current] = route.claim
    \/ route.current = 1 /\ version[1] = NoClaim

\* A version ahead of its route is being pointed to by the request that
\* inserted it, unless that request has died: no race leaves one behind.
VersionAheadIsInHand ==
  \A n \in Versions :
    n > route.current /\ version[n] # NoClaim =>
      \/ version[n] \in orphaned
      \/ \E h \in Handlers : op[h].pc = "point" /\ op[h].n = n /\ op[h].claim = version[n]

\* A referrer who was told of an active route has its claim registered, so
\* that receipts for it count, or its first version is just being written,
\* unless the writer has died.
AnsweredIsRegistered ==
  \A c \in known :
    \/ Registered(c)
    \/ c \in orphaned
    \/ \E h \in Handlers : op[h].pc = "insertVersion" /\ op[h].first /\ op[h].claim = c

\* An accepted receipt pays the wallet its referrer signed for, under a claim
\* that is still on record, however often the wallet is rotated meanwhile.
CreditFollowsClaim ==
  \A r \in accepted : Registered(r.claim) /\ r.wallet = PayoutWallet[r.claim]

=============================================================================
