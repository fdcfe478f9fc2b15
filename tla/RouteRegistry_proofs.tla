------------------------ MODULE RouteRegistry_proofs ------------------------
(***************************************************************************)
(* The route registry for any number of claims, wallets, versions and      *)
(* handlers: its two tables are written by separate statements, and still  *)
(* the route points to what is registered, a version is ahead of it only   *)
(* while its writer lives, and credit goes where the referrer signed it.   *)
(***************************************************************************)
EXTENDS RouteRegistry, TLAPS

\* The request that inserted the route and has its first version in hand.
First(o) == o.pc = "insertVersion" /\ o.first

Answerable(c) ==
  Registered(c) \/ c \in orphaned \/ \E h \in Handlers : First(op[h]) /\ op[h].claim = c

RouteIsAnswerable ==
  /\ route.current = 0 <=> route.status = "none"
  /\ route.current = 0 => route.claim = NoClaim /\ \A n \in Versions : version[n] = NoClaim
  /\ route.current > 0 => route.claim \in Claims /\ Answerable(route.claim)

\* What a request may know at its place in this state: the number it writes is
\* at most the next one, and the first version is written by nobody else.
Sound(o) ==
  /\ o.pc \in {"lookup", "insertVersion", "point", "duplicate"} =>
       route.current > 0 /\ o.n <= route.current + 1
  /\ o.pc \in {"lookup", "point", "duplicate"} => o.n > 1
  /\ o.pc = "insertVersion" =>
       IF o.first THEN /\ o.n = 1 /\ version[1] = NoClaim
                       /\ route.current = 1 => route.claim = o.claim
       ELSE o.n > 1
  /\ o.pc = "point" => version[o.n] = o.claim

RequestsSound == \A h \in Handlers : Sound(op[h])
OneFirst      == \A g, h \in Handlers : First(op[g]) /\ First(op[h]) => g = h

IInv ==
  /\ TypeOK /\ RouteIsAnswerable /\ RequestsSound /\ OneFirst
  /\ PointerIsRegistered /\ VersionAheadIsInHand /\ AnsweredIsRegistered
  /\ CreditFollowsClaim

\* The inductive invariant holds initially.
LEMMA InitIInv == Init => IInv
<1> SUFFICES ASSUME Init PROVE IInv
  OBVIOUS
<1>1. TypeOK
  BY RouteAssumption DEF Init, TypeOK, Ops, Idle
<1>2. RouteIsAnswerable /\ RequestsSound /\ OneFirst
  BY DEF Init, RouteIsAnswerable, RequestsSound, Sound, OneFirst, First, Idle
<1>3. /\ PointerIsRegistered /\ VersionAheadIsInHand /\ AnsweredIsRegistered
      /\ CreditFollowsClaim
  BY DEF Init, PointerIsRegistered, VersionAheadIsInHand, AnsweredIsRegistered,
         CreditFollowsClaim
<1> QED BY <1>1, <1>2, <1>3 DEF IInv

\* A request knows what its place says it knows.
LEMMA OpShape ==
  ASSUME TypeOK, NEW h \in Handlers
  PROVE  /\ op[h].pc \in {"insert", "byRoute", "byVersion", "rotate"} =>
              op[h] \in [pc : {"insert", "byRoute", "byVersion", "rotate"}, claim : Claims]
         /\ op[h].pc \in {"lookup", "point", "duplicate"} =>
              op[h] \in [pc : {"lookup", "point", "duplicate"}, claim : Claims, n : Versions]
         /\ op[h].pc = "insertVersion" =>
              op[h] \in [pc : {"insertVersion"}, claim : Claims, n : Versions, first : BOOLEAN]
         /\ op[h].pc = "toggle" => op[h] \in [pc : {"toggle"}, to : {"active", "suspended"}]
         /\ op[h].pc = "versions" => op[h] \in [pc : {"versions"}, receipt : Receipts]
  BY DEF TypeOK, Ops, Idle

-----------------------------------------------------------------------------
(* Preservation                                                            *)

\* A step that writes no version and at most the status of the route.  A
\* request that leaves a version unwritten or unpointed to leaves its claim
\* registered or orphaned.
LEMMA Moving ==
  ASSUME IInv, NEW h \in Handlers, NEW o \in Ops, op' = [op EXCEPT ![h] = o],
         Sound(o), ~First(o),
         UNCHANGED <<campaign, version>>,
         route' \in [status : {"none", "active", "suspended"}, current : 0 .. MaxVersion,
                     claim : Claims \cup {NoClaim}],
         route'.current = route.current, route'.claim = route.claim,
         route'.status = "none" <=> route.status = "none",
         orphaned \subseteq orphaned', orphaned' \subseteq Claims,
         First(op[h]) => Registered(op[h].claim) \/ op[h].claim \in orphaned',
         op[h].pc = "point" => op[h].claim \in orphaned',
         known' \subseteq Claims, \A c \in known' : c \in known \/ Answerable(c),
         accepted' \subseteq [claim : Claims, wallet : Wallets],
         \A r \in accepted' : r \in accepted \/ Conforms(r)
  PROVE  IInv'
<1>1. op'[h] = o /\ \A g \in Handlers : g # h => op'[g] = op[g]
  BY DEF IInv, TypeOK
<1>2. TypeOK'
  BY DEF IInv, TypeOK
<1>3. \A c : Answerable(c) => Answerable(c)'
  BY <1>1 DEF Answerable, Registered
<1>4. RouteIsAnswerable'
  BY <1>3 DEF IInv, RouteIsAnswerable
<1>5. RequestsSound' /\ OneFirst'
  BY <1>1 DEF IInv, RequestsSound, Sound, OneFirst, First
<1>6. PointerIsRegistered'
  BY DEF IInv, PointerIsRegistered
<1>7. VersionAheadIsInHand'
  <2>1. \A n \in Versions, g \in Handlers :
          op[g].pc = "point" /\ op[g].n = n /\ op[g].claim = version[n] =>
            \/ version'[n] \in orphaned'
            \/ op'[g].pc = "point" /\ op'[g].n = n /\ op'[g].claim = version'[n]
    BY <1>1
  <2> QED BY <2>1 DEF IInv, VersionAheadIsInHand
<1>8. AnsweredIsRegistered'
  <2>1. \A c \in known' : Answerable(c)
    BY DEF IInv, AnsweredIsRegistered, Answerable, First
  <2> QED BY <1>3, <2>1 DEF AnsweredIsRegistered, Answerable, First
<1>9. CreditFollowsClaim'
  BY DEF IInv, CreditFollowsClaim, Conforms, Registered
<1> QED BY <1>2, <1>4, <1>5, <1>6, <1>7, <1>8, <1>9 DEF IInv

\* What holds of a step that leaves the route, its versions and the orphans.
LEMMA Reading ==
  ASSUME IInv, NEW h \in Handlers, NEW o \in Ops, op' = [op EXCEPT ![h] = o],
         Sound(o), ~First(o), op[h].pc \notin {"insertVersion", "point"},
         UNCHANGED <<campaign, route, version, orphaned, accepted>>,
         known' \subseteq Claims, \A c \in known' : c \in known \/ Answerable(c)
  PROVE  IInv'
<1>1. route' \in [status : {"none", "active", "suspended"}, current : 0 .. MaxVersion,
                  claim : Claims \cup {NoClaim}]
  BY DEF IInv, TypeOK
<1>2. orphaned' \subseteq Claims /\ accepted' \subseteq [claim : Claims, wallet : Wallets]
  BY DEF IInv, TypeOK
<1> QED BY <1>1, <1>2, Moving DEF First

LEMMA IdleIsSound == Idle \in Ops /\ Sound(Idle) /\ ~First(Idle)
  BY DEF Idle, Ops, Sound, First

LEMMA RequestSteps ==
  ASSUME IInv, NEW h \in Handlers,
         \/ \E c \in Claims : RequestRoute(h, c) \/ RequestRotation(h, c)
         \/ \E to \in {"active", "suspended"} : RequestStatus(h, to)
         \/ \E r \in Receipts : VerifyReceipt(h, r)
  PROVE  IInv'
<1> DEFINE Asked == [pc : {"insert", "rotate"}, claim : Claims]
                      \cup [pc : {"toggle"}, to : {"active", "suspended"}]
                      \cup [pc : {"versions"}, receipt : Receipts]
<1>1. \A o \in Asked : o \in Ops /\ Sound(o) /\ ~First(o)
  BY DEF Ops, Sound, First
<1>2. \E o \in Asked : /\ op[h] = Idle /\ GoOn(h, o)
                        /\ UNCHANGED <<campaign, db, accepted>>
  <2>1. CASE \E c \in Claims : RequestRoute(h, c)
    BY <2>1 DEF RequestRoute
  <2>2. CASE \E c \in Claims : RequestRotation(h, c)
    BY <2>2 DEF RequestRotation
  <2>3. CASE \E to \in {"active", "suspended"} : RequestStatus(h, to)
    BY <2>3 DEF RequestStatus
  <2>4. CASE \E r \in Receipts : VerifyReceipt(h, r)
    BY <2>4 DEF VerifyReceipt
  <2> QED BY <2>1, <2>2, <2>3, <2>4
<1> HIDE DEF Asked
<1>3. PICK o \in Asked : /\ op[h] = Idle /\ GoOn(h, o)
                        /\ UNCHANGED <<campaign, db, accepted>>
  BY <1>2
<1>4. /\ op' = [op EXCEPT ![h] = o]
      /\ UNCHANGED <<campaign, route, version, known, orphaned, accepted>>
  BY <1>3 DEF GoOn, Goto, db
<1>5. op[h].pc \notin {"insertVersion", "point"}
  BY <1>3 DEF Idle
<1>6. known' \subseteq Claims /\ \A c \in known' : c \in known
  BY <1>4 DEF IInv, TypeOK
<1> QED BY <1>1, <1>3, <1>4, <1>5, <1>6, Reading

LEMMA FindByRouteStep ==
  ASSUME IInv, NEW h \in Handlers, FindByRoute(h)
  PROVE  IInv'
<1> DEFINE c == op[h].claim
           o == [pc |-> "byVersion", claim |-> c]
<1>1. /\ c \in Claims /\ op[h].pc \notin {"insertVersion", "point"}
      /\ UNCHANGED <<campaign, route, version, orphaned, accepted>>
  BY OpShape DEF FindByRoute, IInv, Answer, GoOn, db
<1>2. CASE route.claim = c
  <2>1. op' = [op EXCEPT ![h] = Idle] /\ known' = known \cup {c}
    BY <1>2 DEF FindByRoute, Answer, Goto
  <2>2. Answerable(c)
    BY <1>1, <1>2, RouteAssumption DEF IInv, TypeOK, RouteIsAnswerable
  <2>3. known' \subseteq Claims /\ \A d \in known' : d \in known \/ Answerable(d)
    BY <1>1, <2>1, <2>2 DEF IInv, TypeOK
  <2> QED BY <1>1, <2>1, <2>3, IdleIsSound, Reading
<1>3. CASE route.claim # c
  <2>1. op' = [op EXCEPT ![h] = o] /\ known' = known
    BY <1>3 DEF FindByRoute, GoOn, Goto
  <2>2. o \in Ops /\ Sound(o) /\ ~First(o)
    BY <1>1 DEF Ops, Sound, First
  <2> HIDE DEF o
  <2> QED BY <1>1, <2>1, <2>2, Reading DEF IInv, TypeOK
<1> QED BY <1>2, <1>3

\* An answer about a registered claim, a refusal, or a version to insert.
LEMMA LookupSteps ==
  ASSUME IInv, NEW h \in Handlers, FindByVersion(h) \/ LookupClaim(h) \/ FindDuplicate(h)
  PROVE  IInv'
<1> DEFINE c == op[h].claim
           o == [pc |-> "insertVersion", claim |-> c, n |-> op[h].n, first |-> FALSE]
<1>1. /\ c \in Claims /\ op[h].pc \notin {"insertVersion", "point"}
      /\ UNCHANGED <<campaign, route, version, orphaned, accepted>>
  BY OpShape DEF FindByVersion, LookupClaim, FindDuplicate, IInv, Answer, Refuse, GoOn, db
<1>2. CASE Registered(c)
  <2>1. op' = [op EXCEPT ![h] = Idle] /\ known' = known \cup {c}
    BY <1>2 DEF FindByVersion, LookupClaim, FindDuplicate, Answer, Goto
  <2>2. known' \subseteq Claims /\ \A d \in known' : d \in known \/ Answerable(d)
    BY <1>1, <1>2, <2>1 DEF IInv, TypeOK, Answerable
  <2> QED BY <1>1, <2>1, <2>2, IdleIsSound, Reading
<1>3. CASE ~Registered(c) /\ ~LookupClaim(h)
  <2>1. op' = [op EXCEPT ![h] = Idle] /\ known' = known
    BY <1>3 DEF FindByVersion, FindDuplicate, Refuse, Goto
  <2> QED BY <1>1, <2>1, IdleIsSound, Reading DEF IInv, TypeOK
<1>4. CASE ~Registered(c) /\ LookupClaim(h)
  <2>1. /\ op' = [op EXCEPT ![h] = o] /\ known' = known /\ op[h].pc = "lookup"
    BY <1>4 DEF LookupClaim, GoOn, Goto
  <2>2. o \in Ops /\ ~First(o)
    BY <1>1, <2>1, OpShape DEF Ops, First, IInv
  <2>3. Sound(o)
    BY <2>1 DEF IInv, RequestsSound, Sound
  <2> HIDE DEF o
  <2> QED BY <1>1, <2>1, <2>2, <2>3, Reading DEF IInv, TypeOK
<1> QED BY <1>2, <1>3, <1>4

LEMMA ReadRouteStep ==
  ASSUME IInv, NEW h \in Handlers, ReadRoute(h)
  PROVE  IInv'
<1> DEFINE o == [pc |-> "lookup", claim |-> op[h].claim, n |-> route.current + 1]
<1>1. /\ op[h].claim \in Claims /\ op[h].pc \notin {"insertVersion", "point"}
      /\ UNCHANGED <<campaign, route, version, known, orphaned, accepted>>
  BY OpShape DEF ReadRoute, IInv, Refuse, GoOn, db
<1>2. CASE route.status = "active" /\ route.current < MaxVersion
  <2>1. op' = [op EXCEPT ![h] = o]
    BY <1>2 DEF ReadRoute, GoOn, Goto
  <2>2. route.current \in 0 .. MaxVersion /\ route.current > 0
    BY <1>2, RouteAssumption DEF IInv, TypeOK, RouteIsAnswerable
  <2>3. o \in Ops /\ Sound(o) /\ ~First(o)
    BY <1>1, <1>2, <2>2, RouteAssumption DEF Ops, Sound, First, Versions
  <2> HIDE DEF o
  <2> QED BY <1>1, <2>1, <2>3, Reading DEF IInv, TypeOK
<1>3. CASE ~(route.status = "active" /\ route.current < MaxVersion)
  <2>1. op' = [op EXCEPT ![h] = Idle]
    BY <1>3 DEF ReadRoute, Refuse, Goto
  <2> QED BY <1>1, <2>1, IdleIsSound, Reading DEF IInv, TypeOK
<1> QED BY <1>2, <1>3

LEMMA MatchVersionStep ==
  ASSUME IInv, NEW h \in Handlers, MatchVersion(h)
  PROVE  IInv'
<1>1. /\ op[h].receipt \in Receipts /\ ~First(op[h]) /\ op[h].pc # "point"
      /\ op' = [op EXCEPT ![h] = Idle]
      /\ UNCHANGED <<campaign, route, version, known, orphaned>>
  BY OpShape DEF MatchVersion, IInv, Refuse, Goto, First, db
<1>2. accepted' \subseteq [claim : Claims, wallet : Wallets]
  BY <1>1 DEF MatchVersion, IInv, TypeOK, Receipts
<1>3. \A r \in accepted' : r \in accepted \/ Conforms(r)
  BY DEF MatchVersion, Conforms
<1>4. /\ route \in [status : {"none", "active", "suspended"}, current : 0 .. MaxVersion,
                    claim : Claims \cup {NoClaim}]
      /\ known \subseteq Claims /\ orphaned \subseteq Claims
  BY DEF IInv, TypeOK
<1> QED BY <1>1, <1>2, <1>3, <1>4, IdleIsSound, Moving

LEMMA CommitStatusStep ==
  ASSUME IInv, NEW h \in Handlers, CommitStatus(h)
  PROVE  IInv'
<1>1. /\ op[h].to \in {"active", "suspended"} /\ ~First(op[h]) /\ op[h].pc # "point"
      /\ op' = [op EXCEPT ![h] = Idle]
      /\ UNCHANGED <<campaign, version, known, orphaned, accepted>>
  BY OpShape DEF CommitStatus, IInv, Refuse, Goto, First
<1>2. /\ route' \in [status : {"none", "active", "suspended"}, current : 0 .. MaxVersion,
                     claim : Claims \cup {NoClaim}]
      /\ route'.current = route.current /\ route'.claim = route.claim
      /\ route'.status = "none" <=> route.status = "none"
  BY <1>1 DEF CommitStatus, Opposite, IInv, TypeOK
<1>3. known \subseteq Claims /\ orphaned \subseteq Claims
      /\ accepted \subseteq [claim : Claims, wallet : Wallets]
  BY DEF IInv, TypeOK
<1> QED BY <1>1, <1>2, <1>3, IdleIsSound, Moving

LEMMA CrashStep ==
  ASSUME IInv, NEW h \in Handlers, Crash(h)
  PROVE  IInv'
<1>1. /\ op' = [op EXCEPT ![h] = Idle]
      /\ UNCHANGED <<campaign, route, version, known, accepted>>
      /\ orphaned' = orphaned \cup
           (IF op[h].pc \in {"insertVersion", "point"} THEN {op[h].claim} ELSE {})
  BY DEF Crash, Goto, db
<1>2. op[h].pc \in {"insertVersion", "point"} => op[h].claim \in Claims
  BY OpShape DEF IInv
<1>3. /\ route \in [status : {"none", "active", "suspended"}, current : 0 .. MaxVersion,
                    claim : Claims \cup {NoClaim}]
      /\ known \subseteq Claims /\ orphaned \subseteq Claims
      /\ accepted \subseteq [claim : Claims, wallet : Wallets]
  BY DEF IInv, TypeOK
<1>4. /\ orphaned \subseteq orphaned' /\ orphaned' \subseteq Claims
      /\ First(op[h]) => op[h].claim \in orphaned'
      /\ op[h].pc = "point" => op[h].claim \in orphaned'
  BY <1>1, <1>2, <1>3 DEF First
<1> QED BY <1>1, <1>3, <1>4, IdleIsSound, Moving

\* The first request for the route becomes the only writer of its first version.
LEMMA InsertRouteStep ==
  ASSUME IInv, NEW h \in Handlers, InsertRoute(h)
  PROVE  IInv'
<1> DEFINE c == op[h].claim
<1>1. /\ c \in Claims /\ op[h].pc \notin {"insertVersion", "point"}
      /\ UNCHANGED <<campaign, version, known, orphaned, accepted>>
  BY OpShape DEF InsertRoute, IInv, GoOn
<1>2. CASE route.status # "none"
  <2> DEFINE o == [pc |-> "byRoute", claim |-> c]
  <2>1. op' = [op EXCEPT ![h] = o] /\ UNCHANGED route
    BY <1>2 DEF InsertRoute, GoOn, Goto
  <2>2. o \in Ops /\ Sound(o) /\ ~First(o)
    BY <1>1 DEF Ops, Sound, First
  <2> HIDE DEF o
  <2> QED BY <1>1, <2>1, <2>2, Reading DEF IInv, TypeOK
<1>3. CASE route.status = "none"
  <2> DEFINE o == [pc |-> "insertVersion", claim |-> c, n |-> 1, first |-> TRUE]
  <2>1. /\ op' = [op EXCEPT ![h] = o]
        /\ route' = [status |-> "active", current |-> 1, claim |-> c]
    BY <1>3 DEF InsertRoute, GoOn, Goto
  <2>2. /\ route.current = 0 /\ \A n \in Versions : version[n] = NoClaim
        /\ \A g \in Handlers : op[g].pc \notin {"lookup", "insertVersion", "point", "duplicate"}
    BY <1>3 DEF IInv, RouteIsAnswerable, RequestsSound, Sound
  <2>3. op'[h] = o /\ \A g \in Handlers : g # h => op'[g] = op[g]
    BY <2>1 DEF IInv, TypeOK
  <2>4. 1 \in Versions
    BY RouteAssumption DEF Versions
  <2>5. TypeOK'
    <3>1. o \in Ops
      BY <1>1, <2>4 DEF Ops
    <3> HIDE DEF o
    <3> QED BY <1>1, <2>1, <3>1, RouteAssumption DEF IInv, TypeOK
  <2>6. RouteIsAnswerable'
    BY <1>1, <2>1, <2>3 DEF RouteIsAnswerable, Answerable, First
  <2>7. RequestsSound' /\ OneFirst'
    BY <1>1, <2>1, <2>2, <2>3, <2>4 DEF RequestsSound, Sound, OneFirst, First
  <2>8. PointerIsRegistered' /\ VersionAheadIsInHand'
    BY <1>1, <2>1, <2>2, <2>4 DEF PointerIsRegistered, VersionAheadIsInHand
  <2>9. AnsweredIsRegistered'
    BY <1>1, <2>2, <2>3 DEF IInv, AnsweredIsRegistered, Registered
  <2>10. CreditFollowsClaim'
    BY <1>1 DEF IInv, CreditFollowsClaim, Registered
  <2> QED BY <2>5, <2>6, <2>7, <2>8, <2>9, <2>10 DEF IInv
<1> QED BY <1>2, <1>3

\* A version is inserted under a free number; what has been registered stays.
LEMMA InsertVersionStep ==
  ASSUME IInv, NEW h \in Handlers, InsertVersion(h)
  PROVE  IInv'
<1> DEFINE o == op[h]
<1>1. /\ o \in [pc : {"insertVersion"}, claim : Claims, n : Versions, first : BOOLEAN]
      /\ o.pc = "insertVersion" /\ Sound(o)
      /\ UNCHANGED <<campaign, route, orphaned, accepted>>
  BY OpShape DEF InsertVersion, IInv, RequestsSound, Answer, GoOn
<1>2. CASE ~Free(o.n, o.claim)
  <2> DEFINE next == IF o.first THEN [pc |-> "byRoute", claim |-> o.claim]
                     ELSE [pc |-> "duplicate", claim |-> o.claim, n |-> o.n]
  <2>1. op' = [op EXCEPT ![h] = next] /\ UNCHANGED <<version, known>>
    BY <1>2 DEF InsertVersion, GoOn, Goto
  <2>2. next \in Ops /\ ~First(next)
    BY <1>1 DEF Ops, First
  <2>3. Sound(next)
    BY <1>1 DEF Sound
  <2>4. First(o) => Registered(o.claim)
    BY <1>1, <1>2 DEF First, Free, Sound
  <2>5. /\ route \in [status : {"none", "active", "suspended"}, current : 0 .. MaxVersion,
                      claim : Claims \cup {NoClaim}]
        /\ known \subseteq Claims /\ orphaned \subseteq Claims
        /\ accepted \subseteq [claim : Claims, wallet : Wallets]
    BY DEF IInv, TypeOK
  <2> HIDE DEF next
  <2> QED BY <1>1, <2>1, <2>2, <2>3, <2>4, <2>5, Moving
<1>3. CASE Free(o.n, o.claim)
  <2> DEFINE next == IF o.first THEN Idle
                     ELSE [pc |-> "point", claim |-> o.claim, n |-> o.n]
  <2>1. /\ op' = [op EXCEPT ![h] = next]
        /\ version' = [version EXCEPT ![o.n] = o.claim]
        /\ known' = IF o.first THEN known \cup {o.claim} ELSE known
    BY <1>3 DEF InsertVersion, GoOn, Goto, Answer
  <2>2. version[o.n] = NoClaim
    BY <1>3 DEF Free
  <2>3. /\ version'[o.n] = o.claim
        /\ \A n \in Versions : n # o.n => version'[n] = version[n]
        /\ op'[h] = next /\ \A g \in Handlers : g # h => op'[g] = op[g]
    BY <1>1, <2>1 DEF IInv, TypeOK
  <2>4. /\ next \in Ops /\ ~First(next)
        /\ next.pc = "point" => ~o.first /\ next.n = o.n /\ next.claim = o.claim
        /\ next.pc \notin {"lookup", "duplicate", "insertVersion"}
        /\ ~o.first => next.pc = "point"
    BY <1>1, IdleIsSound DEF Ops, First, Idle
  <2> HIDE DEF next
  <2>5. TypeOK'
    BY <1>1, <2>1, <2>4 DEF IInv, TypeOK
  <2>6. \A c \in Claims : Registered(c) \/ c = o.claim => Registered(c)'
    BY <1>1, <2>2, <2>3, RouteAssumption DEF Registered
  <2>7. \A c \in Claims : Answerable(c) => Answerable(c)'
    BY <1>1, <2>3, <2>6 DEF Answerable
  <2>8. o.n \in Nat /\ route.current \in Nat /\ route.current > 0
    BY <1>1, RouteAssumption DEF IInv, TypeOK, Versions, Sound
  <2>9. RouteIsAnswerable'
    BY <1>1, <2>7, <2>8 DEF IInv, RouteIsAnswerable
  <2>10. RequestsSound'
    <3> SUFFICES ASSUME NEW g \in Handlers PROVE Sound(op[g])'
      BY DEF RequestsSound
    <3>1. CASE g = h
      BY <1>1, <2>3, <2>4, <3>1 DEF Sound
    <3>2. CASE g # h
      <4>1. Sound(op[g]) /\ op'[g] = op[g]
        BY <2>3, <3>2 DEF IInv, RequestsSound
      <4>2. op[g].pc = "point" => op[g].n \in Versions /\ op[g].claim \in Claims
        BY OpShape DEF IInv
      <4>3. First(op[g]) => ~First(o)
        BY <3>2 DEF IInv, OneFirst
      <4>4. First(op[g]) => version'[1] = NoClaim
        BY <1>1, <2>3, <4>1, <4>3, RouteAssumption DEF First, Sound, Versions
      <4>5. op[g].pc = "point" => version'[op[g].n] = op[g].claim
        BY <2>2, <2>3, <4>1, <4>2, RouteAssumption DEF Sound
      <4> QED BY <1>1, <4>1, <4>4, <4>5 DEF Sound, First
    <3> QED BY <3>1, <3>2
  <2>11. OneFirst'
    BY <2>3, <2>4 DEF IInv, OneFirst, First
  <2>12. PointerIsRegistered'
    <3>1. CASE o.n = route.current
      BY <1>1, <2>3, <2>8, <3>1, <2>2, RouteAssumption
      DEF IInv, PointerIsRegistered, RouteIsAnswerable, Sound
    <3>2. CASE o.n # route.current
      <4>1. route.current \in Versions
        BY <2>8, RouteAssumption DEF IInv, TypeOK, Versions
      <4> QED BY <1>1, <2>3, <3>2, <4>1 DEF IInv, PointerIsRegistered
    <3> QED BY <3>1, <3>2
  <2>13. VersionAheadIsInHand'
    <3> SUFFICES ASSUME NEW n \in Versions, n > route.current, version'[n] # NoClaim
                 PROVE  \/ version'[n] \in orphaned
                        \/ \E g \in Handlers : /\ op'[g].pc = "point" /\ op'[g].n = n
                                               /\ op'[g].claim = version'[n]
      BY <1>1 DEF VersionAheadIsInHand
    <3>1. CASE n = o.n
      BY <1>1, <2>3, <2>4, <2>8, <3>1 DEF Sound
    <3>2. CASE n # o.n
      <4>1. \/ version[n] \in orphaned
            \/ \E g \in Handlers : /\ op[g].pc = "point" /\ op[g].n = n
                                   /\ op[g].claim = version[n]
        BY <2>3, <3>2 DEF IInv, VersionAheadIsInHand
      <4> QED BY <1>1, <2>3, <3>2, <4>1
    <3> QED BY <3>1, <3>2
  <2>14. AnsweredIsRegistered'
    <3>1. \A c \in known' : c \in Claims /\ (Answerable(c) \/ c = o.claim)
      BY <1>1, <2>1 DEF IInv, TypeOK, AnsweredIsRegistered, Answerable, First
    <3>2. \A c \in Claims : c = o.claim => Answerable(c)'
      BY <2>6 DEF Answerable
    <3> QED BY <2>7, <3>1, <3>2 DEF AnsweredIsRegistered, Answerable, First
  <2>15. CreditFollowsClaim'
    BY <1>1, <2>6 DEF IInv, TypeOK, CreditFollowsClaim
  <2> QED BY <2>5, <2>9, <2>10, <2>11, <2>12, <2>13, <2>14, <2>15 DEF IInv
<1> QED BY <1>2, <1>3

\* The route moves on by one, or has been moved on already.
LEMMA PointRouteStep ==
  ASSUME IInv, NEW h \in Handlers, PointRoute(h)
  PROVE  IInv'
<1> DEFINE o == op[h]
<1>1. /\ o \in [pc : {"lookup", "point", "duplicate"}, claim : Claims, n : Versions]
      /\ o.pc = "point" /\ Sound(o) /\ ~First(o)
      /\ UNCHANGED <<campaign, version, orphaned, accepted>>
      /\ op' = [op EXCEPT ![h] = Idle] /\ known' = known \cup {o.claim}
  BY OpShape DEF PointRoute, IInv, RequestsSound, Answer, Goto, First
<1>2. op'[h] = Idle /\ \A g \in Handlers : g # h => op'[g] = op[g]
  BY <1>1 DEF IInv, TypeOK
<1>3. /\ o.n \in Nat /\ o.n > 1 /\ o.n <= route.current + 1
      /\ route.current \in Nat /\ route.current > 0 /\ route.status # "none"
      /\ version[o.n] = o.claim /\ route.claim \in Claims
  BY <1>1, RouteAssumption DEF IInv, TypeOK, Versions, Sound, RouteIsAnswerable
<1>4. /\ route'.status = route.status
      /\ \/ route' = route /\ route.current # o.n - 1
         \/ route'.current = o.n /\ route'.claim = o.claim /\ route.current = o.n - 1
      /\ route' \in [status : {"none", "active", "suspended"}, current : 0 .. MaxVersion,
                     claim : Claims \cup {NoClaim}]
  <2>1. route \in [status : {"none", "active", "suspended"}, current : 0 .. MaxVersion,
                   claim : Claims \cup {NoClaim}]
    BY DEF IInv, TypeOK
  <2>2. o.n \in 0 .. MaxVersion /\ o.claim \in Claims
    BY <1>1, RouteAssumption DEF Versions
  <2>3. CASE route.current = o.n - 1
    <3>1. route' = [route EXCEPT !.current = o.n, !.claim = o.claim]
      BY <2>3 DEF PointRoute
    <3> HIDE DEF o
    <3> QED BY <2>1, <2>2, <2>3, <3>1
  <2>4. CASE route.current # o.n - 1
    BY <2>1, <2>4 DEF PointRoute
  <2> QED BY <2>3, <2>4
<1>5. route'.current >= route.current /\ route'.current >= o.n /\ route'.current \in Nat
  BY <1>3, <1>4
<1>6. TypeOK'
  BY <1>1, <1>4, IdleIsSound DEF IInv, TypeOK
<1>7. \A c : Answerable(c) => Answerable(c)'
  BY <1>1, <1>2 DEF Answerable, Registered
<1>8. Registered(o.claim)
  BY <1>1, <1>3 DEF Registered
<1>9. RouteIsAnswerable'
  <2>1. \A c : c = o.claim => Answerable(c)'
    BY <1>1, <1>8 DEF Answerable, Registered
  <2> QED BY <1>1, <1>3, <1>4, <1>5, <1>7, <2>1 DEF IInv, RouteIsAnswerable
<1>10. RequestsSound'
  <2> SUFFICES ASSUME NEW g \in Handlers PROVE Sound(op[g])'
    BY DEF RequestsSound
  <2>1. CASE g = h
    BY <1>2, <2>1 DEF Sound, Idle
  <2>2. CASE g # h
    <3>1. Sound(op[g]) /\ op'[g] = op[g]
      BY <1>2, <2>2 DEF IInv, RequestsSound
    <3>2. op[g].pc \in {"lookup", "insertVersion", "point", "duplicate"} => op[g].n \in Nat
      BY OpShape, RouteAssumption DEF IInv, Versions
    <3> QED BY <1>1, <1>3, <1>4, <1>5, <3>1, <3>2 DEF Sound
  <2> QED BY <2>1, <2>2
<1>11. OneFirst'
  BY <1>2 DEF IInv, OneFirst, First, Idle
<1>12. PointerIsRegistered'
  BY <1>1, <1>3, <1>4 DEF IInv, PointerIsRegistered
<1>13. VersionAheadIsInHand'
  <2> SUFFICES ASSUME NEW n \in Versions, n > route'.current, version[n] # NoClaim
               PROVE  \/ version[n] \in orphaned
                      \/ \E g \in Handlers : /\ op'[g].pc = "point" /\ op'[g].n = n
                                             /\ op'[g].claim = version[n]
    BY <1>1 DEF VersionAheadIsInHand
  <2>1. n > route.current /\ n # o.n /\ n \in Nat
    BY <1>3, <1>5, RouteAssumption DEF Versions
  <2>2. \/ version[n] \in orphaned
        \/ \E g \in Handlers : op[g].pc = "point" /\ op[g].n = n /\ op[g].claim = version[n]
    BY <2>1 DEF IInv, VersionAheadIsInHand
  <2> QED BY <1>2, <2>1, <2>2
<1>14. AnsweredIsRegistered'
  <2>1. \A c \in known' : Answerable(c)
    BY <1>1, <1>8 DEF IInv, AnsweredIsRegistered, Answerable, First
  <2> QED BY <1>7, <2>1 DEF AnsweredIsRegistered, Answerable, First
<1>15. CreditFollowsClaim'
  BY <1>1 DEF IInv, CreditFollowsClaim, Registered
<1> QED BY <1>6, <1>9, <1>10, <1>11, <1>12, <1>13, <1>14, <1>15 DEF IInv

\* The campaign is not looked at by what has been requested.
LEMMA CampaignKeeps ==
  ASSUME IInv, CampaignStep
  PROVE  IInv'
<1>1. UNCHANGED <<route, version, known, orphaned, accepted, op>>
  BY DEF CampaignStep, db
<1>2. campaign' \in [active : BOOLEAN, current : 1 .. MaxCampaign]
  <2>1. campaign \in [active : BOOLEAN, current : 1 .. MaxCampaign]
    BY DEF IInv, TypeOK
  <2>2. CASE campaign' = [campaign EXCEPT !.active = ~@]
    <3>1. (~campaign.active) \in BOOLEAN
      BY <2>1, Zenon
    <3> DEFINE other == ~campaign.active
    <3>2. campaign' = [campaign EXCEPT !.active = other]
      BY <2>2
    <3> HIDE DEF other
    <3> QED BY <2>1, <3>1, <3>2 DEF other
  <2>3. CASE /\ campaign.current < MaxCampaign
             /\ campaign' = [active |-> FALSE, current |-> campaign.current + 1]
    BY <2>1, <2>3, RouteAssumption
  <2> QED BY <2>2, <2>3 DEF CampaignStep
<1>3. TypeOK'
  BY <1>1, <1>2 DEF IInv, TypeOK
<1>4. RouteIsAnswerable' /\ AnsweredIsRegistered' /\ CreditFollowsClaim'
  BY <1>1 DEF IInv, RouteIsAnswerable, Answerable, Registered, First, AnsweredIsRegistered,
              CreditFollowsClaim
<1>5. RequestsSound' /\ OneFirst'
  BY <1>1 DEF IInv, RequestsSound, Sound, OneFirst, First
<1>6. PointerIsRegistered' /\ VersionAheadIsInHand'
  BY <1>1 DEF IInv, PointerIsRegistered, VersionAheadIsInHand
<1> QED BY <1>3, <1>4, <1>5, <1>6 DEF IInv

\* Every step preserves the invariant.
LEMMA NextIInv == IInv /\ [Next]_vars => IInv'
<1> SUFFICES ASSUME IInv, [Next]_vars PROVE IInv'
  OBVIOUS
<1>1. CASE CampaignStep
  BY <1>1, CampaignKeeps
<1>2. CASE \E h \in Handlers : HandlerStep(h)
  BY <1>2, RequestSteps, FindByRouteStep, LookupSteps, ReadRouteStep, MatchVersionStep,
     CommitStatusStep, CrashStep, InsertRouteStep, InsertVersionStep, PointRouteStep
  DEF HandlerStep
<1>3. CASE UNCHANGED vars
  BY <1>3
  DEF vars, db, IInv, TypeOK, RouteIsAnswerable, Answerable, Registered, RequestsSound, Sound,
      OneFirst, First, PointerIsRegistered, VersionAheadIsInHand, AnsweredIsRegistered,
      CreditFollowsClaim
<1> QED BY <1>1, <1>2, <1>3 DEF Next

LEMMA IInvHolds == Spec => []IInv
  BY InitIInv, NextIInv, PTL DEF Spec

-----------------------------------------------------------------------------
(* Theorems                                                                *)

\* PointerIsRegistered: the two statements of a rotation, whatever comes in
\* between, never make the route show a claim that its version is not.
THEOREM PointersAreRegistered == Spec => []PointerIsRegistered
<1>1. IInv => PointerIsRegistered
  BY DEF IInv
<1> QED BY <1>1, IInvHolds, PTL

\* VersionAheadIsInHand: only a crash between the two statements leaves a
\* version that no route will point to.
THEOREM VersionsAheadAreInHand == Spec => []VersionAheadIsInHand
<1>1. IInv => VersionAheadIsInHand
  BY DEF IInv
<1> QED BY <1>1, IInvHolds, PTL

\* AnsweredIsRegistered: only a crash between the two statements of an
\* activation makes an answered claim one for which receipts are refused.
THEOREM AnsweredAreRegistered == Spec => []AnsweredIsRegistered
<1>1. IInv => AnsweredIsRegistered
  BY DEF IInv
<1> QED BY <1>1, IInvHolds, PTL

\* CreditFollowsClaim: rotations during the policy check of a receipt never
\* send its credit to another wallet than the one signed for.
THEOREM CreditsFollowClaims == Spec => []CreditFollowsClaim
<1>1. IInv => CreditFollowsClaim
  BY DEF IInv
<1> QED BY <1>1, IInvHolds, PTL
=============================================================================
