----------------------------- MODULE WalletAuth -----------------------------
(***************************************************************************)
(* WalletAuthenticator over PostgresWalletAuthStore: a wallet signs a      *)
(* challenge once and is given an access token (a session) and a refresh   *)
(* token, which is exchanged for the next pair or revoked at logout.  Each *)
(* store call is one SQL statement and a step; no transaction spans two.   *)
(*                                                                         *)
(* The pairs issued for a challenge are its lineage.  A pair is its number *)
(* in the order of issue, which stands for the random identifiers.         *)
(***************************************************************************)
EXTENDS Naturals

CONSTANTS Challenges, Handlers, NoPair, Never,
          MaxPairs, MaxTime,                      \* bounds of the instance
          ChallengeTtl, SessionTtl, RefreshTtl

ASSUME WalletAuthAssumption ==
  /\ {MaxPairs, MaxTime, ChallengeTtl, SessionTtl, RefreshTtl} \subseteq Nat
  /\ Never \notin Nat
  /\ NoPair \notin [of : Challenges, expires : Nat]
                    \cup [of : Challenges, expires : Nat, revoked : BOOLEAN,
                          next : 1 .. MaxPairs \cup {NoPair}]

VARIABLES
  clock,
  challenge,  \* wallet_auth_challenges
  session,    \* wallet_auth_sessions, by pair
  refresh,    \* wallet_auth_refresh_tokens, by pair
  issued,     \* the number of pairs issued
  ended,      \* when a logout of the lineage was answered as effective
  lost,       \* lineages a handler died with
  op          \* the request each handler serves

store   == <<challenge, session, refresh>>
history == <<ended, lost>>
vars    == <<clock, store, issued, history, op>>

Pairs == 1 .. MaxPairs
Times == 0 .. MaxTime

NoChallenge == [status |-> "none"]
Idle        == [pc |-> "idle"]
ChallengeRows == {NoChallenge} \cup [status : {"open", "consumed"}, expires : Nat]
SessionRows   == {NoPair} \cup [of : Challenges, expires : Nat]
RefreshRows   == {NoPair} \cup [of : Challenges, expires : Nat, revoked : BOOLEAN,
                                next : Pairs \cup {NoPair}]
Ops == {Idle}
  \cup [pc : {"getChallenge", "consume"}, of : Challenges, now : Times]
  \cup [pc : {"getRefresh", "revokeOld", "getLogout", "revoke"}, pair : Pairs, now : Times]
  \cup [pc : {"saveSession", "saveRefresh"}, of : Challenges, pair : Pairs, now : Times]

TypeOK ==
  /\ clock \in Times
  /\ challenge \in [Challenges -> ChallengeRows]
  /\ session \in [Pairs -> SessionRows]
  /\ refresh \in [Pairs -> RefreshRows]
  /\ issued \in 0 .. MaxPairs
  /\ ended \in [Challenges -> Times \cup {Never}]
  /\ lost \subseteq Challenges
  /\ op \in [Handlers -> Ops]

Init ==
  /\ clock = 0
  /\ challenge = [c \in Challenges |-> NoChallenge]
  /\ session = [p \in Pairs |-> NoPair]
  /\ refresh = [p \in Pairs |-> NoPair]
  /\ issued = 0
  /\ ended = [c \in Challenges |-> Never]
  /\ lost = {}
  /\ op = [h \in Handlers |-> Idle]

Goto(h, o) == op' = [op EXCEPT ![h] = o]
At(h, pc)  == op[h].pc = pc

Tick ==
  /\ clock < MaxTime
  /\ clock' = clock + 1
  /\ UNCHANGED <<store, issued, history, op>>

-----------------------------------------------------------------------------
(* Login                                                                   *)

CreateChallenge(c) ==
  /\ challenge[c] = NoChallenge
  /\ challenge' = [challenge EXCEPT
                     ![c] = [status |-> "open", expires |-> clock + ChallengeTtl]]
  /\ UNCHANGED <<clock, session, refresh, issued, history, op>>

\* createSession, with a valid signature; the time of the request is read
\* once and used to the end.
CreateSession(h, c) ==
  /\ op[h] = Idle
  /\ Goto(h, [pc |-> "getChallenge", of |-> c, now |-> clock])
  /\ UNCHANGED <<clock, store, issued, history>>

GetChallenge(h) ==
  /\ At(h, "getChallenge")
  /\ LET row == challenge[op[h].of]
     IN  IF row.status = "open" /\ row.expires > op[h].now
         THEN Goto(h, [op[h] EXCEPT !.pc = "consume"])
         ELSE Goto(h, Idle)
  /\ UNCHANGED <<clock, store, issued, history>>

\* Slip: a consumed challenge is consumed again.
OpenAlways(c) == challenge[c] # NoChallenge

\* The condition consumeChallenge's update puts on the row.
Open(c) == challenge[c].status = "open"

\* issueSession for challenge c begins with fresh identifiers.
Issue(h, c, now) ==
  /\ issued' = issued + 1
  /\ Goto(h, [pc |-> "saveSession", of |-> c, pair |-> issued + 1, now |-> now])

ConsumeChallenge(h) ==
  /\ At(h, "consume") /\ issued < MaxPairs
  /\ LET c == op[h].of
     IN  IF Open(c)
         THEN /\ challenge' = [challenge EXCEPT ![c].status = "consumed"]
              /\ Issue(h, c, op[h].now)
         ELSE /\ Goto(h, Idle)
              /\ UNCHANGED <<challenge, issued>>
  /\ UNCHANGED <<clock, session, refresh, history>>

\* Slip: the session lives as long as the refresh token.
SessionExpiryOfRefresh(now) == now + RefreshTtl

SessionExpiry(now) == now + SessionTtl

SaveSession(h) ==
  /\ At(h, "saveSession")
  /\ session' = [session EXCEPT
        ![op[h].pair] = [of |-> op[h].of, expires |-> SessionExpiry(op[h].now)]]
  /\ Goto(h, [op[h] EXCEPT !.pc = "saveRefresh"])
  /\ UNCHANGED <<clock, challenge, refresh, issued, history>>

SaveRefreshToken(h) ==
  /\ At(h, "saveRefresh")
  /\ refresh' = [refresh EXCEPT
        ![op[h].pair] = [of |-> op[h].of, expires |-> op[h].now + RefreshTtl,
                         revoked |-> FALSE, next |-> NoPair]]
  /\ Goto(h, Idle)
  /\ UNCHANGED <<clock, challenge, session, issued, history>>

-----------------------------------------------------------------------------
(* Refresh and logout                                                      *)

RefreshSession(h, p) ==
  /\ op[h] = Idle /\ refresh[p] # NoPair
  /\ Goto(h, [pc |-> "getRefresh", pair |-> p, now |-> clock])
  /\ UNCHANGED <<clock, store, issued, history>>

GetRefreshToken(h) ==
  /\ At(h, "getRefresh")
  /\ LET row == refresh[op[h].pair]
     IN  IF ~row.revoked /\ row.expires > op[h].now
         THEN Goto(h, [op[h] EXCEPT !.pc = "revokeOld"])
         ELSE Goto(h, Idle)
  /\ UNCHANGED <<clock, store, issued, history>>

\* Slip: the result of revokeRefreshToken is not looked at.
UnrevokedAlways(p) == refresh[p] # NoPair

\* The condition revokeRefreshToken's update puts on the row.
Unrevoked(p) == ~refresh[p].revoked

\* Slip: the expiry is looked at only when the token has been revoked.
RevokeOldThenCheck(h) ==
  /\ At(h, "revokeOld") /\ issued < MaxPairs
  /\ LET p == op[h].pair
     IN  IF Unrevoked(p)
         THEN /\ refresh' = [refresh EXCEPT ![p].revoked = TRUE, ![p].next = issued + 1]
              /\ IF refresh[p].expires > clock THEN Issue(h, refresh[p].of, op[h].now)
                 ELSE Goto(h, Idle) /\ UNCHANGED issued
         ELSE /\ Goto(h, Idle)
              /\ UNCHANGED <<refresh, issued>>
  /\ UNCHANGED <<clock, challenge, session, history>>

RevokeOld(h) ==
  /\ At(h, "revokeOld") /\ issued < MaxPairs
  /\ LET p == op[h].pair
     IN  IF Unrevoked(p)
         THEN /\ refresh' = [refresh EXCEPT ![p].revoked = TRUE, ![p].next = issued + 1]
              /\ Issue(h, refresh[p].of, op[h].now)
         ELSE /\ Goto(h, Idle)
              /\ UNCHANGED <<refresh, issued>>
  /\ UNCHANGED <<clock, challenge, session, history>>

RevokeSession(h, p) ==
  /\ op[h] = Idle /\ refresh[p] # NoPair
  /\ Goto(h, [pc |-> "getLogout", pair |-> p, now |-> clock])
  /\ UNCHANGED <<clock, store, issued, history>>

GetForLogout(h) ==
  /\ At(h, "getLogout")
  /\ IF refresh[op[h].pair].revoked
     THEN Goto(h, Idle)                 \* answered as already revoked
     ELSE Goto(h, [op[h] EXCEPT !.pc = "revoke"])
  /\ UNCHANGED <<clock, store, issued, history>>

\* A logout that does not find the token revoked is answered as effective.
Revoke(h) ==
  /\ At(h, "revoke")
  /\ LET p == op[h].pair
     IN  IF Unrevoked(p)
         THEN /\ refresh' = [refresh EXCEPT ![p].revoked = TRUE]
              /\ ended' = [ended EXCEPT ![refresh[p].of] = clock]
         ELSE UNCHANGED <<refresh, ended>>
  /\ Goto(h, Idle)
  /\ UNCHANGED <<clock, challenge, session, issued, lost>>

Issuing(h) == op[h].pc \in {"saveSession", "saveRefresh"}

\* A handler dies; with it goes the pair it was issuing.
Crash(h) ==
  /\ op[h] # Idle
  /\ Goto(h, Idle)
  /\ lost' = lost \cup (IF Issuing(h) THEN {op[h].of} ELSE {})
  /\ UNCHANGED <<clock, store, issued, ended>>

-----------------------------------------------------------------------------

HandlerStep(h) ==
  \/ \E c \in Challenges : CreateSession(h, c)
  \/ GetChallenge(h) \/ ConsumeChallenge(h)
  \/ SaveSession(h) \/ SaveRefreshToken(h)
  \/ \E p \in Pairs : RefreshSession(h, p) \/ RevokeSession(h, p)
  \/ GetRefreshToken(h) \/ RevokeOld(h)
  \/ GetForLogout(h) \/ Revoke(h)
  \/ Crash(h)

Next ==
  \/ Tick
  \/ \E c \in Challenges : CreateChallenge(c)
  \/ \E h \in Handlers : HandlerStep(h)

Spec == Init /\ [][Next]_vars

-----------------------------------------------------------------------------
(* Properties                                                              *)

\* A token that can still be exchanged, and authenticateAccessToken.
Live(p)          == refresh[p] # NoPair /\ ~refresh[p].revoked
Authenticates(p) == session[p] # NoPair /\ session[p].expires > clock

\* However logins, refreshes and logouts race, a signed challenge is worth one
\* session at a time: of its lineage one pair at most is live or being issued.
OneHolder ==
  /\ \A p, q \in Pairs :
       Live(p) /\ Live(q) /\ refresh[p].of = refresh[q].of => p = q
  /\ \A g, h \in Handlers :
       Issuing(g) /\ Issuing(h) /\ op[g].of = op[h].of => g = h
  /\ \A h \in Handlers, p \in Pairs :
       Issuing(h) /\ Live(p) => op[h].of # refresh[p].of

\* A logout that was answered as effective is final: no refresh that was
\* already under way keeps the lineage going.
LogoutIsFinal ==
  \A c \in Challenges : ended[c] # Never =>
    /\ \A p \in Pairs : Live(p) => refresh[p].of # c
    /\ \A h \in Handlers : Issuing(h) => op[h].of # c

\* No race of refreshes and logouts leaves a wallet without its token: only a
\* logout, or a handler that died issuing, ends a lineage.
EndedOnlyByLogoutOrCrash ==
  \A c \in Challenges : challenge[c].status = "consumed" =>
    \/ ended[c] # Never
    \/ c \in lost
    \/ \E p \in Pairs : Live(p) /\ refresh[p].of = c
    \/ \E h \in Handlers : Issuing(h) /\ op[h].of = c

\* Access tokens cannot be revoked, but one lifetime after an effective logout
\* none of the lineage, a concurrently issued one included, is accepted.
AccessEndsAfterLogout ==
  \A c \in Challenges, p \in Pairs :
    /\ ended[c] # Never /\ clock >= ended[c] + SessionTtl
    /\ session[p] # NoPair /\ session[p].of = c
    => ~Authenticates(p)

=============================================================================
