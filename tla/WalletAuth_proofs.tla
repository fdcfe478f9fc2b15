-------------------------- MODULE WalletAuth_proofs --------------------------
(***************************************************************************)
(* Wallet sessions for any number of challenges, handlers, pairs and times:*)
(* however logins, refreshes, logouts and crashes interleave, a challenge  *)
(* is worth one session at a time, an answered logout is final, and        *)
(* nothing else than a logout or a crash ends a lineage.                   *)
(***************************************************************************)
EXTENDS WalletAuth, TLAPS

Presenting(h) == op[h].pc \in {"getRefresh", "revokeOld", "getLogout", "revoke"}

\* A handler that was given a token found its row, and rows stay.
PresentedExist ==
  \A h \in Handlers : Presenting(h) => refresh[op[h].pair] # NoPair

\* The pair a handler is issuing is its own and has no refresh token yet;
\* pairs beyond the last one issued have none either.
IssuedApart ==
  /\ \A p \in Pairs : p > issued => refresh[p] = NoPair
  /\ \A h \in Handlers : Issuing(h) =>
       op[h].pair <= issued /\ refresh[op[h].pair] = NoPair
  /\ \A g, h \in Handlers :
       Issuing(g) /\ Issuing(h) /\ op[g].pair = op[h].pair => g = h

\* A lineage begins with the consumption of its challenge, which happens once.
LineageConsumed ==
  /\ \A p \in Pairs :
       refresh[p] # NoPair => challenge[refresh[p].of].status = "consumed"
  /\ \A h \in Handlers : Issuing(h) => challenge[op[h].of].status = "consumed"
  /\ \A c \in Challenges : ended[c] # Never => challenge[c].status = "consumed"

\* No session outlives its lineage, or the present, by more than its lifetime.
SessionsBounded ==
  /\ \A h \in Handlers : op[h] # Idle => op[h].now <= clock
  /\ \A c \in Challenges : ended[c] # Never => ended[c] <= clock
  /\ \A p \in Pairs : session[p] # NoPair =>
       /\ session[p].expires <= clock + SessionTtl
       /\ ended[session[p].of] # Never =>
            session[p].expires <= ended[session[p].of] + SessionTtl

IInv ==
  /\ TypeOK /\ PresentedExist /\ IssuedApart /\ LineageConsumed /\ SessionsBounded
  /\ OneHolder /\ LogoutIsFinal /\ EndedOnlyByLogoutOrCrash

\* The inductive invariant holds initially.
LEMMA InitIInv == Init => IInv
  BY WalletAuthAssumption
  DEF Init, IInv, TypeOK, PresentedExist, IssuedApart, LineageConsumed,
      SessionsBounded, OneHolder, LogoutIsFinal, EndedOnlyByLogoutOrCrash,
      Presenting, Issuing, Live, Idle, NoChallenge, ChallengeRows, SessionRows,
      RefreshRows, Ops, Times, Pairs

-----------------------------------------------------------------------------
(* Preservation                                                            *)

\* What a handler knows depends on where it is.
LEMMA OpShape ==
  ASSUME TypeOK, NEW h \in Handlers
  PROVE  /\ op[h].pc \in {"getChallenge", "consume"} =>
              op[h] \in [pc : {"getChallenge", "consume"}, of : Challenges, now : Times]
         /\ Presenting(h) =>
              op[h] \in [pc : {"getRefresh", "revokeOld", "getLogout", "revoke"},
                         pair : Pairs, now : Times]
         /\ Issuing(h) =>
              op[h] \in [pc : {"saveSession", "saveRefresh"}, of : Challenges,
                         pair : Pairs, now : Times]
  BY DEF TypeOK, Ops, Idle, Presenting, Issuing

\* A row that is there is a record; one that is not is no record.
LEMMA RowShape ==
  ASSUME TypeOK, NEW p \in Pairs
  PROVE  /\ refresh[p] # NoPair =>
              refresh[p] \in [of : Challenges, expires : Nat, revoked : BOOLEAN,
                              next : Pairs \cup {NoPair}]
         /\ session[p] # NoPair => session[p] \in [of : Challenges, expires : Nat]
  BY DEF TypeOK, RefreshRows, SessionRows

\* A written row is no missing one.
LEMMA WrittenRow ==
  ASSUME NEW row \in [of : Challenges, expires : Nat, revoked : BOOLEAN,
                      next : Pairs \cup {NoPair}]
  PROVE  row # NoPair
  BY WalletAuthAssumption, Zenon DEF Pairs

\* The reading steps, and the writes that find nothing to write, change what
\* their own handler does, which is not issuing a pair before or after.
LEMMA Reading ==
  ASSUME IInv, NEW h \in Handlers, NEW o \in Ops,
         op' = [op EXCEPT ![h] = o], UNCHANGED <<clock, store, issued, history>>,
         ~ Issuing(h), o.pc \notin {"saveSession", "saveRefresh"},
         o # Idle => o.now <= clock,
         o.pc \in {"getRefresh", "revokeOld", "getLogout", "revoke"} =>
           refresh[o.pair] # NoPair
  PROVE  IInv'
<1>1. op \in [Handlers -> Ops]
  BY DEF IInv, TypeOK
<1>2. /\ op'[h] = o
      /\ \A g \in Handlers : g # h => op'[g] = op[g]
      /\ ~ Issuing(h)'
      /\ \A g \in Handlers : Issuing(g)' => Issuing(g) /\ op'[g] = op[g]
      /\ \A g \in Handlers : Issuing(g) => Issuing(g)' /\ op'[g] = op[g]
  BY <1>1 DEF Issuing
<1>3. \A p \in Pairs : Live(p)' <=> Live(p)
  BY DEF Live, store
<1>4. TypeOK'
  BY DEF IInv, TypeOK, store, history
<1>5. PresentedExist' /\ SessionsBounded'
  BY <1>2 DEF IInv, PresentedExist, Presenting, SessionsBounded, store, history
<1>6. IssuedApart' /\ LineageConsumed'
  BY <1>2 DEF IInv, IssuedApart, LineageConsumed, store, history
<1>7. OneHolder' /\ LogoutIsFinal'
  BY <1>2, <1>3 DEF IInv, OneHolder, LogoutIsFinal, store, history
<1>8. EndedOnlyByLogoutOrCrash'
  BY <1>2, <1>3 DEF IInv, EndedOnlyByLogoutOrCrash, store, history
<1> QED BY <1>4, <1>5, <1>6, <1>7, <1>8 DEF IInv

\* A handler begins to issue the next pair of lineage c, which nobody else
\* holds and which no logout has ended.
LEMMA Issues ==
  ASSUME IInv, NEW h \in Handlers, NEW c \in Challenges, NEW now \in Times,
         Issue(h, c, now), issued < MaxPairs, now <= clock, ~ Issuing(h),
         UNCHANGED <<clock, session, history>>, TypeOK',
         \A d \in Challenges : challenge'[d].status = "consumed"
                                 <=> d = c \/ challenge[d].status = "consumed",
         \A p \in Pairs : /\ refresh[p] = NoPair <=> refresh'[p] = NoPair
                          /\ refresh[p] # NoPair => refresh'[p].of = refresh[p].of
                          /\ Live(p)' <=> Live(p) /\ refresh[p].of # c,
         \A g \in Handlers : Issuing(g) => op[g].of # c,
         ended[c] = Never
  PROVE  IInv'
<1> DEFINE o == [pc |-> "saveSession", of |-> c, pair |-> issued + 1, now |-> now]
<1>1. /\ op' = [op EXCEPT ![h] = o] /\ issued' = issued + 1
      /\ op \in [Handlers -> Ops] /\ issued \in Nat /\ MaxPairs \in Nat
      /\ issued + 1 \in Pairs
  BY WalletAuthAssumption DEF IInv, TypeOK, Issue, Goto, Pairs
<1>2. /\ op'[h] = o
      /\ \A g \in Handlers : g # h => op'[g] = op[g]
      /\ Issuing(h)' /\ op'[h].of = c /\ op'[h].pair = issued + 1 /\ op'[h].now = now
      /\ ~ Presenting(h)'
      /\ \A g \in Handlers : g # h => (Issuing(g)' <=> Issuing(g)) /\ op'[g] = op[g]
  BY <1>1 DEF Issuing, Presenting
<1> HIDE DEF o
<1>3. PresentedExist' /\ SessionsBounded'
  <2>1. PresentedExist'
    BY <1>2, OpShape DEF IInv, PresentedExist, Presenting
  <2>2. SessionsBounded'
    BY <1>2 DEF IInv, SessionsBounded, history
  <2> QED BY <2>1, <2>2
<1>4. IssuedApart'
  <2>1. \A g \in Handlers : Issuing(g) => op[g].pair \in Pairs
    BY OpShape DEF IInv
  <2>2. \A p \in Pairs : p \in Nat
    BY DEF Pairs
  <2> QED BY <1>1, <1>2, <2>1, <2>2 DEF IInv, IssuedApart
<1>5. LineageConsumed'
  <2>1. \A g \in Handlers : Issuing(g) => op[g].of \in Challenges
    BY OpShape DEF IInv
  <2>2. \A p \in Pairs : refresh[p] # NoPair => refresh[p].of \in Challenges
    BY RowShape DEF IInv
  <2> QED BY <1>2, <2>1, <2>2 DEF IInv, LineageConsumed, history
<1>6. OneHolder'
  <2>1. \A p \in Pairs : Live(p) => refresh[p] # NoPair
    BY DEF Live
  <2> QED BY <1>2, <2>1 DEF IInv, OneHolder
<1>7. LogoutIsFinal'
  <2>1. \A p \in Pairs : Live(p) => refresh[p] # NoPair
    BY DEF Live
  <2> QED BY <1>2, <2>1 DEF IInv, LogoutIsFinal, history
<1>8. EndedOnlyByLogoutOrCrash'
  <2>1. \A p \in Pairs : Live(p) => refresh[p] # NoPair
    BY DEF Live
  <2> QED BY <1>2, <2>1 DEF IInv, EndedOnlyByLogoutOrCrash, history
<1> QED BY <1>3, <1>4, <1>5, <1>6, <1>7, <1>8 DEF IInv

\* The steps that read, one per operation; each keeps what it presents.
LEMMA ReadingSteps ==
  ASSUME IInv, NEW h \in Handlers,
         \/ \E c \in Challenges : CreateSession(h, c)
         \/ GetChallenge(h)
         \/ \E p \in Pairs : RefreshSession(h, p) \/ RevokeSession(h, p)
         \/ GetRefreshToken(h) \/ GetForLogout(h)
  PROVE  IInv'
<1>1. TypeOK /\ clock \in Times /\ Idle \in Ops /\ clock <= clock
  BY DEF IInv, TypeOK, Ops, Times
<1>2. ASSUME NEW c \in Challenges, CreateSession(h, c) PROVE IInv'
  <2> DEFINE o == [pc |-> "getChallenge", of |-> c, now |-> clock]
  <2>1. op' = [op EXCEPT ![h] = o] /\ UNCHANGED <<clock, store, issued, history>>
        /\ ~ Issuing(h) /\ o \in Ops
    BY <1>1, <1>2 DEF CreateSession, Goto, Issuing, Idle, Ops
  <2> QED BY <1>1, <2>1, Reading
<1>3. ASSUME NEW p \in Pairs, NEW pc \in {"getRefresh", "getLogout"},
             op[h] = Idle, refresh[p] # NoPair,
             Goto(h, [pc |-> pc, pair |-> p, now |-> clock]),
             UNCHANGED <<clock, store, issued, history>>
      PROVE  IInv'
  <2> DEFINE o == [pc |-> pc, pair |-> p, now |-> clock]
  <2>1. op' = [op EXCEPT ![h] = o] /\ ~ Issuing(h) /\ o \in Ops
    BY <1>1, <1>3 DEF Goto, Issuing, Idle, Ops
  <2>2. o.now <= clock /\ refresh[o.pair] # NoPair
        /\ o.pc \notin {"saveSession", "saveRefresh"}
    BY <1>1, <1>3
  <2> QED BY <1>3, <2>1, <2>2, Reading
<1>4. ASSUME NEW p \in Pairs, RefreshSession(h, p) \/ RevokeSession(h, p) PROVE IInv'
  BY <1>3, <1>4 DEF RefreshSession, RevokeSession
<1>5. ASSUME NEW pc \in {"consume", "revokeOld", "revoke"},
             \/ pc = "consume" /\ op[h].pc = "getChallenge"
             \/ pc = "revokeOld" /\ op[h].pc = "getRefresh"
             \/ pc = "revoke" /\ op[h].pc = "getLogout",
             Goto(h, Idle) \/ Goto(h, [op[h] EXCEPT !.pc = pc]),
             UNCHANGED <<clock, store, issued, history>>
      PROVE  IInv'
  <2>1. ~ Issuing(h) /\ op[h] # Idle /\ op[h].now <= clock
    BY <1>5 DEF Issuing, Idle, IInv, SessionsBounded
  <2>2. CASE Goto(h, Idle)
    BY <1>1, <1>5, <2>1, <2>2, Reading DEF Goto, Idle
  <2>3. CASE Goto(h, [op[h] EXCEPT !.pc = pc])
    <3> DEFINE o == [op[h] EXCEPT !.pc = pc]
    <3>1. o \in Ops /\ o.pc = pc /\ o.now = op[h].now
          /\ (pc # "consume" => o.pair = op[h].pair /\ Presenting(h))
      BY <1>1, <1>5, OpShape DEF Ops, Presenting
    <3>2. pc # "consume" => refresh[o.pair] # NoPair
      BY <3>1 DEF IInv, PresentedExist
    <3>3. op' = [op EXCEPT ![h] = o]
      BY <2>3 DEF Goto
    <3> HIDE DEF o
    <3> QED BY <1>5, <2>1, <3>1, <3>2, <3>3, Reading
  <2> QED BY <1>5, <2>2, <2>3
<1>6. CASE GetChallenge(h)
  BY <1>5, <1>6 DEF GetChallenge, At
<1>7. CASE GetRefreshToken(h)
  BY <1>5, <1>7 DEF GetRefreshToken, At
<1>8. CASE GetForLogout(h)
  BY <1>5, <1>8 DEF GetForLogout, At
<1> QED BY <1>2, <1>4, <1>6, <1>7, <1>8

\* The consumption of a challenge begins its lineage.
LEMMA ConsumeChallengeStep ==
  ASSUME IInv, NEW h \in Handlers, ConsumeChallenge(h)
  PROVE  IInv'
<1> DEFINE c == op[h].of
           now == op[h].now
<1>1. TypeOK /\ Idle \in Ops /\ op[h].pc = "consume" /\ issued < MaxPairs
  BY DEF IInv, Ops, ConsumeChallenge, At
<1>2. c \in Challenges /\ now \in Times /\ ~ Issuing(h) /\ op[h] # Idle
  BY <1>1, OpShape DEF Issuing, Idle
<1>3. now <= clock
  BY <1>2 DEF IInv, SessionsBounded
<1>4. CASE ~ Open(c)
  <2>1. op' = [op EXCEPT ![h] = Idle] /\ UNCHANGED <<clock, store, issued, history>>
    BY <1>4 DEF ConsumeChallenge, Goto, store
  <2> QED BY <1>1, <1>2, <2>1, Reading DEF Idle
<1>5. CASE Open(c)
  <2>1. /\ challenge' = [challenge EXCEPT ![c].status = "consumed"]
        /\ Issue(h, c, now)
        /\ UNCHANGED <<clock, session, refresh, history>>
    BY <1>5 DEF ConsumeChallenge
  <2>2. challenge[c].status = "open"
        /\ challenge[c] \in [status : {"open", "consumed"}, expires : Nat]
    BY <1>1, <1>2, <1>5 DEF Open, TypeOK, ChallengeRows, NoChallenge
  <2>3. \A d \in Challenges : challenge'[d].status = "consumed"
                                <=> d = c \/ challenge[d].status = "consumed"
    BY <1>1, <2>1, <2>2 DEF TypeOK
  <2>4. TypeOK'
    <3>1. challenge' \in [Challenges -> ChallengeRows]
      BY <1>1, <1>2, <2>1, <2>2 DEF TypeOK, ChallengeRows
    <3>2. issued \in Nat /\ MaxPairs \in Nat /\ issued' = issued + 1
          /\ issued' \in 0 .. MaxPairs /\ issued' \in Pairs
      BY <1>1, <2>1, WalletAuthAssumption DEF TypeOK, Issue, Pairs
    <3>3. op' \in [Handlers -> Ops]
      BY <1>1, <1>2, <2>1, <3>2 DEF TypeOK, Issue, Goto, Ops
    <3> QED BY <1>1, <2>1, <3>1, <3>2, <3>3 DEF TypeOK, history
  <2>5. /\ ended[c] = Never
        /\ \A g \in Handlers : Issuing(g) => op[g].of # c
        /\ \A p \in Pairs : refresh[p] # NoPair => refresh[p].of # c
    BY <1>2, <2>2 DEF IInv, LineageConsumed
  <2>6. \A p \in Pairs : Live(p)' <=> Live(p) /\ refresh[p].of # c
    BY <2>1, <2>5 DEF Live
  <2> HIDE DEF c, now
  <2> QED BY <1>1, <1>2, <1>3, <2>1, <2>3, <2>4, <2>5, <2>6, Issues
<1> QED BY <1>4, <1>5

\* A refresh hands the lineage from the live pair to the next one.
LEMMA RevokeOldStep ==
  ASSUME IInv, NEW h \in Handlers, RevokeOld(h)
  PROVE  IInv'
<1> DEFINE q == op[h].pair
           c == refresh[q].of
           now == op[h].now
<1>1. TypeOK /\ Idle \in Ops /\ op[h].pc = "revokeOld" /\ issued < MaxPairs
  BY DEF IInv, Ops, RevokeOld, At
<1>2. q \in Pairs /\ now \in Times /\ ~ Issuing(h) /\ op[h] # Idle /\ Presenting(h)
  BY <1>1, OpShape DEF Issuing, Idle, Presenting
<1>3. now <= clock /\ refresh[q] # NoPair
  BY <1>2 DEF IInv, SessionsBounded, PresentedExist
<1>4. refresh[q] \in [of : Challenges, expires : Nat, revoked : BOOLEAN,
                      next : Pairs \cup {NoPair}]
  BY <1>1, <1>2, <1>3, RowShape
<1>5. CASE ~ Unrevoked(q)
  <2>1. op' = [op EXCEPT ![h] = Idle] /\ UNCHANGED <<clock, store, issued, history>>
    BY <1>5 DEF RevokeOld, Goto, store
  <2> QED BY <1>1, <1>2, <2>1, Reading DEF Idle
<1>6. CASE Unrevoked(q)
  <2>1. /\ refresh' = [refresh EXCEPT ![q].revoked = TRUE, ![q].next = issued + 1]
        /\ Issue(h, c, now)
        /\ UNCHANGED <<clock, challenge, session, history>>
    BY <1>6 DEF RevokeOld
  <2>2. issued \in Nat /\ MaxPairs \in Nat /\ issued' = issued + 1
        /\ issued' \in 0 .. MaxPairs /\ issued + 1 \in Pairs
    BY <1>1, <2>1, WalletAuthAssumption DEF TypeOK, Issue, Pairs
  <2>3. /\ refresh'[q] \in [of : Challenges, expires : Nat, revoked : {TRUE},
                            next : Pairs \cup {NoPair}]
        /\ refresh'[q].of = c
        /\ \A p \in Pairs : p # q => refresh'[p] = refresh[p]
        /\ refresh' \in [Pairs -> RefreshRows]
    BY <1>1, <1>2, <1>4, <2>1, <2>2 DEF TypeOK, RefreshRows
  <2>4. refresh'[q] # NoPair /\ ~ (\E p \in Pairs : p = q /\ Live(p)')
    <3>1. refresh'[q] \in [of : Challenges, expires : Nat, revoked : BOOLEAN,
                           next : Pairs \cup {NoPair}]
      BY <2>3
    <3>2. refresh'[q] # NoPair
      BY <3>1, WrittenRow, Zenon
    <3>3. refresh'[q].revoked = TRUE
      BY <2>3
    <3> QED BY <3>2, <3>3, Zenon DEF Live
  <2>5. TypeOK'
    <3>1. op' \in [Handlers -> Ops]
      BY <1>1, <1>2, <1>4, <2>1, <2>2 DEF TypeOK, Issue, Goto, Ops
    <3> QED BY <1>1, <2>1, <2>2, <2>3, <3>1 DEF TypeOK, history
  <2>6. Live(q)
    BY <1>3, <1>6 DEF Live, Unrevoked
  <2>7. /\ ended[c] = Never
        /\ \A g \in Handlers : Issuing(g) => op[g].of # c
        /\ \A p \in Pairs : Live(p) /\ refresh[p].of = c => p = q
    BY <1>2, <1>4, <2>6 DEF IInv, LogoutIsFinal, OneHolder
  <2>8. challenge[c].status = "consumed" /\ c \in Challenges
    BY <1>2, <1>3, <1>4 DEF IInv, LineageConsumed
  <2>9. \A p \in Pairs : /\ refresh[p] = NoPair <=> refresh'[p] = NoPair
                         /\ refresh[p] # NoPair => refresh'[p].of = refresh[p].of
                         /\ Live(p)' <=> Live(p) /\ refresh[p].of # c
    BY <1>3, <2>3, <2>4, <2>6, <2>7 DEF Live
  <2>10. \A d \in Challenges : challenge'[d].status = "consumed"
                                 <=> d = c \/ challenge[d].status = "consumed"
    BY <2>1, <2>8
  <2> HIDE DEF q, c, now
  <2> QED BY <1>1, <1>2, <1>3, <2>1, <2>5, <2>7, <2>8, <2>9, <2>10, Issues
<1> QED BY <1>5, <1>6

\* The session of the pair being issued is stored ...
LEMMA SaveSessionStep ==
  ASSUME IInv, NEW h \in Handlers, SaveSession(h)
  PROVE  IInv'
<1> DEFINE q == op[h].pair
           c == op[h].of
           row == [of |-> c, expires |-> SessionExpiry(op[h].now)]
           o == [op[h] EXCEPT !.pc = "saveRefresh"]
<1>1. TypeOK /\ op[h].pc = "saveSession" /\ Issuing(h) /\ op[h] # Idle
  BY DEF IInv, SaveSession, At, Issuing, Idle
<1>2. op[h] \in [pc : {"saveSession", "saveRefresh"}, of : Challenges,
                 pair : Pairs, now : Times]
  BY <1>1, OpShape
<1>3. /\ session' = [session EXCEPT ![q] = row] /\ op' = [op EXCEPT ![h] = o]
      /\ UNCHANGED <<clock, challenge, refresh, issued, history>>
  BY DEF SaveSession, Goto
<1>4. q \in Pairs /\ c \in Challenges /\ op[h].now <= clock /\ op[h].now \in Nat
      /\ row.of = c /\ row.expires = op[h].now + SessionTtl
      /\ row \in [of : Challenges, expires : Nat] /\ clock \in Nat /\ SessionTtl \in Nat
  BY <1>1, <1>2, WalletAuthAssumption
  DEF IInv, TypeOK, SessionsBounded, SessionExpiry, Times
<1>5. /\ o \in Ops /\ o.pc = "saveRefresh" /\ o.of = c /\ o.pair = q
      /\ o.now = op[h].now /\ o # Idle
  BY <1>2 DEF Ops, Idle
<1>6. ended[c] = Never
  BY <1>1, <1>4 DEF IInv, LogoutIsFinal
<1> HIDE DEF o, row, q, c
<1>7. /\ op \in [Handlers -> Ops] /\ session \in [Pairs -> SessionRows]
      /\ op'[h] = o /\ session'[q] = row
      /\ \A g \in Handlers : g # h => op'[g] = op[g]
      /\ \A p \in Pairs : p # q => session'[p] = session[p]
  BY <1>1, <1>3, <1>4 DEF TypeOK
<1>8. TypeOK'
  BY <1>1, <1>3, <1>4, <1>5 DEF TypeOK, SessionRows, history
<1>9. \A g \in Handlers : /\ Issuing(g)' <=> Issuing(g)
                          /\ Issuing(g) => op'[g].of = op[g].of /\ op'[g].pair = op[g].pair
                          /\ Presenting(g)' => Presenting(g) /\ op'[g] = op[g]
  BY <1>1, <1>5, <1>7 DEF Issuing, Presenting, q, c
<1>10. PresentedExist' /\ IssuedApart' /\ LineageConsumed'
  BY <1>3, <1>9 DEF IInv, PresentedExist, IssuedApart, LineageConsumed, history
<1>11. SessionsBounded'
  <2>1. \A g \in Handlers : op'[g] # Idle => op'[g].now <= clock'
    BY <1>3, <1>4, <1>5, <1>7 DEF IInv, SessionsBounded
  <2>2. \A p \in Pairs : session'[p] # NoPair =>
          /\ session'[p].expires <= clock' + SessionTtl
          /\ ended'[session'[p].of] # Never =>
               session'[p].expires <= ended'[session'[p].of] + SessionTtl
    <3> SUFFICES ASSUME NEW p \in Pairs, session'[p] # NoPair
                 PROVE  /\ session'[p].expires <= clock' + SessionTtl
                        /\ ended'[session'[p].of] # Never =>
                             session'[p].expires <= ended'[session'[p].of] + SessionTtl
      OBVIOUS
    <3>1. CASE p = q
      BY <1>3, <1>4, <1>6, <1>7, <3>1 DEF history
    <3>2. CASE p # q
      BY <1>3, <1>7, <3>2 DEF IInv, SessionsBounded, history
    <3> QED BY <3>1, <3>2
  <2> QED BY <1>3, <2>1, <2>2 DEF IInv, SessionsBounded, history
<1>12. \A p \in Pairs : Live(p)' <=> Live(p)
  BY <1>3 DEF Live
<1>13. OneHolder' /\ LogoutIsFinal' /\ EndedOnlyByLogoutOrCrash'
  BY <1>3, <1>9, <1>12 DEF IInv, OneHolder, LogoutIsFinal, EndedOnlyByLogoutOrCrash, history
<1> QED BY <1>8, <1>10, <1>11, <1>13 DEF IInv

\* ... and then its refresh token, with which the lineage is live again.
LEMMA SaveRefreshTokenStep ==
  ASSUME IInv, NEW h \in Handlers, SaveRefreshToken(h)
  PROVE  IInv'
<1> DEFINE q == op[h].pair
           c == op[h].of
           row == [of |-> c, expires |-> op[h].now + RefreshTtl,
                   revoked |-> FALSE, next |-> NoPair]
<1>1. TypeOK /\ Issuing(h) /\ Idle \in Ops
  BY DEF IInv, SaveRefreshToken, At, Issuing, Ops
<1>2. op[h] \in [pc : {"saveSession", "saveRefresh"}, of : Challenges,
                 pair : Pairs, now : Times]
  BY <1>1, OpShape
<1>3. /\ refresh' = [refresh EXCEPT ![q] = row] /\ op' = [op EXCEPT ![h] = Idle]
      /\ UNCHANGED <<clock, challenge, session, issued, history>>
  BY DEF SaveRefreshToken, Goto
<1>4. q \in Pairs /\ c \in Challenges /\ ~ row.revoked /\ row.of = c
      /\ row \in [of : Challenges, expires : Nat, revoked : BOOLEAN,
                  next : Pairs \cup {NoPair}]
  BY <1>2, WalletAuthAssumption DEF Times
<1>5. row # NoPair
  BY <1>4, WrittenRow, Zenon
<1>6. refresh[q] = NoPair /\ q <= issued /\ challenge[c].status = "consumed"
      /\ ended[c] = Never
  BY <1>1, <1>4 DEF IInv, IssuedApart, LineageConsumed, LogoutIsFinal
<1>61. /\ \A g \in Handlers : Issuing(g) /\ (op[g].of = c \/ op[g].pair = q) => g = h
       /\ \A p \in Pairs : Live(p) => refresh[p].of # c
  BY <1>1 DEF IInv, OneHolder, IssuedApart
<1>7. /\ refresh \in [Pairs -> RefreshRows] /\ refresh'[q] = row
      /\ \A p \in Pairs : p # q => refresh'[p] = refresh[p]
      /\ ~ Issuing(h)' /\ ~ Presenting(h)' /\ op'[h] = Idle
      /\ \A g \in Handlers : g # h => op'[g] = op[g]
      /\ \A g \in Handlers : Issuing(g)' <=> g # h /\ Issuing(g)
  BY <1>1, <1>3, <1>4 DEF TypeOK, Issuing, Presenting, Idle
<1>8. TypeOK'
  BY <1>1, <1>3, <1>4 DEF TypeOK, RefreshRows, history
<1> HIDE DEF row, q, c
<1>9. /\ \A p \in Pairs : p = q => Live(p)'
      /\ \A p \in Pairs : p # q => (Live(p)' <=> Live(p))
  <2>1. \A p \in Pairs : p = q => Live(p)'
    <3>1. row.revoked = FALSE
      BY DEF row
    <3> QED BY <1>5, <1>7, <3>1, Zenon DEF Live
  <2>2. \A p \in Pairs : p # q => (Live(p)' <=> Live(p))
    BY <1>7, Zenon DEF Live
  <2> QED BY <2>1, <2>2
<1>10. PresentedExist'
  <2>1. \A g \in Handlers : Presenting(g)' => Presenting(g) /\ op'[g] = op[g]
    BY <1>7 DEF Presenting
  <2>2. \A p \in Pairs : refresh[p] # NoPair => refresh'[p] # NoPair
    BY <1>5, <1>7
  <2>3. \A g \in Handlers : Presenting(g) => op[g].pair \in Pairs
    BY <1>1, OpShape
  <2> QED BY <2>1, <2>2, <2>3 DEF IInv, PresentedExist
<1>11. IssuedApart'
  <2>1. \A p \in Pairs : p \in Nat
    BY DEF Pairs
  <2>2. issued \in Nat
    BY <1>1 DEF TypeOK
  <2> QED BY <1>3, <1>4, <1>6, <1>61, <1>7, <2>1, <2>2 DEF IInv, IssuedApart
<1>12. LineageConsumed'
  BY <1>3, <1>4, <1>6, <1>7 DEF IInv, LineageConsumed, history
<1>13. SessionsBounded'
  BY <1>3, <1>7 DEF IInv, SessionsBounded, history
<1>14. OneHolder' /\ LogoutIsFinal'
  BY <1>3, <1>4, <1>6, <1>61, <1>7, <1>9 DEF IInv, OneHolder, LogoutIsFinal, history
<1>15. EndedOnlyByLogoutOrCrash'
  <2>1. \A d \in Challenges : challenge[d].status = "consumed" =>
          \/ ended[d] # Never \/ d \in lost \/ d = c
          \/ \E p \in Pairs : Live(p) /\ p # q /\ refresh[p].of = d
          \/ \E g \in Handlers : g # h /\ Issuing(g) /\ op[g].of = d
    <3> SUFFICES ASSUME NEW d \in Challenges, challenge[d].status = "consumed",
                        ended[d] = Never, d \notin lost, d # c
                 PROVE  \/ \E p \in Pairs : Live(p) /\ p # q /\ refresh[p].of = d
                        \/ \E g \in Handlers : g # h /\ Issuing(g) /\ op[g].of = d
      OBVIOUS
    <3>1. CASE \E p \in Pairs : Live(p) /\ refresh[p].of = d
      BY <1>6, <3>1 DEF Live
    <3>2. CASE \E g \in Handlers : Issuing(g) /\ op[g].of = d
      BY <3>2 DEF c
    <3> QED BY <3>1, <3>2 DEF IInv, EndedOnlyByLogoutOrCrash
  <2>2. refresh'[q].of = c /\ \A p \in Pairs : p # q => refresh'[p].of = refresh[p].of
    BY <1>4, <1>7
  <2>3. \A g \in Handlers : g # h => op'[g].of = op[g].of
    BY <1>7
  <2>4. UNCHANGED <<challenge, ended, lost>>
    BY <1>3 DEF history
  <2>5. \A d \in Challenges : challenge'[d].status = "consumed" =>
          \/ ended'[d] # Never \/ d \in lost'
          \/ \E p \in Pairs : Live(p)' /\ refresh'[p].of = d
          \/ \E g \in Handlers : Issuing(g)' /\ op'[g].of = d
    <3> SUFFICES ASSUME NEW d \in Challenges, challenge'[d].status = "consumed",
                        ended'[d] = Never, d \notin lost'
                 PROVE  \/ \E p \in Pairs : Live(p)' /\ refresh'[p].of = d
                        \/ \E g \in Handlers : Issuing(g)' /\ op'[g].of = d
      OBVIOUS
    <3>1. CASE d = c
      <4>1. \E p \in Pairs : Live(p)' /\ refresh'[p].of = d
        BY <1>4, <1>9, <2>2, <3>1
      <4> QED BY <4>1
    <3>2. CASE \E p \in Pairs : Live(p) /\ p # q /\ refresh[p].of = d
      <4>1. \E p \in Pairs : Live(p)' /\ refresh'[p].of = d
        BY <1>9, <2>2, <3>2
      <4> QED BY <4>1
    <3>3. CASE \E g \in Handlers : g # h /\ Issuing(g) /\ op[g].of = d
      <4>1. \E g \in Handlers : Issuing(g)' /\ op'[g].of = d
        BY <1>7, <2>3, <3>3
      <4> QED BY <4>1
    <3> QED BY <2>1, <2>4, <3>1, <3>2, <3>3
  <2> QED BY <2>5 DEF EndedOnlyByLogoutOrCrash
<1> QED BY <1>8, <1>10, <1>11, <1>12, <1>13, <1>14, <1>15 DEF IInv

\* A logout ends the lineage now: no session of it was issued later.
LEMMA RevokeStep ==
  ASSUME IInv, NEW h \in Handlers, Revoke(h)
  PROVE  IInv'
<1> DEFINE q == op[h].pair
           c == refresh[q].of
<1>1. TypeOK /\ Idle \in Ops /\ op[h].pc = "revoke"
  BY DEF IInv, Ops, Revoke, At
<1>2. q \in Pairs /\ ~ Issuing(h) /\ Presenting(h)
  BY <1>1, OpShape DEF Issuing, Presenting
<1>3. refresh[q] # NoPair
  BY <1>2 DEF IInv, PresentedExist
<1>4. refresh[q] \in [of : Challenges, expires : Nat, revoked : BOOLEAN,
                      next : Pairs \cup {NoPair}]
  BY <1>1, <1>2, <1>3, RowShape
<1>5. CASE ~ Unrevoked(q)
  <2>1. op' = [op EXCEPT ![h] = Idle] /\ UNCHANGED <<clock, store, issued, history>>
    BY <1>5 DEF Revoke, Goto, store, history
  <2> QED BY <1>1, <1>2, <2>1, Reading DEF Idle
<1>6. CASE Unrevoked(q)
  <2>1. /\ refresh' = [refresh EXCEPT ![q].revoked = TRUE]
        /\ ended' = [ended EXCEPT ![c] = clock]
        /\ op' = [op EXCEPT ![h] = Idle]
        /\ UNCHANGED <<clock, challenge, session, issued, lost>>
    BY <1>6 DEF Revoke, Goto
  <2>2. /\ refresh'[q] \in [of : Challenges, expires : Nat, revoked : {TRUE},
                            next : Pairs \cup {NoPair}]
        /\ refresh'[q].of = c
        /\ \A p \in Pairs : p # q => refresh'[p] = refresh[p]
        /\ refresh' \in [Pairs -> RefreshRows]
    BY <1>1, <1>2, <1>4, <2>1 DEF TypeOK, RefreshRows
  <2>3. refresh'[q] # NoPair /\ ~ (\E p \in Pairs : p = q /\ Live(p)')
    <3>1. refresh'[q] \in [of : Challenges, expires : Nat, revoked : BOOLEAN,
                           next : Pairs \cup {NoPair}]
      BY <2>2
    <3>2. refresh'[q] # NoPair
      BY <3>1, WrittenRow, Zenon
    <3>3. refresh'[q].revoked = TRUE
      BY <2>2
    <3> QED BY <3>2, <3>3, Zenon DEF Live
  <2>4. c \in Challenges /\ clock \in Nat /\ clock \in Times /\ clock # Never
        /\ SessionTtl \in Nat
    BY <1>1, <1>4, WalletAuthAssumption DEF TypeOK, Times
  <2>5. /\ ended \in [Challenges -> Times \cup {Never}]
        /\ ended'[c] = clock
        /\ \A d \in Challenges : d # c => ended'[d] = ended[d]
    BY <1>1, <2>1, <2>4 DEF TypeOK
  <2>6. TypeOK'
    BY <1>1, <2>1, <2>2, <2>4 DEF TypeOK
  <2>7. Live(q)
    BY <1>3, <1>6 DEF Live, Unrevoked
  <2> HIDE DEF q, c
  <2>8. /\ \A p \in Pairs : Live(p) /\ refresh[p].of = c => p = q
        /\ \A g \in Handlers : Issuing(g) => op[g].of # c
        /\ \A p \in Pairs : Live(p)' <=> Live(p) /\ p # q
        /\ \A p \in Pairs : /\ refresh'[p].of = refresh[p].of
                            /\ refresh[p] = NoPair <=> refresh'[p] = NoPair
    BY <1>2, <1>3, <2>2, <2>3, <2>7 DEF IInv, OneHolder, Live, c
  <2>9. /\ op'[h] = Idle /\ ~ Issuing(h)' /\ ~ Presenting(h)'
        /\ \A g \in Handlers : g # h => op'[g] = op[g]
        /\ \A g \in Handlers : Issuing(g)' <=> Issuing(g)
        /\ \A g \in Handlers : Issuing(g) => op'[g] = op[g]
    BY <1>1, <1>2, <2>1 DEF TypeOK, Issuing, Presenting, Idle
  <2>10. PresentedExist' /\ IssuedApart'
    <3>1. \A g \in Handlers : Presenting(g) => op[g].pair \in Pairs
      BY <1>1, OpShape
    <3>2. \A g \in Handlers : Issuing(g) => op[g].pair \in Pairs
      BY <1>1, OpShape
    <3>3. \A g \in Handlers : Presenting(g)' => Presenting(g) /\ op'[g] = op[g]
      BY <2>9 DEF Presenting
    <3> QED BY <2>1, <2>8, <2>9, <3>1, <3>2, <3>3 DEF IInv, PresentedExist, IssuedApart
  <2>11. LineageConsumed'
    <3>1. challenge[c].status = "consumed"
      BY <1>2, <1>3 DEF IInv, LineageConsumed, c
    <3> QED BY <2>1, <2>4, <2>5, <2>8, <2>9, <3>1 DEF IInv, LineageConsumed
  <2>12. SessionsBounded'
    <3>1. \A g \in Handlers : op'[g] # Idle => op'[g].now <= clock'
      BY <2>1, <2>9 DEF IInv, SessionsBounded
    <3>2. \A d \in Challenges : ended'[d] # Never => ended'[d] <= clock'
      BY <2>1, <2>4, <2>5 DEF IInv, SessionsBounded
    <3>3. \A p \in Pairs : session[p] # NoPair => session[p].of \in Challenges
      BY <1>1, RowShape
    <3>4. \A p \in Pairs : session'[p] # NoPair =>
            /\ session'[p].expires <= clock' + SessionTtl
            /\ ended'[session'[p].of] # Never =>
                 session'[p].expires <= ended'[session'[p].of] + SessionTtl
      BY <2>1, <2>5, <3>3 DEF IInv, SessionsBounded
    <3> QED BY <3>1, <3>2, <3>4 DEF SessionsBounded
  <2>13. OneHolder' /\ LogoutIsFinal'
    <3>1. \A p \in Pairs : Live(p) => refresh[p].of \in Challenges
      BY <1>1, RowShape DEF Live
    <3>2. \A g \in Handlers : Issuing(g) => op[g].of \in Challenges
      BY <1>1, OpShape
    <3> QED BY <2>5, <2>8, <2>9, <3>1, <3>2 DEF IInv, OneHolder, LogoutIsFinal
  <2>14. EndedOnlyByLogoutOrCrash'
    <3>1. \A d \in Challenges : challenge[d].status = "consumed" /\ d # c =>
            \/ ended[d] # Never \/ d \in lost
            \/ \E p \in Pairs : Live(p) /\ p # q /\ refresh[p].of = d
            \/ \E g \in Handlers : Issuing(g) /\ op[g].of = d
      BY DEF IInv, EndedOnlyByLogoutOrCrash, c
    <3> QED BY <2>1, <2>4, <2>5, <2>8, <2>9, <3>1 DEF EndedOnlyByLogoutOrCrash
  <2> QED BY <2>6, <2>10, <2>11, <2>12, <2>13, <2>14 DEF IInv
<1> QED BY <1>5, <1>6

\* A handler dies.
LEMMA CrashStep ==
  ASSUME IInv, NEW h \in Handlers, Crash(h)
  PROVE  IInv'
<1>1. TypeOK /\ Idle \in Ops
  BY DEF IInv, Ops
<1>2. /\ op' = [op EXCEPT ![h] = Idle] /\ UNCHANGED <<clock, store, issued, ended>>
      /\ lost' = lost \cup (IF Issuing(h) THEN {op[h].of} ELSE {})
  BY DEF Crash, Goto
<1>3. Issuing(h) => op[h].of \in Challenges
  BY <1>1, OpShape
<1>4. TypeOK'
  BY <1>1, <1>2, <1>3 DEF TypeOK, store
<1>5. /\ op'[h] = Idle
      /\ \A g \in Handlers : g # h => op'[g] = op[g]
      /\ \A g \in Handlers : Issuing(g)' <=> g # h /\ Issuing(g)
      /\ \A g \in Handlers : Presenting(g)' <=> g # h /\ Presenting(g)
      /\ \A p \in Pairs : Live(p)' <=> Live(p)
  BY <1>1, <1>2 DEF TypeOK, Issuing, Presenting, Idle, Live, store
<1>6. PresentedExist' /\ IssuedApart'
  BY <1>2, <1>5 DEF IInv, PresentedExist, IssuedApart, store
<1>7. LineageConsumed' /\ SessionsBounded'
  BY <1>2, <1>5 DEF IInv, LineageConsumed, SessionsBounded, store
<1>8. OneHolder' /\ LogoutIsFinal'
  BY <1>2, <1>5 DEF IInv, OneHolder, LogoutIsFinal, store
<1>9. EndedOnlyByLogoutOrCrash'
  BY <1>2, <1>5 DEF IInv, EndedOnlyByLogoutOrCrash, store
<1> QED BY <1>4, <1>6, <1>7, <1>8, <1>9 DEF IInv

-----------------------------------------------------------------------------
(* The theorems                                                            *)

\* Every step of the authenticator preserves the inductive invariant.
LEMMA StepIInv == IInv /\ [Next]_vars => IInv'
<1> SUFFICES ASSUME IInv, [Next]_vars PROVE IInv'
  OBVIOUS
<1>1. CASE Tick
  <2>1. clock \in Nat /\ clock' = clock + 1 /\ clock' \in Times
        /\ UNCHANGED <<store, issued, history, op>> /\ SessionTtl \in Nat
    BY <1>1, WalletAuthAssumption DEF Tick, IInv, TypeOK, Times
  <2>2. /\ TypeOK' /\ PresentedExist' /\ IssuedApart' /\ LineageConsumed'
        /\ OneHolder' /\ LogoutIsFinal' /\ EndedOnlyByLogoutOrCrash'
    BY <2>1 DEF IInv, TypeOK, PresentedExist, IssuedApart, LineageConsumed, OneHolder,
       LogoutIsFinal, EndedOnlyByLogoutOrCrash, Presenting, Issuing, Live, store, history
  <2>3. SessionsBounded'
    <3>1. \A h \in Handlers : op[h] # Idle => op[h].now \in Nat
      BY DEF IInv, TypeOK, Ops, Idle, Times
    <3>2. \A c \in Challenges : ended[c] # Never => ended[c] \in Nat
      BY DEF IInv, TypeOK, Times
    <3>3. \A p \in Pairs : session[p] # NoPair => session[p].expires \in Nat
      BY RowShape DEF IInv
    <3> QED BY <2>1, <3>1, <3>2, <3>3 DEF IInv, SessionsBounded, store, history
  <2> QED BY <2>2, <2>3 DEF IInv
<1>2. ASSUME NEW c \in Challenges, CreateChallenge(c) PROVE IInv'
  <2>1. /\ challenge[c].status = "none" /\ TypeOK
        /\ challenge' = [challenge EXCEPT
                           ![c] = [status |-> "open", expires |-> clock + ChallengeTtl]]
        /\ UNCHANGED <<clock, session, refresh, issued, history, op>>
    BY <1>2 DEF CreateChallenge, NoChallenge, IInv
  <2>2. [status |-> "open", expires |-> clock + ChallengeTtl] \in ChallengeRows
    BY <2>1, WalletAuthAssumption DEF TypeOK, ChallengeRows, Times
  <2>3. \A d \in Challenges :
          challenge'[d].status = "consumed" <=> challenge[d].status = "consumed"
    BY <2>1 DEF TypeOK
  <2>4. TypeOK' /\ PresentedExist' /\ IssuedApart' /\ SessionsBounded'
    BY <2>1, <2>2 DEF IInv, TypeOK, PresentedExist, IssuedApart, SessionsBounded,
                      Presenting, Issuing, history
  <2>5. LineageConsumed'
    <3>1. /\ \A h \in Handlers : Issuing(h) => op[h].of \in Challenges
          /\ \A p \in Pairs : refresh[p] # NoPair => refresh[p].of \in Challenges
      BY <2>1, OpShape, RowShape
    <3> QED BY <2>1, <2>3, <3>1 DEF IInv, LineageConsumed, Issuing, history
  <2>6. OneHolder' /\ LogoutIsFinal' /\ EndedOnlyByLogoutOrCrash'
    BY <2>1, <2>3 DEF IInv, OneHolder, LogoutIsFinal, EndedOnlyByLogoutOrCrash,
                      Issuing, Live, history
  <2> QED BY <2>4, <2>5, <2>6 DEF IInv
<1>3. ASSUME NEW h \in Handlers, HandlerStep(h) PROVE IInv'
  BY <1>3, ReadingSteps, ConsumeChallengeStep, RevokeOldStep, SaveSessionStep,
     SaveRefreshTokenStep, RevokeStep, CrashStep DEF HandlerStep
<1>4. CASE UNCHANGED vars
  BY <1>4 DEF IInv, TypeOK, PresentedExist, IssuedApart, LineageConsumed,
     SessionsBounded, OneHolder, LogoutIsFinal, EndedOnlyByLogoutOrCrash,
     Presenting, Issuing, Live, vars, store, history
<1> QED BY <1>1, <1>2, <1>3, <1>4 DEF Next

\* The inductive invariant holds in every reachable state.
LEMMA IInvHolds == Spec => []IInv
  BY InitIInv, StepIInv, PTL DEF Spec

\* A challenge is worth one session at a time, for any number of handlers that
\* consume it and exchange its tokens at once.
THEOREM OneHolderHolds == Spec => []OneHolder
<1>1. IInv => OneHolder
  BY DEF IInv
<1> QED BY <1>1, IInvHolds, PTL

\* After a logout was answered as effective nothing of its lineage is live.
THEOREM LogoutIsFinalHolds == Spec => []LogoutIsFinal
<1>1. IInv => LogoutIsFinal
  BY DEF IInv
<1> QED BY <1>1, IInvHolds, PTL

\* No interleaving of refreshes loses a session.
THEOREM NoSessionIsLost == Spec => []EndedOnlyByLogoutOrCrash
<1>1. IInv => EndedOnlyByLogoutOrCrash
  BY DEF IInv
<1> QED BY <1>1, IInvHolds, PTL

\* One session lifetime after a logout no access token of it is accepted.
THEOREM AccessEnds == Spec => []AccessEndsAfterLogout
<1>1. IInv => AccessEndsAfterLogout
  <2> SUFFICES ASSUME IInv, NEW c \in Challenges, NEW p \in Pairs,
                      ended[c] # Never, clock >= ended[c] + SessionTtl,
                      session[p] # NoPair, session[p].of = c
               PROVE  ~ Authenticates(p)
    BY DEF AccessEndsAfterLogout
  <2>1. session[p].expires <= ended[c] + SessionTtl
    BY DEF IInv, SessionsBounded
  <2>2. session[p].expires \in Nat /\ ended[c] \in Nat /\ clock \in Nat /\ SessionTtl \in Nat
    BY RowShape, WalletAuthAssumption DEF IInv, TypeOK, Times
  <2> QED BY <2>1, <2>2 DEF Authenticates
<1> QED BY <1>1, IInvHolds, PTL
=============================================================================
