-------------------------- MODULE FederationProofs --------------------------
(***************************************************************************)
(* Theorems about AuthTokens, DirectorySync and CalendarSync, for any tokens,*)
(* chains, server tasks, sign-on requests, lifetimes and leeway, for any   *)
(* users, groups, roles, mappings, runs and group patches, and for any     *)
(* reservations, events, slots, relay tasks, watchdogs and mishaps.        *)
(***************************************************************************)
EXTENDS MCFederation,
  FiniteSetTheorems, TLAPS

-----------------------------------------------------------------------------
(* Refresh tokens and sign-on requests *)

(* A request that has inserted its row is alone, and its token has no          *)
(* committed row; a successor is issued only for a token that was issued.      *)
OnlyInserter ==
  \A p, q \in Servers :
    req[p].step = "inserted" /\ req[q].step = "inserted" /\ req[p].tok = req[q].tok => p = q
InserterIsFirst ==
  \A p \in Servers : req[p].step = "inserted" => revoked[req[p].tok] = "NONE"
OfIssued ==
  /\ \A p \in Servers : req[p].step # "idle" => req[p].tok \in Tokens /\ Issued(req[p].tok)
  /\ \A n \in Tokens : token[n].parent # 0 => Issued(n) /\ Issued(token[n].parent)
  /\ \A t \in Tokens : ended[t] # "NONE" => Issued(t)

TokInv ==
  /\ TokTypeOK /\ OnlyInserter /\ InserterIsFirst /\ OfIssued
  /\ ChainIsLinear
  /\ RevocationOutlivesToken

LEMMA InitTokInv == TokInit => TokInv
<1> SUFFICES ASSUME TokInit PROVE TokInv
  OBVIOUS
<1>1. TokTypeOK
  <2>1. clock \in 0..TokMaxTime /\ enabled \in BOOLEAN
    BY TokAssumption DEF TokInit
  <2>2. token \in [Tokens -> [iat : Nat, exp : Nat, parent : {0} \cup Tokens]]
    BY DEF TokInit, NoToken
  <2>3. revoked \in [Tokens -> Reasons] /\ ended \in [Tokens -> Reasons]
    BY DEF TokInit, Reasons
  <2>4. req \in [Servers -> [step : {"idle", "verified", "checked", "inserted"},
                             tok : {0} \cup Tokens]]
    BY DEF TokInit, NoReq
  <2>5. sso \in [States -> [row : {"none", "open", "consumed", "purged"},
                            expires : Nat, uses : Nat]]
    BY DEF TokInit
  <2> QED BY <2>1, <2>2, <2>3, <2>4, <2>5 DEF TokTypeOK
<1>2. /\ \A p \in Servers : req[p].step = "idle"
      /\ \A t \in Tokens : token[t] = NoToken /\ ended[t] = "NONE"
  BY DEF TokInit, NoReq
<1>3. OnlyInserter /\ InserterIsFirst /\ OfIssued
  BY <1>2 DEF OnlyInserter, InserterIsFirst, OfIssued, NoToken
<1>4. ChainIsLinear /\ RevocationOutlivesToken
  BY <1>2 DEF ChainIsLinear, InLifetime, Issued, RevocationOutlivesToken, NoToken
<1> QED BY <1>1, <1>3, <1>4 DEF TokInv

-----------------------------------------------------------------------------
(* Steps that leave the tokens and their rows alone: a request moves on, to a   *)
(* step that needs no row of its own, or to the insertion it is first to make. *)
LEMMA RequestMoves ==
  ASSUME TokInv, NEW p \in Servers,
         NEW r \in [step : {"idle", "verified", "checked", "inserted"}, tok : {0} \cup Tokens],
         req' = [req EXCEPT ![p] = r],
         UNCHANGED <<clock, enabled, token, revoked, ended, sso>>,
         r.step # "idle" => r.tok \in Tokens /\ Issued(r.tok),
         r.step = "inserted" => ~InFlight(r.tok) /\ revoked[r.tok] = "NONE"
  PROVE  TokInv'
<1>1. TokTypeOK'
  BY DEF TokInv, TokTypeOK
<1>2. req'[p] = r /\ \A q \in Servers \ {p} : req'[q] = req[q]
  BY DEF TokInv, TokTypeOK
<1>3. OnlyInserter'
  BY <1>2 DEF TokInv, OnlyInserter, InFlight
<1>4. InserterIsFirst'
  BY <1>2 DEF TokInv, InserterIsFirst
<1>5. OfIssued'
  BY <1>2 DEF TokInv, OfIssued, Issued
<1>6. ChainIsLinear' /\ RevocationOutlivesToken'
  BY DEF TokInv, ChainIsLinear, InLifetime, Issued, RevocationOutlivesToken
<1> QED BY <1>1, <1>3, <1>4, <1>5, <1>6 DEF TokInv

LEMMA RequestStep ==
  ASSUME TokInv, NEW p \in Servers,
         (\E t \in Tokens : Refresh(p, t)) \/ Check(p) \/ InsertRotated(p) \/ Abort(p)
  PROVE  TokInv'
<1>1. /\ req[p] \in [step : {"idle", "verified", "checked", "inserted"}, tok : {0} \cup Tokens]
      /\ req[p].step # "idle" => req[p].tok \in Tokens /\ Issued(req[p].tok)
      /\ NoReq \in [step : {"idle", "verified", "checked", "inserted"}, tok : {0} \cup Tokens]
      /\ NoReq.step = "idle"
  BY DEF TokInv, TokTypeOK, OfIssued, NoReq
<1>2. CASE \E t \in Tokens : Refresh(p, t)
  BY <1>2, RequestMoves DEF Refresh, Valid
<1>3. CASE End(p) /\ UNCHANGED <<clock, enabled, token, revoked, ended, sso>>
  BY <1>1, <1>3, RequestMoves DEF End
<1>4. ASSUME NEW s \in {"checked", "inserted"}, req' = [req EXCEPT ![p].step = s],
             UNCHANGED <<clock, enabled, token, revoked, ended, sso>>, req[p].step # "idle",
             s = "inserted" => ~InFlight(req[p].tok) /\ revoked[req[p].tok] = "NONE"
      PROVE  TokInv'
  <2> DEFINE r == [req[p] EXCEPT !.step = s]
  <2>1. /\ r \in [step : {"idle", "verified", "checked", "inserted"}, tok : {0} \cup Tokens]
        /\ r.step = s /\ r.tok = req[p].tok
    BY <1>1
  <2>2. req' = [req EXCEPT ![p] = r]
    BY <1>4
  <2> HIDE DEF r
  <2> QED BY <1>1, <1>4, <2>1, <2>2, RequestMoves
<1> QED BY <1>2, <1>3, <1>4 DEF Check, InsertRotated, Abort

-----------------------------------------------------------------------------
(* A row is recorded for a token that has none; no other row is touched, and    *)
(* the reason the token first ended stays.                                    *)
LEMMA RecordFacts ==
  ASSUME TokTypeOK, NEW t \in Tokens, NEW reason \in Reasons \ {"NONE"}, Record(t, reason)
  PROVE  /\ revoked' \in [Tokens -> Reasons] /\ ended' \in [Tokens -> Reasons]
         /\ revoked'[t] = reason
         /\ \A u \in Tokens \ {t} : revoked'[u] = revoked[u] /\ ended'[u] = ended[u]
         /\ ended'[t] = IF ended[t] = "NONE" THEN reason ELSE ended[t]
<1>1. revoked' = [revoked EXCEPT ![t] = reason]
  BY DEF Record
<1>2. ended' = [ended EXCEPT ![t] = IF ended[t] = "NONE" THEN reason ELSE ended[t]]
  BY DEF Record
<1>3. \A u \in Tokens : ended[u] \in Reasons
  BY DEF TokTypeOK
<1> QED BY <1>1, <1>2, <1>3 DEF TokTypeOK

(* Such a token is past its expiry or was never ended before.                  *)
LEMMA RecordKeepsRevocation ==
  ASSUME TokInv, NEW t \in Tokens, NEW reason \in Reasons \ {"NONE"}, Record(t, reason),
         revoked[t] = "NONE", UNCHANGED clock,
         \A u \in Tokens : Issued(u) => token'[u].exp = token[u].exp,
         Issued(t)
  PROVE  RevocationOutlivesToken'
<1>1. TokTypeOK
  BY DEF TokInv
<1>2. ASSUME NEW u \in Tokens, ended'[u] # "NONE", clock <= token'[u].exp
      PROVE  revoked'[u] = ended'[u]
  <2>1. CASE u = t
    <3>1. clock <= token[t].exp
      BY <1>2, <2>1
    <3>2. ended[t] = "NONE"
      BY <3>1 DEF TokInv, RevocationOutlivesToken
    <3> QED BY <1>1, <2>1, <3>2, RecordFacts
  <2>2. CASE u # t
    BY <1>1, <1>2, <2>2, RecordFacts DEF TokInv, OfIssued, RevocationOutlivesToken
  <2> QED BY <2>1, <2>2
<1> QED BY <1>2 DEF RevocationOutlivesToken

-----------------------------------------------------------------------------
(* A token is issued under a new name, with an expiry in the future; nothing    *)
(* was ever issued for it.                                                    *)
LEMMA IssueFacts ==
  ASSUME TokInv, NEW n \in Tokens, NEW parent \in {0} \cup Tokens, ~Issued(n), Issue(n, parent)
  PROVE  /\ token' \in [Tokens -> [iat : Nat, exp : Nat, parent : {0} \cup Tokens]]
         /\ \A u \in Tokens \ {n} : token'[u] = token[u]
         /\ token'[n].iat = clock /\ token'[n].exp = clock + Ttl /\ token'[n].parent = parent
         /\ Issued(n)'
         /\ \A u \in Tokens : Issued(u) => u # n /\ Issued(u)'
         /\ \A u \in Tokens : token[u].parent # n
         /\ clock \in Nat /\ Ttl \in Nat \ {0} /\ 0 \notin Tokens
<1>1. clock \in Nat /\ Ttl \in Nat \ {0} /\ 0 \notin Tokens
  BY TokAssumption DEF TokInv, TokTypeOK, Tokens
<1> DEFINE r == [iat |-> clock, exp |-> clock + Ttl, parent |-> parent]
<1>2. r \in [iat : Nat, exp : Nat, parent : {0} \cup Tokens]
  BY <1>1
<1>3. token' = [token EXCEPT ![n] = r]
  BY DEF Issue
<1>4. token'[n] = r /\ \A u \in Tokens \ {n} : token'[u] = token[u]
  BY <1>3 DEF TokInv, TokTypeOK
<1>5. Issued(n)' /\ \A u \in Tokens : Issued(u) => u # n /\ Issued(u)'
  BY <1>1, <1>4 DEF Issued
<1>6. \A u \in Tokens : token[u].parent # n
  BY <1>1 DEF TokInv, OfIssued
<1> QED BY <1>1, <1>2, <1>3, <1>4, <1>5, <1>6 DEF TokInv, TokTypeOK

LEMMA LoginStep ==
  ASSUME TokInv, NEW n \in Tokens, Login(n)
  PROVE  TokInv'
<1>1. /\ ~Issued(n) /\ Issue(n, 0)
      /\ UNCHANGED <<clock, enabled, revoked, ended, req, sso>>
  BY DEF Login, IsNew
<1> HIDE DEF Login
<1>2. TokTypeOK'
  BY <1>1, IssueFacts DEF TokInv, TokTypeOK
<1>3. OnlyInserter' /\ InserterIsFirst'
  BY <1>1 DEF TokInv, OnlyInserter, InserterIsFirst
<1>4. OfIssued'
  BY <1>1, IssueFacts DEF TokInv, OfIssued
<1>5. \A t, m \in Tokens : InLifetime(m, t)' => InLifetime(m, t)
  <2> SUFFICES ASSUME NEW t \in Tokens, NEW m \in Tokens, InLifetime(m, t)'
               PROVE  InLifetime(m, t)
    OBVIOUS
  <2>1. m # n /\ t # n
    BY <1>1, IssueFacts DEF InLifetime
  <2> QED BY <1>1, <2>1, IssueFacts DEF InLifetime, Issued
<1>6. ChainIsLinear'
  BY <1>1, <1>5 DEF TokInv, ChainIsLinear
<1>7. RevocationOutlivesToken'
  BY <1>1, IssueFacts DEF TokInv, OfIssued, RevocationOutlivesToken
<1> QED BY <1>2, <1>3, <1>4, <1>6, <1>7 DEF TokInv

LEMMA LogoutStep ==
  ASSUME TokInv, NEW t \in Tokens, Logout(t)
  PROVE  TokInv'
<1>1. /\ Issued(t) /\ ~InFlight(t) /\ revoked[t] = "NONE" /\ Record(t, "LOGOUT")
      /\ "LOGOUT" \in Reasons \ {"NONE"} /\ TokTypeOK
      /\ UNCHANGED <<clock, enabled, token, req, sso>>
  BY DEF Logout, Valid, Reasons, TokInv
<1>2. TokTypeOK'
  BY <1>1, RecordFacts DEF TokTypeOK
<1>3. OnlyInserter' /\ InserterIsFirst'
  BY <1>1, RecordFacts DEF TokInv, OnlyInserter, InserterIsFirst, InFlight, OfIssued
<1>4. OfIssued'
  BY <1>1, RecordFacts DEF TokInv, OfIssued, Issued
<1>5. \A u \in Tokens : ended[u] = "ROTATED" => ended'[u] = "ROTATED"
  BY <1>1, RecordFacts
<1>6. ChainIsLinear'
  BY <1>1, <1>5 DEF TokInv, ChainIsLinear, InLifetime, Issued
<1>7. RevocationOutlivesToken'
  BY <1>1, RecordKeepsRevocation
<1> QED BY <1>2, <1>3, <1>4, <1>6, <1>7 DEF TokInv

(* A successor issued in the lifetime of its token is the first: the token was   *)
(* not ended before, or its row would still be there.                          *)
LEMMA ExchangeStep ==
  ASSUME TokInv, NEW p \in Servers, NEW n \in Tokens, Exchange(p, n)
  PROVE  TokInv'
<1> DEFINE t == req[p].tok
<1>1. /\ ~Issued(n) /\ Issue(n, t) /\ Record(t, "ROTATED") /\ End(p)
      /\ "ROTATED" \in Reasons \ {"NONE"} /\ TokTypeOK
      /\ t \in Tokens /\ Issued(t) /\ revoked[t] = "NONE"
      /\ req[p].step = "inserted" /\ UNCHANGED <<clock, enabled, sso>>
  BY DEF Exchange, IsNew, Reasons, TokInv, OfIssued, InserterIsFirst
<1>2. /\ NoReq \in [step : {"idle", "verified", "checked", "inserted"}, tok : {0} \cup Tokens]
      /\ NoReq.step = "idle" /\ req' = [req EXCEPT ![p] = NoReq]
  BY <1>1 DEF NoReq, End
<1>3. req'[p] = NoReq /\ \A q \in Servers \ {p} : req'[q] = req[q]
  BY <1>1, <1>2 DEF TokTypeOK
<1> HIDE DEF t
<1>14. /\ token' \in [Tokens -> [iat : Nat, exp : Nat, parent : {0} \cup Tokens]]
       /\ \A u \in Tokens \ {n} : token'[u] = token[u]
       /\ token'[n].iat = clock /\ token'[n].exp = clock + Ttl /\ token'[n].parent = t
       /\ \A u \in Tokens : Issued(u) => u # n
       /\ \A u \in Tokens : Issued(u) => Issued(u)'
       /\ Issued(n)'
       /\ \A u \in Tokens : token[u].parent # n
       /\ 0 \notin Tokens
  BY <1>1, IssueFacts
<1>4. TokTypeOK'
  BY <1>1, <1>2, <1>14, RecordFacts DEF TokTypeOK
<1>5. OnlyInserter'
  BY <1>2, <1>3 DEF TokInv, OnlyInserter
<1>6. InserterIsFirst'
  BY <1>1, <1>2, <1>3, RecordFacts DEF TokInv, InserterIsFirst, OnlyInserter, OfIssued, t
<1>7. OfIssued'
  <2>1. \A q \in Servers : req'[q].step # "idle" => req'[q].tok \in Tokens /\ Issued(req[q].tok)'
    BY <1>2, <1>3, <1>14 DEF TokInv, OfIssued, Issued
  <2>2. \A m \in Tokens : token'[m].parent # 0 => Issued(m)' /\ Issued(token[m].parent)'
    BY <1>1, <1>14 DEF TokInv, OfIssued, TokTypeOK, Issued
  <2>3. \A u \in Tokens : ended'[u] # "NONE" => Issued(u)'
    BY <1>1, <1>14, RecordFacts DEF TokInv, OfIssued
  <2> QED BY <2>1, <2>2, <2>3 DEF OfIssued
<1>8. \A u, m \in Tokens :
        InLifetime(m, u)' => \/ InLifetime(m, u)
                             \/ m = n /\ u = t /\ clock <= token[t].exp
  <2> SUFFICES ASSUME NEW u \in Tokens, NEW m \in Tokens,
                      (Issued(m) /\ token[m].parent = u /\ token[m].iat <= token[u].exp)'
               PROVE  InLifetime(m, u) \/ (m = n /\ u = t /\ clock <= token[t].exp)
    BY DEF InLifetime
  <2>1. CASE m # n
    <3>1. u # n
      BY <1>1, <1>14, <2>1 DEF InLifetime
    <3>2. token'[m] = token[m] /\ token'[u] = token[u]
      BY <1>14, <2>1, <3>1
    <3> QED BY <3>2 DEF InLifetime, Issued
  <2>2. CASE m = n
    BY <1>1, <1>14, <2>2 DEF InLifetime
  <2> QED BY <2>1, <2>2
<1>9. clock <= token[t].exp => ended[t] = "NONE" /\ \A m \in Tokens : ~InLifetime(m, t)
  BY <1>1 DEF TokInv, RevocationOutlivesToken, ChainIsLinear
<1>10. \A u \in Tokens : ended[u] = "ROTATED" => ended'[u] = "ROTATED"
  BY <1>1, RecordFacts
<1>11. ended[t] = "NONE" => ended'[t] = "ROTATED"
  BY <1>1, RecordFacts
<1>12. ChainIsLinear'
  BY <1>8, <1>9, <1>10, <1>11 DEF TokInv, ChainIsLinear
<1>13. RevocationOutlivesToken'
  <2>1. \A u \in Tokens : Issued(u) => token'[u].exp = token[u].exp
    BY <1>14
  <2> QED BY <1>1, <2>1, RecordKeepsRevocation
<1> QED BY <1>4, <1>5, <1>6, <1>7, <1>12, <1>13 DEF TokInv

-----------------------------------------------------------------------------
(* The purge takes rows of expired tokens only, and time only takes away.       *)
LEMMA PurgeStep ==
  ASSUME TokInv, Purge
  PROVE  TokInv'
<1>1. /\ revoked' = [t \in Tokens |-> IF Expired(t) THEN "NONE" ELSE revoked[t]]
      /\ sso' = [s \in States |-> IF Stale(s) THEN [sso[s] EXCEPT !.row = "purged"] ELSE sso[s]]
      /\ UNCHANGED <<clock, enabled, token, ended, req>>
  BY DEF Purge
<1>2. TokTypeOK'
  <2>1. revoked' \in [Tokens -> Reasons]
    BY <1>1 DEF TokInv, TokTypeOK, Reasons
  <2>2. sso' \in [States -> [row : {"none", "open", "consumed", "purged"},
                             expires : Nat, uses : Nat]]
    BY <1>1 DEF TokInv, TokTypeOK
  <2> QED BY <1>1, <2>1, <2>2 DEF TokInv, TokTypeOK
<1>3. OnlyInserter' /\ InserterIsFirst' /\ OfIssued'
  BY <1>1 DEF TokInv, OnlyInserter, InserterIsFirst, OfIssued, Issued
<1>4. ChainIsLinear'
  BY <1>1 DEF TokInv, ChainIsLinear, InLifetime, Issued
<1>5. RevocationOutlivesToken'
  <2>1. \A t \in Tokens : clock <= token[t].exp => ~Expired(t)
    BY TokAssumption DEF Expired, TokInv, TokTypeOK
  <2> QED BY <1>1, <2>1 DEF TokInv, RevocationOutlivesToken
<1> QED BY <1>2, <1>3, <1>4, <1>5 DEF TokInv

LEMMA TickStep ==
  ASSUME TokInv, TokTick
  PROVE  TokInv'
<1>1. TokTypeOK'
  BY TokAssumption DEF TokTick, TokInv, TokTypeOK
<1>2. OnlyInserter' /\ InserterIsFirst' /\ OfIssued' /\ ChainIsLinear'
  BY DEF TokTick, TokInv, OnlyInserter, InserterIsFirst, OfIssued, ChainIsLinear, InLifetime,
         Issued
<1>3. RevocationOutlivesToken'
  BY TokAssumption DEF TokTick, TokInv, TokTypeOK, RevocationOutlivesToken
<1> QED BY <1>1, <1>2, <1>3 DEF TokInv

(* Sign-on requests and the status of the account touch no token.               *)
LEMMA OtherStep ==
  ASSUME TokInv,
         SwitchUser \/ (\E s \in States : Authorize(s) \/ Callback(s)) \/ UNCHANGED tokVars
  PROVE  TokInv'
<1>1. UNCHANGED <<clock, token, revoked, ended, req>>
  BY DEF SwitchUser, Authorize, Callback, tokVars
<1>2. TokTypeOK'
  <2>1. enabled' \in BOOLEAN
    BY DEF SwitchUser, Authorize, Callback, tokVars, TokInv, TokTypeOK
  <2>2. sso' \in [States -> [row : {"none", "open", "consumed", "purged"},
                             expires : Nat, uses : Nat]]
    <3>1. CASE \E s \in States : Authorize(s)
      <4> PICK s \in States : Authorize(s)
        BY <3>1
      <4>1. [row |-> "open", expires |-> clock + SsoTtl, uses |-> 0]
              \in [row : {"none", "open", "consumed", "purged"}, expires : Nat, uses : Nat]
        BY TokAssumption DEF TokInv, TokTypeOK
      <4> QED BY <4>1 DEF Authorize, TokInv, TokTypeOK
    <3>2. CASE \E s \in States : Callback(s)
      <4> PICK s \in States : Callback(s)
        BY <3>2
      <4>1. sso[s].expires \in Nat /\ sso[s].uses \in Nat
        BY DEF TokInv, TokTypeOK
      <4>2. [row |-> "consumed", expires |-> sso[s].expires, uses |-> sso[s].uses + 1]
              \in [row : {"none", "open", "consumed", "purged"}, expires : Nat, uses : Nat]
        BY <4>1
      <4> QED BY <4>2 DEF Callback, TokInv, TokTypeOK
    <3>3. CASE UNCHANGED sso
      BY <3>3 DEF TokInv, TokTypeOK
    <3> QED BY <3>1, <3>2, <3>3 DEF SwitchUser, tokVars
  <2> QED BY <1>1, <2>1, <2>2 DEF TokInv, TokTypeOK
<1>3. OnlyInserter' /\ InserterIsFirst' /\ OfIssued'
  BY <1>1 DEF TokInv, OnlyInserter, InserterIsFirst, OfIssued, Issued
<1>4. ChainIsLinear' /\ RevocationOutlivesToken'
  BY <1>1 DEF TokInv, ChainIsLinear, InLifetime, Issued, RevocationOutlivesToken
<1> QED BY <1>2, <1>3, <1>4 DEF TokInv

LEMMA NextTokInv == TokInv /\ [TokNext]_tokVars => TokInv'
BY RequestStep, LoginStep, LogoutStep, ExchangeStep, PurgeStep, TickStep, OtherStep DEF TokNext

(* The inductive invariant holds in every reachable state.                    *)
THEOREM TokInvariant == TokSpec => []TokInv
BY InitTokInv, NextTokInv, PTL DEF TokSpec

(* Every variable keeps its type.                                            *)
THEOREM TokensTyped == TokSpec => []TokTypeOK
<1>1. TokInv => TokTypeOK
  BY DEF TokInv
<1> QED BY TokInvariant, <1>1, PTL

(* However many exchanges, logouts and purges race or abort, a token has at most *)
(* one successor issued in its lifetime, and none unless it ended by rotation.  *)
THEOREM ChainsAreLinear == TokSpec => []ChainIsLinear
<1>1. TokInv => ChainIsLinear
  BY DEF TokInv
<1> QED BY TokInvariant, <1>1, PTL

(* The row that ended a token is there until the token has expired.             *)
THEOREM RevocationsOutlive == TokSpec => []RevocationOutlivesToken
<1>1. TokInv => RevocationOutlivesToken
  BY DEF TokInv
<1> QED BY TokInvariant, <1>1, PTL

(* Both together.                                                             *)
THEOREM RevocationsHold == TokSpec => []RevocationHolds
<1>1. TokInv => RevocationHolds
  BY DEF TokInv, RevocationHolds
<1> QED BY TokInvariant, <1>1, PTL

-----------------------------------------------------------------------------
(* Directory groups, mappings and grants *)

(* A row that a run has inserted and not committed: its key is still free for  *)
(* everybody else, and the group it refers to cannot be deleted.             *)
WonInv(s) ==
  \A o \in sync[s].won :
    /\ sync[s].on
    /\ grant[<<o[1], o[3]>>] = "NONE"
    /\ o[2] \in dirGroups

(* No two runs insert the same row.                                         *)
HeldAlone ==
  \A s, t \in Syncs : \A o \in sync[s].won, q \in sync[t].won :
    (o[1] = q[1] /\ o[3] = q[3]) => s = t

(* The group of an open patch exists.                                        *)
PatchInv == \A c \in Clients : edit[c].step # "idle" => edit[c].group \in dirGroups

DirInv == DirTypeOK /\ HeldAlone /\ PatchInv /\ \A s \in Syncs : WonInv(s)

Run == [on : BOOLEAN, todo : SUBSET Offer, won : SUBSET Offer, stuck : BOOLEAN]
Patch == [step : {"idle", "edit", "waiting", "counted"}, group : {"NONE"} \cup DirGroups,
          add : SUBSET People, del : SUBSET People, n : Nat]

LEMMA Shapes == Asleep \in Run /\ Asleep.won = {} /\ ~Asleep.on /\ NoEdit \in Patch
              /\ NoEdit.step = "idle"
BY DEF Asleep, NoEdit, Run, Patch

(* A count of users is a number.                                            *)
LEMMA PeopleAreCounted ==
  ASSUME NEW S \in SUBSET People
  PROVE  Cardinality(S) \in Nat
<1>1. IsFiniteSet(S)
  BY DirAssumption, FS_Subset
<1> QED BY <1>1, FS_CardinalityType

LEMMA MembersAreCounted ==
  ASSUME NEW ms \in SUBSET (People \X DirGroups), NEW g \in DirGroups
  PROVE  SizeIn(g, ms) \in Nat
<1> DEFINE T == {m \in ms : m[2] = g}
<1>1. IsFiniteSet({g})
  BY FS_Singleton
<1>2. IsFiniteSet(People \X {g})
  BY <1>1, DirAssumption, FS_Product
<1>3. T \subseteq People \X {g}
  OBVIOUS
<1>4. IsFiniteSet(T)
  BY <1>2, <1>3, FS_Subset
<1>5. Cardinality(T) \in Nat
  BY <1>4, FS_CardinalityType
<1> QED BY <1>5 DEF SizeIn

LEMMA InitDirInv == DirInit => DirInv
<1> SUFFICES ASSUME DirInit PROVE DirInv
  OBVIOUS
<1>1. tally \in [DirGroups -> Nat]
  BY MembersAreCounted DEF DirInit
<1>2. dirGroups \subseteq DirGroups /\ members \subseteq People \X dirGroups
  BY DEF DirInit
<1>3. mappings \subseteq Mappable \cap (dirGroups \X DirRoles)
  BY DirAssumption DEF DirInit
<1>4. grant \in [Grantees -> {"NONE", "MANUAL"} \cup dirGroups]
  BY DEF DirInit
<1>5. sync \in [Syncs -> Run] /\ edit \in [Clients -> Patch]
  BY Shapes DEF DirInit
<1>6. changes \in 0..MaxChanges
  BY DirAssumption DEF DirInit
<1>7. DirTypeOK
  BY <1>1, <1>2, <1>3, <1>4, <1>5, <1>6 DEF DirTypeOK, Run, Patch
<1>8. HeldAlone /\ PatchInv /\ \A s \in Syncs : WonInv(s)
  BY Shapes DEF DirInit, WonInv, HeldAlone, PatchInv
<1> QED BY <1>7, <1>8 DEF DirInv

(* The types, taken apart.                                                  *)
LEMMA Types ==
  ASSUME DirTypeOK
  PROVE  /\ dirGroups \subseteq DirGroups
         /\ members \subseteq People \X dirGroups
         /\ mappings \subseteq Mappable \cap (dirGroups \X DirRoles)
         /\ grant \in [Grantees -> {"NONE", "MANUAL"} \cup dirGroups]
         /\ tally \in [DirGroups -> Nat]
         /\ sync \in [Syncs -> Run]
         /\ edit \in [Clients -> Patch]
         /\ changes \in 0..MaxChanges
BY DEF DirTypeOK, Run, Patch

LEMMA Counting ==
  ASSUME DirTypeOK, Change
  PROVE  changes' \in 0..MaxChanges
<1>1. changes \in 0..MaxChanges /\ MaxChanges \in Nat
  BY DirAssumption, Types
<1> QED BY <1>1 DEF Change

(* A step that changes nothing but the record of run s.                       *)
OnlyRun(s) ==
  /\ sync' \in [Syncs -> Run] /\ \A t \in Syncs \ {s} : sync'[t] = sync[t]
  /\ UNCHANGED <<dirGroups, members, mappings, tally, edit>>

(* Nobody but s has inserted the row that offer o gives.                      *)
Unheld(s, o) ==
  \A t \in Syncs \ {s} : \A q \in sync[t].won : ~(q[1] = o[1] /\ q[3] = o[3])

LEMMA RunStep ==
  ASSUME DirInv, NEW s \in Syncs, OnlyRun(s), UNCHANGED grant,
         changes' \in 0..MaxChanges,
         \A o \in sync'[s].won : /\ sync'[s].on
                                 /\ grant[<<o[1], o[3]>>] = "NONE"
                                 /\ o[2] \in dirGroups
                                 /\ o \in sync[s].won \/ Unheld(s, o)
  PROVE  DirInv'
<1>1. DirTypeOK'
  BY DEF DirInv, DirTypeOK, OnlyRun, Run
<1>2. ASSUME NEW t \in Syncs PROVE WonInv(t)'
  <2>1. CASE t = s
    BY <2>1 DEF OnlyRun, WonInv
  <2>2. CASE t # s
    BY <2>2 DEF OnlyRun, WonInv, DirInv
  <2> QED BY <2>1, <2>2
<1>3. ASSUME NEW t \in Syncs, NEW v \in Syncs,
             NEW o \in sync'[t].won, NEW q \in sync'[v].won, o[1] = q[1], o[3] = q[3]
      PROVE  t = v
  <2>1. CASE t = s /\ v # s
    <3>1. q \in sync[v].won
      BY <2>1 DEF OnlyRun
    <3>2. o \in sync[s].won \/ Unheld(s, o)
      BY <2>1
    <3> QED BY <1>3, <2>1, <3>1, <3>2 DEF Unheld, DirInv, HeldAlone
  <2>2. CASE t # s /\ v = s
    <3>1. o \in sync[t].won
      BY <2>2 DEF OnlyRun
    <3>2. q \in sync[s].won \/ Unheld(s, q)
      BY <2>2
    <3> QED BY <1>3, <2>2, <3>1, <3>2 DEF Unheld, DirInv, HeldAlone
  <2>3. CASE t # s /\ v # s
    BY <1>3, <2>3 DEF OnlyRun, DirInv, HeldAlone
  <2> QED BY <2>1, <2>2, <2>3
<1>4. HeldAlone' /\ PatchInv'
  BY <1>3 DEF HeldAlone, OnlyRun, DirInv, PatchInv
<1> QED BY <1>1, <1>2, <1>4 DEF DirInv

LEMMA StartKeeps ==
  ASSUME DirInv, NEW s \in Syncs, StartSync(s)
  PROVE  DirInv'
<1>1. sync \in [Syncs -> Run] /\ changes \in 0..MaxChanges
  BY Types DEF DirInv
<1> DEFINE r == [Asleep EXCEPT !.on = TRUE, !.todo = Offers]
<1>2. r \in Run /\ r.won = {}
  BY DEF Asleep, Run, Offers
<1>3. sync' = [sync EXCEPT ![s] = r]
  BY DEF StartSync
<1>4. OnlyRun(s) /\ sync'[s] = r
  BY <1>1, <1>2, <1>3 DEF StartSync, OnlyRun
<1> HIDE DEF r
<1> QED BY <1>1, <1>2, <1>4, RunStep DEF StartSync

(* An offer that is left is one of Offer.                                    *)
LEMMA NextIsOffer ==
  ASSUME DirTypeOK, NEW s \in Syncs, NEW o \in sync[s].todo
  PROVE  /\ o \in Offer /\ o[1] \in People /\ o[2] \in DirGroups /\ o[3] \in DirRoles
         /\ <<o[1], o[3]>> \in Grantees
BY Types DEF Run, Offer, Grantees

LEMMA GrantKeeps ==
  ASSUME DirInv, NEW s \in Syncs, Grant(s)
  PROVE  DirInv' /\ UNCHANGED grant
<1>1. sync \in [Syncs -> Run] /\ changes \in 0..MaxChanges /\ DirTypeOK
  BY Types DEF DirInv
<1>2. sync[s].on /\ UNCHANGED <<dirGroups, members, mappings, grant, tally, edit, changes>>
  BY DEF Grant
<1>3. PICK o \in sync[s].todo : IsNext(s, o) /\ Granting(s, o)
  BY DEF Grant
<1>4. WonInv(s) /\ sync[s] \in Run /\ o \in Offer
  BY <1>1, NextIsOffer DEF DirInv
<1> DEFINE passed == [sync[s] EXCEPT !.todo = sync[s].todo \ {o}]
           blocked == [sync[s] EXCEPT !.stuck = TRUE]
           gained == [sync[s] EXCEPT !.todo = sync[s].todo \ {o}, !.won = sync[s].won \cup {o}]
<1>5. /\ passed \in Run /\ passed.won = sync[s].won /\ passed.on
      /\ blocked \in Run /\ blocked.won = sync[s].won /\ blocked.on
      /\ gained \in Run /\ gained.won = sync[s].won \cup {o} /\ gained.on
  BY <1>2, <1>4 DEF Run
<1>6. \/ sync' = [sync EXCEPT ![s] = passed]
      \/ sync' = [sync EXCEPT ![s] = blocked]
      \/ /\ sync' = [sync EXCEPT ![s] = gained]
         /\ grant[<<o[1], o[3]>>] = "NONE" /\ o[2] \in dirGroups
         /\ \A t \in Syncs : ~Holds(t, <<o[1], o[3]>>)
      \/ sync' = [sync EXCEPT ![s] = Asleep]
  BY <1>3 DEF Granting
<1> HIDE DEF passed, blocked, gained
<1>7. ASSUME NEW r \in Run, sync' = [sync EXCEPT ![s] = r],
             \A q \in r.won : /\ r.on
                              /\ grant[<<q[1], q[3]>>] = "NONE"
                              /\ q[2] \in dirGroups
                              /\ q \in sync[s].won \/ Unheld(s, q)
      PROVE  DirInv'
  <2>1. OnlyRun(s) /\ sync'[s] = r
    BY <1>1, <1>2, <1>7 DEF OnlyRun
  <2> QED BY <1>1, <1>2, <1>7, <2>1, RunStep
<1>8. CASE sync' = [sync EXCEPT ![s] = passed]
  BY <1>2, <1>4, <1>5, <1>7, <1>8 DEF WonInv
<1>9. CASE sync' = [sync EXCEPT ![s] = blocked]
  BY <1>2, <1>4, <1>5, <1>7, <1>9 DEF WonInv
<1>10. CASE sync' = [sync EXCEPT ![s] = Asleep]
  BY <1>2, <1>7, <1>10, Shapes
<1>11. CASE /\ sync' = [sync EXCEPT ![s] = gained]
            /\ grant[<<o[1], o[3]>>] = "NONE" /\ o[2] \in dirGroups
            /\ \A t \in Syncs : ~Holds(t, <<o[1], o[3]>>)
  <2>1. Unheld(s, o)
    BY <1>11 DEF Holds, Gives, Unheld
  <2>2. \A q \in gained.won : /\ gained.on
                              /\ grant[<<q[1], q[3]>>] = "NONE"
                              /\ q[2] \in dirGroups
                              /\ q \in sync[s].won \/ Unheld(s, q)
    BY <1>4, <1>5, <1>11, <2>1 DEF WonInv
  <2> QED BY <1>2, <1>5, <1>7, <1>11, <2>2
<1> QED BY <1>2, <1>6, <1>8, <1>9, <1>10, <1>11

LEMMA ResumeKeeps ==
  ASSUME DirInv, NEW s \in Syncs, Resume(s)
  PROVE  DirInv' /\ UNCHANGED grant
<1>1. sync \in [Syncs -> Run] /\ changes \in 0..MaxChanges /\ DirTypeOK
  BY Types DEF DirInv
<1>2. UNCHANGED <<dirGroups, members, mappings, grant, tally, edit, changes>>
  BY DEF Resume
<1> DEFINE awake == [sync[s] EXCEPT !.stuck = FALSE]
<1>3. WonInv(s) /\ sync[s] \in Run
  BY <1>1 DEF DirInv
<1>4. awake \in Run /\ awake.won = sync[s].won /\ awake.on = sync[s].on
  BY <1>3 DEF Run
<1>5. sync' = [sync EXCEPT ![s] = awake] \/ sync' = [sync EXCEPT ![s] = Asleep]
  BY DEF Resume
<1> HIDE DEF awake
<1>6. PICK r \in {awake, Asleep} : sync' = [sync EXCEPT ![s] = r] /\ r \in Run
  BY <1>4, <1>5, Shapes
<1>7. OnlyRun(s) /\ sync'[s] = r
  BY <1>1, <1>2, <1>6 DEF OnlyRun
<1>8. \A q \in r.won : /\ r.on
                       /\ grant[<<q[1], q[3]>>] = "NONE"
                       /\ q[2] \in dirGroups
                       /\ q \in sync[s].won
  BY <1>3, <1>4, <1>6, Shapes DEF WonInv
<1> QED BY <1>1, <1>2, <1>7, <1>8, RunStep

LEMMA AbortKeeps ==
  ASSUME DirInv, NEW s \in Syncs, AbortSync(s)
  PROVE  DirInv' /\ UNCHANGED grant
<1>1. sync \in [Syncs -> Run] /\ DirTypeOK
  BY Types DEF DirInv
<1>2. OnlyRun(s) /\ sync'[s] = Asleep /\ UNCHANGED grant
  BY <1>1, Shapes DEF AbortSync, OnlyRun
<1>3. changes' \in 0..MaxChanges
  BY <1>1, Counting DEF AbortSync
<1> QED BY <1>2, <1>3, Shapes, RunStep

(* What a run commits: its rows, without those that are not backed.           *)
LEMMA CommittedGrants ==
  ASSUME DirInv, NEW s \in Syncs, NEW k \in Grantees
  PROVE  /\ Inserted(s)[k] \in {"NONE", "MANUAL"} \cup dirGroups
         /\ (grant[k] = "MANUAL") <=> (Inserted(s)[k] = "MANUAL")
         /\ ~Holds(s, k) => Inserted(s)[k] = grant[k]
         /\ Revoke(Inserted(s))[k] \in {"NONE", Inserted(s)[k]}
         /\ Inserted(s)[k] = "MANUAL" => Revoke(Inserted(s))[k] = "MANUAL"
<1>1. DirTypeOK /\ grant \in [Grantees -> {"NONE", "MANUAL"} \cup dirGroups]
      /\ dirGroups \subseteq DirGroups /\ WonInv(s)
  BY Types DEF DirInv
<1>2. "MANUAL" \notin DirGroups
  BY DirAssumption
<1>3. CASE Holds(s, k)
  <2> DEFINE o == CHOOSE q \in sync[s].won : Gives(q, k)
  <2>1. o \in sync[s].won /\ Gives(o, k)
    BY <1>3 DEF Holds
  <2>2. Inserted(s)[k] = o[2]
    BY <1>3 DEF Inserted
  <2> HIDE DEF o
  <2>3. o[2] \in dirGroups /\ grant[k] = "NONE"
    BY <1>1, <2>1 DEF WonInv, Gives
  <2>4. o[2] # "MANUAL"
    BY <1>1, <1>2, <2>3
  <2> QED BY <1>2, <1>3, <2>2, <2>3, <2>4 DEF Revoke
<1>4. CASE ~Holds(s, k)
  <2>1. Inserted(s)[k] = grant[k]
    BY <1>4 DEF Inserted
  <2> QED BY <1>1, <1>2, <1>4, <2>1 DEF Revoke
<1> QED BY <1>3, <1>4

LEMMA FinishKeeps ==
  ASSUME DirInv, NEW s \in Syncs, FinishSync(s)
  PROVE  /\ DirInv'
         /\ \A k \in Grantees : (grant[k] = "MANUAL") <=> (grant'[k] = "MANUAL")
         /\ \A k \in Grantees : ~Unbacked(k)'
<1>1. DirTypeOK /\ sync \in [Syncs -> Run] /\ dirGroups \subseteq DirGroups
  BY Types DEF DirInv
<1>2. /\ grant' = Revoke(Inserted(s)) /\ sync' = [sync EXCEPT ![s] = Asleep]
      /\ UNCHANGED <<dirGroups, members, mappings, tally, edit, changes>>
  BY DEF FinishSync
<1>3. grant' \in [Grantees -> {"NONE", "MANUAL"} \cup dirGroups]
  <2>1. \A k \in Grantees : Revoke(Inserted(s))[k] \in {"NONE", "MANUAL"} \cup dirGroups
    BY CommittedGrants
  <2>2. Revoke(Inserted(s)) = [k \in Grantees |-> Revoke(Inserted(s))[k]]
    BY DEF Revoke
  <2> QED BY <1>2, <2>1, <2>2
<1>4. sync' \in [Syncs -> Run] /\ sync'[s] = Asleep
  BY <1>1, <1>2, Shapes
<1>5. DirTypeOK'
  <2>1. /\ dirGroups' \subseteq DirGroups /\ members' \subseteq People \X dirGroups'
        /\ mappings' \subseteq Mappable \cap (dirGroups' \X DirRoles)
        /\ tally' \in [DirGroups -> Nat] /\ edit' \in [Clients -> Patch]
        /\ changes' \in 0..MaxChanges
        /\ grant' \in [Grantees -> {"NONE", "MANUAL"} \cup dirGroups']
    BY <1>1, <1>2, <1>3, Types
  <2> QED BY <1>4, <2>1 DEF DirTypeOK, Run, Patch
<1>6. ASSUME NEW t \in Syncs PROVE WonInv(t)'
  <2>1. CASE t = s
    BY <1>4, <2>1, Shapes DEF WonInv
  <2>2. CASE t # s
    <3>1. sync'[t] = sync[t] /\ WonInv(t)
      BY <1>1, <1>2, <2>2 DEF DirInv
    <3>2. ASSUME NEW o \in sync[t].won PROVE grant'[<<o[1], o[3]>>] = "NONE"
      <4> DEFINE k == <<o[1], o[3]>>
      <4>1. o \in Offer /\ k \in Grantees
        BY <1>1 DEF Run, Offer, Grantees
      <4>2. grant[k] = "NONE"
        BY <3>1 DEF WonInv
      <4>3. ~Holds(s, k)
        BY <2>2, <3>1 DEF Holds, Gives, DirInv, HeldAlone
      <4> QED BY <1>2, <4>1, <4>2, <4>3, CommittedGrants
    <3> QED BY <1>2, <3>1, <3>2 DEF WonInv
  <2> QED BY <2>1, <2>2
<1>7. HeldAlone' /\ PatchInv'
  BY <1>1, <1>2, Shapes DEF HeldAlone, PatchInv, DirInv
<1>8. \A k \in Grantees : (grant[k] = "MANUAL") <=> (grant'[k] = "MANUAL")
  BY <1>2, CommittedGrants, DirAssumption DEF DirInv, DirTypeOK
<1>9. ASSUME NEW k \in Grantees PROVE ~Unbacked(k)'
  <2>1. UNCHANGED <<members, mappings>> /\ grant'[k] = Revoke(Inserted(s))[k]
    BY <1>2
  <2>2. ~(/\ Revoke(Inserted(s))[k] \in DirGroups
          /\ ~Backed(k[1], Revoke(Inserted(s))[k], k[2]))
    BY DirAssumption DEF Revoke
  <2> QED BY <2>1, <2>2 DEF Unbacked, Backed
<1> QED BY <1>5, <1>6, <1>7, <1>8, <1>9 DEF DirInv

-----------------------------------------------------------------------------
(* The other transactions                                                      *)

Settled == UNCHANGED <<dirGroups, sync>> /\ PatchInv'

(* A step that leaves groups and runs alone keeps what the runs rely on when it   *)
(* gives nobody a row that a run has inserted.                                  *)
LEMMA SettledKeeps ==
  ASSUME DirInv, Settled, DirTypeOK',
         \A s \in Syncs : \A o \in sync[s].won : grant'[<<o[1], o[3]>>] = "NONE"
  PROVE  DirInv'
BY DEF DirInv, Settled, WonInv, HeldAlone

LEMMA PatchKeeps ==
  ASSUME DirInv, NEW c \in Clients, NEW g \in DirGroups,
         NEW add \in SUBSET People, NEW del \in SUBSET People, PatchGroup(c, g, add, del)
  PROVE  DirInv'
<1>1. DirTypeOK /\ edit \in [Clients -> Patch]
  BY Types DEF DirInv
<1>2. [NoEdit EXCEPT !.step = "edit", !.group = g, !.add = add \ Of(g), !.del = del \cap Of(g)]
        \in Patch
  BY DEF NoEdit, Patch
<1>3. edit' \in [Clients -> Patch]
  BY <1>1, <1>2 DEF PatchGroup
<1>4. changes' \in 0..MaxChanges
  BY <1>1, Counting DEF PatchGroup
<1>5. UNCHANGED <<dirGroups, members, mappings, grant, tally, sync>>
  BY DEF PatchGroup
<1>6. DirTypeOK'
  BY <1>1, <1>3, <1>4, <1>5 DEF DirTypeOK, Patch
<1>7. PatchInv'
  BY <1>1 DEF PatchGroup, PatchInv, DirInv
<1> QED BY <1>5, <1>6, <1>7, SettledKeeps DEF DirInv, WonInv, Settled

LEMMA CountKeeps ==
  ASSUME DirInv, NEW c \in Clients, CountMembers(c)
  PROVE  DirInv'
<1>1. DirTypeOK /\ edit \in [Clients -> Patch] /\ members \subseteq People \X DirGroups
  BY Types DEF DirInv
<1>2. edit[c] \in Patch
  BY <1>1
<1>3. Visible(c) \subseteq People
  BY <1>1, <1>2 DEF Visible, Of, Patch
<1>4. Cardinality(Visible(c)) \in Nat
  BY <1>3, PeopleAreCounted
<1> DEFINE n == Cardinality(Visible(c))
<1> HIDE DEF n
<1>5. \A step \in {"waiting", "counted"} : [edit[c] EXCEPT !.step = step, !.n = n] \in Patch
  BY <1>2, <1>4 DEF Patch, n
<1>6. \E step \in {"waiting", "counted"} :
        edit' = [edit EXCEPT ![c] = [edit[c] EXCEPT !.step = step, !.n = n]]
  BY <1>1 DEF CountMembers, n
<1>7. edit' \in [Clients -> Patch]
  BY <1>1, <1>5, <1>6
<1>8. UNCHANGED <<dirGroups, members, mappings, grant, tally, sync, changes>>
  BY DEF CountMembers
<1>9. DirTypeOK'
  BY <1>1, <1>7, <1>8 DEF DirTypeOK, Patch
<1>10. PatchInv'
  BY <1>1, <1>8, <1>6, <1>2 DEF CountMembers, PatchInv, DirInv, Patch
<1> QED BY <1>8, <1>9, <1>10, SettledKeeps DEF DirInv, WonInv, Settled

LEMMA CommitKeeps ==
  ASSUME DirInv, NEW c \in Clients, CommitPatch(c)
  PROVE  DirInv'
<1>1. /\ DirTypeOK /\ edit \in [Clients -> Patch] /\ tally \in [DirGroups -> Nat]
      /\ members \subseteq People \X dirGroups /\ dirGroups \subseteq DirGroups
  BY Types DEF DirInv
<1> DEFINE g == edit[c].group
<1>2. /\ edit[c] \in Patch /\ edit[c].n \in Nat /\ edit[c].add \subseteq People
      /\ edit[c].del \subseteq People /\ g \in dirGroups
  BY <1>1 DEF Patch, CommitPatch, DirInv, PatchInv
<1>3. /\ members' = (members \ (edit[c].del \X {g})) \cup (edit[c].add \X {g})
      /\ tally' = [tally EXCEPT ![g] = edit[c].n]
      /\ edit' = [edit EXCEPT ![c] = NoEdit]
      /\ UNCHANGED <<dirGroups, mappings, grant, sync, changes>>
  BY DEF CommitPatch
<1>4. members' \subseteq People \X dirGroups'
  BY <1>1, <1>2, <1>3
<1>5. tally' \in [DirGroups -> Nat] /\ edit' \in [Clients -> Patch]
  BY <1>1, <1>2, <1>3, Shapes
<1>6. DirTypeOK'
  BY <1>1, <1>3, <1>4, <1>5 DEF DirTypeOK, Patch
<1>7. PatchInv'
  BY <1>1, <1>3, Shapes DEF PatchInv, DirInv
<1> QED BY <1>3, <1>6, <1>7, SettledKeeps DEF DirInv, WonInv, Settled

LEMMA DeleteKeeps ==
  ASSUME DirInv, NEW g \in DirGroups, DeleteGroup(g)
  PROVE  DirInv'
<1>1. /\ DirTypeOK /\ dirGroups \subseteq DirGroups /\ sync \in [Syncs -> Run]
      /\ members \subseteq People \X dirGroups
      /\ mappings \subseteq Mappable \cap (dirGroups \X DirRoles)
      /\ grant \in [Grantees -> {"NONE", "MANUAL"} \cup dirGroups]
  BY Types DEF DirInv
<1>2. /\ dirGroups' = dirGroups \ {g}
      /\ members' = {m \in members : m[2] # g}
      /\ mappings' = {m \in mappings : m[1] # g}
      /\ grant' = [k \in Grantees |-> IF grant[k] = g THEN "NONE" ELSE grant[k]]
      /\ UNCHANGED <<tally, sync, edit>>
      /\ \A c \in Clients : edit[c].group # g
      /\ \A s \in Syncs : \A o \in sync[s].won : o[2] # g
  BY DEF DeleteGroup
<1>3. changes' \in 0..MaxChanges
  BY <1>1, Counting DEF DeleteGroup
<1>4. members' \subseteq People \X dirGroups'
  BY <1>1, <1>2
<1>5. mappings' \subseteq Mappable \cap (dirGroups' \X DirRoles)
  BY <1>1, <1>2
<1>6. grant' \in [Grantees -> {"NONE", "MANUAL"} \cup dirGroups']
  BY <1>1, <1>2
<1>7. DirTypeOK'
  BY <1>1, <1>2, <1>3, <1>4, <1>5, <1>6 DEF DirTypeOK
<1>8. HeldAlone' /\ PatchInv'
  BY <1>2 DEF DirInv, HeldAlone, PatchInv
<1>9. ASSUME NEW s \in Syncs PROVE WonInv(s)'
  <2>1. WonInv(s) /\ sync[s].won \subseteq Offer
    BY <1>1 DEF DirInv, Run
  <2>2. ASSUME NEW o \in sync[s].won PROVE grant'[<<o[1], o[3]>>] = "NONE"
    <3>1. <<o[1], o[3]>> \in Grantees
      BY <2>1 DEF Offer, Grantees
    <3> QED BY <1>2, <2>1, <3>1 DEF WonInv
  <2> QED BY <1>2, <2>1, <2>2 DEF WonInv
<1> QED BY <1>7, <1>8, <1>9 DEF DirInv

LEMMA MapKeeps ==
  ASSUME DirInv, NEW m \in Mappable, MapRole(m) \/ UnmapRole(m)
  PROVE  DirInv'
<1>1. DirTypeOK /\ Change /\ UNCHANGED <<dirGroups, members, grant, tally, sync, edit>>
  BY DEF DirInv, MapRole, UnmapRole
<1>2. changes' \in 0..MaxChanges
  BY <1>1, Counting
<1>3. mappings' \subseteq Mappable \cap (dirGroups \X DirRoles)
  <2>1. MapRole(m) => m \in dirGroups \X DirRoles
    BY DirAssumption DEF MapRole
  <2> QED BY <1>1, <2>1, Types DEF MapRole, UnmapRole
<1>4. DirTypeOK'
  BY <1>1, <1>2, <1>3 DEF DirTypeOK
<1> QED BY <1>1, <1>4, SettledKeeps DEF DirInv, WonInv, Settled, PatchInv

LEMMA AssignKeeps ==
  ASSUME DirInv, NEW k \in Grantees, Assign(k) \/ Unassign(k)
  PROVE  DirInv'
<1>1. DirTypeOK /\ Change /\ UNCHANGED <<dirGroups, members, mappings, tally, sync, edit>>
  BY DEF DirInv, Assign, Unassign
<1>2. changes' \in 0..MaxChanges
  BY <1>1, Counting
<1>3. grant' \in [Grantees -> {"NONE", "MANUAL"} \cup dirGroups]
  BY <1>1, Types DEF Assign, Unassign
<1>4. DirTypeOK'
  BY <1>1, <1>2, <1>3 DEF DirTypeOK
<1>5. ASSUME NEW s \in Syncs, NEW o \in sync[s].won PROVE grant'[<<o[1], o[3]>>] = "NONE"
  <2>1. grant[<<o[1], o[3]>>] = "NONE" /\ <<o[1], o[3]>> \in Grantees
    BY <1>1, Types DEF DirInv, WonInv, Run, Offer, Grantees
  <2>2. Assign(k) => k # <<o[1], o[3]>>
    BY DEF Assign, Holds, Gives
  <2> QED BY <2>1, <2>2, <1>1, Types DEF Assign, Unassign
<1> QED BY <1>1, <1>4, <1>5, SettledKeeps DEF DirInv, Settled, PatchInv

-----------------------------------------------------------------------------
LEMMA SyncKeeps ==
  ASSUME DirInv, NEW s \in Syncs, StartSync(s) \/ SyncStep(s) \/ AbortSync(s)
  PROVE  /\ DirInv'
         /\ \A k \in Grantees : (grant[k] = "MANUAL") <=> (grant'[k] = "MANUAL")
         /\ ((grant' # grant) => \A k \in Grantees : ~(Unbacked(k)'))
<1>1. CASE StartSync(s)
  BY <1>1, StartKeeps DEF StartSync
<1>2. CASE Grant(s)
  BY <1>2, GrantKeeps
<1>3. CASE Resume(s)
  BY <1>3, ResumeKeeps
<1>4. CASE FinishSync(s)
  BY <1>4, FinishKeeps
<1>5. CASE AbortSync(s)
  BY <1>5, AbortKeeps
<1> QED BY <1>1, <1>2, <1>3, <1>4, <1>5 DEF SyncStep

(* Every other step leaves the runs alone.                                   *)
Others ==
  \/ \E c \in Clients, g \in DirGroups, S \in SUBSET People : \E v \in Verbs(S) :
       PatchGroup(c, g, v[1], v[2])
  \/ \E c \in Clients : CountMembers(c) \/ CommitPatch(c)
  \/ \E g \in DirGroups : DeleteGroup(g)
  \/ \E m \in Mappable : MapRole(m) \/ UnmapRole(m)
  \/ \E k \in Grantees : Assign(k) \/ Unassign(k)

LEMMA OthersKeep ==
  ASSUME DirInv, Others
  PROVE  DirInv' /\ UNCHANGED sync
<1>1. CASE \E c \in Clients, g \in DirGroups, S \in SUBSET People : \E v \in Verbs(S) :
             PatchGroup(c, g, v[1], v[2])
  <2>1. PICK c \in Clients, g \in DirGroups, S \in SUBSET People :
               \E v \in Verbs(S) : PatchGroup(c, g, v[1], v[2])
    BY <1>1
  <2> PICK v \in Verbs(S) : PatchGroup(c, g, v[1], v[2])
    BY <2>1
  <2>2. v[1] \in SUBSET People /\ v[2] \in SUBSET People
    BY DEF Verbs
  <2>3. DirInv'
    BY <2>2, PatchKeeps
  <2> QED BY <2>3 DEF PatchGroup
<1>2. CASE \E c \in Clients : CountMembers(c) \/ CommitPatch(c)
  <2>1. PICK c \in Clients : CountMembers(c) \/ CommitPatch(c)
    BY <1>2
  <2>2. CASE CountMembers(c)
    <3>1. DirInv'
      BY <2>2, CountKeeps
    <3> QED BY <2>2, <3>1 DEF CountMembers
  <2>3. CASE CommitPatch(c)
    <3>1. DirInv'
      BY <2>3, CommitKeeps
    <3> QED BY <2>3, <3>1 DEF CommitPatch
  <2> QED BY <2>1, <2>2, <2>3
<1>3. CASE \E g \in DirGroups : DeleteGroup(g)
  <2>1. PICK g \in DirGroups : DeleteGroup(g)
    BY <1>3
  <2>2. DirInv'
    BY <2>1, DeleteKeeps
  <2> QED BY <2>1, <2>2 DEF DeleteGroup
<1>4. CASE \E m \in Mappable : MapRole(m) \/ UnmapRole(m)
  <2>1. PICK m \in Mappable : MapRole(m) \/ UnmapRole(m)
    BY <1>4
  <2>2. DirInv'
    BY <2>1, MapKeeps
  <2> QED BY <2>1, <2>2 DEF MapRole, UnmapRole
<1>5. CASE \E k \in Grantees : Assign(k) \/ Unassign(k)
  <2>1. PICK k \in Grantees : Assign(k) \/ Unassign(k)
    BY <1>5
  <2>2. DirInv'
    BY <2>1, AssignKeeps
  <2> QED BY <2>1, <2>2 DEF Assign, Unassign
<1> QED BY <1>1, <1>2, <1>3, <1>4, <1>5 DEF Others

LEMMA StutterKeeps ==
  ASSUME DirInv, UNCHANGED dirVars
  PROVE  DirInv'
BY DEF dirVars, DirInv, DirTypeOK, HeldAlone, PatchInv, WonInv, Offer

(* Everything below follows from this invariant.                              *)
THEOREM DirInvariant == DirSpec => []DirInv
<1>1. DirInv /\ [DirNext]_dirVars => DirInv'
  BY SyncKeeps, OthersKeep, StutterKeeps DEF DirNext, Others
<1> QED BY InitDirInv, <1>1, PTL DEF DirSpec

(* Types; in particular every synced assignment, membership and mapping refers to   *)
(* a group that exists.                                                        *)
THEOREM DirectoryTyped == DirSpec => []DirTypeOK
<1>1. DirInv => DirTypeOK
  BY DEF DirInv
<1> QED BY <1>1, DirInvariant, PTL

(* No step of a sync gives, takes or overwrites what an administrator decides.      *)
THEOREM ManualIsSafe == DirSpec => ManualIsNeverTouched
<1>1. ASSUME DirInv, [DirNext]_dirVars
      PROVE  [sync' # sync => \A k \in Grantees :
                (grant[k] = "MANUAL") <=> (grant'[k] = "MANUAL")]_dirVars
  BY <1>1, SyncKeeps, OthersKeep DEF DirNext, Others
<1> QED BY <1>1, DirInvariant, PTL DEF DirSpec, ManualIsNeverTouched

(* A run that changes assignments leaves none that is not backed.                  *)
THEOREM NoOrphanIsLeft == DirSpec => SyncLeavesNoOrphan
<1>1. ASSUME DirInv, [DirNext]_dirVars
      PROVE  [\A s \in Syncs : (sync[s].on /\ ~sync'[s].on /\ grant' # grant)
                => \A k \in Grantees : ~Unbacked(k)']_dirVars
  <2>1. CASE \E s \in Syncs : StartSync(s) \/ SyncStep(s) \/ AbortSync(s)
    BY <1>1, <2>1, SyncKeeps
  <2>2. CASE Others
    BY <1>1, <2>2, OthersKeep
  <2> QED BY <1>1, <2>1, <2>2 DEF DirNext, Others
<1> QED BY <1>1, DirInvariant, PTL DEF DirSpec, SyncLeavesNoOrphan

(* Both together.                                                                *)
THEOREM SyncsAreSound == DirSpec => SyncIsSound
BY ManualIsSafe, NoOrphanIsLeft DEF SyncIsSound

-----------------------------------------------------------------------------
(* Reservations and the external calendar                                     *)

CopiesOf(r) == {c \in Copies : c[1] = r}
BookingRow ==
  [state : {"none", "active", "ended"}, slot : Slots \cup {0}, ext : Entries \cup {NoEntry}]
EntryRow == [state : {"none", "live", "gone"}, slot : Slots \cup {0}, rev : Nat]
PushRow ==
  [step : {"idle", "read", "called", "saved"}, of : Own \cup {"NONE"},
   kind : {"NONE", "confirmed", "cancelled"}, ext : Entries \cup {NoEntry}, slot : Slots \cup {0}]
Pages == UNION {[D -> EntryRow] : D \in SUBSET Entries}
Drafted == UNION {[D -> BookingRow] : D \in SUBSET Bookings}
PullRow ==
  [step : {"off", "on", "collided"}, page : Pages, next : Nat, todo : SUBSET Entries,
   mine : Drafted, notes : SUBSET (Bookings \X Entries), at : Entries \cup {NoEntry}]

(* The external event of a reservation is one that was created for it; the        *)
(* reservation of a native event is its own.                                    *)
RowFits(b, x) ==
  /\ x \in BookingRow
  /\ b \in Own =>
       x.ext \in CopiesOf(b) \cup {NoEntry} /\ (x.state = "none" => x.ext = NoEntry)
  /\ b \in Natives => x.ext = IF x.state = "none" THEN NoEntry ELSE Original(b)

CalFits ==
  /\ booking \in [Bookings -> BookingRow] /\ \A b \in Bookings : RowFits(b, booking[b])
  /\ entry \in [Entries -> EntryRow]
  /\ Entries # {} => \E i \in Entries : \A j \in Entries : entry[j].rev <= entry[i].rev
  /\ outbox \in [Own -> SUBSET {"confirmed", "cancelled"}]
  /\ \A r \in Own : booking[r].state = "none" => outbox[r] = {}
  /\ deltaToken \in Nat /\ faults \in 0..MaxFaults

(* One relay task at most is busy with an event that is due; what it has read    *)
(* about a confirmed reservation still holds, although no row is locked.          *)
Working(w, k, r) == push[w].step # "idle" /\ push[w].kind = k /\ push[w].of = r
PushFits(w, x) ==
  /\ x \in PushRow
  /\ x.step = "idle" => x = Quiet
  /\ x.step # "idle" =>
       /\ x.of \in Own /\ x.kind \in outbox[x.of]
       /\ x.ext \in CopiesOf(x.of) \cup {NoEntry}
       /\ \A v \in Pushers : Working(v, x.kind, x.of) => v = w
       /\ x.kind = "confirmed" /\ x.step = "read" => x.ext = booking[x.of].ext
       /\ x.kind = "confirmed" /\ x.step = "called" =>
            x.ext # NoEntry /\ booking[x.of].ext = NoEntry

(* A round ends reservations of ours and nothing else of them, and nobody writes   *)
(* a row that it has written.                                                  *)
PullFits(w, p) ==
  /\ p \in PullRow
  /\ p.todo \subseteq DOMAIN p.page
  /\ p.step = "off" => p = Off
  /\ p.step = "collided" => p.at \in p.todo \cap Originals /\ p.page[p.at].state = "live"
  /\ \A b \in DOMAIN p.mine :
       /\ RowFits(b, p.mine[b])
       /\ b \in Own => /\ booking[b].state = "active"
                       /\ p.mine[b] = [booking[b] EXCEPT !.state = "ended"]
       /\ \A v \in Pullers : Written(v, b) => v = w

(* Every copy of a reservation beyond the first was paid for with a fault.       *)
Creating(r) == \E w \in Pushers : Working(w, "confirmed", r) /\ push[w].step = "called"
Owed(r) == IF booking[r].ext # NoEntry \/ Creating(r) THEN 1 ELSE 0
Numbered(r) ==
  \E k \in 0..(MaxFaults + 1) :
    /\ \A n \in 1..(MaxFaults + 1) : entry[<<r, n>>].state # "none" <=> n <= k
    /\ k <= faults + Owed(r)

CalInv ==
  /\ CalFits
  /\ push \in [Pushers -> PushRow] /\ \A w \in Pushers : PushFits(w, push[w])
  /\ pull \in [Pullers -> PullRow] /\ \A w \in Pullers : PullFits(w, pull[w])
  /\ \A r \in Own : Numbered(r)

(* Without a fault: a reservation that is over and whose cancellation has been       *)
(* delivered is silent, and every live copy is known to its reservation.           *)
Silent(r) == "confirmed" \notin outbox[r] /\ \A c \in CopiesOf(r) : entry[c].state # "live"
Making(r, c) ==
  \E w \in Pushers : Working(w, "confirmed", r) /\ push[w].step = "called" /\ push[w].ext = c
Cancels(r, x) ==
  /\ "confirmed" \notin outbox[r]
  /\ x.step = "read" => x.ext = booking[r].ext
  /\ x.step \in {"called", "saved"} => Silent(r)
GhostFits(r) ==
  /\ r \notin delayed
  /\ booking[r].state = "active" => "cancelled" \notin outbox[r]
  /\ booking[r].state = "ended" /\ "cancelled" \notin outbox[r] => Silent(r)
  /\ \A c \in CopiesOf(r) : entry[c].state = "live" => booking[r].ext = c \/ Making(r, c)
  /\ \A w \in Pushers : Working(w, "cancelled", r) => Cancels(r, push[w])
GhostInv == faults = 0 => \A r \in Own : GhostFits(r)

(* A round knows of every change between the token and its next token; what changes *)
(* later is newer than that.                                                    *)
ViewOf(p, b) == IF b \in DOMAIN p.mine THEN p.mine[b] ELSE booking[b]
Passed(p, x) ==
  LET i == Original(x) IN
  /\ i \in DOMAIN p.page =>
       /\ entry[i] = p.page[i] \/ entry[i].rev > p.next
       /\ p.page[i].state = "gone" /\ i \notin p.todo => ViewOf(p, x).state # "active"
  /\ i \notin DOMAIN p.page =>
       /\ entry[i].rev <= deltaToken \/ entry[i].rev > p.next
       /\ x \notin DOMAIN p.mine
RoundFits(p) ==
  p.step # "off" =>
    /\ deltaToken <= p.next /\ p.next <= Clock
    /\ \A x \in Natives : Passed(p, x)
StickInv ==
  /\ Entries # {} => deltaToken <= Clock
  /\ DeletionSticks
  /\ \A w \in Pullers : RoundFits(pull[w])
-----------------------------------------------------------------------------
(* Ids, rows and the clock                                                    *)

LEMMA CopyFacts ==
  /\ NoEntry \notin Entries
  /\ \A x \in Natives : Original(x) \in Originals /\ Original(x) \in Entries /\ Original(x) \notin Copies
  /\ \A x, y : Original(x) = Original(y) => x = y
  /\ \A c \in Copies : c \in Entries /\ c[1] \in Own /\ c[2] \in 1..(MaxFaults + 1) /\ c = <<c[1], c[2]>>
  /\ \A r \in Own : CopiesOf(r) \subseteq Entries
  /\ \A r \in Own, n \in 1..(MaxFaults + 1) : <<r, n>> \in CopiesOf(r) /\ <<r, n>> \in Copies
  /\ \A r, s, n, m : <<r, n>> = <<s, m>> => r = s /\ n = m
  /\ \A i \in Originals : i \notin Copies /\ \E x \in Natives : i = Original(x)
  /\ \A r \in Own, x \in Natives : r # x /\ Original(x) \notin CopiesOf(r)
<1>1. \A r, s, n, m : <<r, n>> = <<s, m>> => r = s /\ n = m
  OBVIOUS
<1>2. \A c \in Copies : c[1] \in Own /\ c[2] \in 1..(MaxFaults + 1) /\ c = <<c[1], c[2]>>
  BY DEF Copies
<1>3. \A r \in Own, n \in 1..(MaxFaults + 1) : <<r, n>> \in Copies /\ <<r, n>>[1] = r
  BY DEF Copies
<1>4. 0 \notin 1..(MaxFaults + 1)
  BY CalendarAssumption
<1>5. \A x : Original(x) \notin Copies
  BY <1>1, <1>2, <1>4 DEF Original
<1>6. NoEntry \notin Entries
  <2>1. NoEntry \notin Copies
    BY <1>1, <1>2, <1>4 DEF NoEntry
  <2>2. NoEntry \notin Originals
    BY <1>1, CalendarAssumption DEF NoEntry, Originals, Original, Bookings
  <2> QED BY <2>1, <2>2 DEF Entries
<1>7. \A r \in Own, x \in Natives : r # x
  BY CalendarAssumption
<1>8. \A x, y : Original(x) = Original(y) => x = y
  BY <1>1 DEF Original
<1> QED BY <1>1, <1>2, <1>3, <1>5, <1>6, <1>7, <1>8 DEF Entries, Originals, CopiesOf

(* The clock is the latest change.                                             *)
LEMMA ClockFacts ==
  ASSUME CalInv, NEW i \in Entries
  PROVE  /\ Clock \in Nat /\ \A j \in Entries : entry[j].rev <= Clock
         /\ \E j \in Entries : Clock = entry[j].rev
<1>1. PICK top \in Entries : \A j \in Entries : entry[j].rev <= entry[top].rev
  BY DEF CalInv, CalFits
<1>2. \A j \in Entries : entry[j].rev \in Nat
  BY DEF CalInv, CalFits, EntryRow
<1>3. \E n \in {entry[j].rev : j \in Entries} : \A j \in Entries : entry[j].rev <= n
  BY <1>1
<1>4. Clock \in {entry[j].rev : j \in Entries} /\ \A j \in Entries : entry[j].rev <= Clock
  BY <1>3 DEF Clock
<1> QED BY <1>2, <1>4

LEMMA ClockOf ==
  ASSUME NEW n \in Nat, NEW e, \A j \in Entries : e[j].rev \in Nat /\ e[j].rev <= n,
         \E j \in Entries : e[j].rev = n
  PROVE  (CHOOSE m \in {e[i].rev : i \in Entries} : \A i \in Entries : e[i].rev <= m) = n
<1> DEFINE S == {e[i].rev : i \in Entries}
<1> DEFINE P(m) == \A i \in Entries : e[i].rev <= m
<1>1. n \in S /\ P(n)
  OBVIOUS
<1>2. \A m \in S : P(m) => m = n
  <2> SUFFICES ASSUME NEW m \in S, P(m) PROVE m = n
    OBVIOUS
  <2>1. n <= m /\ m <= n /\ m \in Nat
    OBVIOUS
  <2> QED BY <2>1
<1>3. PICK m : m = CHOOSE k \in S : P(k)
  OBVIOUS
<1>4. m \in S /\ P(m)
  BY <1>1, <1>3
<1> QED BY <1>2, <1>3, <1>4

(* An event that changes is the latest.                                        *)
LEMMA ChangeFacts ==
  ASSUME CalInv, NEW i \in Entries, NEW state \in {"live", "gone"}, NEW slot \in Slots \cup {0},
         Changed(i, state, slot)
  PROVE  /\ entry' \in [Entries -> EntryRow]
         /\ entry'[i].state = state /\ entry'[i].slot = slot /\ entry'[i].rev = Clock + 1
         /\ \A j \in Entries : j # i => entry'[j] = entry[j]
         /\ \A j \in Entries : entry'[j].rev <= entry'[i].rev
         /\ Clock \in Nat /\ Clock' = Clock + 1
<1>1. Clock \in Nat /\ \A j \in Entries : entry[j].rev \in Nat /\ entry[j].rev <= Clock
  BY ClockFacts DEF CalInv, CalFits, EntryRow
<1>new. PICK new : new = [state |-> state, slot |-> slot, rev |-> Clock + 1]
  OBVIOUS
<1>2. new \in EntryRow /\ new.state = state /\ new.slot = slot /\ new.rev = Clock + 1
  BY <1>1, <1>new DEF EntryRow
<1>3. entry' = [entry EXCEPT ![i] = new] /\ entry \in [Entries -> EntryRow]
  BY <1>new DEF Changed, CalInv, CalFits
<1>4. /\ entry' \in [Entries -> EntryRow] /\ entry'[i] = new
      /\ \A j \in Entries : j # i => entry'[j] = entry[j]
  BY <1>2, <1>3
<1>5. \A j \in Entries : entry'[j].rev \in Nat /\ entry'[j].rev <= Clock + 1
  BY <1>1, <1>2, <1>4
<1>6. Clock' = Clock + 1
  <2>n. PICK n : n = Clock + 1
    OBVIOUS
  <2>e. PICK e : e = entry'
    OBVIOUS
  <2>1. n \in Nat /\ (\A j \in Entries : e[j].rev \in Nat /\ e[j].rev <= n) /\ \E j \in Entries : e[j].rev = n
    BY <1>1, <1>2, <1>4, <1>5, <2>n, <2>e
  <2>2. (CHOOSE m \in {e[j].rev : j \in Entries} : \A j \in Entries : e[j].rev <= m) = n
    BY <2>1, ClockOf
  <2> QED BY <2>2, <2>n, <2>e DEF Clock
<1> QED BY <1>1, <1>2, <1>4, <1>5, <1>6
-----------------------------------------------------------------------------
(* What a step leaves as it was                                               *)

LEMMA RestIsKept ==
  ASSUME CalInv, push' = push,
         \A r \in Own : outbox[r] \subseteq outbox'[r] /\ booking'[r].ext = booking[r].ext
  PROVE  push' \in [Pushers -> PushRow] /\ \A w \in Pushers : PushFits(w, push[w])'
<1>1. push' \in [Pushers -> PushRow]
  BY DEF CalInv
<1>2. ASSUME NEW w \in Pushers PROVE PushFits(w, push[w])'
  <2>1. PushFits(w, push[w])
    BY DEF CalInv
  <2>2. \A v, k, r : Working(v, k, r)' = Working(v, k, r)
    BY DEF Working
  <2>x. PICK x : x = push[w] /\ x = push'[w]
    OBVIOUS
  <2>3. PushFits(w, x)
    BY <2>1, <2>x
  <2>4. ASSUME x.step # "idle"
        PROVE  /\ x.kind \in outbox'[x.of] /\ booking'[x.of].ext = booking[x.of].ext
               /\ \A v \in Pushers : Working(v, x.kind, x.of)' => v = w
    <3>1. x.of \in Own /\ x.kind \in outbox[x.of]
          /\ \A v \in Pushers : Working(v, x.kind, x.of) => v = w
      BY <2>3, <2>4 DEF PushFits
    <3> QED BY <2>2, <3>1
  <2>5. PushFits(w, x)'
    BY <2>3, <2>4 DEF PushFits
  <2> QED BY <2>5, <2>x
<1> QED BY <1>1, <1>2

LEMMA RoundsAreKept ==
  ASSUME CalInv, pull' = pull,
         \A w \in Pullers, r \in Own : Written(w, r) => booking'[r] = booking[r]
  PROVE  pull' \in [Pullers -> PullRow] /\ \A w \in Pullers : PullFits(w, pull[w])'
<1>1. pull' \in [Pullers -> PullRow]
  BY DEF CalInv
<1>2. ASSUME NEW w \in Pullers PROVE PullFits(w, pull[w])'
  <2>1. PullFits(w, pull[w])
    BY DEF CalInv
  <2>2. \A v, b : Written(v, b)' = Written(v, b)
    BY DEF Written
  <2>3. \A b \in DOMAIN pull[w].mine : b \in Own => booking'[b] = booking[b]
    BY DEF Written
  <2>p. PICK p : p = pull[w] /\ p = pull'[w]
    OBVIOUS
  <2>4. PullFits(w, p)
    BY <2>1, <2>p
  <2>5. ASSUME NEW b \in DOMAIN p.mine
        PROVE  /\ RowFits(b, p.mine[b])'
               /\ b \in Own => /\ booking'[b].state = "active"
                               /\ p.mine[b] = [booking'[b] EXCEPT !.state = "ended"]
               /\ \A v \in Pullers : Written(v, b)' => v = w
    <3>1. /\ RowFits(b, p.mine[b])
          /\ b \in Own => /\ booking[b].state = "active"
                          /\ p.mine[b] = [booking[b] EXCEPT !.state = "ended"]
          /\ \A v \in Pullers : Written(v, b) => v = w
      BY <2>4, <2>5 DEF PullFits
    <3>2. b \in Own => booking'[b] = booking[b]
      BY <2>3, <2>5, <2>p
    <3>3. RowFits(b, p.mine[b])'
      BY <3>1 DEF RowFits
    <3> QED BY <2>2, <3>1, <3>2, <3>3
  <2>6. PullFits(w, p)'
    BY <2>4, <2>5 DEF PullFits
  <2> QED BY <2>6, <2>p
<1> QED BY <1>1, <1>2

LEMMA NumbersAreKept ==
  ASSUME CalInv, faults' \in 0..MaxFaults,
         \A c \in Copies : entry'[c].state # "none" <=> entry[c].state # "none",
         \A r \in Own : faults + Owed(r) <= faults' + Owed(r)'
  PROVE  \A r \in Own : Numbered(r)'
<1> SUFFICES ASSUME NEW r \in Own PROVE Numbered(r)'
  OBVIOUS
<1>1. PICK k \in 0..(MaxFaults + 1) :
        /\ \A n \in 1..(MaxFaults + 1) : entry[<<r, n>>].state # "none" <=> n <= k
        /\ k <= faults + Owed(r)
  BY DEF CalInv, Numbered
<1>2. \A n \in 1..(MaxFaults + 1) : entry'[<<r, n>>].state # "none" <=> n <= k
  BY <1>1, CopyFacts
<1>3. k <= faults' + Owed(r)'
  <2>1. faults \in Nat /\ faults' \in Nat /\ Owed(r) \in Nat /\ Owed(r)' \in Nat /\ k \in Nat
    BY CalendarAssumption DEF CalInv, CalFits, Owed
  <2>2. faults + Owed(r) <= faults' + Owed(r)'
    OBVIOUS
  <2> QED BY <1>1, <2>1, <2>2
<1> QED BY <1>2, <1>3 DEF Numbered

LEMMA CalStarts == CalInit => CalInv /\ GhostInv /\ StickInv
<1> SUFFICES ASSUME CalInit PROVE CalInv /\ GhostInv /\ StickInv
  OBVIOUS
<1>1. /\ booking = [b \in Bookings |-> [state |-> "none", slot |-> 0, ext |-> NoEntry]]
      /\ entry = [i \in Entries |-> [state |-> "none", slot |-> 0, rev |-> 0]]
      /\ deltaToken = 0 /\ delayed = {}
      /\ outbox = [r \in Own |-> {}]
      /\ push = [w \in Pushers |-> Quiet]
      /\ pull = [w \in Pullers |-> Off]
      /\ faults = 0
  BY DEF CalInit
<1>2. CalFits
  BY <1>1, CalendarAssumption DEF CalFits, BookingRow, RowFits, EntryRow, Bookings
<1>3. push \in [Pushers -> PushRow] /\ \A w \in Pushers : PushFits(w, push[w])
  BY <1>1 DEF PushFits, PushRow, Quiet
<1>4. Off \in PullRow /\ Off.step = "off" /\ Off.todo = {} /\ DOMAIN Off.mine = {}
  <2>1. <<>> = [i \in {} |-> 0] /\ DOMAIN <<>> = {}
    OBVIOUS
  <2>2. <<>> \in Pages /\ <<>> \in Drafted
    BY <2>1 DEF Pages, Drafted
  <2> QED BY <2>1, <2>2 DEF Off, PullRow
<1>5. pull \in [Pullers -> PullRow] /\ \A w \in Pullers : PullFits(w, pull[w])
  BY <1>1, <1>4 DEF PullFits
<1>6. ASSUME NEW r \in Own PROVE Numbered(r)
  <2>1. \A n \in 1..(MaxFaults + 1) : entry[<<r, n>>].state = "none"
    BY <1>1, CopyFacts
  <2>2. 0 \in 0..(MaxFaults + 1) /\ 0 <= faults + Owed(r)
    BY <1>1, CalendarAssumption DEF Owed
  <2>3. \A n \in 1..(MaxFaults + 1) : ~(n <= 0)
    BY CalendarAssumption
  <2> QED BY <2>1, <2>2, <2>3 DEF Numbered
<1>7. CalInv
  BY <1>2, <1>3, <1>5, <1>6 DEF CalInv
<1>8. ASSUME NEW r \in Own PROVE GhostFits(r)
  BY <1>1, CopyFacts DEF GhostFits, Silent, Bookings, Working, Quiet, CopiesOf
<1>9. StickInv
  <2>1. ASSUME NEW i \in Entries PROVE deltaToken <= Clock
    BY <1>1, <1>7, ClockFacts
  <2>2. DeletionSticks
    BY <1>1 DEF DeletionSticks, Bookings
  <2>3. \A w \in Pullers : RoundFits(pull[w])
    BY <1>1, <1>4 DEF RoundFits
  <2> QED BY <2>1, <2>2, <2>3 DEF StickInv
<1> QED BY <1>7, <1>8, <1>9 DEF GhostInv

-----------------------------------------------------------------------------
(* Reservations made here                                                     *)

OnePusher == \A v, w \in Pushers : v = w
OnePuller == \A v, w \in Pullers : v = w
Replays == \A r \in Own : booking[r].ext # NoEntry => Known(r)' = Known(r)
Sound == CalInv /\ (OnePusher => GhostInv) /\ (OnePuller => StickInv)

LEMMA KnownIsKept == entry' = entry => Replays
BY DEF Replays, Known

(* A reservation of ours that no round has written changes, and keeps its event.   *)
NewRow(r, row) ==
  /\ row \in BookingRow /\ row.ext = booking[r].ext /\ row.state # "none"
  /\ booking[r].state = "none" \/ Untouched(r)
  /\ booking' = [booking EXCEPT ![r] = row]
  /\ outbox' \in [Own -> SUBSET {"confirmed", "cancelled"}] /\ outbox[r] \subseteq outbox'[r]
  /\ \A s \in Own : s # r => outbox'[s] = outbox[s]
  /\ UNCHANGED <<entry, deltaToken, delayed, push, pull, faults>>

LEMMA NewRowFacts ==
  ASSUME CalInv, NEW r \in Own, NEW row, NewRow(r, row)
  PROVE  /\ booking' \in [Bookings -> BookingRow] /\ booking'[r] = row
         /\ \A b \in Bookings : b # r => booking'[b] = booking[b]
BY DEF NewRow, CalInv, CalFits, Bookings

LEMMA NewRowKeeps ==
  ASSUME CalInv, NEW r \in Own, NEW row, NewRow(r, row)
  PROVE  CalInv'
<1>1. /\ booking' \in [Bookings -> BookingRow] /\ booking'[r] = row
      /\ \A b \in Bookings : b # r => booking'[b] = booking[b]
  BY NewRowFacts
<1>2. UNCHANGED <<entry, deltaToken, delayed, push, pull, faults>>
  BY DEF NewRow
<1>3. \A s \in Own : s \in Bookings /\ outbox[s] \subseteq outbox'[s] /\ booking'[s].ext = booking[s].ext
  BY <1>1 DEF NewRow, Bookings
<1>4. \A b \in Bookings : RowFits(b, booking[b])'
  <2>1. RowFits(r, booking[r]) /\ r \notin Natives
    BY CalendarAssumption DEF CalInv, CalFits, Bookings
  <2>2. RowFits(r, row)
    BY <2>1 DEF RowFits, NewRow
  <2>3. \A b \in Bookings : b # r => RowFits(b, booking[b])
    BY DEF CalInv, CalFits
  <2> QED BY <1>1, <2>2, <2>3 DEF RowFits
<1>5. CalFits'
  <2>1. outbox' \in [Own -> SUBSET {"confirmed", "cancelled"}]
    BY DEF NewRow
  <2>2. \A s \in Own : booking'[s].state = "none" => outbox'[s] = {}
    BY <1>1, <1>3 DEF NewRow, CalInv, CalFits
  <2> QED BY <1>1, <1>2, <1>4, <2>1, <2>2 DEF CalInv, CalFits
<1>6. push' \in [Pushers -> PushRow] /\ \A w \in Pushers : PushFits(w, push[w])'
  BY <1>2, <1>3, RestIsKept
<1>7. pull' \in [Pullers -> PullRow] /\ \A w \in Pullers : PullFits(w, pull[w])'
  <2>1. ASSUME NEW w \in Pullers, NEW s \in Own, Written(w, s) PROVE s # r
    <3>1. PullFits(w, pull[w]) /\ s \in DOMAIN pull[w].mine
      BY <2>1 DEF CalInv, Written
    <3>2. booking[s].state = "active"
      BY <3>1 DEF PullFits
    <3>3. booking[r].state = "none" \/ ~Written(w, r)
      BY DEF NewRow, Untouched
    <3> QED BY <2>1, <3>2, <3>3
  <2> QED BY <1>1, <1>2, <1>3, <2>1, RoundsAreKept
<1>8. \A s \in Own : Numbered(s)'
  <2>1. \A s \in Own : Owed(s)' = Owed(s)
    BY <1>2, <1>3 DEF Owed, Creating, Working
  <2>2. faults' \in 0..MaxFaults /\ \A s \in Own : faults + Owed(s) <= faults' + Owed(s)'
    BY <1>2, <2>1 DEF CalInv, CalFits, Owed
  <2> QED BY <1>2, <2>2, NumbersAreKept
<1> QED BY <1>5, <1>6, <1>7, <1>8 DEF CalInv

LEMMA NewRowSticks ==
  ASSUME CalInv, StickInv, NEW r \in Own, NEW row, NewRow(r, row)
  PROVE  StickInv'
<1>1. \A x \in Natives : booking'[x] = booking[x]
  BY NewRowFacts, CopyFacts DEF Bookings
<1>2. UNCHANGED <<entry, deltaToken, pull>> /\ Clock' = Clock
  BY DEF NewRow, Clock
<1>3. DeletionSticks'
  BY <1>1, <1>2 DEF StickInv, DeletionSticks, Gone
<1>4. \A w \in Pullers : RoundFits(pull[w])'
  BY <1>1, <1>2 DEF StickInv, RoundFits, Passed, ViewOf
<1> QED BY <1>2, <1>3, <1>4 DEF StickInv

LEMMA NewRowHasNoGhost ==
  ASSUME CalInv, GhostInv, NEW r \in Own, NEW row, NewRow(r, row),
         \/ booking[r].state = "none" /\ row.state = "active" /\ outbox'[r] = {"confirmed"}
         \/ booking[r].state = "active" /\ row.state = "active" /\ outbox'[r] = outbox[r]
         \/ /\ booking[r].state = "active" /\ row.state = "ended"
            /\ outbox'[r] = outbox[r] \cup {"cancelled"}
  PROVE  GhostInv'
<1> SUFFICES ASSUME faults' = 0, NEW s \in Own PROVE GhostFits(s)'
  BY DEF GhostInv
<1>1. /\ booking'[r] = row /\ \A b \in Bookings : b # r => booking'[b] = booking[b]
  BY NewRowFacts
<1>2. /\ UNCHANGED <<entry, delayed, push, faults>>
      /\ \A q \in Own : q # r => outbox'[q] = outbox[q]
      /\ row.ext = booking[r].ext
  BY DEF NewRow
<1>3. GhostFits(s)
  BY <1>2 DEF GhostInv
<1>4. \A c : Making(s, c)' = Making(s, c)
  BY <1>2 DEF Making, Working
<1>5. \A w, k : Working(w, k, s)' = Working(w, k, s)
  BY <1>2 DEF Working
<1>6. CASE s # r
  <2>1. booking'[s] = booking[s] /\ outbox'[s] = outbox[s]
    BY <1>1, <1>2, <1>6 DEF Bookings
  <2>2. Silent(s)' = Silent(s) /\ \A w \in Pushers : Cancels(s, push[w])' = Cancels(s, push[w])
    BY <1>2, <2>1 DEF Silent, Cancels
  <2> QED BY <1>2, <1>3, <1>4, <1>5, <2>1, <2>2 DEF GhostFits
<1>7. CASE s = r
  <2>1. \A w \in Pushers : ~Working(w, "cancelled", r)
    <3>1. "cancelled" \notin outbox[r]
      BY <1>3, <1>7 DEF GhostFits, CalInv, CalFits
    <3> QED BY <3>1 DEF CalInv, PushFits, Working
  <2>2. s \notin delayed' /\ booking'[s].state # "none"
    BY <1>1, <1>2, <1>3, <1>7 DEF GhostFits, NewRow
  <2>3. booking'[s].state = "active" => "cancelled" \notin outbox'[s]
    BY <1>1, <1>3, <1>7 DEF GhostFits
  <2>4. booking'[s].state = "ended" => "cancelled" \in outbox'[s]
    BY <1>1, <1>7
  <2>5. \A c \in CopiesOf(s) : entry'[c].state = "live" => booking'[s].ext = c \/ Making(s, c)'
    BY <1>1, <1>2, <1>3, <1>4, <1>7 DEF GhostFits
  <2> QED BY <1>5, <1>7, <2>1, <2>2, <2>3, <2>4, <2>5 DEF GhostFits
<1> QED BY <1>6, <1>7

LEMMA OwnRequestsKeep ==
  ASSUME Sound, NEW r \in Own,
         (\E s \in Slots : Book(r, s) \/ Reschedule(r, s)) \/ CancelBooking(r)
  PROVE  Sound' /\ Replays
<1>1. /\ CalInv /\ r \in Bookings /\ booking[r] \in BookingRow
      /\ booking \in [Bookings -> BookingRow]
      /\ outbox \in [Own -> SUBSET {"confirmed", "cancelled"}]
  BY DEF Sound, CalInv, CalFits, Bookings
<1>2. ASSUME NEW s \in Slots, Book(r, s) PROVE \E row : NewRow(r, row)
        /\ booking[r].state = "none" /\ row.state = "active" /\ outbox'[r] = {"confirmed"}
  <2>1. booking[r].state = "none" /\ UNCHANGED <<entry, deltaToken, delayed, push, pull, faults>>
    BY <1>2 DEF Book
  <2>row. PICK row : row = [booking[r] EXCEPT !.state = "active", !.slot = s]
    OBVIOUS
  <2>2. /\ row \in BookingRow /\ row.ext = booking[r].ext /\ row.state = "active"
        /\ booking' = [booking EXCEPT ![r] = row]
    BY <1>1, <1>2, <2>row DEF Book, BookingRow
  <2>3. outbox' = [outbox EXCEPT ![r] = {"confirmed"}]
    BY <1>2 DEF Book
  <2>4. outbox[r] = {}
    BY <1>1, <2>1 DEF CalInv, CalFits
  <2> QED BY <1>1, <2>1, <2>2, <2>3, <2>4 DEF NewRow
<1>3. ASSUME NEW s \in Slots, Reschedule(r, s) PROVE \E row : NewRow(r, row)
        /\ booking[r].state = "active" /\ row.state = "active" /\ outbox'[r] = outbox[r]
  <2>1. booking[r].state = "active" /\ Untouched(r)
          /\ UNCHANGED <<entry, deltaToken, outbox, delayed, push, pull, faults>>
    BY <1>3 DEF Reschedule
  <2>row. PICK row : row = [booking[r] EXCEPT !.slot = s]
    OBVIOUS
  <2>2. /\ row \in BookingRow /\ row.ext = booking[r].ext /\ row.state = "active"
        /\ booking' = [booking EXCEPT ![r] = row]
    BY <1>1, <1>3, <2>1, <2>row DEF Reschedule, BookingRow
  <2> QED BY <1>1, <2>1, <2>2 DEF NewRow
<1>4. ASSUME CancelBooking(r) PROVE \E row : NewRow(r, row)
        /\ booking[r].state = "active" /\ row.state = "ended"
        /\ outbox'[r] = outbox[r] \cup {"cancelled"}
  <2>1. booking[r].state = "active" /\ Untouched(r)
          /\ UNCHANGED <<entry, deltaToken, delayed, push, pull, faults>>
    BY <1>4 DEF CancelBooking
  <2>row. PICK row : row = [booking[r] EXCEPT !.state = "ended"]
    OBVIOUS
  <2>2. /\ row \in BookingRow /\ row.ext = booking[r].ext /\ row.state = "ended"
        /\ booking' = [booking EXCEPT ![r] = row]
    BY <1>1, <1>4, <2>1, <2>row DEF CancelBooking, BookingRow
  <2>3. outbox' = [outbox EXCEPT ![r] = @ \cup {"cancelled"}]
    BY <1>4 DEF CancelBooking
  <2> QED BY <1>1, <2>1, <2>2, <2>3 DEF NewRow
<1>5. PICK row : NewRow(r, row) /\
        \/ booking[r].state = "none" /\ row.state = "active" /\ outbox'[r] = {"confirmed"}
        \/ booking[r].state = "active" /\ row.state = "active" /\ outbox'[r] = outbox[r]
        \/ /\ booking[r].state = "active" /\ row.state = "ended"
           /\ outbox'[r] = outbox[r] \cup {"cancelled"}
  BY <1>2, <1>3, <1>4
<1>6. CalInv' /\ Replays
  BY <1>1, <1>5, NewRowKeeps, KnownIsKept DEF NewRow
<1>7. StickInv => StickInv'
  BY <1>1, <1>5, NewRowSticks
<1>8. GhostInv => GhostInv'
  BY <1>1, <1>5, NewRowHasNoGhost
<1> QED BY <1>6, <1>7, <1>8 DEF Sound, OnePusher, OnePuller

-----------------------------------------------------------------------------
(* The external calendar                                                      *)

LEMMA ChangeSticks ==
  ASSUME CalInv, StickInv, NEW i \in Entries, NEW state \in {"live", "gone"},
         NEW slot \in Slots \cup {0}, Changed(i, state, slot), UNCHANGED <<booking, deltaToken, pull>>
  PROVE  StickInv'
<1>1. /\ entry'[i].rev = Clock + 1 /\ \A j \in Entries : j # i => entry'[j] = entry[j]
      /\ Clock \in Nat /\ Clock' = Clock + 1
  BY ChangeFacts
<1>2. deltaToken \in Nat /\ deltaToken <= Clock
  BY DEF StickInv, CalInv, CalFits
<1>3. \A x \in Natives : Original(x) \in Entries
  BY CopyFacts
<1>4. DeletionSticks'
  <2> SUFFICES ASSUME NEW x \in Natives, Gone(x)', entry'[Original(x)].rev <= deltaToken
               PROVE  booking[x].state # "active"
    BY DEF DeletionSticks
  <2>1. Original(x) # i
    BY <1>1, <1>2
  <2>2. Gone(x) /\ entry[Original(x)].rev <= deltaToken
    BY <1>1, <1>3, <2>1 DEF Gone
  <2> QED BY <2>2 DEF StickInv, DeletionSticks
<1>5. ASSUME NEW w \in Pullers, pull[w].step # "off"
      PROVE  RoundFits(pull[w])'
  <2>1. /\ pull[w].next \in Nat /\ pull[w] \in PullRow
        /\ deltaToken <= pull[w].next /\ pull[w].next <= Clock
        /\ \A x \in Natives : Passed(pull[w], x)
    BY <1>5 DEF StickInv, RoundFits, CalInv, PullRow
  <2>2. pull[w].next <= Clock + 1 /\ entry'[i].rev > pull[w].next
    BY <1>1, <2>1
  <2>3. ASSUME NEW x \in Natives PROVE Passed(pull[w], x)'
    <3>1. Passed(pull[w], x)
      BY <2>1
    <3>2. entry'[Original(x)] = entry[Original(x)] \/ entry'[Original(x)].rev > pull[w].next
      BY <1>1, <1>3, <2>2
    <3> QED BY <3>1, <3>2 DEF Passed, ViewOf
  <2> QED BY <1>1, <2>1, <2>2, <2>3 DEF RoundFits
<1>6. \A w \in Pullers : RoundFits(pull[w])'
  BY <1>5 DEF RoundFits
<1>7. deltaToken <= Clock + 1
  BY <1>1, <1>2
<1> QED BY <1>1, <1>4, <1>6, <1>7 DEF StickInv

(* No ghost appears unless a copy becomes live.                                 *)
LEMMA GhostsStayAway ==
  ASSUME GhostInv, UNCHANGED <<booking, outbox, delayed, push, faults>>,
         \A c \in Copies : entry'[c].state = "live" => entry[c].state = "live"
  PROVE  GhostInv'
<1> SUFFICES ASSUME faults' = 0, NEW r \in Own PROVE GhostFits(r)'
  BY DEF GhostInv
<1>1. GhostFits(r)
  BY DEF GhostInv
<1>2. \A c \in CopiesOf(r) : entry'[c].state = "live" => entry[c].state = "live"
  BY DEF CopiesOf
<1>3. Silent(r) => Silent(r)'
  BY <1>2 DEF Silent
<1>4. \A w \in Pushers : Cancels(r, push[w]) => Cancels(r, push[w])'
  BY <1>3 DEF Cancels
<1>5. /\ \A c : Making(r, c)' = Making(r, c)
      /\ \A w, k : Working(w, k, r)' = Working(w, k, r)
  BY DEF Making, Working
<1> QED BY <1>1, <1>2, <1>3, <1>4, <1>5 DEF GhostFits

LEMMA EditKeeps ==
  ASSUME Sound, NEW i \in Entries, NEW state \in {"live", "gone"}, NEW slot \in Slots \cup {0},
         Changed(i, state, slot), i \in Originals \/ entry[i].state = "live",
         UNCHANGED <<booking, deltaToken, outbox, delayed, push, pull, faults>>
  PROVE  Sound' /\ Replays
<1>0. CalInv
  BY DEF Sound
<1>1. /\ entry' \in [Entries -> EntryRow] /\ entry'[i].state = state
      /\ \A j \in Entries : j # i => entry'[j] = entry[j]
      /\ \A j \in Entries : entry'[j].rev <= entry'[i].rev
  BY <1>0, ChangeFacts
<1>2. \A c \in Copies : /\ entry'[c].state # "none" <=> entry[c].state # "none"
                        /\ entry'[c].state = "live" => entry[c].state = "live"
  BY <1>1, CopyFacts
<1>3. CalFits'
  BY <1>0, <1>1 DEF CalInv, CalFits, RowFits
<1>4. push' \in [Pushers -> PushRow] /\ \A w \in Pushers : PushFits(w, push[w])'
  BY <1>0, RestIsKept
<1>5. pull' \in [Pullers -> PullRow] /\ \A w \in Pullers : PullFits(w, pull[w])'
  BY <1>0, RoundsAreKept
<1>6. \A r \in Own : Numbered(r)'
  <2>1. faults' \in 0..MaxFaults /\ \A r \in Own : faults + Owed(r) <= faults' + Owed(r)'
    BY <1>0 DEF CalInv, CalFits, Owed, Creating, Working
  <2> QED BY <1>0, <1>2, <2>1, NumbersAreKept
<1>7. CalInv'
  BY <1>3, <1>4, <1>5, <1>6 DEF CalInv
<1>8. Replays
  BY <1>2 DEF Replays, Known
<1>9. StickInv => StickInv'
  BY <1>0, ChangeSticks
<1>10. GhostInv => GhostInv'
  BY <1>2, GhostsStayAway
<1> QED BY <1>7, <1>8, <1>9, <1>10 DEF Sound, OnePusher, OnePuller

LEMMA PeopleKeep ==
  ASSUME Sound,
         \/ \E x \in Natives, s \in Slots : CreateThere(x, s)
         \/ \E i \in Entries, s \in Slots : MoveThere(i, s)
         \/ \E i \in Entries : DeleteThere(i)
  PROVE  Sound' /\ Replays
<1>1. CASE \E x \in Natives, s \in Slots : CreateThere(x, s)
  <2>1. PICK x \in Natives, s \in Slots : CreateThere(x, s)
    BY <1>1
  <2>2. Original(x) \in Entries /\ Original(x) \in Originals
    BY CopyFacts
  <2>3. Changed(Original(x), "live", s)
          /\ UNCHANGED <<booking, deltaToken, outbox, delayed, push, pull, faults>>
    BY <2>1 DEF CreateThere
  <2>i. PICK i : i = Original(x)
    OBVIOUS
  <2>4. i \in Entries /\ i \in Originals /\ Changed(i, "live", s)
    BY <2>2, <2>3, <2>i
  <2> QED BY <2>3, <2>4, EditKeeps
<1>2. CASE \E i \in Entries, s \in Slots : MoveThere(i, s)
  BY <1>2, EditKeeps DEF MoveThere
<1>3. CASE \E i \in Entries : DeleteThere(i)
  BY <1>3, EditKeeps DEF DeleteThere
<1> QED BY <1>1, <1>2, <1>3

-----------------------------------------------------------------------------
(* The push handler                                                           *)

LEMMA SticksStill ==
  ASSUME StickInv, UNCHANGED <<entry, deltaToken, pull>>,
         \A x \in Natives : booking'[x] = booking[x]
  PROVE  StickInv'
<1>1. Clock' = Clock
  BY DEF Clock
<1>2. DeletionSticks'
  BY DEF StickInv, DeletionSticks, Gone
<1>3. \A w \in Pullers : RoundFits(pull[w])'
  BY <1>1 DEF StickInv, RoundFits, Passed, ViewOf
<1> QED BY <1>1, <1>2, <1>3 DEF StickInv

(* A relay task goes on to x; what it writes concerns nobody else's event.          *)
GoesOn(w, x) ==
  /\ w \in Pushers /\ PushFits(w, x) /\ push' = [push EXCEPT ![w] = x]
  /\ \A r \in Own : booking'[r].ext = booking[r].ext \/ Working(w, "confirmed", r)
  /\ \A r \in Own : \A k \in outbox[r] : k \in outbox'[r] \/ Working(w, k, r)
  /\ \/ x.step = "idle"
     \/ x.step = "saved" /\ outbox' = outbox
     \/ booking' = booking /\ outbox' = outbox

LEMMA PushersFit ==
  ASSUME CalInv, NEW w, NEW x, GoesOn(w, x)
  PROVE  /\ push' \in [Pushers -> PushRow] /\ push'[w] = x
         /\ \A v \in Pushers : v # w => push'[v] = push[v]
         /\ \A v \in Pushers : PushFits(v, push[v])'
<1>1. /\ push' \in [Pushers -> PushRow] /\ push'[w] = x
      /\ \A v \in Pushers : v # w => push'[v] = push[v]
  BY DEF GoesOn, PushFits, CalInv
<1>2. \A v, k, r : v \in Pushers /\ v # w => Working(v, k, r)' = Working(v, k, r)
  BY <1>1 DEF Working
<1>3. ASSUME NEW v \in Pushers, v # w PROVE PushFits(v, push[v])'
  <2>1. PushFits(v, push[v]) /\ push'[v] = push[v]
    BY <1>1, <1>3 DEF CalInv
  <2>2. CASE push[v].step = "idle"
    BY <2>1, <2>2 DEF PushFits
  <2>3. CASE push[v].step # "idle"
    <3>y. PICK y : y = push[v]
      OBVIOUS
    <3>1. y.step # "idle" /\ PushFits(v, y) /\ y.of \in Own /\ y.kind \in outbox[y.of]
      BY <2>1, <2>3, <3>y DEF PushFits
    <3>2. Working(v, y.kind, y.of)
      BY <3>1, <3>y DEF Working
    <3>3. ~Working(w, y.kind, y.of)
      BY <1>3, <3>1 DEF PushFits, GoesOn
    <3>4. ~Working(w, y.kind, y.of)'
      <4>1. x.step # "idle" /\ x.kind = y.kind /\ x.of = y.of => v = w
        BY <3>2 DEF GoesOn, PushFits
      <4> QED BY <1>1, <1>3, <4>1 DEF Working
    <3>5. \A u \in Pushers : Working(u, y.kind, y.of)' => u = v
      BY <1>2, <3>1, <3>4 DEF PushFits
    <3>6. y.kind \in outbox'[y.of]
      BY <3>1, <3>3 DEF GoesOn
    <3>7. y.kind = "confirmed" => booking'[y.of].ext = booking[y.of].ext
      BY <3>1, <3>3 DEF GoesOn
    <3> QED BY <2>1, <3>1, <3>5, <3>6, <3>7, <3>y DEF PushFits
  <2> QED BY <2>2, <2>3
<1>4. PushFits(w, push[w])'
  <2>1. PushFits(w, x)
    BY DEF GoesOn
  <2>2. \A v \in Pushers : Working(v, x.kind, x.of)' => v = w \/ Working(v, x.kind, x.of)
    BY <1>2
  <2> QED BY <1>1, <2>1, <2>2 DEF PushFits, GoesOn
<1> QED BY <1>1, <1>3, <1>4

LEMMA OwedIsKept ==
  ASSUME CalInv, NEW w, NEW x, GoesOn(w, x),
         faults' \in 0..MaxFaults, faults' = faults \/ faults' = faults + 1,
         \/ faults' = faults + 1
         \/ \A r \in Own : Working(w, "confirmed", r) =>
              push[w].step # "called" \/ booking'[r].ext # NoEntry,
         \A r \in Own : booking'[r].ext = booking[r].ext \/ booking'[r].ext # NoEntry
  PROVE  \A r \in Own : faults + Owed(r) <= faults' + Owed(r)'
<1> SUFFICES ASSUME NEW r \in Own PROVE faults + Owed(r) <= faults' + Owed(r)'
  OBVIOUS
<1>1. Owed(r) \in {0, 1} /\ Owed(r)' \in {0, 1} /\ faults \in Nat
  BY CalendarAssumption DEF Owed, CalInv, CalFits
<1>2. CASE faults' = faults + 1
  BY <1>1, <1>2
<1>3. CASE faults' = faults /\ \A s \in Own : Working(w, "confirmed", s) =>
              push[w].step # "called" \/ booking'[s].ext # NoEntry
  <2>1. booking[r].ext # NoEntry => booking'[r].ext # NoEntry
    OBVIOUS
  <2>2. Creating(r) => Creating(r)' \/ booking'[r].ext # NoEntry
    <3> SUFFICES ASSUME NEW v \in Pushers, Working(v, "confirmed", r), push[v].step = "called",
                        booking'[r].ext = NoEntry
                 PROVE  Creating(r)'
      BY DEF Creating
    <3>1. v # w
      BY <1>3
    <3>2. push'[v] = push[v]
      BY <3>1, PushersFit
    <3> QED BY <3>2 DEF Creating, Working
  <2>3. Owed(r) = 1 => Owed(r)' = 1
    BY <2>1, <2>2 DEF Owed
  <2> QED BY <1>1, <1>3, <2>3
<1> QED BY <1>2, <1>3

(* A step of a relay task that changes nothing in the external calendar and no      *)
(* reservation.                                                               *)
LEMMA HandlerKeeps ==
  ASSUME CalInv, NEW w, NEW x, GoesOn(w, x), UNCHANGED <<booking, entry, deltaToken, pull>>,
         outbox' \in [Own -> SUBSET {"confirmed", "cancelled"}],
         \A r \in Own : outbox'[r] \subseteq outbox[r],
         \/ faults' = faults /\ (push[w].kind = "confirmed" => push[w].step # "called")
         \/ faults' \in 0..MaxFaults /\ faults' = faults + 1
  PROVE  CalInv' /\ Replays /\ (StickInv => StickInv')
<1>1. faults' \in 0..MaxFaults
  BY DEF CalInv, CalFits
<1>2. CalFits'
  <2>1. \A r \in Own : booking'[r].state = "none" => outbox'[r] = {}
    BY DEF CalInv, CalFits
  <2> QED BY <1>1, <2>1 DEF CalInv, CalFits, RowFits
<1>3. push' \in [Pushers -> PushRow] /\ \A v \in Pushers : PushFits(v, push[v])'
  BY PushersFit
<1>4. pull' \in [Pullers -> PullRow] /\ \A v \in Pullers : PullFits(v, pull[v])'
  BY RoundsAreKept
<1>5. \A r \in Own : faults + Owed(r) <= faults' + Owed(r)'
  <2>1. \/ faults' = faults + 1
        \/ \A r \in Own : Working(w, "confirmed", r) =>
              push[w].step # "called" \/ booking'[r].ext # NoEntry
    BY DEF Working
  <2> QED BY <1>1, <2>1, OwedIsKept
<1>6. \A r \in Own : Numbered(r)'
  BY <1>1, <1>5, NumbersAreKept
<1>7. StickInv => StickInv'
  BY SticksStill
<1>8. Replays
  BY KnownIsKept
<1> QED BY <1>2, <1>3, <1>4, <1>6, <1>7, <1>8 DEF CalInv

(* The only relay task: what is not its own is nobody's.                          *)
LEMMA Alone ==
  ASSUME CalInv, OnePusher, NEW w \in Pushers
  PROVE  /\ \A v, k, r : v \in Pushers => (Working(v, k, r) <=> Working(w, k, r))
         /\ \A r, c : Making(r, c) <=> /\ Working(w, "confirmed", r)
                                       /\ push[w].step = "called" /\ push[w].ext = c
BY DEF OnePusher, Making

LEMMA AloneAfter ==
  ASSUME OnePusher, NEW w \in Pushers
  PROVE  /\ \A v, k, r : v \in Pushers => (Working(v, k, r)' <=> Working(w, k, r)')
         /\ \A r, c : Making(r, c)' <=> /\ Working(w, "confirmed", r)'
                                        /\ push'[w].step = "called" /\ push'[w].ext = c
BY DEF OnePusher, Making

LEMMA ReadKeeps ==
  ASSUME Sound, NEW w \in Pushers, NEW r \in Own, NEW k \in outbox[r], ReadBooking(w, k, r)
  PROVE  Sound' /\ Replays
<1>x. PICK x : x = [step |-> "read", of |-> r, kind |-> k, ext |-> booking[r].ext, slot |-> booking[r].slot]
  OBVIOUS
<1>0. /\ CalInv /\ push[w] = Quiet /\ ~Busy(k, r) /\ push' = [push EXCEPT ![w] = x]
      /\ UNCHANGED <<booking, entry, deltaToken, outbox, delayed, pull, faults>>
  BY <1>x DEF Sound, ReadBooking
<1>1. /\ k \in {"confirmed", "cancelled"} /\ RowFits(r, booking[r])
      /\ outbox \in [Own -> SUBSET {"confirmed", "cancelled"}]
  BY <1>0 DEF CalInv, CalFits, Bookings
<1>2. PushFits(w, x)
  <2>1. x \in PushRow /\ x.step = "read" /\ x.kind = k /\ x.of = r /\ x.ext = booking[r].ext
    BY <1>1, <1>x DEF PushRow, RowFits, BookingRow
  <2>2. \A v \in Pushers : ~Working(v, k, r)
    BY <1>0 DEF Busy, Working
  <2> QED BY <1>1, <2>1, <2>2 DEF PushFits, RowFits
<1>3. GoesOn(w, x)
  BY <1>0, <1>2 DEF GoesOn
<1>4. CalInv' /\ Replays /\ (StickInv => StickInv')
  BY <1>0, <1>1, <1>3, HandlerKeeps DEF Quiet
<1>5. ASSUME OnePusher, GhostInv PROVE GhostInv'
  <2> SUFFICES ASSUME faults' = 0, NEW s \in Own PROVE GhostFits(s)'
    BY DEF GhostInv
  <2>1. GhostFits(s) /\ GhostFits(r)
    BY <1>0, <1>5 DEF GhostInv
  <2>2. push'[w] = x
    BY <1>0, <1>3, PushersFit
  <2>3. \A c : ~Making(s, c)
    BY <1>0, <1>5, Alone DEF Quiet
  <2>4. ASSUME NEW v \in Pushers, Working(v, "cancelled", s)' PROVE Cancels(s, push[v])'
    <3>1. v = w /\ s = r /\ k = "cancelled"
      BY <1>5, <2>2, <2>4, <1>x DEF OnePusher, Working
    <3>2. ~Busy("confirmed", r)
      BY <1>0, <1>5 DEF Busy, OnePusher, Quiet
    <3>3. "confirmed" \notin outbox[r]
      BY <2>1, <3>1, <3>2 DEF ReadBooking, GhostFits
    <3> QED BY <1>0, <2>2, <3>1, <3>3, <1>x DEF Cancels
  <2>5. Silent(s)' = Silent(s)
    BY <1>0 DEF Silent
  <2> QED BY <1>0, <2>1, <2>3, <2>4, <2>5 DEF GhostFits
<1> QED BY <1>4, <1>5 DEF Sound, OnePusher, OnePuller

(* What a busy task has.                                                        *)
LEMMA BusyFacts ==
  ASSUME CalInv, NEW w \in Pushers, push[w].step # "idle"
  PROVE  /\ push[w] \in PushRow /\ PushFits(w, push[w])
         /\ push[w].of \in Own /\ push[w].of \in Bookings
         /\ push[w].kind \in {"confirmed", "cancelled"}
         /\ push[w].kind \in outbox[push[w].of]
         /\ push[w].ext \in CopiesOf(push[w].of) \cup {NoEntry}
         /\ \A v \in Pushers : Working(v, push[w].kind, push[w].of) => v = w
         /\ outbox \in [Own -> SUBSET {"confirmed", "cancelled"}]
         /\ RowFits(push[w].of, booking[push[w].of])
BY DEF CalInv, CalFits, PushFits, Bookings

LEMMA NothingKeeps ==
  ASSUME Sound, NEW w \in Pushers, NothingToDo(w)
  PROVE  Sound' /\ Replays
<1>x. PICK x : x = [push[w] EXCEPT !.step = "saved"]
  OBVIOUS
<1>0. /\ CalInv /\ push[w].step = "read" /\ push' = [push EXCEPT ![w] = x]
      /\ (push[w].kind = "confirmed") = (push[w].ext # NoEntry)
      /\ UNCHANGED <<booking, entry, deltaToken, outbox, delayed, pull, faults>>
  BY <1>x DEF Sound, NothingToDo
<1>1. /\ x \in PushRow /\ x.step = "saved" /\ x.kind = push[w].kind /\ x.of = push[w].of
      /\ x.ext = push[w].ext
  BY <1>0, <1>x, BusyFacts DEF PushRow
<1>2. GoesOn(w, x)
  <2>1. PushFits(w, x)
    BY <1>0, <1>1, BusyFacts DEF PushFits
  <2> QED BY <1>0, <2>1 DEF GoesOn
<1>3. CalInv' /\ Replays /\ (StickInv => StickInv')
  <2>1. outbox' \in [Own -> SUBSET {"confirmed", "cancelled"}]
    BY <1>0 DEF CalInv, CalFits
  <2> QED BY <1>0, <1>2, <2>1, HandlerKeeps
<1>4. ASSUME OnePusher, GhostInv PROVE GhostInv'
  <2> SUFFICES ASSUME faults' = 0, NEW s \in Own PROVE GhostFits(s)'
    BY DEF GhostInv
  <2>1. GhostFits(s)
    BY <1>0, <1>4 DEF GhostInv
  <2>2. push'[w] = x
    BY <1>2, <1>0, PushersFit
  <2>3. (\A c : ~Making(s, c)) /\ (\A k : Working(w, k, s)' <=> Working(w, k, s))
    BY <1>0, <1>1, <1>4, <2>2, Alone DEF Working
  <2>4. Silent(s)' = Silent(s)
    BY <1>0 DEF Silent
  <2>5. ASSUME NEW v \in Pushers, Working(v, "cancelled", s)' PROVE Cancels(s, push[v])'
    <3>1. v = w /\ Working(w, "cancelled", s)
      BY <1>4, <2>3, <2>5 DEF OnePusher
    <3>2. Cancels(s, push[w]) /\ push[w].ext = NoEntry
      BY <1>0, <2>1, <3>1 DEF GhostFits, Working
    <3>3. booking[s].ext = NoEntry
      BY <1>0, <3>2 DEF Cancels
    <3>4. \A c \in CopiesOf(s) : entry[c].state # "live"
      <4>1. \A c \in CopiesOf(s) : c # NoEntry
        BY CopyFacts
      <4> QED BY <2>1, <2>3, <3>3, <4>1 DEF GhostFits
    <3>5. Silent(s)
      BY <3>2, <3>4 DEF Silent, Cancels
    <3> QED BY <1>0, <1>1, <2>2, <2>4, <3>1, <3>2, <3>5 DEF Cancels
  <2> QED BY <1>0, <2>1, <2>3, <2>4, <2>5 DEF GhostFits
<1> QED BY <1>3, <1>4 DEF Sound, OnePusher, OnePuller

LEMMA PublishedKeeps ==
  ASSUME Sound, NEW w \in Pushers, Published(w)
  PROVE  Sound' /\ Replays
<1>r. PICK r : r = push[w].of
  OBVIOUS
<1>k. PICK k : k = push[w].kind
  OBVIOUS
<1>0. /\ CalInv /\ push[w].step = "saved" /\ push' = [push EXCEPT ![w] = Quiet]
      /\ outbox' = [outbox EXCEPT ![r] = @ \ {k}]
      /\ delayed' \subseteq delayed
      /\ UNCHANGED <<booking, entry, deltaToken, pull, faults>>
  BY <1>r, <1>k DEF Sound, Published
<1>1. /\ r \in Own /\ k \in {"confirmed", "cancelled"} /\ Working(w, k, r)
      /\ outbox \in [Own -> SUBSET {"confirmed", "cancelled"}]
  BY <1>0, <1>r, <1>k, BusyFacts DEF Working
<1>2. /\ outbox' \in [Own -> SUBSET {"confirmed", "cancelled"}]
      /\ outbox'[r] = outbox[r] \ {k} /\ \A s \in Own : s # r => outbox'[s] = outbox[s]
  BY <1>0, <1>1
<1>3. GoesOn(w, Quiet)
  <2>1. PushFits(w, Quiet)
    BY DEF PushFits, Quiet, PushRow
  <2> QED BY <1>0, <1>1, <1>2, <2>1 DEF GoesOn, Quiet
<1>4. CalInv' /\ Replays /\ (StickInv => StickInv')
  <2>1. \A s \in Own : outbox'[s] \subseteq outbox[s]
    BY <1>2
  <2> QED BY <1>0, <1>2, <1>3, <2>1, HandlerKeeps
<1>5. ASSUME OnePusher, GhostInv PROVE GhostInv'
  <2> SUFFICES ASSUME faults' = 0, NEW s \in Own PROVE GhostFits(s)'
    BY DEF GhostInv
  <2>1. GhostFits(s) /\ GhostFits(r)
    BY <1>0, <1>1, <1>5 DEF GhostInv
  <2>2. push'[w] = Quiet
    BY <1>3, <1>0, PushersFit
  <2>3. (\A c : ~Making(s, c)) /\ (\A v \in Pushers : ~Working(v, "cancelled", s)')
    BY <1>0, <1>5, <2>2, Alone DEF Working, Quiet, OnePusher
  <2>4. Silent(s) => Silent(s)'
    BY <1>0, <1>2 DEF Silent
  <2>5. booking'[s].state = "ended" /\ "cancelled" \notin outbox'[s] => Silent(s)'
    <3>1. CASE "cancelled" \in outbox[s] /\ "cancelled" \notin outbox'[s]
      <4>1. s = r /\ k = "cancelled"
        BY <1>2, <3>1
      <4>2. Silent(r)
        BY <1>0, <1>1, <2>1, <4>1 DEF GhostFits, Cancels
      <4> QED BY <2>4, <4>1, <4>2
    <3>2. CASE "cancelled" \notin outbox[s]
      BY <1>0, <2>1, <2>4, <3>2 DEF GhostFits
    <3> QED BY <3>1, <3>2
  <2>6. booking'[s].state = "active" => "cancelled" \notin outbox'[s]
    BY <1>0, <1>2, <2>1 DEF GhostFits
  <2> QED BY <1>0, <2>1, <2>3, <2>5, <2>6 DEF GhostFits
<1> QED BY <1>4, <1>5 DEF Sound, OnePusher, OnePuller

LEMMA FaultsKeep ==
  ASSUME Sound, NEW w \in Pushers, PushFails(w) \/ PushDies(w)
  PROVE  Sound' /\ Replays
<1>0. /\ CalInv /\ push[w].step # "idle" /\ push' = [push EXCEPT ![w] = Quiet]
      /\ faults < MaxFaults /\ faults' = faults + 1
      /\ UNCHANGED <<booking, entry, deltaToken, outbox, pull>>
  BY DEF Sound, PushFails, PushDies, Fault
<1>1. /\ outbox \in [Own -> SUBSET {"confirmed", "cancelled"}]
      /\ faults' \in 0..MaxFaults /\ faults' # 0
  BY <1>0, CalendarAssumption DEF CalInv, CalFits
<1>2. GoesOn(w, Quiet)
  <2>1. PushFits(w, Quiet)
    BY DEF PushFits, Quiet, PushRow
  <2> QED BY <1>0, <2>1 DEF GoesOn, Quiet
<1>3. CalInv' /\ Replays /\ (StickInv => StickInv')
  BY <1>0, <1>1, <1>2, HandlerKeeps
<1>4. GhostInv'
  BY <1>1 DEF GhostInv
<1> QED BY <1>3, <1>4 DEF Sound, OnePusher, OnePuller

LEMMA SaveKeeps ==
  ASSUME Sound, NEW w \in Pushers, SaveEventId(w)
  PROVE  Sound' /\ Replays
<1>r. PICK r : r = push[w].of
  OBVIOUS
<1>c. PICK c : c = push[w].ext
  OBVIOUS
<1>x. PICK x : x = [push[w] EXCEPT !.step = "saved"]
  OBVIOUS
<1>0. /\ CalInv /\ push[w].step = "called" /\ Untouched(r) /\ push' = [push EXCEPT ![w] = x]
      /\ booking' = IF push[w].kind = "confirmed" THEN [booking EXCEPT ![r].ext = c] ELSE booking
      /\ UNCHANGED <<entry, deltaToken, outbox, delayed, pull, faults>>
  BY <1>x, <1>r, <1>c DEF Sound, SaveEventId
<1>1. /\ r \in Own /\ r \in Bookings /\ Working(w, push[w].kind, r) /\ RowFits(r, booking[r])
      /\ push[w].kind = "confirmed" => c \in CopiesOf(r) /\ c # NoEntry /\ booking[r].ext = NoEntry
      /\ PushFits(w, push[w]) /\ push[w] \in PushRow
      /\ push[w].kind \in {"confirmed", "cancelled"}
      /\ booking \in [Bookings -> BookingRow]
      /\ outbox \in [Own -> SUBSET {"confirmed", "cancelled"}] /\ faults \in 0..MaxFaults
  BY <1>0, <1>r, <1>c, BusyFacts DEF Working, PushFits, CalInv, CalFits
<1>2. /\ x \in PushRow /\ x.step = "saved" /\ x.kind = push[w].kind /\ x.of = r /\ x.ext = c
  BY <1>1, <1>r, <1>c, <1>x DEF PushRow
<1>new. PICK new : new = [booking[r] EXCEPT !.ext = c]
  OBVIOUS
<1>3. push[w].kind = "confirmed" =>
        /\ new \in BookingRow /\ new.ext = c /\ new.state = booking[r].state
        /\ booking' = [booking EXCEPT ![r] = new]
  <2>1. c \in CopiesOf(r) => c \in Entries
    BY <1>1, CopyFacts
  <2> QED BY <1>0, <1>1, <1>new, <2>1 DEF BookingRow
<1>4. /\ booking' \in [Bookings -> BookingRow]
      /\ \A b \in Bookings : b # r \/ push[w].kind = "cancelled" => booking'[b] = booking[b]
      /\ \A b \in Bookings : booking'[b].state = booking[b].state
      /\ push[w].kind = "confirmed" => booking'[r].ext = c
  BY <1>0, <1>1, <1>3
<1>5. GoesOn(w, x)
  <2>1. PushFits(w, x)
    BY <1>0, <1>1, <1>2, <1>r, <1>c, BusyFacts DEF PushFits
  <2>2. \A s \in Own : booking'[s].ext = booking[s].ext \/ Working(w, "confirmed", s)
    BY <1>1, <1>4 DEF Bookings
  <2> QED BY <1>0, <1>2, <2>1, <2>2 DEF GoesOn
<1>6. \A b \in Bookings : RowFits(b, booking[b])'
  <2>1. \A b \in Bookings : RowFits(b, booking[b])
    BY <1>0 DEF CalInv, CalFits
  <2>2. r \notin Natives
    BY <1>1, CalendarAssumption
  <2>3. push[w].kind = "confirmed" => booking[r].state # "none"
    BY <1>0, <1>1, <1>r, BusyFacts DEF CalInv, CalFits
  <2>4. push[w].kind = "confirmed" => RowFits(r, booking'[r])
    BY <1>1, <1>4, <2>2, <2>3 DEF RowFits
  <2> QED BY <1>1, <1>4, <2>1, <2>4 DEF RowFits
<1>7. CalFits'
  <2>1. \A s \in Own : booking'[s].state = "none" => outbox'[s] = {}
    BY <1>0, <1>4 DEF CalInv, CalFits, Bookings
  <2> QED BY <1>0, <1>4, <1>6, <2>1 DEF CalInv, CalFits
<1>8. pull' \in [Pullers -> PullRow] /\ \A v \in Pullers : PullFits(v, pull[v])'
  <2>1. \A v \in Pullers, s \in Own : Written(v, s) => booking'[s] = booking[s]
    BY <1>0, <1>4 DEF Untouched, Bookings
  <2> QED BY <1>0, <2>1, RoundsAreKept
<1>9. \A s \in Own : Numbered(s)'
  <2>1. \A s \in Own : booking'[s].ext = booking[s].ext \/ booking'[s].ext # NoEntry
    BY <1>1, <1>4 DEF Bookings
  <2>2. \A s \in Own : Working(w, "confirmed", s) => booking'[s].ext # NoEntry
    BY <1>1, <1>4, <1>r DEF Working
  <2>3. \A s \in Own : faults + Owed(s) <= faults' + Owed(s)'
    BY <1>0, <1>1, <1>5, <2>1, <2>2, OwedIsKept
  <2> QED BY <1>0, <1>1, <2>3, NumbersAreKept
<1>10. CalInv'
  <2>1. push' \in [Pushers -> PushRow] /\ \A v \in Pushers : PushFits(v, push[v])'
    BY <1>0, <1>5, PushersFit
  <2> QED BY <1>7, <1>8, <1>9, <2>1 DEF CalInv
<1>11. StickInv => StickInv'
  <2>1. \A b \in Natives : booking'[b] = booking[b]
    BY <1>1, <1>4, CopyFacts DEF Bookings
  <2> QED BY <1>0, <2>1, SticksStill
<1>12. ASSUME OnePusher, GhostInv PROVE GhostInv'
  <2> SUFFICES ASSUME faults' = 0, NEW s \in Own PROVE GhostFits(s)'
    BY DEF GhostInv
  <2>1. GhostFits(s) /\ s \in Bookings
    BY <1>0, <1>12 DEF GhostInv, Bookings
  <2>2. push'[w] = x
    BY <1>5, <1>0, PushersFit
  <2>3. \A k : Working(w, k, s)' <=> Working(w, k, s)
    BY <1>0, <1>2, <2>2, <1>r DEF Working
  <2>4. Silent(s)' = Silent(s)
    BY <1>0 DEF Silent
  <2>5. ASSUME NEW d \in CopiesOf(s), entry'[d].state = "live" PROVE booking'[s].ext = d
    <3>1. booking[s].ext = d \/ Making(s, d)
      BY <1>0, <2>1, <2>5 DEF GhostFits
    <3>2. CASE Making(s, d)
      <4>1. s = r /\ push[w].kind = "confirmed" /\ c = d
        BY <1>0, <1>12, <3>2, <1>r, <1>c, Alone DEF Working
      <4> QED BY <1>4, <4>1
    <3>3. CASE booking[s].ext = d
      <4>1. d # NoEntry
        BY CopyFacts
      <4>2. s # r \/ push[w].kind = "cancelled"
        BY <1>1, <3>3, <4>1
      <4> QED BY <1>4, <2>1, <3>3, <4>2
    <3> QED BY <3>1, <3>2, <3>3
  <2>6. ASSUME NEW v \in Pushers, Working(v, "cancelled", s)' PROVE Cancels(s, push[v])'
    <3>1. v = w /\ Working(w, "cancelled", s)
      BY <1>12, <2>3, <2>6 DEF OnePusher
    <3>2. Cancels(s, push[w])
      BY <2>1, <3>1 DEF GhostFits
    <3> QED BY <1>0, <1>2, <2>2, <2>4, <3>1, <3>2 DEF Cancels
  <2> QED BY <1>0, <1>4, <2>1, <2>4, <2>5, <2>6 DEF GhostFits
<1> QED BY <1>5, <1>10, <1>11, <1>12, <1>0, KnownIsKept DEF Sound, OnePusher, OnePuller

(* A step of a relay task that calls the external calendar.                       *)
LEMMA CallKeeps ==
  ASSUME CalInv, NEW w, NEW x, GoesOn(w, x), NEW i \in Entries, NEW state \in {"live", "gone"},
         NEW slot \in Slots \cup {0}, Changed(i, state, slot),
         UNCHANGED <<booking, deltaToken, outbox, pull, faults>>,
         \A r \in Own : Numbered(r)'
  PROVE  CalInv' /\ (StickInv => StickInv')
<1>1. /\ entry' \in [Entries -> EntryRow]
      /\ \A j \in Entries : entry'[j].rev <= entry'[i].rev
  BY ChangeFacts
<1>2. CalFits'
  BY <1>1 DEF CalInv, CalFits, RowFits
<1>3. push' \in [Pushers -> PushRow] /\ \A v \in Pushers : PushFits(v, push[v])'
  BY PushersFit
<1>4. pull' \in [Pullers -> PullRow] /\ \A v \in Pullers : PullFits(v, pull[v])'
  BY RoundsAreKept
<1> QED BY <1>2, <1>3, <1>4, ChangeSticks DEF CalInv

LEMMA CancelKeeps ==
  ASSUME Sound, NEW w \in Pushers, CancelEvent(w)
  PROVE  Sound' /\ Replays
<1>r. PICK r : r = push[w].of
  OBVIOUS
<1>i. PICK i : i = push[w].ext
  OBVIOUS
<1>x. PICK x : x = [push[w] EXCEPT !.step = "called"]
  OBVIOUS
<1>0. /\ CalInv /\ push[w].step = "read" /\ push[w].kind = "cancelled" /\ i # NoEntry
      /\ entry[i].state = "live" /\ Changed(i, "gone", 0) /\ push' = [push EXCEPT ![w] = x]
      /\ UNCHANGED <<booking, deltaToken, outbox, delayed, pull, faults>>
  BY <1>x, <1>r, <1>i DEF Sound, CancelEvent
<1>1. /\ r \in Own /\ Working(w, "cancelled", r) /\ i \in CopiesOf(r) /\ i \in Copies /\ i \in Entries
      /\ PushFits(w, push[w]) /\ push[w] \in PushRow /\ faults \in 0..MaxFaults
  BY <1>0, <1>r, <1>i, BusyFacts, CopyFacts DEF Working, CopiesOf, CalInv, CalFits
<1>2. /\ x \in PushRow /\ x.step = "called" /\ x.kind = "cancelled" /\ x.of = r /\ x.ext = i
  BY <1>0, <1>1, <1>r, <1>i, <1>x DEF PushRow
<1>3. GoesOn(w, x)
  <2>1. PushFits(w, x)
    BY <1>0, <1>1, <1>2, <1>r, <1>i DEF PushFits
  <2> QED BY <1>0, <2>1 DEF GoesOn
<1>4. /\ entry'[i].state = "gone" /\ \A j \in Entries : j # i => entry'[j] = entry[j]
  BY <1>0, <1>1, ChangeFacts
<1>5. \A c \in Copies : /\ entry'[c].state # "none" <=> entry[c].state # "none"
                        /\ entry'[c].state = "live" => entry[c].state = "live" /\ c # i
  BY <1>0, <1>1, <1>4, CopyFacts
<1>6. \A s \in Own : Numbered(s)'
  <2>1. \A s \in Own : ~Working(w, "confirmed", s)
    BY <1>0 DEF Working
  <2>2. \A s \in Own : faults + Owed(s) <= faults' + Owed(s)'
    BY <1>0, <1>1, <1>3, <2>1, OwedIsKept
  <2> QED BY <1>0, <1>1, <1>5, <2>2, NumbersAreKept
<1>7. CalInv' /\ (StickInv => StickInv')
  BY <1>0, <1>1, <1>3, <1>6, CallKeeps
<1>8. Replays
  BY <1>5 DEF Replays, Known
<1>9. ASSUME OnePusher, GhostInv PROVE GhostInv'
  <2> SUFFICES ASSUME faults' = 0, NEW s \in Own PROVE GhostFits(s)'
    BY DEF GhostInv
  <2>1. GhostFits(s) /\ GhostFits(r)
    BY <1>0, <1>1, <1>9 DEF GhostInv
  <2>2. push'[w] = x
    BY <1>3, <1>0, PushersFit
  <2>3. (\A c : ~Making(s, c)) /\ (\A k : Working(w, k, s)' <=> Working(w, k, s))
    BY <1>0, <1>2, <1>9, <2>2, <1>r, Alone DEF Working
  <2>4. \A c \in CopiesOf(s) : entry'[c].state = "live" => entry[c].state = "live" /\ c # i
    BY <1>5 DEF CopiesOf
  <2>5. Silent(s) => Silent(s)'
    BY <1>0, <2>4 DEF Silent
  <2>6. ASSUME NEW v \in Pushers, Working(v, "cancelled", s)' PROVE Cancels(s, push[v])'
    <3>1. v = w /\ Working(w, "cancelled", s) /\ s = r
      BY <1>9, <2>3, <2>6, <1>r DEF OnePusher, Working
    <3>2. "confirmed" \notin outbox[s] /\ booking[s].ext = i
      BY <1>0, <1>1, <2>1, <3>1, <1>i DEF GhostFits, Cancels
    <3>3. \A c \in CopiesOf(s) : entry'[c].state # "live"
      BY <2>1, <2>3, <2>4, <3>2 DEF GhostFits
    <3>4. Silent(s)'
      BY <1>0, <3>2, <3>3 DEF Silent
    <3> QED BY <1>0, <1>2, <2>2, <3>1, <3>2, <3>4 DEF Cancels
  <2> QED BY <1>0, <2>1, <2>3, <2>4, <2>5, <2>6 DEF GhostFits
<1> QED BY <1>7, <1>8, <1>9 DEF Sound, OnePusher, OnePuller

LEMMA CreateKeeps ==
  ASSUME Sound, NEW w \in Pushers, CreateEvent(w)
  PROVE  Sound' /\ Replays
<1>r. PICK r : r = push[w].of
  OBVIOUS
<1>c. PICK c : c = NewCopy(r)
  OBVIOUS
<1>x. PICK x : x = [push[w] EXCEPT !.step = "called", !.ext = c]
  OBVIOUS
<1>0. /\ CalInv /\ push[w].step = "read" /\ push[w].kind = "confirmed" /\ push[w].ext = NoEntry
      /\ Changed(c, "live", push[w].slot) /\ push' = [push EXCEPT ![w] = x]
      /\ UNCHANGED <<booking, deltaToken, outbox, delayed, pull, faults>>
  BY <1>x, <1>r, <1>c DEF Sound, CreateEvent
<1>1. /\ r \in Own /\ r \in Bookings /\ Working(w, "confirmed", r) /\ booking[r].ext = NoEntry
      /\ PushFits(w, push[w]) /\ push[w] \in PushRow /\ push[w].slot \in Slots \cup {0}
      /\ faults \in 0..MaxFaults /\ MaxFaults \in Nat
      /\ "confirmed" \in outbox[r]
  BY <1>0, <1>r, BusyFacts, CalendarAssumption DEF Working, CalInv, CalFits, PushFits, PushRow
<1>2. Owed(r) = 0
  <2>1. ~Creating(r)
    BY <1>0, <1>r, BusyFacts DEF Creating
  <2> QED BY <1>1, <2>1 DEF Owed
<1>k. PICK k \in 0..(MaxFaults + 1) :
        /\ \A n \in 1..(MaxFaults + 1) : entry[<<r, n>>].state # "none" <=> n <= k
        /\ k <= faults + Owed(r)
  BY <1>0, <1>1 DEF CalInv, Numbered
<1>3. k + 1 \in 1..(MaxFaults + 1) /\ k <= faults
  BY <1>1, <1>2, <1>k
<1>4. c = <<r, k + 1>>
  <2>n. PICK new : new = <<r, k + 1>>
    OBVIOUS
  <2>1. /\ new \in Copies /\ new[1] = r /\ new[2] = k + 1 /\ entry[new].state = "none"
    BY <1>1, <1>3, <1>k, <2>n, CopyFacts
  <2>2. ASSUME NEW d \in Copies, d[1] = r, entry[d].state = "none"
        PROVE  d[2] \in Nat /\ k + 1 <= d[2]
    <3>1. d[2] \in 1..(MaxFaults + 1) /\ d = <<r, d[2]>>
      BY <2>2, CopyFacts
    <3>2. ~(d[2] <= k)
      BY <1>k, <2>2, <3>1
    <3> QED BY <1>1, <3>1, <3>2
  <2> DEFINE P(d) == /\ d[1] = r /\ entry[d].state = "none"
                     /\ \A e \in Copies : e[1] = r /\ entry[e].state = "none" => d[2] <= e[2]
  <2>3. P(new)
    BY <2>1, <2>2
  <2>4. c = CHOOSE d \in Copies : P(d)
    BY <1>c DEF NewCopy
  <2>5. c \in Copies /\ P(c)
    BY <2>1, <2>3, <2>4
  <2>6. c[2] <= k + 1 /\ k + 1 <= c[2] /\ c[2] \in Nat
    BY <2>1, <2>2, <2>5
  <2>7. c[2] = k + 1
    BY <1>3, <2>6
  <2> QED BY <2>5, <2>7, CopyFacts
<1>5. c \in CopiesOf(r) /\ c \in Copies /\ c \in Entries /\ c # NoEntry /\ c[1] = r
  BY <1>1, <1>3, <1>4, CopyFacts
<1>6. /\ x \in PushRow /\ x.step = "called" /\ x.kind = "confirmed" /\ x.of = r /\ x.ext = c
  BY <1>0, <1>1, <1>5, <1>r, <1>x DEF PushRow
<1>7. GoesOn(w, x)
  <2>1. PushFits(w, x)
    BY <1>0, <1>1, <1>5, <1>6, <1>r DEF PushFits
  <2> QED BY <1>0, <2>1 DEF GoesOn
<1>8. /\ entry'[c].state = "live" /\ \A j \in Entries : j # c => entry'[j] = entry[j]
  BY <1>0, <1>1, <1>5, ChangeFacts
<1>9. \A d \in Copies : d # c => entry'[d] = entry[d]
  BY <1>8, CopyFacts
<1>10. ASSUME NEW s \in Own PROVE Numbered(s)'
  <2>1. CASE s = r
    <3>1. k + 1 \in 0..(MaxFaults + 1) /\ faults' = faults
      BY <1>0, <1>3
    <3>2. ASSUME NEW n \in 1..(MaxFaults + 1)
          PROVE  entry'[<<r, n>>].state # "none" <=> n <= k + 1
      <4>1. <<r, n>> \in Copies /\ (<<r, n>> = c => n = k + 1)
        BY <1>1, <1>4, CopyFacts
      <4>2. CASE n = k + 1
        BY <1>3, <1>4, <1>8, <4>2
      <4>3. CASE n # k + 1
        <5>1. entry'[<<r, n>>] = entry[<<r, n>>]
          BY <1>9, <4>1, <4>3
        <5>2. n <= k <=> n <= k + 1
          BY <1>k, <4>3
        <5> QED BY <1>k, <5>1, <5>2
      <4> QED BY <4>2, <4>3
    <3>3. Owed(r)' = 1
      <4>1. Creating(r)'
        BY <1>0, <1>6, <1>7, PushersFit DEF Creating, Working
      <4> QED BY <4>1 DEF Owed
    <3>4. k + 1 <= faults' + Owed(r)'
      BY <1>1, <1>3, <3>1, <3>3
    <3> QED BY <2>1, <3>1, <3>2, <3>4 DEF Numbered
  <2>2. CASE s # r
    <3>1. PICK m \in 0..(MaxFaults + 1) :
            /\ \A n \in 1..(MaxFaults + 1) : entry[<<s, n>>].state # "none" <=> n <= m
            /\ m <= faults + Owed(s)
      BY <1>0 DEF CalInv, Numbered
    <3>2. \A n \in 1..(MaxFaults + 1) : entry'[<<s, n>>] = entry[<<s, n>>]
      BY <1>5, <1>9, <2>2, CopyFacts
    <3>3. Creating(s)' <=> Creating(s)
      <4>1. \A v \in Pushers : v # w => push'[v] = push[v]
        BY <1>0, <1>7, PushersFit
      <4>2. ~Working(w, "confirmed", s) /\ ~Working(w, "confirmed", s)'
        BY <1>0, <1>6, <1>7, <2>2, <1>r, PushersFit DEF Working
      <4>3. \A v \in Pushers : (Working(v, "confirmed", s) /\ push[v].step = "called")' <=>
                               Working(v, "confirmed", s) /\ push[v].step = "called"
        BY <4>1, <4>2 DEF Working
      <4> QED BY <4>3 DEF Creating
    <3>4. Owed(s)' = Owed(s)
      BY <1>0, <3>3 DEF Owed
    <3> QED BY <1>0, <3>1, <3>2, <3>4 DEF Numbered
  <2> QED BY <2>1, <2>2
<1>11. CalInv' /\ (StickInv => StickInv')
  BY <1>0, <1>1, <1>5, <1>7, <1>10, CallKeeps
<1>12. Replays
  <2> SUFFICES ASSUME NEW s \in Own, booking[s].ext # NoEntry PROVE Known(s)' = Known(s)
    BY DEF Replays
  <2>1. \A d \in Copies : d[1] = s => entry'[d] = entry[d]
    BY <1>1, <1>5, <1>9
  <2> QED BY <2>1 DEF Known
<1>13. ASSUME OnePusher, GhostInv PROVE GhostInv'
  <2> SUFFICES ASSUME faults' = 0, NEW s \in Own PROVE GhostFits(s)'
    BY DEF GhostInv
  <2>1. GhostFits(s) /\ GhostFits(r)
    BY <1>0, <1>1, <1>13 DEF GhostInv
  <2>2. push'[w] = x
    BY <1>7, <1>0, PushersFit
  <2>3. (\A d : ~Making(s, d)) /\ \A v \in Pushers : ~Working(v, "cancelled", s)'
    BY <1>0, <1>6, <1>13, <2>2, Alone DEF Working, OnePusher
  <2>4. CASE s # r
    <3>1. \A d \in CopiesOf(s) : entry'[d] = entry[d]
      BY <1>5, <1>9, <2>4 DEF CopiesOf
    <3>2. Silent(s)' = Silent(s)
      BY <1>0, <3>1 DEF Silent
    <3> QED BY <1>0, <2>1, <2>3, <3>1, <3>2 DEF GhostFits
  <2>5. CASE s = r
    <3>1. \A d \in CopiesOf(r) : entry'[d].state = "live" => Making(r, d)'
      <4> SUFFICES ASSUME NEW d \in CopiesOf(r), entry'[d].state = "live" PROVE Making(r, d)'
        OBVIOUS
      <4>1. CASE d = c
        BY <1>6, <2>2, <4>1 DEF Making, Working
      <4>2. CASE d # c
        <5>1. entry[d].state = "live" /\ d # NoEntry
          BY <1>9, <4>2, CopyFacts DEF CopiesOf
        <5> QED BY <1>1, <2>1, <2>3, <2>5, <5>1 DEF GhostFits
      <4> QED BY <4>1, <4>2
    <3>2. ~(booking[r].state = "ended" /\ "cancelled" \notin outbox[r])
      BY <1>1, <2>1 DEF GhostFits, Silent
    <3> QED BY <1>0, <2>1, <2>3, <2>5, <3>1, <3>2 DEF GhostFits
  <2> QED BY <2>4, <2>5
<1> QED BY <1>11, <1>12, <1>13 DEF Sound, OnePusher, OnePuller

-----------------------------------------------------------------------------
(* The watchdog                                                               *)

WithRow(mine, b, row) == [c \in DOMAIN mine \cup {b} |-> IF c = b THEN row ELSE mine[c]]

LEMMA RowOfDraft ==
  ASSUME NEW mine \in Drafted, NEW b \in Bookings, NEW row \in BookingRow
  PROVE  /\ WithRow(mine, b, row) \in Drafted
         /\ DOMAIN WithRow(mine, b, row) = DOMAIN mine \cup {b}
         /\ WithRow(mine, b, row)[b] = row
         /\ \A c \in DOMAIN mine : c # b => WithRow(mine, b, row)[c] = mine[c]
<1>1. DOMAIN mine \subseteq Bookings /\ \A c \in DOMAIN mine : mine[c] \in BookingRow
  BY DEF Drafted
<1>2. WithRow(mine, b, row) \in [DOMAIN mine \cup {b} -> BookingRow]
  BY <1>1 DEF WithRow
<1> QED BY <1>1, <1>2 DEF Drafted, WithRow

LEMMA RoundFacts ==
  ASSUME CalInv, NEW w \in Pullers
  PROVE  /\ pull[w] \in PullRow /\ PullFits(w, pull[w])
         /\ pull[w].page \in Pages /\ pull[w].next \in Nat /\ pull[w].todo \in SUBSET Entries
         /\ pull[w].mine \in Drafted /\ pull[w].notes \in SUBSET (Bookings \X Entries)
         /\ DOMAIN pull[w].page \subseteq Entries /\ DOMAIN pull[w].mine \subseteq Bookings
         /\ \A i \in DOMAIN pull[w].page : pull[w].page[i] \in EntryRow
         /\ \A b \in Bookings : View(w, b) = ViewOf(pull[w], b) /\ RowFits(b, View(w, b))
<1>1. pull[w] \in PullRow /\ PullFits(w, pull[w])
  BY DEF CalInv
<1>2. /\ pull[w].page \in Pages /\ pull[w].next \in Nat /\ pull[w].todo \in SUBSET Entries
      /\ pull[w].mine \in Drafted /\ pull[w].notes \in SUBSET (Bookings \X Entries)
  BY <1>1 DEF PullRow
<1>3. /\ DOMAIN pull[w].page \subseteq Entries
      /\ \A i \in DOMAIN pull[w].page : pull[w].page[i] \in EntryRow
  BY <1>2 DEF Pages
<1>4. DOMAIN pull[w].mine \subseteq Bookings
  BY <1>2 DEF Drafted
<1>5. \A b \in Bookings : View(w, b) = ViewOf(pull[w], b) /\ RowFits(b, View(w, b))
  BY <1>1 DEF View, ViewOf, Written, PullFits, CalInv, CalFits
<1> QED BY <1>1, <1>2, <1>3, <1>4, <1>5

(* A round goes on, and nobody sees it yet.                                       *)
LEMMA RoundKeeps ==
  ASSUME Sound, NEW w \in Pullers, NEW p, PullFits(w, p), pull' = [pull EXCEPT ![w] = p],
         UNCHANGED <<booking, entry, deltaToken, outbox, delayed, push>>,
         faults' = faults \/ (faults' \in 0..MaxFaults /\ faults' = faults + 1),
         OnePuller /\ StickInv => RoundFits(p)
  PROVE  Sound' /\ Replays
<1>0. CalInv /\ faults \in 0..MaxFaults
  BY DEF Sound, CalInv, CalFits
<1>1. /\ pull' \in [Pullers -> PullRow] /\ pull'[w] = p
      /\ \A v \in Pullers : v # w => pull'[v] = pull[v]
  BY <1>0 DEF CalInv, PullFits
<1>2. CalFits'
  BY <1>0 DEF CalInv, CalFits, RowFits
<1>3. push' \in [Pushers -> PushRow] /\ \A v \in Pushers : PushFits(v, push[v])'
  BY <1>0, RestIsKept
<1>4. ASSUME NEW v \in Pullers PROVE PullFits(v, pull[v])'
  <2>1. PullFits(v, pull'[v])
    BY <1>0, <1>1 DEF CalInv
  <2>2. ASSUME NEW b \in DOMAIN pull'[v].mine, NEW u \in Pullers, Written(u, b)' PROVE u = v
    <3>1. CASE u # w
      BY <1>1, <2>1, <2>2, <3>1 DEF PullFits, Written
    <3>2. CASE u = w /\ v # w
      <4>1. b \in DOMAIN p.mine /\ Written(v, b)
        BY <1>1, <2>2, <3>2 DEF Written
      <4> QED BY <3>2, <4>1 DEF PullFits
    <3> QED BY <3>1, <3>2
  <2> QED BY <2>1, <2>2 DEF PullFits, RowFits
<1>5. \A r \in Own : Numbered(r)'
  <2>1. /\ faults' \in 0..MaxFaults
        /\ \A r \in Own : faults + Owed(r) <= faults' + Owed(r)'
    BY <1>0, CalendarAssumption DEF Owed, Creating, Working
  <2> QED BY <1>0, <2>1, NumbersAreKept
<1>6. CalInv'
  BY <1>1, <1>2, <1>3, <1>4, <1>5 DEF CalInv
<1>7. OnePuller /\ StickInv => StickInv'
  <2> SUFFICES ASSUME OnePuller, StickInv PROVE StickInv'
    OBVIOUS
  <2>1. Clock' = Clock /\ DeletionSticks'
    BY DEF Clock, StickInv, DeletionSticks, Gone
  <2>2. \A v \in Pullers : RoundFits(pull'[v])
    BY <1>1 DEF StickInv
  <2>3. \A v \in Pullers : RoundFits(pull[v])'
    BY <2>1, <2>2 DEF RoundFits, Passed, ViewOf
  <2> QED BY <2>1, <2>3 DEF StickInv
<1>8. GhostInv => GhostInv'
  <2>1. CASE faults' = faults
    BY <2>1, GhostsStayAway
  <2>2. CASE faults' = faults + 1
    BY <1>0, <2>2, CalendarAssumption DEF GhostInv
  <2> QED BY <2>1, <2>2
<1> QED BY <1>6, <1>7, <1>8, KnownIsKept DEF Sound, OnePusher, OnePuller

(* A round begins, or is given up.                                                *)
LEMMA OffFits == \A w : PullFits(w, Off) /\ RoundFits(Off)
<1>1. <<>> = [i \in {} |-> 0] /\ DOMAIN <<>> = {}
  OBVIOUS
<1>2. <<>> \in Pages /\ <<>> \in Drafted
  BY <1>1 DEF Pages, Drafted
<1>3. Off \in PullRow /\ Off.step = "off" /\ Off.todo = {} /\ DOMAIN Off.mine = {}
  BY <1>1, <1>2 DEF Off, PullRow
<1> QED BY <1>3 DEF PullFits, RoundFits

LEMMA FetchKeeps ==
  ASSUME Sound, NEW w \in Pullers, Fetch(w)
  PROVE  Sound' /\ Replays
<1>news. PICK news : news = {i \in Entries : entry[i].rev > deltaToken}
  OBVIOUS
<1>page. PICK page : page = [i \in news |-> entry[i]]
  OBVIOUS
<1>p. PICK p : p = [Off EXCEPT !.step = "on", !.todo = news, !.next = Clock, !.page = page]
  OBVIOUS
<1>0. /\ CalInv /\ news # {} /\ pull' = [pull EXCEPT ![w] = p]
      /\ UNCHANGED <<booking, entry, deltaToken, outbox, delayed, push, faults>>
  BY <1>news, <1>page, <1>p DEF Sound, Fetch
<1>1. PICK one \in Entries : entry[one].rev > deltaToken
  BY <1>0, <1>news
<1>2. /\ Clock \in Nat /\ \A j \in Entries : entry[j].rev <= Clock
      /\ entry \in [Entries -> EntryRow] /\ deltaToken \in Nat
  BY <1>0, ClockFacts DEF CalInv, CalFits
<1>3. page \in Pages /\ DOMAIN page = news /\ \A i \in news : page[i] = entry[i]
  <2>1. page \in [news -> EntryRow] /\ news \in SUBSET Entries
    BY <1>2, <1>news, <1>page
  <2> QED BY <1>page, <2>1 DEF Pages
<1>4. /\ p.step = "on" /\ p.todo = news /\ p.next = Clock /\ p.page = page
      /\ DOMAIN p.mine = {} /\ p \in PullRow
  <2>1. Off \in PullRow /\ DOMAIN <<>> = {}
    BY OffFits DEF PullFits
  <2> QED BY <1>2, <1>3, <1>news, <1>p, <2>1 DEF Off, PullRow
<1>5. PullFits(w, p)
  BY <1>3, <1>4 DEF PullFits
<1>6. RoundFits(p)
  <2>1. deltaToken <= Clock
    <3>1. entry[one].rev \in Nat /\ entry[one].rev <= Clock
      BY <1>2 DEF EntryRow
    <3> QED BY <1>1, <1>2, <3>1
  <2>2. ASSUME NEW x \in Natives PROVE Passed(p, x)
    <3>1. Original(x) \in Entries /\ entry[Original(x)].rev \in Nat
      BY <1>2, CopyFacts DEF EntryRow
    <3>2. Original(x) \in news \/ entry[Original(x)].rev <= deltaToken
      BY <1>2, <1>news, <3>1
    <3> QED BY <1>3, <1>4, <3>2 DEF Passed
  <2> QED BY <1>2, <1>4, <2>1, <2>2 DEF RoundFits
<1>7. /\ UNCHANGED <<booking, entry, deltaToken, outbox, delayed, push>>
      /\ pull' = [pull EXCEPT ![w] = p] /\ faults' = faults
  BY <1>0
<1> QED BY <1>5, <1>6, <1>7, RoundKeeps

LEMMA RoundDiesKeeps ==
  ASSUME Sound, NEW w \in Pullers, PullDies(w)
  PROVE  Sound' /\ Replays
<1>1. /\ pull' = [pull EXCEPT ![w] = Off] /\ faults < MaxFaults /\ faults' = faults + 1
      /\ UNCHANGED <<booking, entry, deltaToken, outbox, delayed, push>>
  BY DEF PullDies, Fault
<1>2. faults' \in 0..MaxFaults
  BY <1>1, CalendarAssumption DEF Sound, CalInv, CalFits
<1> QED BY <1>1, <1>2, OffFits, RoundKeeps

(* An event of the page is done: the round writes what it has to about it, or       *)
(* leaves its reservation alone.  A deleted event leaves none that is active.       *)
Done(w, i, p) ==
  /\ p \in PullRow /\ p.step = "on" /\ p.page = pull[w].page /\ p.next = pull[w].next
  /\ p.todo = pull[w].todo \ {i}
  /\ pull[w].step # "off" /\ i \in pull[w].todo

LEMMA LeftAlone ==
  ASSUME CalInv, NEW w \in Pullers, NEW i, NEW p, Done(w, i, p), p.mine = pull[w].mine,
         pull[w].page[i].state = "gone" =>
           \A x \in Natives : Original(x) = i => View(w, x).state # "active"
  PROVE  PullFits(w, p) /\ (StickInv => RoundFits(p))
<1>1. PullFits(w, p)
  BY RoundFacts DEF Done, PullFits
<1>2. ASSUME StickInv PROVE RoundFits(p)
  <2>1. deltaToken <= p.next /\ p.next <= Clock /\ \A x \in Natives : Passed(pull[w], x)
    BY <1>2 DEF Done, StickInv, RoundFits
  <2>2. ASSUME NEW x \in Natives PROVE Passed(p, x)
    <3>1. Passed(pull[w], x) /\ ViewOf(p, x) = ViewOf(pull[w], x)
      BY <2>1 DEF ViewOf
    <3>2. Original(x) = i /\ p.page[i].state = "gone" => ViewOf(p, x).state # "active"
      BY <3>1, RoundFacts DEF Done, Bookings
    <3> QED BY <3>1, <3>2 DEF Passed, Done
  <2> QED BY <2>1, <2>2 DEF RoundFits
<1> QED BY <1>1, <1>2

LEMMA WrittenDown ==
  ASSUME CalInv, NEW w \in Pullers, NEW i, NEW p, Done(w, i, p),
         NEW b \in Bookings, NEW row \in BookingRow,
         p.mine = WithRow(pull[w].mine, b, row),
         RowFits(b, row), \A v \in Pullers \ {w} : ~Written(v, b),
         b \in Own => booking[b].state = "active" /\ row = [booking[b] EXCEPT !.state = "ended"],
         b \in Natives => i = Original(b),
         pull[w].page[i].state = "gone" => row.state # "active" /\ (b \in Own => i \notin Originals)
  PROVE  PullFits(w, p) /\ (StickInv => RoundFits(p))
<1>1. /\ DOMAIN p.mine = DOMAIN pull[w].mine \cup {b} /\ p.mine[b] = row
      /\ \A c \in DOMAIN pull[w].mine : c # b => p.mine[c] = pull[w].mine[c]
  <2>m. PICK mine : mine = pull[w].mine
    OBVIOUS
  <2>1. mine \in Drafted
    BY RoundFacts, <2>m
  <2>2. DOMAIN WithRow(mine, b, row) = DOMAIN mine \cup {b} /\ WithRow(mine, b, row)[b] = row
    BY <2>1, RowOfDraft
  <2>3. \A c \in DOMAIN mine : c # b => WithRow(mine, b, row)[c] = mine[c]
    BY DEF WithRow
  <2> QED BY <2>2, <2>3, <2>m
<1>2. PullFits(w, pull[w])
  BY RoundFacts
<1>3. ASSUME NEW c \in DOMAIN p.mine
      PROVE  /\ RowFits(c, p.mine[c])
             /\ c \in Own => /\ booking[c].state = "active"
                             /\ p.mine[c] = [booking[c] EXCEPT !.state = "ended"]
             /\ \A v \in Pullers : Written(v, c) => v = w
  <2>1. CASE c = b
    BY <1>1, <2>1
  <2>2. CASE c # b
    <3>1. c \in DOMAIN pull[w].mine /\ p.mine[c] = pull[w].mine[c]
      BY <1>1, <2>2
    <3> QED BY <1>2, <3>1 DEF PullFits
  <2> QED BY <2>1, <2>2
<1>4. PullFits(w, p)
  BY <1>2, <1>3 DEF Done, PullFits
<1>5. ASSUME StickInv PROVE RoundFits(p)
  <2>1. deltaToken <= p.next /\ p.next <= Clock /\ \A x \in Natives : Passed(pull[w], x)
    BY <1>5 DEF Done, StickInv, RoundFits
  <2>2. i \in DOMAIN p.page
    BY <1>2 DEF Done, PullFits
  <2>3. ASSUME NEW x \in Natives PROVE Passed(p, x)
    <3>1. Passed(pull[w], x) /\ x \in Bookings
      BY <2>1 DEF Bookings
    <3>2. CASE x = b
      <4>1. i = Original(x) /\ ViewOf(p, x) = row
        BY <1>1, <3>2 DEF ViewOf
      <4> QED BY <2>2, <3>1, <4>1 DEF Passed, Done
    <3>3. CASE x # b
      <4>1. ViewOf(p, x) = ViewOf(pull[w], x) /\ (x \in DOMAIN p.mine <=> x \in DOMAIN pull[w].mine)
        BY <1>1, <3>3 DEF ViewOf
      <4>2. Original(x) = i => p.page[i].state # "gone"
        BY <3>3, CopyFacts DEF Done, Bookings
      <4> QED BY <3>1, <4>1, <4>2 DEF Passed, Done
    <3> QED BY <3>2, <3>3
  <2> QED BY <2>1, <2>3 DEF RoundFits
<1> QED BY <1>4, <1>5

LEMMA DoneKeeps ==
  ASSUME Sound, NEW w \in Pullers, NEW p, pull' = [pull EXCEPT ![w] = p], CalRest,
         PullFits(w, p) /\ (StickInv => RoundFits(p))
  PROVE  Sound' /\ Replays
<1>1. UNCHANGED <<booking, entry, deltaToken, outbox, delayed, push>> /\ faults' = faults
  BY DEF CalRest
<1> QED BY <1>1, RoundKeeps

LEMMA GoFits ==
  ASSUME CalInv, NEW w \in Pullers, NEW i, Pending(w, i), Go(w, i)
  PROVE  \E p : Done(w, i, p) /\ p.mine = pull[w].mine /\ pull' = [pull EXCEPT ![w] = p]
<1>p. PICK p : p = [pull[w] EXCEPT !.todo = @ \ {i}]
  OBVIOUS
<1>1. pull[w] \in PullRow /\ pull[w].step = "on" /\ i \in pull[w].todo
        /\ pull[w].todo \ {i} \in SUBSET Entries
  BY RoundFacts DEF Pending
<1>2. /\ p \in PullRow /\ p.step = "on" /\ p.page = pull[w].page /\ p.next = pull[w].next
      /\ p.todo = pull[w].todo \ {i} /\ p.mine = pull[w].mine
  BY <1>1, <1>p DEF PullRow
<1>3. pull' = [pull EXCEPT ![w] = p]
  BY <1>p DEF Go
<1> QED BY <1>1, <1>2, <1>3 DEF Done

LEMMA ReportFits ==
  ASSUME CalInv, NEW w \in Pullers, NEW i \in Entries, NEW b \in Bookings,
         pull[w].step # "off", i \in pull[w].todo, ReportConflict(w, i, b)
  PROVE  \E p : Done(w, i, p) /\ p.mine = pull[w].mine /\ pull' = [pull EXCEPT ![w] = p]
<1>n. PICK notes : notes = pull[w].notes \cup {<<b, i>>}
  OBVIOUS
<1>p. PICK p : p = [pull[w] EXCEPT !.todo = @ \ {i}, !.notes = notes, !.step = "on", !.at = NoEntry]
  OBVIOUS
<1>1. pull[w] \in PullRow /\ pull[w].todo \ {i} \in SUBSET Entries
        /\ notes \in SUBSET (Bookings \X Entries)
  BY RoundFacts, <1>n
<1>2. /\ p \in PullRow /\ p.step = "on" /\ p.page = pull[w].page /\ p.next = pull[w].next
      /\ p.todo = pull[w].todo \ {i} /\ p.mine = pull[w].mine
  BY <1>1, <1>p DEF PullRow
<1>3. pull' = [pull EXCEPT ![w] = p]
  BY <1>n, <1>p DEF ReportConflict
<1> QED BY <1>2, <1>3 DEF Done

LEMMA WriteFits ==
  ASSUME CalInv, NEW w \in Pullers, NEW i, Pending(w, i), NEW b \in Bookings,
         NEW row \in BookingRow, Write(w, i, b, row)
  PROVE  \E p : /\ Done(w, i, p) /\ pull' = [pull EXCEPT ![w] = p]
                /\ p.mine = WithRow(pull[w].mine, b, row)
<1>m. PICK mine : mine = WithRow(pull[w].mine, b, row)
  OBVIOUS
<1>p. PICK p : p = [pull[w] EXCEPT !.todo = @ \ {i}, !.mine = mine]
  OBVIOUS
<1>1. pull[w] \in PullRow /\ pull[w].step = "on" /\ i \in pull[w].todo
        /\ pull[w].todo \ {i} \in SUBSET Entries
  BY RoundFacts DEF Pending
<1>2. mine \in Drafted
  <2>1. pull[w].mine \in Drafted
    BY RoundFacts
  <2> QED BY <2>1, <1>m, RowOfDraft
<1>3. /\ p \in PullRow /\ p.step = "on" /\ p.page = pull[w].page /\ p.next = pull[w].next
      /\ p.todo = pull[w].todo \ {i} /\ p.mine = mine
  BY <1>1, <1>2, <1>p DEF PullRow
<1>4. pull' = [pull EXCEPT ![w] = p]
  BY <1>m, <1>p DEF Write, WithRow
<1> QED BY <1>1, <1>3, <1>4, <1>m DEF Done

LEMMA EchoKeeps ==
  ASSUME Sound, NEW w \in Pullers, NEW i \in Entries, Echo(w, i)
  PROVE  Sound' /\ Replays
<1>1. /\ CalInv /\ CalRest /\ Pending(w, i) /\ i \in Copies /\ pull[w].page[i].state = "live"
      /\ pull[w].step # "off" /\ i \in pull[w].todo
      /\ Go(w, i) \/ ReportConflict(w, i, i[1])
  BY DEF Echo, Sound, Pending, Seen
<1>2. i[1] \in Bookings
  BY <1>1, CopyFacts DEF Bookings
<1>3. PICK p : Done(w, i, p) /\ p.mine = pull[w].mine /\ pull' = [pull EXCEPT ![w] = p]
  BY <1>1, <1>2, GoFits, ReportFits
<1>4. PullFits(w, p) /\ (StickInv => RoundFits(p))
  BY <1>1, <1>3, LeftAlone
<1> QED BY <1>1, <1>3, <1>4, DoneKeeps

LEMMA AttributeKeeps ==
  ASSUME Sound, NEW w \in Pullers, Attribute(w)
  PROVE  Sound' /\ Replays
<1>i. PICK i : i = pull[w].at
  OBVIOUS
<1>1. CalInv /\ CalRest /\ pull[w].step = "collided"
  BY DEF Attribute, Sound
<1>2. /\ i \in pull[w].todo /\ i \in Originals /\ pull[w].page[i].state = "live"
      /\ i \in Entries
  BY <1>1, <1>i, RoundFacts DEF PullFits
<1>3. \/ \E b \in Bookings : ReportConflict(w, i, b)
      \/ pull' = [pull EXCEPT ![w].todo = @ \ {i}, ![w].step = "on", ![w].at = NoEntry]
  BY <1>i DEF Attribute, Blockers
<1>4. \E p : Done(w, i, p) /\ p.mine = pull[w].mine /\ pull' = [pull EXCEPT ![w] = p]
  <2>1. CASE \E b \in Bookings : ReportConflict(w, i, b)
    BY <1>1, <1>2, <2>1, ReportFits
  <2>2. CASE pull' = [pull EXCEPT ![w].todo = @ \ {i}, ![w].step = "on", ![w].at = NoEntry]
    <3>p. PICK p : p = [pull[w] EXCEPT !.todo = @ \ {i}, !.step = "on", !.at = NoEntry]
      OBVIOUS
    <3>1. pull[w] \in PullRow /\ pull[w].todo \ {i} \in SUBSET Entries
      BY <1>1, RoundFacts
    <3>2. /\ p \in PullRow /\ p.step = "on" /\ p.page = pull[w].page /\ p.next = pull[w].next
          /\ p.todo = pull[w].todo \ {i} /\ p.mine = pull[w].mine
      BY <3>1, <3>p DEF PullRow
    <3>3. pull' = [pull EXCEPT ![w] = p]
      BY <2>2, <3>p
    <3> QED BY <1>1, <1>2, <3>2, <3>3 DEF Done
  <2> QED BY <1>3, <2>1, <2>2
<1>5. PICK p : Done(w, i, p) /\ p.mine = pull[w].mine /\ pull' = [pull EXCEPT ![w] = p]
  BY <1>4
<1>6. PullFits(w, p) /\ (StickInv => RoundFits(p))
  BY <1>1, <1>2, <1>5, LeftAlone
<1> QED BY <1>1, <1>5, <1>6, DoneKeeps

LEMMA DeletedKeeps ==
  ASSUME Sound, NEW w \in Pullers, NEW i \in Entries, Deleted(w, i)
  PROVE  Sound' /\ Replays
<1>1. CalInv /\ CalRest /\ Pending(w, i) /\ pull[w].page[i].state = "gone" /\ i # NoEntry
  BY CopyFacts DEF Deleted, Sound, Seen
<1>2. CASE (\A b \in Mirror(w, i) : View(w, b).state # "active") /\ Go(w, i)
  <2>1. ASSUME NEW x \in Natives, Original(x) = i PROVE View(w, x).state # "active"
    <3>1. x \in Bookings /\ RowFits(x, View(w, x))
      BY <1>1, RoundFacts DEF Bookings
    <3>2. View(w, x).state = "active" => View(w, x).ext = i
      BY <2>1, <3>1 DEF RowFits
    <3> QED BY <1>2, <3>1, <3>2 DEF Mirror
  <2>2. PICK p : Done(w, i, p) /\ p.mine = pull[w].mine /\ pull' = [pull EXCEPT ![w] = p]
    BY <1>1, <1>2, GoFits
  <2>3. PullFits(w, p) /\ (StickInv => RoundFits(p))
    BY <1>1, <2>1, <2>2, LeftAlone
  <2> QED BY <1>1, <2>2, <2>3, DoneKeeps
<1>3. CASE \E b \in Mirror(w, i) :
             /\ View(w, b).state = "active" /\ \A v \in Pullers \ {w} : ~Written(v, b)
             /\ Write(w, i, b, [View(w, b) EXCEPT !.state = "ended"])
  <2>b. PICK b \in Mirror(w, i) :
          /\ View(w, b).state = "active" /\ \A v \in Pullers \ {w} : ~Written(v, b)
          /\ Write(w, i, b, [View(w, b) EXCEPT !.state = "ended"])
    BY <1>3
  <2>row. PICK row : row = [View(w, b) EXCEPT !.state = "ended"]
    OBVIOUS
  <2>1. b \in Bookings /\ View(w, b).ext = i /\ RowFits(b, View(w, b)) /\ View(w, b) \in BookingRow
    BY <1>1, RoundFacts DEF Mirror, RowFits
  <2>2. row \in BookingRow /\ row.state = "ended" /\ row.ext = i
    BY <2>1, <2>row DEF BookingRow
  <2>3. RowFits(b, row)
    BY <2>1, <2>2, <2>b DEF RowFits
  <2>4. ASSUME b \in Own
        PROVE  booking[b].state = "active" /\ row = [booking[b] EXCEPT !.state = "ended"]
                 /\ i \notin Originals
    <3>1. PullFits(w, pull[w])
      BY <1>1, RoundFacts
    <3>2. ~Written(w, b)
      <4> SUFFICES ASSUME b \in DOMAIN pull[w].mine PROVE FALSE
        BY DEF Written
      <4>1. pull[w].mine[b] = [booking[b] EXCEPT !.state = "ended"] /\ booking[b] \in BookingRow
        BY <1>1, <2>1, <2>4, <3>1 DEF PullFits, CalInv, CalFits
      <4>2. View(w, b).state = "ended"
        BY <4>1 DEF View, Written, BookingRow
      <4> QED BY <2>b, <4>2
    <3>3. View(w, b) = booking[b]
      BY <3>2 DEF View
    <3>4. i \in CopiesOf(b)
      BY <1>1, <2>1, <2>4 DEF RowFits
    <3> QED BY <2>b, <2>row, <3>3, <3>4, CopyFacts DEF CopiesOf
  <2>5. b \in Natives => i = Original(b)
    BY <2>1, <2>b DEF RowFits
  <2>6. Write(w, i, b, row)
    BY <2>b, <2>row
  <2>7. PICK p : /\ Done(w, i, p) /\ pull' = [pull EXCEPT ![w] = p]
                 /\ p.mine = WithRow(pull[w].mine, b, row)
    BY <1>1, <2>1, <2>2, <2>6, WriteFits
  <2>8. PullFits(w, p) /\ (StickInv => RoundFits(p))
    BY <1>1, <2>1, <2>2, <2>3, <2>4, <2>5, <2>7, <2>b, WrittenDown
  <2> QED BY <1>1, <2>7, <2>8, DoneKeeps
<1> QED BY <1>2, <1>3 DEF Deleted

(* An event of the page that is live.                                           *)
LEMMA LiveFacts ==
  ASSUME CalInv, NEW w \in Pullers, NEW x \in Natives, Lives(w, x)
  PROVE  /\ x \in Bookings /\ Original(x) \in Entries /\ Original(x) \in Originals
         /\ Pending(w, Original(x)) /\ pull[w].page[Original(x)].state = "live"
         /\ SlotOf(w, x) \in Slots \cup {0}
         /\ View(w, x) \in BookingRow /\ RowFits(x, View(w, x))
<1>1. x \in Bookings /\ Original(x) \in Entries /\ Original(x) \in Originals
  BY CopyFacts DEF Bookings
<1>2. Pending(w, Original(x)) /\ pull[w].page[Original(x)].state = "live"
  BY DEF Lives, Seen
<1>3. Original(x) \in DOMAIN pull[w].page
  BY <1>2, RoundFacts DEF Pending, PullFits
<1>4. SlotOf(w, x) \in Slots \cup {0}
  <2>1. pull[w].page[Original(x)] \in EntryRow
    BY <1>3, RoundFacts
  <2> QED BY <2>1 DEF SlotOf, Seen, EntryRow
<1>5. RowFits(x, View(w, x))
  BY <1>1, RoundFacts
<1> QED BY <1>1, <1>2, <1>4, <1>5 DEF RowFits

(* The reservation of a live event is written.                                   *)
LEMMA MirrorWritten ==
  ASSUME Sound, NEW w \in Pullers, NEW x \in Natives, Lives(w, x), NoWait(w, x), CalRest,
         NEW row, row \in BookingRow, row.state # "none", row.ext = Original(x),
         Write(w, Original(x), x, row)
  PROVE  Sound' /\ Replays
<1>i. PICK i : i = Original(x)
  OBVIOUS
<1>1. /\ CalInv /\ x \in Bookings /\ i \in Entries /\ Pending(w, i) /\ pull[w].page[i].state = "live"
      /\ Write(w, i, x, row)
  BY <1>i, LiveFacts DEF Sound
<1>2. x \notin Own /\ RowFits(x, row)
  BY CalendarAssumption DEF RowFits
<1>3. \A v \in Pullers \ {w} : ~Written(v, x)
  BY DEF NoWait
<1>4. PICK p : /\ Done(w, i, p) /\ pull' = [pull EXCEPT ![w] = p]
               /\ p.mine = WithRow(pull[w].mine, x, row)
  BY <1>1, WriteFits
<1>5. PullFits(w, p) /\ (StickInv => RoundFits(p))
  BY <1>1, <1>2, <1>3, <1>4, <1>i, WrittenDown
<1> QED BY <1>4, <1>5, DoneKeeps

LEMMA MovedKeeps ==
  ASSUME Sound, NEW w \in Pullers, NEW x \in Natives, Moved(w, x)
  PROVE  Sound' /\ Replays
<1>row. PICK row : row = [View(w, x) EXCEPT !.slot = SlotOf(w, x)]
  OBVIOUS
<1>1. /\ CalInv /\ CalRest /\ Lives(w, x) /\ NoWait(w, x) /\ View(w, x).state # "none"
      /\ pull' = [pull EXCEPT ![w] = Off] \/ Write(w, Original(x), x, row)
  BY <1>row DEF Moved, Sound
<1>2. CASE pull' = [pull EXCEPT ![w] = Off]
  BY <1>1, <1>2, OffFits, DoneKeeps
<1>3. CASE Write(w, Original(x), x, row)
  <2>1. /\ View(w, x) \in BookingRow /\ View(w, x).ext = Original(x)
        /\ SlotOf(w, x) \in Slots \cup {0}
    BY <1>1, LiveFacts DEF RowFits
  <2>2. row \in BookingRow /\ row.state # "none" /\ row.ext = Original(x)
    BY <1>1, <1>row, <2>1 DEF BookingRow
  <2> QED BY <1>1, <1>3, <2>2, MirrorWritten
<1> QED BY <1>1, <1>2, <1>3

LEMMA ImportKeeps ==
  ASSUME Sound, NEW w \in Pullers, NEW x \in Natives, Import(w, x)
  PROVE  Sound' /\ Replays
<1>row. PICK row : row = [state |-> "active", slot |-> SlotOf(w, x), ext |-> Original(x)]
  OBVIOUS
<1>1. /\ CalInv /\ CalRest /\ Lives(w, x) /\ NoWait(w, x)
      /\ \/ Write(w, Original(x), x, row)
         \/ pull' = [pull EXCEPT ![w].step = "collided", ![w].at = Original(x)]
  BY <1>row DEF Import, Sound
<1>2. CASE Write(w, Original(x), x, row)
  <2>1. row \in BookingRow /\ row.state # "none" /\ row.ext = Original(x)
    BY <1>1, <1>row, LiveFacts DEF BookingRow
  <2> QED BY <1>1, <1>2, <2>1, MirrorWritten
<1>3. CASE pull' = [pull EXCEPT ![w].step = "collided", ![w].at = Original(x)]
  <2>p. PICK p : p = [pull[w] EXCEPT !.step = "collided", !.at = Original(x)]
    OBVIOUS
  <2>1. pull' = [pull EXCEPT ![w] = p]
    BY <1>3, <2>p
  <2>2. /\ Original(x) \in Entries /\ Original(x) \in Originals /\ pull[w].step = "on"
        /\ Original(x) \in pull[w].todo /\ pull[w].page[Original(x)].state = "live"
        /\ pull[w] \in PullRow /\ PullFits(w, pull[w])
    BY <1>1, LiveFacts, RoundFacts DEF Pending
  <2>3. /\ p \in PullRow /\ p.step = "collided" /\ p.at = Original(x) /\ p.page = pull[w].page
        /\ p.todo = pull[w].todo /\ p.mine = pull[w].mine /\ p.next = pull[w].next
    BY <2>2, <2>p DEF PullRow
  <2>4. PullFits(w, p)
    BY <2>2, <2>3 DEF PullFits
  <2>5. StickInv => RoundFits(p)
    BY <2>2, <2>3 DEF StickInv, RoundFits, Passed, ViewOf
  <2> QED BY <1>1, <2>1, <2>4, <2>5, DoneKeeps
<1> QED BY <1>1, <1>2, <1>3

(* What a round has written becomes everybody's, with the token up to which it knows. *)
LEMMA CommittedKeeps ==
  ASSUME Sound, NEW w \in Pullers, CommitPull(w)
  PROVE  Sound' /\ Replays
<1>0. /\ CalInv /\ pull[w].step = "on" /\ pull[w].todo = {}
      /\ booking' = [b \in Bookings |-> View(w, b)]
      /\ outbox' = [r \in Own |-> IF View(w, r).state = "ended" /\ booking[r].state = "active"
                                  THEN outbox[r] \cup {"cancelled"} ELSE outbox[r]]
      /\ deltaToken' = pull[w].next
      /\ pull' = [pull EXCEPT ![w] = Off]
      /\ UNCHANGED <<entry, delayed, push, faults>>
  BY DEF CommitPull, Sound
<1>1. /\ PullFits(w, pull[w]) /\ pull[w].next \in Nat /\ faults \in 0..MaxFaults
      /\ \A b \in Bookings : View(w, b) = ViewOf(pull[w], b) /\ RowFits(b, View(w, b))
      /\ outbox \in [Own -> SUBSET {"confirmed", "cancelled"}]
  BY <1>0, RoundFacts DEF CalInv, CalFits
<1>2. /\ \A b \in Bookings : booking'[b] = View(w, b)
      /\ \A b \in Bookings : ~Written(w, b) => booking'[b] = booking[b]
      /\ booking' \in [Bookings -> BookingRow] /\ \A b \in Bookings : RowFits(b, booking'[b])
  BY <1>0, <1>1 DEF View, RowFits
<1>3. ASSUME NEW r \in Own, Written(w, r)
      PROVE  /\ booking[r].state = "active" /\ booking'[r].state = "ended"
             /\ booking'[r].ext = booking[r].ext /\ outbox'[r] = outbox[r] \cup {"cancelled"}
  <2>1. /\ r \in Bookings /\ booking[r].state = "active" /\ booking[r] \in BookingRow
        /\ pull[w].mine[r] = [booking[r] EXCEPT !.state = "ended"]
    <3>1. r \in DOMAIN pull[w].mine
      BY <1>3 DEF Written
    <3>2. booking[r].state = "active" /\ pull[w].mine[r] = [booking[r] EXCEPT !.state = "ended"]
      BY <1>1, <3>1 DEF PullFits
    <3>3. r \in Bookings /\ booking[r] \in BookingRow
      BY <1>0 DEF Bookings, CalInv, CalFits
    <3> QED BY <3>2, <3>3
  <2>row. PICK row : row = [booking[r] EXCEPT !.state = "ended"]
    OBVIOUS
  <2>2. row.state = "ended" /\ row.ext = booking[r].ext
    BY <2>1, <2>row DEF BookingRow
  <2>3. View(w, r) = row /\ booking'[r] = row
    BY <1>2, <1>3, <2>1, <2>row DEF View
  <2> QED BY <1>0, <2>1, <2>2, <2>3
<1>4. ASSUME NEW r \in Own, ~Written(w, r) PROVE booking'[r] = booking[r] /\ outbox'[r] = outbox[r]
  <2>1. booking'[r] = booking[r] /\ View(w, r) = booking[r]
    BY <1>2, <1>4 DEF View, Bookings
  <2> QED BY <1>0, <2>1
<1>5. /\ outbox' \in [Own -> SUBSET {"confirmed", "cancelled"}]
      /\ \A r \in Own : outbox[r] \subseteq outbox'[r] /\ booking'[r].ext = booking[r].ext
  <2>1. \A r \in Own : outbox'[r] \in SUBSET {"confirmed", "cancelled"}
    BY <1>1, <1>3, <1>4
  <2> QED BY <1>0, <1>3, <1>4, <2>1
<1>6. CalFits'
  <2>1. ASSUME NEW r \in Own, booking'[r].state = "none" PROVE outbox'[r] = {}
    <3>1. CASE Written(w, r)
      BY <1>3, <2>1, <3>1
    <3>2. CASE ~Written(w, r)
      <4>1. booking[r].state = "none" => outbox[r] = {}
        BY <1>0 DEF CalInv, CalFits
      <4> QED BY <1>4, <2>1, <3>2, <4>1
    <3> QED BY <3>1, <3>2
  <2> QED BY <1>0, <1>1, <1>2, <1>5, <2>1 DEF CalInv, CalFits, RowFits
<1>7. push' \in [Pushers -> PushRow] /\ \A v \in Pushers : PushFits(v, push[v])'
  BY <1>0, <1>5, RestIsKept
<1>8. /\ pull' \in [Pullers -> PullRow] /\ pull'[w] = Off
      /\ \A v \in Pullers : v # w => pull'[v] = pull[v]
  BY <1>0, OffFits DEF CalInv, PullFits
<1>9. ASSUME NEW v \in Pullers PROVE PullFits(v, pull[v])'
  <2>1. CASE v = w
    BY <1>8, <2>1 DEF PullFits, Off
  <2>2. CASE v # w
    <3>1. PullFits(v, pull[v]) /\ pull'[v] = pull[v]
      BY <1>0, <1>8, <2>2 DEF CalInv
    <3>2. ASSUME NEW b \in DOMAIN pull[v].mine, b \in Own PROVE booking'[b] = booking[b]
      <4>1. ~Written(w, b)
        BY <2>2, <3>1 DEF PullFits
      <4> QED BY <1>4, <3>2, <4>1
    <3>3. \A u \in Pullers : \A b : Written(u, b)' => Written(u, b) \/ b \in DOMAIN Off.mine
      BY <1>8 DEF Written
    <3>4. DOMAIN Off.mine = {}
      BY DEF Off
    <3>5. \A b \in DOMAIN pull[v].mine, u \in Pullers : Written(u, b)' => u = v
      BY <3>1, <3>3, <3>4 DEF PullFits
    <3>6. \A b, row : RowFits(b, row)' <=> RowFits(b, row)
      BY DEF RowFits
    <3>7. PullFits(v, pull[v]) /\ pull'[v] = pull[v] =>
            (\A b \in DOMAIN pull[v].mine :
               b \in Own => /\ booking'[b].state = "active"
                            /\ pull[v].mine[b] = [booking'[b] EXCEPT !.state = "ended"])
      BY <3>2 DEF PullFits
    <3> QED BY <3>1, <3>5, <3>6, <3>7 DEF PullFits
  <2> QED BY <2>1, <2>2
<1>10. \A r \in Own : Numbered(r)'
  <2>1. \A r \in Own : Owed(r)' = Owed(r)
    BY <1>0, <1>5 DEF Owed, Creating, Working
  <2>2. faults' \in 0..MaxFaults /\ \A r \in Own : faults + Owed(r) <= faults' + Owed(r)'
    BY <1>0, <1>1, <2>1 DEF Owed
  <2> QED BY <1>0, <2>2, NumbersAreKept
<1>11. CalInv'
  BY <1>6, <1>7, <1>8, <1>9, <1>10 DEF CalInv
<1>12. ASSUME OnePuller, StickInv PROVE StickInv'
  <2>1. /\ deltaToken \in Nat /\ deltaToken <= pull[w].next /\ pull[w].next <= Clock
        /\ \A x \in Natives : Passed(pull[w], x)
    BY <1>0, <1>12 DEF StickInv, RoundFits, CalInv, CalFits
  <2>2. Clock' = Clock /\ deltaToken' <= Clock'
    BY <1>0, <2>1 DEF Clock
  <2>3. DeletionSticks'
    <3> SUFFICES ASSUME NEW x \in Natives, Gone(x)', entry'[Original(x)].rev <= deltaToken'
                 PROVE  booking'[x].state # "active"
      BY DEF DeletionSticks
    <3>1. /\ x \in Bookings /\ Original(x) \in Entries /\ entry[Original(x)].state = "gone"
          /\ entry[Original(x)].rev <= pull[w].next /\ entry[Original(x)].rev \in Nat
      BY <1>0, CopyFacts DEF Gone, Bookings, CalInv, CalFits, EntryRow
    <3>2. Passed(pull[w], x) /\ ~(entry[Original(x)].rev > pull[w].next)
      BY <1>1, <2>1, <3>1
    <3>3. CASE Original(x) \in DOMAIN pull[w].page
      <4>1. ViewOf(pull[w], x).state # "active"
        BY <1>0, <3>1, <3>2, <3>3 DEF Passed
      <4> QED BY <1>1, <1>2, <3>1, <4>1
    <3>4. CASE Original(x) \notin DOMAIN pull[w].page
      <4>1. entry[Original(x)].rev <= deltaToken /\ ~Written(w, x)
        BY <3>2, <3>4 DEF Passed, Written
      <4>2. booking[x].state # "active"
        BY <1>12, <3>1, <4>1 DEF StickInv, DeletionSticks, Gone
      <4> QED BY <1>2, <3>1, <4>1, <4>2
    <3> QED BY <3>3, <3>4
  <2>4. \A v \in Pullers : RoundFits(pull[v])'
    <3>1. \A v \in Pullers : pull'[v] = Off
      BY <1>8, <1>12 DEF OnePuller
    <3> QED BY <3>1 DEF RoundFits, Off
  <2> QED BY <2>2, <2>3, <2>4 DEF StickInv
<1>13. ASSUME GhostInv PROVE GhostInv'
  <2> SUFFICES ASSUME faults' = 0, NEW r \in Own PROVE GhostFits(r)'
    BY DEF GhostInv
  <2>1. GhostFits(r)
    BY <1>0, <1>13 DEF GhostInv
  <2>2. /\ \A c : Making(r, c)' = Making(r, c)
        /\ \A v, k : Working(v, k, r)' = Working(v, k, r)
    BY <1>0 DEF Making, Working
  <2>3. booking'[r].ext = booking[r].ext
    BY <1>5
  <2>4. CASE Written(w, r)
    <3>1. \A v \in Pushers : ~Working(v, "cancelled", r)
      <4>1. "cancelled" \notin outbox[r]
        BY <1>3, <2>1, <2>4 DEF GhostFits
      <4> QED BY <1>0, <4>1 DEF CalInv, PushFits, Working
    <3> QED BY <1>0, <1>3, <2>1, <2>2, <2>3, <2>4, <3>1 DEF GhostFits
  <2>5. CASE ~Written(w, r)
    <3>1. booking'[r] = booking[r] /\ outbox'[r] = outbox[r]
      BY <1>4, <2>5
    <3>2. Silent(r)' = Silent(r) /\ \A v \in Pushers : Cancels(r, push[v])' = Cancels(r, push[v])
      BY <1>0, <3>1 DEF Silent, Cancels
    <3> QED BY <1>0, <2>1, <2>2, <3>1, <3>2 DEF GhostFits
  <2> QED BY <2>4, <2>5
<1> QED BY <1>0, <1>11, <1>12, <1>13, KnownIsKept DEF Sound, OnePusher, OnePuller

-----------------------------------------------------------------------------
LEMMA CalStepKeeps ==
  ASSUME Sound, CalNext
  PROVE  Sound' /\ Replays
<1>1. CASE \E r \in Own, s \in Slots : Book(r, s) \/ Reschedule(r, s)
  BY <1>1, OwnRequestsKeep
<1>2. CASE \E r \in Own : CancelBooking(r)
  BY <1>2, OwnRequestsKeep
<1>3. CASE \/ \E x \in Natives, s \in Slots : CreateThere(x, s)
           \/ \E i \in Entries, s \in Slots : MoveThere(i, s)
           \/ \E i \in Entries : DeleteThere(i)
  BY <1>3, PeopleKeep
<1>4. CASE \E w \in Pushers, r \in Own : \E k \in outbox[r] : ReadBooking(w, k, r)
  BY <1>4, ReadKeeps
<1>5. CASE \E w \in Pushers : PushStep(w) \/ PushFails(w) \/ PushDies(w)
  BY <1>5, CreateKeeps, CancelKeeps, NothingKeeps, SaveKeeps, PublishedKeeps, FaultsKeep DEF PushStep
<1>6. CASE \E w \in Pullers : PullStep(w) \/ PullDies(w)
  BY <1>6, FetchKeeps, AttributeKeeps, CommittedKeeps, EchoKeeps, DeletedKeeps, MovedKeeps, ImportKeeps,
     RoundDiesKeeps DEF PullStep
<1> QED BY <1>1, <1>2, <1>3, <1>4, <1>5, <1>6 DEF CalNext

(* Nothing happens.                                                            *)
LEMMA CalStutterKeeps ==
  ASSUME Sound, UNCHANGED calVars
  PROVE  Sound'
<1>0. CalInv /\ UNCHANGED <<booking, entry, deltaToken, outbox, delayed, push, pull, faults>>
  BY DEF Sound, calVars
<1>1. CalFits'
  BY <1>0 DEF CalInv, CalFits, RowFits
<1>2. push' \in [Pushers -> PushRow] /\ \A w \in Pushers : PushFits(w, push[w])'
  BY <1>0, RestIsKept
<1>3. pull' \in [Pullers -> PullRow] /\ \A w \in Pullers : PullFits(w, pull[w])'
  BY <1>0, RoundsAreKept
<1>4. \A r \in Own : Numbered(r)'
  BY <1>0 DEF CalInv, Numbered, Owed, Creating, Working
<1>5. StickInv => StickInv'
  BY <1>0, SticksStill
<1>6. GhostInv => GhostInv'
  BY <1>0, GhostsStayAway
<1> QED BY <1>1, <1>2, <1>3, <1>4, <1>5, <1>6 DEF Sound, CalInv, OnePusher, OnePuller

LEMMA CalendarStaysSound == CalSpec => [](CalInv /\ (OnePusher => GhostInv) /\ (OnePuller => StickInv))
<1>1. CalInit => Sound
  BY CalStarts DEF Sound
<1>2. Sound /\ [CalNext]_calVars => Sound'
  BY CalStepKeeps, CalStutterKeeps
<1>3. CalSpec => []Sound
  BY <1>1, <1>2, PTL DEF CalSpec
<1> QED BY <1>3 DEF Sound

(* Delivering the confirmation of a reservation that knows its external event creates   *)
(* no other, whatever fails and however many tasks and processes there are.             *)
THEOREM NothingIsReplayed == CalSpec => ReplayCreatesNothing
<1>1. CalInit => Sound
  BY CalStarts DEF Sound
<1>2. Sound /\ [CalNext]_calVars => Sound'
  BY CalStepKeeps, CalStutterKeeps
<1>3. Sound /\ [CalNext]_calVars =>
        [\A r \in Own : booking[r].ext # NoEntry => Known(r)' = Known(r)]_calVars
  BY CalStepKeeps DEF Replays
<1> QED BY <1>1, <1>2, <1>3, PTL DEF CalSpec, ReplayCreatesNothing

(* With one relay task and one watchdog neither side keeps what the other has ended,      *)
(* and nothing is created twice.                                                       *)
THEOREM BothCalendarsAgree ==
  ASSUME OnePusher, OnePuller
  PROVE  CalSpec => CalendarsAgree
<1>1. CalInit => Sound
  BY CalStarts DEF Sound
<1>2. Sound /\ [CalNext]_calVars => Sound'
  BY CalStepKeeps, CalStutterKeeps
<1>3. Sound => EndsAgree
  <2> SUFFICES ASSUME Sound PROVE EndsAgree
    OBVIOUS
  <2>1. GhostInv /\ StickInv /\ faults \in Nat
    BY CalendarAssumption DEF Sound, CalInv, CalFits
  <2>2. GhostNeedsFault
    <3> SUFFICES ASSUME faults = 0, NEW r \in Own PROVE ~Ghost(r)
      BY <2>1 DEF GhostNeedsFault
    <3>1. GhostFits(r)
      BY <2>1 DEF GhostInv
    <3> QED BY <3>1 DEF GhostFits, Silent, Ghost, CopiesOf
  <2> QED BY <2>1, <2>2 DEF EndsAgree, StickInv
<1>4. CalSpec => []EndsAgree
  BY <1>1, <1>2, <1>3, PTL DEF CalSpec
<1> QED BY <1>4, NothingIsReplayed DEF CalendarsAgree
-----------------------------------------------------------------------------
(* All the parts of the run together *)

(* What the invariant of the calendar leaves out: conflicts, delayed events and the     *)
(* number of edits.                                                              *)
RestFits == conflicts \subseteq Bookings \X Entries /\ delayed \subseteq Own /\ edits \in 0..MaxEdits

(* A conflict is one that a round has noted, and a delayed event one of our own.        *)
LEMMA RestIsKeptToo == CalInv /\ RestFits /\ [CalNext]_calVars => RestFits'
<1> SUFFICES ASSUME CalInv, RestFits, [CalNext]_calVars PROVE RestFits'
  OBVIOUS
<1>1. ASSUME UNCHANGED <<conflicts, delayed, edits>> PROVE RestFits'
  BY <1>1 DEF RestFits
<1>2. ASSUME Edit, UNCHANGED <<conflicts, delayed>> PROVE RestFits'
  BY <1>2, CalendarAssumption DEF RestFits, Edit
<1>3. ASSUME NEW w \in Pushers, push[w].step # "idle" PROVE push[w].of \in Own
  BY <1>3 DEF CalInv, PushFits
<1>4. ASSUME NEW r \in Own, NEW s \in Slots, Book(r, s) \/ Reschedule(r, s) PROVE RestFits'
  BY <1>4, <1>1, <1>2 DEF Book, Reschedule
<1>5. ASSUME NEW r \in Own, CancelBooking(r) PROVE RestFits'
  BY <1>5, <1>1 DEF CancelBooking
<1>6. ASSUME \/ \E x \in Natives, s \in Slots : CreateThere(x, s)
             \/ \E i \in Entries, s \in Slots : MoveThere(i, s)
             \/ \E i \in Entries : DeleteThere(i)
      PROVE  RestFits'
  BY <1>6, <1>2 DEF CreateThere, MoveThere, DeleteThere
<1>7. ASSUME NEW w \in Pushers, NEW r \in Own, NEW k \in outbox[r], ReadBooking(w, k, r) PROVE RestFits'
  BY <1>7, <1>1 DEF ReadBooking
<1>8. ASSUME NEW w \in Pushers, PushStep(w) \/ PushFails(w) \/ PushDies(w) PROVE RestFits'
  <2>1. CASE CreateEvent(w) \/ CancelEvent(w) \/ NothingToDo(w) \/ SaveEventId(w) \/ PushDies(w)
    BY <2>1, <1>1 DEF CreateEvent, CancelEvent, NothingToDo, SaveEventId, PushDies
  <2>2. CASE Published(w)
    BY <2>2 DEF Published, RestFits
  <2>3. CASE PushFails(w)
    <3>1. push[w].of \in Own
      BY <2>3, <1>3 DEF PushFails
    <3> QED
      BY <2>3, <3>1 DEF PushFails, RestFits
  <2> QED
    BY <1>8, <2>1, <2>2, <2>3 DEF PushStep
<1>9. ASSUME NEW w \in Pullers, PullStep(w) \/ PullDies(w) PROVE RestFits'
  <2>1. CASE CommitPull(w)
    <3>1. pull[w].notes \subseteq Bookings \X Entries
      BY DEF CalInv, PullRow
    <3> QED
      BY <2>1, <3>1 DEF CommitPull, RestFits
  <2>2. CASE Fetch(w) \/ PullDies(w)
    BY <2>2, <1>1 DEF Fetch, PullDies
  <2>3. ASSUME CalRest PROVE RestFits'
    BY <2>3, <1>1 DEF CalRest
  <2>4. CASE Attribute(w) \/ \E i \in Entries : Echo(w, i) \/ Deleted(w, i)
    BY <2>4, <2>3 DEF Attribute, Echo, Deleted
  <2>5. CASE \E x \in Natives : Moved(w, x) \/ Import(w, x)
    BY <2>5, <2>3 DEF Moved, Import
  <2> QED
    BY <1>9, <2>1, <2>2, <2>4, <2>5 DEF PullStep
<1>10. CASE UNCHANGED calVars
  BY <1>10, <1>1 DEF calVars
<1> QED
  BY <1>4, <1>5, <1>6, <1>7, <1>8, <1>9, <1>10 DEF CalNext

(* The two say what every variable of the calendar holds.                            *)
LEMMA CalendarTyped == CalInv /\ RestFits => CalTypeOK
<1> SUFFICES ASSUME CalInv, RestFits PROVE CalTypeOK
  OBVIOUS
<1>1. booking \in [Bookings -> BookingRow] /\ entry \in [Entries -> EntryRow]
  BY DEF CalInv, CalFits
<1>2. deltaToken \in Nat /\ outbox \in [Own -> SUBSET {"confirmed", "cancelled"}] /\ faults \in 0..MaxFaults
  BY DEF CalInv, CalFits
<1>3. \A w \in Pushers : push[w].step \in {"idle", "read", "called", "saved"}
  BY DEF CalInv, PushRow
<1>4. ASSUME NEW w \in Pullers
      PROVE  /\ pull[w].step \in {"off", "on", "collided"}
             /\ pull[w].todo \subseteq DOMAIN pull[w].page
             /\ DOMAIN pull[w].mine \subseteq Bookings
  <2>1. pull[w] \in PullRow /\ PullFits(w, pull[w])
    BY DEF CalInv
  <2>2. pull[w].step \in {"off", "on", "collided"} /\ pull[w].mine \in Drafted
    BY <2>1 DEF PullRow
  <2>3. PICK D \in SUBSET Bookings : pull[w].mine \in [D -> BookingRow]
    BY <2>2 DEF Drafted
  <2> QED
    BY <2>1, <2>2, <2>3 DEF PullFits
<1> QED
  BY <1>1, <1>2, <1>3, <1>4 DEF CalTypeOK, RestFits, BookingRow, EntryRow

FederationInv == TokInv /\ DirInv /\ Sound /\ RestFits

(* A step of the run is a step of one part; every other part rests.                 *)
LEMMA FederationStep ==
  [Next]_<<part, tokVars, dirVars, calVars>> =>
    [TokNext]_tokVars /\ [DirNext]_dirVars /\ [CalNext]_calVars
  BY DEF Next, TokenPart, Directory, Calendar

(* Tokens, directories and calendars keep their types.                               *)
THEOREM FederationTyped == Spec => []TypesOK
<1>1. Init => FederationInv
  <2> SUFFICES ASSUME Init PROVE FederationInv
    OBVIOUS
  <2>1. TokInv /\ DirInv /\ CalInv /\ GhostInv /\ StickInv
    BY InitTokInv, InitDirInv, CalStarts DEF Init
  <2>2. RestFits
    BY CalendarAssumption DEF Init, CalInit, RestFits
  <2> QED
    BY <2>1, <2>2 DEF FederationInv, Sound
<1>2. FederationInv /\ [Next]_<<part, tokVars, dirVars, calVars>> => FederationInv'
  <2> SUFFICES ASSUME FederationInv, [Next]_<<part, tokVars, dirVars, calVars>> PROVE FederationInv'
    OBVIOUS
  <2>1. [TokNext]_tokVars /\ [DirNext]_dirVars /\ [CalNext]_calVars
    BY FederationStep
  <2>2. TokInv'
    BY <2>1, NextTokInv DEF FederationInv
  <2>3. DirInv'
    BY <2>1, SyncKeeps, OthersKeep, StutterKeeps DEF DirNext, Others, FederationInv
  <2>4. Sound'
    BY <2>1, CalStepKeeps, CalStutterKeeps DEF FederationInv
  <2>5. RestFits'
    BY <2>1, RestIsKeptToo DEF FederationInv, Sound
  <2> QED
    BY <2>2, <2>3, <2>4, <2>5 DEF FederationInv
<1>3. FederationInv => TypesOK
  BY CalendarTyped DEF FederationInv, TypesOK, TokInv, DirInv, Sound
<1> QED
  BY <1>1, <1>2, <1>3, PTL DEF Spec
=============================================================================
