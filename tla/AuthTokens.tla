------------------------------ MODULE AuthTokens ------------------------------
(***************************************************************************)
(* fms-identity: refresh tokens and sign-on requests.  A refresh token is a  *)
(* signed string with an expiry that no table stores; revoked_refresh_tokens *)
(* holds the ones that may no longer be used.  Exchanging a token inserts    *)
(* its row and issues a successor, logging out inserts its row, and a daily  *)
(* purge deletes rows whose token has expired.  An INSERT ... ON CONFLICT DO *)
(* NOTHING waits for an uncommitted row of the same token.                   *)
(***************************************************************************)
EXTENDS Naturals, FiniteSets

CONSTANTS
  MaxTokens,  \* bound: refresh tokens that are ever issued
  MaxLogins,  \* bound: password logins, each starting a chain of tokens
  Ttl,        \* refresh_ttl
  Leeway,     \* how long after exp the JWT library still accepts a token
  Servers,    \* server tasks, one request at a time each
  States,     \* sign-on requests, named by their state parameter
  SsoTtl,     \* lifetime of a sign-on request
  TokMaxTime  \* bound: the clock stops here

Tokens == 1..MaxTokens

ASSUME TokAssumption ==
  /\ MaxTokens \in Nat /\ MaxLogins \in Nat /\ TokMaxTime \in Nat
  /\ Ttl \in Nat \ {0} /\ Leeway \in Nat /\ SsoTtl \in Nat \ {0}

VARIABLES
  clock,    \* clock_timestamp()
  enabled,  \* the user's status is ACTIVE
  token,    \* token[t]: iat and exp of a token, and the token it was issued for
  revoked,  \* committed rows of revoked_refresh_tokens: token -> reason
  ended,    \* history: the reason of the first row ever committed for a token
  req,      \* req[p]: the open request of server task p
  sso       \* sso[s]: a row of sso_auth_requests and how often it was consumed

tokVars == <<clock, enabled, token, revoked, ended, req, sso>>

-----------------------------------------------------------------------------
NoToken == [iat |-> 0, exp |-> 0, parent |-> 0]
Issued(t) == token[t].exp > 0
NoReq == [step |-> "idle", tok |-> 0]
Reasons == {"NONE", "ROTATED", "LOGOUT"}

TokTypeOK ==
  /\ clock \in 0..TokMaxTime
  /\ enabled \in BOOLEAN
  /\ token \in [Tokens -> [iat : Nat, exp : Nat, parent : {0} \cup Tokens]]
  /\ revoked \in [Tokens -> Reasons]
  /\ ended \in [Tokens -> Reasons]
  /\ req \in [Servers -> [step : {"idle", "verified", "checked", "inserted"},
                          tok : {0} \cup Tokens]]
  /\ sso \in [States -> [row : {"none", "open", "consumed", "purged"},
                         expires : Nat, uses : Nat]]

TokInit ==
  /\ clock = 0 /\ enabled = TRUE
  /\ token = [t \in Tokens |-> NoToken]
  /\ revoked = [t \in Tokens |-> "NONE"]
  /\ ended = [t \in Tokens |-> "NONE"]
  /\ req = [p \in Servers |-> NoReq]
  /\ sso = [s \in States |-> [row |-> "none", expires |-> 0, uses |-> 0]]

-----------------------------------------------------------------------------
(* jwt::issue                                                                 *)
Issue(t, parent) ==
  token' = [token EXCEPT ![t] = [iat |-> clock, exp |-> clock + Ttl, parent |-> parent]]

(* A jti that nobody has, numbered in the order of issue.                     *)
IsNew(t) == ~Issued(t) /\ \A u \in Tokens : u < t => Issued(u)

(* jwt::verify                                                                *)
Valid(t) == Issued(t) /\ clock <= token[t].exp + Leeway

(* The password grant, after the password was found right.                    *)
Login(t) ==
  /\ enabled /\ IsNew(t)
  /\ Cardinality({u \in Tokens : Issued(u) /\ token[u].parent = 0}) < MaxLogins
  /\ Issue(t, 0)
  /\ UNCHANGED <<clock, enabled, revoked, ended, req, sso>>

End(p) == req' = [req EXCEPT ![p] = NoReq]

Refresh(p, t) ==
  /\ req[p] = NoReq /\ Valid(t)
  /\ req' = [req EXCEPT ![p] = [step |-> "verified", tok |-> t]]
  /\ UNCHANGED <<clock, enabled, token, revoked, ended, sso>>

(* refresh_token_revocation and the status of the account                     *)
Check(p) ==
  /\ req[p].step = "verified"
  /\ IF revoked[req[p].tok] = "NONE" /\ enabled
     THEN req' = [req EXCEPT ![p].step = "checked"]
     ELSE End(p)
  /\ UNCHANGED <<clock, enabled, token, revoked, ended, sso>>

InFlight(t) == \E p \in Servers : req[p].step = "inserted" /\ req[p].tok = t

(* Plausible bug: the result of the INSERT is not looked at.                    *)
InsertRotatedAnyway(p) ==
  /\ req[p].step = "checked" /\ ~InFlight(req[p].tok)
  /\ req' = [req EXCEPT ![p].step = "inserted"]
  /\ UNCHANGED <<clock, enabled, token, revoked, ended, sso>>
(* revoke_refresh_token: no row, or an uncommitted one of our own.            *)
InsertRotated(p) ==
  /\ req[p].step = "checked" /\ ~InFlight(req[p].tok)
  /\ IF revoked[req[p].tok] = "NONE"
     THEN req' = [req EXCEPT ![p].step = "inserted"]
     ELSE End(p)
  /\ UNCHANGED <<clock, enabled, token, revoked, ended, sso>>

Record(t, reason) ==
  /\ revoked' = [revoked EXCEPT ![t] = reason]
  /\ ended' = [ended EXCEPT ![t] = IF @ = "NONE" THEN reason ELSE @]

(* issue_pair, then COMMIT: the answer holds the successor.                   *)
Exchange(p, n) ==
  /\ req[p].step = "inserted" /\ IsNew(n)
  /\ Issue(n, req[p].tok)
  /\ Record(req[p].tok, "ROTATED")
  /\ End(p)
  /\ UNCHANGED <<clock, enabled, sso>>

(* The task dies or the connection is lost: the row is rolled back.            *)
Abort(p) ==
  /\ req[p] # NoReq
  /\ End(p)
  /\ UNCHANGED <<clock, enabled, token, revoked, ended, sso>>

(* POST /auth/logout with the caller's own token: one statement that waits,    *)
(* and a second logout or one that lost to a rotation changes nothing.         *)
Logout(t) ==
  /\ Valid(t) /\ ~InFlight(t) /\ revoked[t] = "NONE"
  /\ Record(t, "LOGOUT")
  /\ UNCHANGED <<clock, enabled, token, req, sso>>

-----------------------------------------------------------------------------
(* Single sign-on                                                             *)

Authorize(s) ==
  /\ sso[s].row = "none"
  /\ sso' = [sso EXCEPT ![s] = [row |-> "open", expires |-> clock + SsoTtl, uses |-> 0]]
  /\ UNCHANGED <<clock, enabled, token, revoked, ended, req>>

(* fms.consume_sso_state; any other callback is refused.                       *)
Callback(s) ==
  /\ sso[s].row = "open" /\ sso[s].expires > clock
  /\ sso' = [sso EXCEPT ![s] = [row |-> "consumed", expires |-> sso[s].expires,
                                uses |-> sso[s].uses + 1]]
  /\ UNCHANGED <<clock, enabled, token, revoked, ended, req>>

-----------------------------------------------------------------------------
(* TokenPurger::run_once                                                      *)
Expired(t) == revoked[t] # "NONE" /\ token[t].exp < clock
Stale(s) == sso[s].row \in {"open", "consumed"} /\ sso[s].expires < clock

Purge ==
  /\ (\E t \in Tokens : Expired(t)) \/ (\E s \in States : Stale(s))
  /\ revoked' = [t \in Tokens |-> IF Expired(t) THEN "NONE" ELSE revoked[t]]
  /\ sso' = [s \in States |-> IF Stale(s) THEN [sso[s] EXCEPT !.row = "purged"] ELSE sso[s]]
  /\ UNCHANGED <<clock, enabled, token, ended, req>>

SwitchUser ==
  /\ enabled' = ~enabled
  /\ UNCHANGED <<clock, token, revoked, ended, req, sso>>

TokTick ==
  /\ clock < TokMaxTime
  /\ clock' = clock + 1
  /\ UNCHANGED <<enabled, token, revoked, ended, req, sso>>

TokNext ==
  \/ \E t \in Tokens : Login(t) \/ Logout(t)
  \/ \E p \in Servers, t \in Tokens : Refresh(p, t) \/ Exchange(p, t)
  \/ \E p \in Servers : Check(p) \/ InsertRotated(p) \/ Abort(p)
  \/ \E s \in States : Authorize(s) \/ Callback(s)
  \/ Purge \/ SwitchUser \/ TokTick

TokSpec == TokInit /\ [][TokNext]_tokVars

-----------------------------------------------------------------------------
(* A chain of tokens never forks and never outlives a logout: however many      *)
(* exchanges and logouts of one token race, crash or are repeated, and however  *)
(* the purge cuts in, a token that was exchanged has exactly one successor      *)
(* issued in its lifetime, and one that was logged out or is unused has none.   *)
InLifetime(n, t) == Issued(n) /\ token[n].parent = t /\ token[n].iat <= token[t].exp
ChainIsLinear ==
  \A t \in Tokens :
    /\ \A m, n \in Tokens : InLifetime(m, t) /\ InLifetime(n, t) => m = n
    /\ (\E n \in Tokens : InLifetime(n, t)) => ended[t] = "ROTATED"

(* Whoever was logged out or exchanged stays so while the token could be used.  *)
RevocationOutlivesToken ==
  \A t \in Tokens : ended[t] # "NONE" /\ clock <= token[t].exp => revoked[t] = ended[t]

(* What ended a token stands, and a token has the one successor it is due.      *)
RevocationHolds == ChainIsLinear /\ RevocationOutlivesToken

(* Violated: nothing that was revoked comes back when the purge has deleted its   *)
(* row, which it does before the leeway of the signature check is over.          *)
RevokedNeverReturns ==
  \A m, n \in Tokens : Issued(m) /\ Issued(n) /\ token[m].parent = token[n].parent
    /\ token[m].parent # 0 => m = n
=============================================================================
