------------------------------ MODULE ProviderAdmin ------------------------------
(***************************************************************************)
(* An identity provider of a tenant as its administrators see it: creation,  *)
(* PATCH under the lock of the row, rotation of the SCIM token, the           *)
(* authentication of SCIM requests by that token, and the connection test.    *)
(*                                                                         *)
(* A PATCH writes all four connection fields, those of the request and the    *)
(* others as it has read them; the other columns only when they are named.  A   *)
(* blank text is stored by the POST and clears the field in a PATCH.           *)
(***************************************************************************)
EXTENDS Naturals, FiniteSets

CONSTANTS
  Types,     \* provider types of this run
  Patches,   \* bound: what requests name, a function from fields to the word for what is
             \* sent; a PATCH may name the columns of Switches too, and "rotate"
  Admins,    \* server tasks
  MaxOrders  \* bound: requests and lost connections

Fields == {"issuer", "client_id", "ldap_host", "ldap_base_dn"}
Words == {"text", "blank", "null"}
Switches == [scim |-> {"on", "off"}, status |-> {"ACTIVE", "DISABLED"}]
ASSUME AdminAssumption ==
  /\ Types \subseteq {"OIDC", "LDAP", "SAML2", "LOCAL"} /\ MaxOrders \in Nat \ {0}
  /\ \A p \in Patches :
       /\ DOMAIN p \subseteq Fields \cup {"scim", "status", "rotate"}
       /\ \A f \in DOMAIN p \cap Fields : p[f] \in Words
       /\ \A f \in DOMAIN p \cap {"scim", "status"} : p[f] \in Switches[f]

VARIABLES
  provider,  \* the committed row, or NoProvider
  live,      \* committed tokens that are not revoked
  admin,     \* admin[t]: the open request of a task
  ordered,    \* requests sent; also the stamp of what they write, and the name of a token
  named,     \* history: the last committed request that named a field
  held,      \* history: the token of the last committed rotation, 0 for none
  told,      \* the verdict of the last connection test
  slipped    \* history: a token was let in that was not the last one handed out

adminVars == <<provider, live, admin, ordered, named, held, told, slipped>>

(* What a column holds: NULL, or a text or a blank with the stamp of its request.  *)
Null == [by |-> 0, as |-> "null"]
NoValues == [f \in Fields |-> Null]
NoProvider == [type |-> "none", scim |-> "off", status |-> "ACTIVE", values |-> NoValues]
NoOrder ==
  [kind |-> "none", step |-> "idle", number |-> 0, asks |-> <<>>, type |-> "", row |-> NoProvider,
   token |-> 0, revoked |-> {}, made |-> 0]
On(p) == p.type # "none" /\ p.scim = "on" /\ p.status = "ACTIVE"

AdminTypeOK ==
  /\ provider.type \in Types \cup {"none"}
  /\ provider.scim \in Switches.scim /\ provider.status \in Switches.status
  /\ provider.values \in [Fields -> [by : 0..MaxOrders, as : Words]]
  /\ live \subseteq 1..MaxOrders /\ held \in 0..MaxOrders /\ ordered \in 0..MaxOrders
  /\ told \in {"none", "PASSED", "FAILED", "NOT_TESTABLE"}
  /\ slipped \in BOOLEAN

(* What a type cannot be without: checked by the handlers, ck_idp_oidc_fields     *)
(* and ck_idp_ldap_fields behind them.  A blank is not missing for any of these.  *)
Required(type) ==
  CASE type = "OIDC" -> {"issuer", "client_id"}
    [] type = "LDAP" -> {"ldap_host", "ldap_base_dn"}
    [] OTHER -> {}

(* No provider yet, or one that request 1 has completed, with a token.           *)
AdminInit ==
  /\ \/ provider = NoProvider /\ live = {} /\ held = 0
     \/ \E type \in Types :
          /\ provider = [type |-> type, scim |-> "on", status |-> "ACTIVE",
                         values |-> [f \in Fields |->
                                       IF f \in Required(type) THEN [by |-> 1, as |-> "text"] ELSE Null]]
          /\ live = {1} /\ held = 1
  /\ named = provider.values
  /\ admin = [t \in Admins |-> NoOrder]
  /\ ordered = 1
  /\ told = "none" /\ slipped = FALSE

-----------------------------------------------------------------------------
Proceed(t, new) ==
  admin' = [admin EXCEPT ![t] = new] /\ UNCHANGED <<provider, live, ordered, named, held, told, slipped>>
Deny(t) == Proceed(t, NoOrder)
Order(t, new) ==
  /\ admin[t] = NoOrder /\ ordered < MaxOrders
  /\ ordered' = ordered + 1
  /\ admin' = [admin EXCEPT ![t] = [new EXCEPT !.number = ordered + 1]]
  /\ UNCHANGED <<provider, live, named, held, told, slipped>>

Complete(p) == \A f \in Required(p.type) : p.values[f].as # "null"

Given(asks, f) == f \in DOMAIN asks
(* The POST stores what it is sent; the PATCH trims it and takes a blank for null. *)
Stored(a, f) ==
  IF a.asks[f] = "text" \/ (a.asks[f] = "blank" /\ a.kind = "create")
  THEN [by |-> a.number, as |-> a.asks[f]] ELSE Null
Entered(a, old) == [f \in Fields |-> IF Given(a.asks, f) THEN Stored(a, f) ELSE old[f]]
Turned(asks, f, was) == IF Given(asks, f) THEN asks[f] ELSE was
Merged(old, a) ==
  [old EXCEPT !.values = Entered(a, @),
              !.scim = Turned(a.asks, "scim", @),
              !.status = Turned(a.asks, "status", @)]

(* POST, without SCIM and token: the code is unique, so that a second insert     *)
(* waits for the first.                                                      *)
CreateProvider(t, type, asks) ==
  /\ Order(t, [NoOrder EXCEPT !.kind = "create", !.step = "insert", !.type = type, !.asks = asks])
InsertProvider(t) ==
  LET a == admin[t]
      new == Merged([NoProvider EXCEPT !.type = a.type], a) IN
  /\ a.kind = "create" /\ a.step = "insert"
  /\ \A u \in Admins \ {t} : admin[u].kind = "create" => admin[u].step # "commit"
  /\ IF ~Complete(new) \/ provider.type # "none" THEN Deny(t)
     ELSE Proceed(t, [a EXCEPT !.step = "commit", !.row = new])

-----------------------------------------------------------------------------
PatchProvider(t, asks) ==
  Order(t, [NoOrder EXCEPT !.kind = "patch", !.step = "lock", !.asks = asks])

RowIsFree(t) ==
  \A u \in Admins \ {t} : ~(admin[u].kind = "patch" /\ admin[u].step \in {"write", "rotate", "commit"})

(* Plausible bug: the row is read without FOR UPDATE.                          *)
ReadProvider(t) ==
  LET a == admin[t]
      new == Merged(provider, a) IN
  /\ a.kind = "patch" /\ a.step = "lock"
  /\ IF provider.type = "none" \/ ~Complete(new) THEN Deny(t)
     ELSE Proceed(t, [a EXCEPT !.step = "write", !.row = new])

(* FOR UPDATE, the merge and the check of what the type requires.               *)
LockProvider(t) ==
  LET a == admin[t]
      new == Merged(provider, a) IN
  /\ a.kind = "patch" /\ a.step = "lock" /\ RowIsFree(t)
  /\ IF provider.type = "none" \/ ~Complete(new) THEN Deny(t)
     ELSE Proceed(t, [a EXCEPT !.step = "write", !.row = new])

UpdateProvider(t) ==
  LET a == admin[t] IN
  /\ a.kind = "patch" /\ a.step = "write"
  /\ Proceed(t, [a EXCEPT !.step = IF Given(a.asks, "rotate") THEN "rotate" ELSE "commit"])

(* issue_token: revoke what is live, then insert the new one; uq_scim_tokens_active *)
(* allows one.  A token being used is locked for the moment of its statement.    *)
IssueToken(t) ==
  LET a == admin[t] IN
  /\ a.step = "rotate"
  /\ Proceed(t, [a EXCEPT !.step = "commit", !.revoked = live, !.made = a.number])

CommitAdmin(t) ==
  LET a == admin[t] IN
  /\ a.kind \in {"create", "patch"} /\ a.step = "commit"
  /\ provider' = a.row
  /\ live' = (live \ a.revoked) \cup (IF a.made = 0 THEN {} ELSE {a.made})
  /\ held' = IF a.made = 0 THEN held ELSE a.made
  /\ named' = Entered(a, named)
  /\ admin' = [admin EXCEPT ![t] = NoOrder]
  /\ UNCHANGED <<ordered, told, slipped>>

-----------------------------------------------------------------------------
(* fms.authenticate_scim_token: one UPDATE with all conditions.  Its snapshot is    *)
(* taken first and is all that is asked about the provider; a rotation that holds  *)
(* the token's row is waited for, and revoked_at is tested again on what it left.  *)
Present(t, token) ==
  Order(t, [NoOrder EXCEPT !.kind = "scim", !.step = "find", !.token = token])
FindToken(t) ==
  LET a == admin[t] IN
  /\ a.kind = "scim" /\ a.step = "find"
  /\ IF a.token \in live /\ On(provider) THEN Proceed(t, [a EXCEPT !.step = "touch"]) ELSE Deny(t)
(* Plausible bug: what the snapshot has shown is good enough.                   *)
LiveAsFound(t) == TRUE
StillLive(t) == admin[t].token \in live
(* The request is let in if the token is still live, and else refused.             *)
LetIn(t) ==
  LET a == admin[t] IN
  /\ a.kind = "scim" /\ a.step = "touch" /\ \A u \in Admins : a.token \notin admin[u].revoked
  /\ slipped' = (slipped \/ (StillLive(t) /\ a.token # held))
  /\ admin' = [admin EXCEPT ![t] = NoOrder]
  /\ UNCHANGED <<provider, live, ordered, named, held, told>>

-----------------------------------------------------------------------------
(* POST test-connection: one read, committed before the network is used.  What    *)
(* the test meets: whether the reference to the secret resolves, if there is one, *)
(* whether LDAP has a bind DN, whether a discovery_url spares OIDC the issuer, and  *)
(* what becomes of the request to the target.                                *)
Meets ==
  [secret : {"unset", "blank", "good", "bad"}, bind : BOOLEAN, direct : BOOLEAN,
   target : {"forbidden", "dead", "junk", "no_endpoints", "no_issuer", "other_issuer", "fine"}]

TestProvider(t) == Order(t, [NoOrder EXCEPT !.kind = "test", !.step = "read"])
ReadForTest(t) ==
  LET a == admin[t] IN
  /\ a.kind = "test" /\ a.step = "read"
  /\ IF provider.type = "none" THEN Deny(t)
     ELSE Proceed(t, [a EXCEPT !.step = "probe", !.row = provider])

Good(name) == [name |-> name, good |-> TRUE]
Bad(name) == [name |-> name, good |-> FALSE]

UsesSecret(row, m) ==
  /\ m.secret \in {"good", "bad"}
  /\ row.type \in {"OIDC", "SAML2"} \/ (row.type = "LDAP" /\ m.bind)
SecretChecks(row, m) ==
  IF ~UsesSecret(row, m) THEN {} ELSE {[name |-> "secret", good |-> m.secret = "good"]}

HasText(row, f) == row.values[f].as = "text"
(* Two checks of a document: what it lists, and whose it is.  A document without     *)
(* an issuer is told once.                                                  *)
InspectDiscovery(row, m) ==
  IF m.target = "junk" THEN {Bad("json")}
  ELSE {IF m.target \in {"no_issuer", "no_endpoints"} THEN Bad("endpoints") ELSE Good("endpoints")}
       \cup (IF ~HasText(row, "issuer") \/ m.target = "other_issuer" THEN {Bad("issuer")}
             ELSE IF m.target = "no_issuer" THEN {} ELSE {Good("issuer")})

(* Each early return adds to the checks that have been made before.             *)
TargetOf(type) == IF type = "OIDC" THEN "issuer" ELSE "ldap_host"
HasTarget(row, m) == HasText(row, TargetOf(row.type)) \/ (row.type = "OIDC" /\ m.direct)
TargetChecks(row, m) ==
  IF row.type \notin {"OIDC", "LDAP"} THEN {}
  ELSE IF ~HasTarget(row, m) THEN {Bad("configured")}
  ELSE IF m.target = "forbidden" THEN {Bad("permitted")}
  ELSE (IF m.target = "dead" THEN {Bad("reachable")}
        ELSE {Good("reachable")} \cup (IF row.type = "OIDC" THEN InspectDiscovery(row, m) ELSE {}))
       \cup (IF row.type = "LDAP" /\ m.bind /\ m.secret = "unset" THEN {Bad("bind")} ELSE {})

Checks(row, m) == SecretChecks(row, m) \cup TargetChecks(row, m)
Verdict(checks) ==
  IF checks = {} THEN "NOT_TESTABLE"
  ELSE IF \E c \in checks : ~c.good THEN "FAILED" ELSE "PASSED"

Probe(t, m) ==
  /\ admin[t].kind = "test" /\ admin[t].step = "probe"
  /\ told' = Verdict(Checks(admin[t].row, m))
  /\ admin' = [admin EXCEPT ![t] = NoOrder]
  /\ UNCHANGED <<provider, live, ordered, named, held, slipped>>

LoseAdmin(t) ==
  /\ admin[t] # NoOrder /\ ordered < MaxOrders
  /\ ordered' = ordered + 1
  /\ admin' = [admin EXCEPT ![t] = NoOrder]
  /\ UNCHANGED <<provider, live, named, held, told, slipped>>

AdminNext ==
  \E t \in Admins :
    \/ \E type \in Types, asks \in {p \in Patches : DOMAIN p \subseteq Fields} :
         CreateProvider(t, type, asks)
    \/ \E asks \in Patches : PatchProvider(t, asks)
    \/ \E token \in 1..ordered : Present(t, token)
    \/ TestProvider(t) \/ ReadForTest(t) \/ \E m \in Meets : Probe(t, m)
    \/ InsertProvider(t) \/ LockProvider(t) \/ UpdateProvider(t) \/ IssueToken(t)
    \/ CommitAdmin(t) \/ FindToken(t) \/ LetIn(t) \/ LoseAdmin(t)

AdminSpec == AdminInit /\ [][AdminNext]_adminVars

-----------------------------------------------------------------------------
(* Each connection field holds what the last committed request that named it     *)
(* has sent, although every PATCH writes all of them; and what the type requires  *)
(* is there after any sequence of them.                                      *)
FieldsAreLast == provider.values = named /\ Complete(provider)

(* One token at most is live: the one that was handed out last.  A token is not   *)
(* let in once its revocation is committed.                                   *)
OneLiveToken == live = (IF held = 0 THEN {} ELSE {held}) /\ ~slipped

(* Whatever a test meets: if it passes nothing was bad, the issuer was a text and  *)
(* the document its own; if it could not test there was nothing to test; it does   *)
(* not hide a secret that does not resolve behind another failure; and it wants a   *)
(* target only of a provider that was created with a blank one, of which no PATCH   *)
(* has made a text or NULL since.                                           *)
TestsAreHonest ==
  \A t \in {t \in Admins : admin[t].step = "probe"}, m \in Meets :
    LET row == admin[t].row
        checks == Checks(row, m)
        verdict == Verdict(checks) IN
    /\ verdict = "PASSED" =>
         /\ row.type # "LOCAL"
         /\ row.type = "OIDC" => m.target = "fine" /\ row.values["issuer"].as = "text"
         /\ row.type = "LDAP" => m.target \notin {"forbidden", "dead"}
         /\ ~(UsesSecret(row, m) /\ m.secret = "bad")
    /\ UsesSecret(row, m) /\ m.secret = "bad" => Bad("secret") \in checks
    /\ verdict = "NOT_TESTABLE" => row.type \in {"SAML2", "LOCAL"}
    /\ Bad("configured") \in checks => row.values[TargetOf(row.type)].as = "blank"

AdminIsSound == FieldsAreLast /\ OneLiveToken /\ TestsAreHonest

(* Violated: a provider that has all its type requires can be tested (a POST stores  *)
(* blanks).                                                                 *)
CompleteHasTarget ==
  \A t \in {t \in Admins : admin[t].step = "probe"}, m \in Meets :
    Bad("configured") \notin Checks(admin[t].row, m)

(* Violated: a token that is handed out can be used.                            *)
HandedOutWorks == [][held' # held => On(provider')]_adminVars
=============================================================================
