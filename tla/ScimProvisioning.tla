---------------------------- MODULE ScimProvisioning ----------------------------
(***************************************************************************)
(* Accounts of a tenant: an identity provider provisions them over SCIM, and  *)
(* administrators create, edit and suspend them by hand (users.rs).           *)
(*                                                                         *)
(* A SCIM operation works only on accounts that are linked to its provider    *)
(* (a row of user_identities).  It looks first, without a lock, and writes by  *)
(* the id alone; an administrator writes in one statement.  A request, once     *)
(* authenticated, is served to its end (ProviderAdmin has the tokens).         *)
(***************************************************************************)
EXTENDS Naturals, FiniteSets, FiniteSetsExt, Functions

CONSTANTS
  UserNames,    \* user names
  Externals,    \* externalId's that the provider sends
  MaxAccounts,  \* bound: accounts ever created
  Clerks,       \* server tasks
  MaxCalls      \* bound: requests and lost connections

ASSUME ScimAssumption ==
  /\ MaxAccounts \in Nat /\ MaxCalls \in Nat
  /\ "" \notin Externals /\ "" \notin UserNames

VARIABLES
  account,  \* account[i]: the committed row of users with its link
  clerk,    \* clerk[t]: the open transaction of a task
  calls,
  wrote,    \* history: the last committed request that named a column
  byScim,   \* history: accounts that SCIM has written to
  left,     \* history: accounts whose deletion was answered
  undone    \* history: of these, the ones written again by a request that had looked
            \* before, or by an administrator

scimVars == <<account, clerk, calls, wrote, byScim, left, undone>>

Ids == 1..MaxAccounts
Columns == {"display_name", "job_title", "status"}
NoLink == [sent |-> "", own |-> 0]
NoAccount == [name |-> "", link |-> NoLink, status |-> "none", set |-> [c \in Columns |-> 0]]
NoCall ==
  [kind |-> "none", step |-> "idle", id |-> 0, name |-> "", external |-> "", status |-> "",
   names |-> {}, number |-> 0, saw |-> "", row |-> NoAccount]
Kinds == {"none", "scim_create", "scim_patch", "scim_delete", "create", "patch", "suspend"}

ScimTypeOK ==
  /\ \A i \in Ids :
       /\ account[i].status \in {"none", "INVITED", "ACTIVE", "SUSPENDED", "DEPROVISIONED"}
       /\ (account[i].status = "none") = (account[i].name = "")
  /\ \A t \in Clerks : clerk[t].kind \in Kinds /\ clerk[t].id \in Ids \cup {0}
  /\ calls \in 0..MaxCalls
  /\ byScim \subseteq Ids /\ undone \subseteq left /\ left \subseteq Ids

ScimInit ==
  /\ account = [i \in Ids |-> NoAccount]
  /\ clerk = [t \in Clerks |-> NoCall]
  /\ calls = 0
  /\ wrote = [i \in Ids |-> [c \in Columns |-> 0]]
  /\ byScim = {} /\ left = {} /\ undone = {}

-----------------------------------------------------------------------------
(* USER_SELECT: linked to this provider and not DEPROVISIONED.                 *)
InScope(row) == row.link # NoLink /\ row.status \notin {"none", "DEPROVISIONED"}
Exists(i) == account[i].status # "none"

GoOnWith(t, new) ==
  clerk' = [clerk EXCEPT ![t] = new] /\ UNCHANGED <<account, calls, wrote, byScim, left, undone>>
Refuse(t) == GoOnWith(t, NoCall)

Call(t, new) ==
  /\ clerk[t] = NoCall /\ calls < MaxCalls
  /\ calls' = calls + 1
  /\ clerk' = [clerk EXCEPT ![t] = [new EXCEPT !.number = calls + 1]]
  /\ UNCHANGED <<account, wrote, byScim, left, undone>>

(* Rows that other open transactions have written, unseen and locked.          *)
Locked(t, i) == \E u \in Clerks \ {t} : clerk[u].id = i /\ clerk[u].row # NoAccount
Pending(t) == {clerk[u].row : u \in {u \in Clerks \ {t} : clerk[u].row # NoAccount}}
Used == {i \in Ids : Exists(i) \/ \E t \in Clerks : clerk[t].id = i /\ clerk[t].row # NoAccount}

-----------------------------------------------------------------------------
(* POST /scim/v2/Users: the name must belong to no account, linked or not, not  *)
(* even to one that is DEPROVISIONED and cannot be found any more.             *)
PostUser(t, name, external, active) ==
  Call(t, [NoCall EXCEPT !.kind = "scim_create", !.step = "look", !.name = name,
                         !.external = external, !.status = IF active THEN "ACTIVE" ELSE "SUSPENDED"])
LookForName(t) ==
  LET c == clerk[t] IN
  /\ c.kind = "scim_create" /\ c.step = "look"
  /\ IF \E i \in Ids : account[i].name = c.name THEN Refuse(t)
     ELSE GoOnWith(t, [c EXCEPT !.step = "insert"])

(* POST /users: INVITED, and linked to nobody.                                *)
CreateUser(t, name) ==
  Call(t, [NoCall EXCEPT !.kind = "create", !.step = "insert", !.name = name,
                         !.status = "INVITED"])

(* uq_users_tenant_username: wait for whoever is inserting the name; 23505 if it  *)
(* is there by now.                                                          *)
InsertUser(t) ==
  LET c == clerk[t] IN
  /\ c.step = "insert" /\ \A r \in Pending(t) : r.name # c.name
  /\ IF \E i \in Ids : account[i].name = c.name THEN Refuse(t)
     ELSE /\ Used # Ids
          /\ GoOnWith(t, [c EXCEPT !.step = IF c.kind = "create" THEN "commit" ELSE "link",
               !.id = Min(Ids \ Used), !.names = Columns,
               !.row = [NoAccount EXCEPT !.name = c.name, !.status = c.status,
                                         !.set = [x \in Columns |-> c.number]]])

(* The link: the externalId, or the id of the account if none was sent; unique   *)
(* per provider.  A clash takes the account back too.                          *)
Subject(c) == IF c.external = "" THEN [NoLink EXCEPT !.own = c.id]
              ELSE [NoLink EXCEPT !.sent = c.external]
LinkUser(t) ==
  LET c == clerk[t] IN
  /\ c.step = "link" /\ \A r \in Pending(t) : r.link # Subject(c)
  /\ IF \E i \in Ids : account[i].link = Subject(c) THEN Refuse(t)
     ELSE GoOnWith(t, [c EXCEPT !.step = "commit", !.row.link = Subject(c)])

-----------------------------------------------------------------------------
(* PATCH and DELETE /scim/v2/Users: a look, then a write by the id.             *)
PatchUser(t, i, names, active) ==
  Call(t, [NoCall EXCEPT !.kind = "scim_patch", !.step = "scope", !.id = i, !.names = names,
                         !.status = IF "status" \notin names THEN ""
                                    ELSE IF active THEN "ACTIVE" ELSE "SUSPENDED"])
DeleteUser(t, i) ==
  Call(t, [NoCall EXCEPT !.kind = "scim_delete", !.step = "scope", !.id = i,
                         !.names = {"status"}, !.status = "DEPROVISIONED"])

CheckScope(t) ==
  LET c == clerk[t] IN
  /\ c.step = "scope"
  /\ IF ~InScope(account[c.id]) THEN Refuse(t)
     ELSE GoOnWith(t, [c EXCEPT !.step = "write", !.saw = account[c.id].status])

(* PATCH /users (without the status) and POST /users/{id}/suspend.              *)
EditUser(t, i, names) ==
  Call(t, [NoCall EXCEPT !.kind = "patch", !.step = "write", !.id = i, !.names = names])
SuspendUser(t, i, status) ==
  Call(t, [NoCall EXCEPT !.kind = "suspend", !.step = "write", !.id = i,
                         !.names = {"status"}, !.status = status])

(* Plausible bug: a status is written even if the row is not there.                *)
WriteUserAnyway(t) ==
  LET c == clerk[t]
      new == [account[c.id] EXCEPT !.status = IF c.status = "" THEN @ ELSE c.status] IN
  /\ c.step = "write" /\ ~Locked(t, c.id)
  /\ GoOnWith(t, [c EXCEPT !.step = "commit", !.row = new])

(* The UPDATE waits for the row and changes the columns of the request only; a    *)
(* PATCH over SCIM reads its answer back and fails if the account is gone.       *)
WriteUser(t) ==
  LET c == clerk[t]
      old == account[c.id]
      new == [old EXCEPT
                !.status = IF c.status = "" THEN @ ELSE c.status,
                !.set = [x \in Columns |-> IF x \in c.names THEN c.number ELSE @[x]]] IN
  /\ c.step = "write" /\ ~Locked(t, c.id)
  /\ IF ~Exists(c.id) \/ (c.kind = "scim_patch" /\ ~InScope(new)) THEN Refuse(t)
     ELSE GoOnWith(t, [c EXCEPT !.step = "commit", !.row = new])

CommitUser(t) ==
  LET c == clerk[t]
      scim == c.kind \in {"scim_create", "scim_patch", "scim_delete"} IN
  /\ c.step = "commit"
  /\ account' = [account EXCEPT ![c.id] = c.row]
  /\ wrote' = [wrote EXCEPT ![c.id] = [x \in Columns |-> IF x \in c.names THEN c.number ELSE @[x]]]
  /\ byScim' = IF scim THEN byScim \cup {c.id} ELSE byScim
  /\ left' = IF c.kind = "scim_delete" THEN left \cup {c.id} ELSE left
  /\ undone' = IF c.id \in left /\ (\/ c.kind = "suspend"
                                    \/ c.kind = "scim_patch" /\ c.saw # "DEPROVISIONED")
               THEN undone \cup {c.id} ELSE undone
  /\ clerk' = [clerk EXCEPT ![t] = NoCall]
  /\ UNCHANGED calls

LoseClerk(t) ==
  /\ clerk[t] # NoCall /\ calls < MaxCalls
  /\ calls' = calls + 1
  /\ clerk' = [clerk EXCEPT ![t] = NoCall]
  /\ UNCHANGED <<account, wrote, byScim, left, undone>>

ScimNext ==
  \E t \in Clerks :
    \/ \E name \in UserNames :
         \/ \E external \in Externals \cup {""}, active \in BOOLEAN :
              PostUser(t, name, external, active)
         \/ CreateUser(t, name)
    \/ \E i \in Ids :
         \/ \E names \in {{"status"}, {"job_title"}, {"status", "display_name"}}, active \in BOOLEAN :
              PatchUser(t, i, names, active)
         \/ DeleteUser(t, i)
         \/ \E names \in {{"job_title"}, {"display_name"}} : EditUser(t, i, names)
         \/ \E status \in {"SUSPENDED", "DEPROVISIONED"} : SuspendUser(t, i, status)
    \/ LookForName(t) \/ InsertUser(t) \/ LinkUser(t) \/ CheckScope(t) \/ WriteUser(t)
    \/ CommitUser(t) \/ LoseClerk(t)

ScimSpec == ScimInit /\ [][ScimNext]_scimVars

-----------------------------------------------------------------------------
(* SCIM never writes to an account that its provider did not provision.         *)
NoTakeover == \A i \in byScim : account[i].link # NoLink

(* One account per name, and one per subject of the provider.                  *)
OneEach ==
  \A i, j \in {k \in Ids : Exists(k)} :
    i # j => /\ account[i].name # account[j].name
             /\ account[i].link # NoLink => account[i].link # account[j].link

(* Every column holds what the last committed request that named it has sent:    *)
(* requests of both sides that name different columns lose nothing.            *)
ColumnsAreLast == \A i \in Ids : account[i].set = wrote[i]

(* A deleted account stays DEPROVISIONED, unless a PATCH had looked before the   *)
(* deletion or an administrator suspended it.                                *)
GoneUnlessRaced == \A i \in left \ undone : account[i].status = "DEPROVISIONED"

ProvisioningIsSound == NoTakeover /\ OneEach /\ ColumnsAreLast /\ GoneUnlessRaced

(* Violated: the deletion of an account is final for its provider.              *)
GoneForGood == \A i \in left : account[i].status = "DEPROVISIONED"

(* Violated: a provider whose POST of a name is refused can find the account.    *)
RefusedIsFound == [][\A t \in Clerks :
  clerk[t].kind = "scim_create" /\ clerk[t].step = "look" /\ clerk'[t] = NoCall /\ calls' = calls =>
    \A i \in Ids : account[i].name = clerk[t].name /\ account[i].link # NoLink
                     => InScope(account[i])]_scimVars
=============================================================================
