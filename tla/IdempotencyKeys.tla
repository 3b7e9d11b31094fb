--------------------------- MODULE IdempotencyKeys ---------------------------
(***************************************************************************)
(* Idempotency-Key (fms_shared::concurrency::begin / complete) as the      *)
(* creating POST handlers use it: the key is registered, the caller        *)
(* authorised, the business write made and the response stored in one      *)
(* transaction.  A client that gets no answer, or IDEMPOTENCY_IN_PROGRESS, *)
(* sends the same request again.                                           *)
(*                                                                         *)
(* Transactions are READ COMMITTED: begin's SELECT sees committed rows, its*)
(* INSERT waits for an uncommitted row with the same primary key.          *)
(***************************************************************************)
EXTENDS Naturals

CONSTANTS
  Requests,    \* requests of clients, each sent until it is answered
  Users,       \* the users that send them
  Keys,        \* Idempotency-Key strings
  Bodies,      \* request bodies
  UserOf,      \* UserOf[r]: the authenticated user of r
  KeyOf,       \* KeyOf[r]: the key string of r
  BodyOf,      \* BodyOf[r]: the body of r
  NoRequest,   \* nobody: the writer of a row without a pending insert
  MaxCrashes,  \* bound: transactions lost to a crash
  MaxLost,     \* bound: responses that do not reach the client
  MaxChanges,  \* bound: role assignments granted or revoked
  MaxExpiries  \* bound: keys that pass expires_at

ASSUME IdempotencyAssumption ==
  /\ UserOf \in [Requests -> Users]
  /\ KeyOf \in [Requests -> Keys]
  /\ BodyOf \in [Requests -> Bodies]
  /\ NoRequest \notin Requests
  /\ MaxCrashes \in Nat /\ MaxLost \in Nat
  /\ MaxChanges \in Nat /\ MaxExpiries \in Nat

VARIABLES
  pc,       \* pc[r]: where request r stands
  reply,    \* reply[r]: the definite answer to r, or "none"
  source,   \* source[r]: the request whose stored response r received
  row,      \* row[p]: the request whose response row p stores, or NoRequest
  expired,  \* expired[p]: expires_at of row p has passed
  writer,   \* writer[p]: the request with an uncommitted row p
  writes,   \* writes[r]: committed business writes of r
  allowed,  \* allowed[u]: u holds the permission that the endpoint needs
  checked,  \* checked[r]: the permission check of the last try of r passed
  crashes, lost, changes, expiries

keysVars == <<pc, reply, source, row, expired, writer, writes, allowed, checked,
          crashes, lost, changes, expiries>>
bounds == <<crashes, lost, changes, expiries>>

(* Mutant: the primary key before migration 025.                           *)
PrimaryKeyWithoutUser(r) == KeyOf[r]

(* PRIMARY KEY (tenant_id, user_id, idempotency_key, endpoint) within one  *)
(* tenant and one endpoint.                                                *)
PrimaryKey(r) == <<UserOf[r], KeyOf[r]>>
Rows == {PrimaryKey(r) : r \in Requests}

Answers == {"created", "replayed", "key_reused", "denied", "failed"}
Open == {"registered", "authorized"}

KeysTypeOK ==
  /\ pc \in [Requests -> {"idle", "begin", "insert", "replay", "done"} \cup Open]
  /\ reply \in [Requests -> Answers \cup {"none"}]
  /\ source \in [Requests -> Requests \cup {NoRequest}]
  /\ row \in [Rows -> Requests \cup {NoRequest}]
  /\ expired \in [Rows -> BOOLEAN]
  /\ writer \in [Rows -> Requests \cup {NoRequest}]
  /\ writes \in [Requests -> 0..1]
  /\ allowed \in [Users -> BOOLEAN]
  /\ checked \in [Requests -> BOOLEAN]
  /\ crashes \in Nat /\ lost \in Nat /\ changes \in Nat /\ expiries \in Nat

KeysInit ==
  /\ pc = [r \in Requests |-> "idle"]
  /\ reply = [r \in Requests |-> "none"]
  /\ source = [r \in Requests |-> NoRequest]
  /\ row = [p \in Rows |-> NoRequest]
  /\ expired = [p \in Rows |-> FALSE]
  /\ writer = [p \in Rows |-> NoRequest]
  /\ writes = [r \in Requests |-> 0]
  /\ allowed = [u \in Users |-> TRUE]
  /\ checked = [r \in Requests |-> FALSE]
  /\ crashes = 0 /\ lost = 0 /\ changes = 0 /\ expiries = 0

-----------------------------------------------------------------------------
Goto(r, label) == pc' = [pc EXCEPT ![r] = label]

Answer(r, answer) ==
  /\ Goto(r, "done")
  /\ reply' = [reply EXCEPT ![r] = answer]

(* The end of a transaction of r that is not committed, or of its commit.  *)
ReleaseRow(r) ==
  writer' = [writer EXCEPT ![PrimaryKey(r)] = IF @ = r THEN NoRequest ELSE @]

Post(r) ==
  /\ pc[r] = "idle"
  /\ Goto(r, "begin")
  /\ UNCHANGED <<reply, source, row, expired, writer, writes, allowed, checked, bounds>>

(* Mutant: request_hash is not compared.                                   *)
SameBodyAnyway(r, p) == TRUE

(* request_hash = SHA-256 of the body.                                     *)
SameBody(r, p) == BodyOf[row[p]] = BodyOf[r]

(* begin: the SELECT on committed, unexpired rows.                         *)
Begin(r) ==
  /\ pc[r] = "begin"
  /\ LET p == PrimaryKey(r) IN
       IF row[p] = NoRequest \/ expired[p]
       THEN Goto(r, "insert") /\ UNCHANGED reply
       ELSE IF SameBody(r, p)
       THEN Goto(r, "replay") /\ UNCHANGED reply
       ELSE Answer(r, "key_reused")
  /\ checked' = [checked EXCEPT ![r] = FALSE]
  /\ UNCHANGED <<source, row, expired, writer, writes, allowed, bounds>>

(* Mutant: INSERT ... ON CONFLICT DO UPDATE instead of an error.           *)
InsertOverwriting(r) ==
  /\ pc[r] = "insert"
  /\ writer[PrimaryKey(r)] = NoRequest
  /\ Goto(r, "registered")
  /\ writer' = [writer EXCEPT ![PrimaryKey(r)] = r]
  /\ UNCHANGED <<reply, source, row, expired, writes, allowed, checked, bounds>>

(* begin: the INSERT.  It waits for an uncommitted row; a committed one,   *)
(* expired or not, is error 23505, answered as IDEMPOTENCY_IN_PROGRESS:    *)
(* the client retries with the same key.                                   *)
Insert(r) ==
  /\ pc[r] = "insert"
  /\ writer[PrimaryKey(r)] = NoRequest
  /\ IF row[PrimaryKey(r)] = NoRequest
     THEN /\ Goto(r, "registered")
          /\ writer' = [writer EXCEPT ![PrimaryKey(r)] = r]
     ELSE Goto(r, "begin") /\ UNCHANGED writer
  /\ UNCHANGED <<reply, source, row, expired, writes, allowed, checked, bounds>>

(* require_permission of a first execution; a refusal rolls back.          *)
Authorize(r) ==
  /\ pc[r] = "registered"
  /\ IF allowed[UserOf[r]]
     THEN Goto(r, "authorized") /\ UNCHANGED <<reply, writer>>
     ELSE Answer(r, "denied") /\ ReleaseRow(r)
  /\ checked' = [checked EXCEPT ![r] = allowed[UserOf[r]]]
  /\ UNCHANGED <<source, row, expired, writes, allowed, bounds>>

(* Mutant: the stored response is returned before the permission check.    *)
ReplayUnchecked(r) ==
  /\ pc[r] = "replay"
  /\ Answer(r, "replayed")
  /\ source' = [source EXCEPT ![r] = row[PrimaryKey(r)]]
  /\ UNCHANGED <<row, expired, writer, writes, allowed, checked, bounds>>

(* require_permission and PendingReplay::release.                          *)
Replay(r) ==
  /\ pc[r] = "replay"
  /\ IF allowed[UserOf[r]]
     THEN /\ Answer(r, "replayed")
          /\ source' = [source EXCEPT ![r] = row[PrimaryKey(r)]]
     ELSE Answer(r, "denied") /\ UNCHANGED source
  /\ checked' = [checked EXCEPT ![r] = allowed[UserOf[r]]]
  /\ UNCHANGED <<row, expired, writer, writes, allowed, bounds>>

(* Mutant: an early return keeps the transaction open.                     *)
RefuseKeepingTx(r) ==
  /\ pc[r] = "authorized"
  /\ Answer(r, "failed")
  /\ UNCHANGED <<source, row, expired, writer, writes, allowed, checked, bounds>>

(* A business rule refuses (404, 409, 422): everything is rolled back.     *)
Refuse(r) ==
  /\ pc[r] = "authorized"
  /\ Answer(r, "failed")
  /\ ReleaseRow(r)
  /\ UNCHANGED <<source, row, expired, writes, allowed, checked, bounds>>

(* Mutant: the write is committed first and complete() runs after it; the  *)
(* process dies in between.                                                *)
CommitWithoutRow(r) ==
  /\ pc[r] = "authorized"
  /\ writes' = [writes EXCEPT ![r] = @ + 1]
  /\ ReleaseRow(r)
  /\ Answer(r, "created") \/ (Goto(r, "begin") /\ UNCHANGED reply)
  /\ UNCHANGED <<source, row, expired, allowed, checked, bounds>>

(* The business write, complete() and the commit.  The response reaches    *)
(* the client, or it is lost and the client sends the request again.       *)
CommitKey(r) ==
  /\ pc[r] = "authorized"
  /\ writes' = [writes EXCEPT ![r] = @ + 1]
  /\ row' = [row EXCEPT ![PrimaryKey(r)] = r]
  /\ ReleaseRow(r)
  /\ \/ Answer(r, "created") /\ UNCHANGED lost
     \/ /\ lost < MaxLost
        /\ lost' = lost + 1
        /\ Goto(r, "begin")
        /\ UNCHANGED reply
  /\ UNCHANGED <<source, expired, allowed, checked, crashes, changes, expiries>>

(* The server dies with the transaction open; the client tries again.      *)
Crash(r) ==
  /\ pc[r] \in {"begin", "insert", "replay"} \cup Open
  /\ crashes < MaxCrashes
  /\ crashes' = crashes + 1
  /\ Goto(r, "begin")
  /\ ReleaseRow(r)
  /\ UNCHANGED <<reply, source, row, expired, writes, allowed, checked,
                 lost, changes, expiries>>

ChangeRole(u) ==
  /\ changes < MaxChanges
  /\ changes' = changes + 1
  /\ allowed' = [allowed EXCEPT ![u] = ~@]
  /\ UNCHANGED <<pc, reply, source, row, expired, writer, writes, checked,
                 crashes, lost, expiries>>

(* 24 hours pass.  Nothing ever deletes the row.                           *)
Expire(p) ==
  /\ row[p] # NoRequest /\ ~expired[p]
  /\ expiries < MaxExpiries
  /\ expiries' = expiries + 1
  /\ expired' = [expired EXCEPT ![p] = TRUE]
  /\ UNCHANGED <<pc, reply, source, row, writer, writes, allowed, checked,
                 crashes, lost, changes>>

Serve(r) ==
  Begin(r) \/ Insert(r) \/ Authorize(r) \/ Replay(r) \/ Refuse(r) \/ CommitKey(r)

KeysNext ==
  \/ \E r \in Requests : Post(r) \/ Serve(r) \/ Crash(r)
  \/ \E u \in Users : ChangeRole(u)
  \/ \E p \in Rows : Expire(p)

KeysSpec == KeysInit /\ [][KeysNext]_keysVars

(* A client goes on until it is answered and the server runs.              *)
FairKeysSpec == KeysSpec /\ \A r \in Requests : WF_keysVars(Serve(r))

-----------------------------------------------------------------------------
(* However often a request is sent, lost and sent again, and whoever else  *)
(* uses its key, at most one business write is committed under one key,    *)
(* and exactly one once the key is stored.                                 *)
OneWritePerKey ==
  \A p \in Rows : \A r \in {q \in Requests : PrimaryKey(q) = p} :
     writes[r] = IF row[p] = r THEN 1 ELSE 0

(* A replayed response is the one that was stored for the same body.       *)
ReplayIsOfSameBody ==
  \A r \in Requests : reply[r] = "replayed" =>
     source[r] # NoRequest /\ BodyOf[source[r]] = BodyOf[r]

(* Nobody gets a response that was stored for another user.                *)
ReplayIsOfSameUser ==
  \A r \in Requests : source[r] # NoRequest => UserOf[source[r]] = UserOf[r]

(* A stored response is handed out only after the permission check of this *)
(* very try, though the role may have been revoked since it was stored.    *)
ReplayIsAuthorized ==
  \A r \in Requests : reply[r] = "replayed" => checked[r]

(* A replay is of the same body, for the same user, and authorised now.    *)
ReplayIsRightful == ReplayIsOfSameBody /\ ReplayIsOfSameUser /\ ReplayIsAuthorized

(* A key stands for one write, and its answer is for whom the write was made. *)
KeysAreHonoured == OneWritePerKey /\ ReplayIsRightful

(* A transaction that holds an uncommitted key is one that can still end:  *)
(* no crash or refusal leaves a key locked.                                *)
NoKeyLeftLocked ==
  \A p \in Rows : writer[p] # NoRequest =>
     PrimaryKey(writer[p]) = p /\ pc[writer[p]] \in Open

(* Every request is answered in the end when the client keeps sending it,  *)
(* unless its key has been stored for 24 hours.                            *)
AnsweredUnlessExpired ==
  \A r \in Requests :
     pc[r] = "begin" ~> pc[r] = "done" \/ expired[PrimaryKey(r)]

(* The same without the exception: "retry with the same key" leads to an   *)
(* answer, because a stored key only lasts for 24 hours.                   *)
EventuallyAnswered == \A r \in Requests : pc[r] = "begin" ~> pc[r] = "done"

-----------------------------------------------------------------------------
(* What clients see of transactions, retries and crashes is the promise of the *)
(* key: the uncommitted rows and the places of the program are hidden.       *)
Promise == INSTANCE KeyPromise WITH RowOf <- [r \in Requests |-> PrimaryKey(r)]

ImplementsPromise == Promise!Spec
=============================================================================
