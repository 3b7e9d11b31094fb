----------------------------- MODULE KeyPromise ------------------------------
(***************************************************************************)
(* What an Idempotency-Key promises, without transactions, uncommitted      *)
(* rows, expiry, crashes or repeated sending: under one key one request may  *)
(* write, once, after its permission was checked; the others are told what   *)
(* it wrote if they ask for the same and may, and are refused otherwise; a   *)
(* request is answered once, and one that is told of a failure had written    *)
(* nothing.  Module IdempotencyKeys implements this.                        *)
(***************************************************************************)
CONSTANTS Requests,   \* requests of clients
          Users, UserOf, BodyOf,
          Rows,       \* primary keys
          RowOf,      \* RowOf[r]: the primary key of r
          NoRequest   \* nobody

VARIABLES row,      \* row[p]: the request that has written under p
          reply,    \* reply[r]: the answer to r, or "none"
          source,   \* source[r]: the request whose response r was told
          allowed,  \* allowed[u]: u has the permission
          checked   \* checked[r]: the last check of the permission of r passed

vars == <<row, reply, source, allowed, checked>>

Init ==
  /\ row = [p \in Rows |-> NoRequest]
  /\ reply = [r \in Requests |-> "none"]
  /\ source = [r \in Requests |-> NoRequest]
  /\ allowed = [u \in Users |-> TRUE]
  /\ checked = [r \in Requests |-> FALSE]

Unanswered(r) == reply[r] = "none"
Free(r) == row[RowOf[r]] = NoRequest
SameBody(r) == BodyOf[row[RowOf[r]]] = BodyOf[r]
Permitted(r) == allowed[UserOf[r]]

Answer(r, answer) == Unanswered(r) /\ reply' = [reply EXCEPT ![r] = answer]
Check(r, passed) == checked' = [checked EXCEPT ![r] = passed]

(* Another try: what was checked before is no longer good enough.            *)
TryAgain(r) == Unanswered(r) /\ Check(r, FALSE) /\ UNCHANGED <<row, reply, source, allowed>>
Clear(r) ==
  /\ Unanswered(r) /\ Permitted(r) /\ Check(r, TRUE)
  /\ UNCHANGED <<row, reply, source, allowed>>

(* The one write; the client may not hear of it.                            *)
Write(r) ==
  /\ Unanswered(r) /\ Free(r) /\ checked[r]
  /\ row' = [row EXCEPT ![RowOf[r]] = r]
  /\ Answer(r, "created") \/ UNCHANGED reply
  /\ UNCHANGED <<source, allowed, checked>>

TellAgain(r) ==
  /\ ~Free(r) /\ SameBody(r) /\ Permitted(r)
  /\ Answer(r, "replayed") /\ Check(r, TRUE)
  /\ source' = [source EXCEPT ![r] = row[RowOf[r]]]
  /\ UNCHANGED <<row, allowed>>

RefuseReuse(r) ==
  /\ ~Free(r) /\ ~SameBody(r)
  /\ Answer(r, "key_reused") /\ Check(r, FALSE)
  /\ UNCHANGED <<row, source, allowed>>

Deny(r) ==
  /\ ~Permitted(r)
  /\ Answer(r, "denied") /\ Check(r, FALSE)
  /\ UNCHANGED <<row, source, allowed>>

Fail(r) ==
  /\ Free(r)
  /\ Answer(r, "failed")
  /\ UNCHANGED <<row, source, allowed, checked>>

ChangeRole(u) ==
  /\ allowed' = [allowed EXCEPT ![u] = ~@]
  /\ UNCHANGED <<row, reply, source, checked>>

Next ==
  \/ \E r \in Requests :
       TryAgain(r) \/ Clear(r) \/ Write(r) \/ TellAgain(r) \/ RefuseReuse(r) \/ Deny(r) \/ Fail(r)
  \/ \E u \in Users : ChangeRole(u)

Spec == Init /\ [][Next]_vars
=============================================================================
