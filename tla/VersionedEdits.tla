---------------------------- MODULE VersionedEdits -----------------------------
(***************************************************************************)
(* Optimistic locking (fms_shared::concurrency::check_version) of the PATCH of *)
(* reservations, assets and work orders and of work-order transitions, against *)
(* the writers that send no If-Match: a series update, the soft deletion of an *)
(* asset, a transition without the header, and the PATCH of a facility, which  *)
(* has no version at all.                                                   *)
(*                                                                         *)
(* A client reads a row, edits what it has read, and sends the whole of its    *)
(* fields back.  Content is the set of edits it shows.  Transactions are READ   *)
(* COMMITTED and keep the row locks they take until they end.               *)
(***************************************************************************)
EXTENDS Naturals, FiniteSets

CONSTANTS
  Docs,     \* rows; as reservations they are one series
  Editors,  \* clients, each with one request at a time
  MaxTries  \* bound: requests, lost connections and lost answers

ASSUME EditsAssumption ==
  IsFiniteSet(Docs) /\ IsFiniteSet(Editors) /\ "nobody" \notin Editors /\ MaxTries \in Nat

VARIABLES
  table,    \* which resource this is
  doc,      \* doc[d]: the committed row
  request,  \* request[c]: what c does
  orders,   \* orders[d]: a work order for the asset is open
  holder,   \* holder[d]: the transaction that has locked the row, or "nobody"
  accepted, \* history: <<c, d>>: an edit of c was committed to d
  overrun,  \* history: rows that a series update or an unversioned one has overwritten
  stale,    \* history: a request with If-Match changed a row that its client had not seen
  tries

editVars == <<table, doc, request, orders, holder, accepted, overrun, stale, tries>>

Tables == {"reservations", "assets", "work_orders", "facilities"}
Versioned == table # "facilities"
Doc == [live : BOOLEAN, version : Nat, edits : SUBSET Editors]
NoEdit == [step |-> "idle"]

EditsTypeOK ==
  /\ table \in Tables
  /\ doc \in [Docs -> Doc]
  /\ \A c \in Editors : request[c].step \in {"idle", "seen", "opened", "checked", "written"}
  /\ orders \in [Docs -> BOOLEAN]
  /\ holder \in [Docs -> Editors \cup {"nobody"}]
  /\ accepted \subseteq Editors \X Docs /\ overrun \subseteq Docs
  /\ stale \in BOOLEAN /\ tries \in 0..MaxTries

EditsInit ==
  /\ table \in Tables
  /\ doc = [d \in Docs |-> [live |-> TRUE, version |-> 1, edits |-> {}]]
  /\ request = [c \in Editors |-> NoEdit]
  /\ orders = [d \in Docs |-> FALSE]
  /\ holder = [d \in Docs |-> "nobody"]
  /\ accepted = {} /\ overrun = {} /\ stale = FALSE /\ tries = 0

-----------------------------------------------------------------------------
Step(c, step) == request' = [request EXCEPT ![c].step = step]
Free(c, d) == holder[d] \in {"nobody", c}
Release(c) == holder' = [d \in Docs |-> IF holder[d] = c THEN "nobody" ELSE holder[d]]
Abort(c) ==
  /\ request' = [request EXCEPT ![c] = NoEdit]
  /\ Release(c)
  /\ UNCHANGED <<table, doc, orders, accepted, overrun, stale>>
Try == tries < MaxTries /\ tries' = tries + 1

(* GET, and what the client then sends: a PATCH of the row, of it and the rest   *)
(* of its series, a transition with or without If-Match, a DELETE.           *)
Operations ==
  CASE table = "reservations" -> {"patch", "series"}
    [] table = "assets" -> {"patch", "delete"}
    [] table = "work_orders" -> {"patch", "transition", "blind_transition"}
    [] table = "facilities" -> {"patch"}
ReadDoc(c, d, op) ==
  /\ request[c].step = "idle" /\ doc[d].live /\ op \in Operations
  /\ Try
  /\ request' = [request EXCEPT ![c] =
       [step |-> "seen", doc |-> d, op |-> op, read |-> doc[d],
        todo |-> IF op = "series" THEN Docs ELSE {d}]]
  /\ UNCHANGED <<table, doc, orders, holder, accepted, overrun, stale>>

IfMatch(c) == Versioned /\ request[c].op \in {"patch", "series", "transition"}

(* repo::lock: SELECT ... FOR UPDATE before the row is read.  Neither the       *)
(* deletion of an asset nor the PATCH of a facility has it.                 *)
Locks(c) == Versioned /\ request[c].op # "delete"
(* Plausible bug: the version is read without the lock.                         *)
LockNot(c) ==
  /\ request[c].step = "seen" /\ Step(c, "opened")
  /\ UNCHANGED <<table, doc, orders, holder, accepted, overrun, stale, tries>>

Lock(c) ==
  LET d == request[c].doc IN
  /\ request[c].step = "seen"
  /\ IF Locks(c) THEN Free(c, d) /\ holder' = [holder EXCEPT ![d] = c] ELSE UNCHANGED holder
  /\ Step(c, "opened")
  /\ UNCHANGED <<table, doc, orders, accepted, overrun, stale, tries>>

(* repo::get and check_version: 404, 412, 409, or on.                         *)
Refused(c) ==
  LET d == request[c].doc IN
  \/ ~doc[d].live
  \/ IfMatch(c) /\ doc[d].version # request[c].read.version
  \/ request[c].op = "delete" /\ orders[d]
Check(c) ==
  /\ request[c].step = "opened"
  /\ IF Refused(c) THEN Abort(c)
     ELSE Step(c, "checked") /\ UNCHANGED <<table, doc, orders, holder, accepted, overrun, stale>>
  /\ UNCHANGED tries

(* The UPDATE takes the lock of each of its rows, in any order.                *)
Update(c, d) ==
  /\ request[c].step = "checked" /\ d \in request[c].todo /\ Free(c, d)
  /\ holder' = [holder EXCEPT ![d] = c]
  /\ request' = [request EXCEPT ![c].todo = @ \ {d},
                                ![c].step = IF request[c].todo = {d} THEN "written" ELSE @]
  /\ UNCHANGED <<table, doc, orders, accepted, overrun, stale, tries>>

(* What the transaction leaves.  The trigger adds one to the version at every    *)
(* UPDATE; a transition that brings labour or parts has a second one.        *)
RowsOf(c) == IF request[c].op = "series" THEN Docs ELSE {request[c].doc}
Written(c, d, bumps) ==
  LET fields == request[c].op \in {"patch", "series"} IN
  IF ~doc[d].live THEN doc[d]
  ELSE [doc[d] EXCEPT
    !.version = @ + bumps,
    !.edits = IF fields THEN request[c].read.edits \cup {c} ELSE @,
    !.live = request[c].op # "delete"]
(* The answer may get lost: the client then sends the same request again.       *)
CommitEdit(c, bumps, unanswered) ==
  LET d == request[c].doc
      fields == request[c].op \in {"patch", "series"} IN
  /\ request[c].step = "written"
  /\ bumps = 2 => request[c].op \in {"transition", "blind_transition"}
  /\ doc' = [e \in Docs |-> IF e \in RowsOf(c) THEN Written(c, e, bumps) ELSE doc[e]]
  /\ accepted' = IF fields /\ doc[d].live THEN accepted \cup {<<c, d>>} ELSE accepted
  /\ overrun' = overrun \cup (IF Versioned THEN RowsOf(c) \ {d} ELSE RowsOf(c))
  /\ stale' = (stale \/ (IfMatch(c) /\ doc[d] # request[c].read))
  /\ IF unanswered
     THEN Try /\ request' = [request EXCEPT ![c].step = "seen", ![c].todo = RowsOf(c)]
     ELSE UNCHANGED tries /\ request' = [request EXCEPT ![c] = NoEdit]
  /\ Release(c)
  /\ UNCHANGED <<table, orders>>

-----------------------------------------------------------------------------
(* Others open or close a work order for the asset, which the deletion asks for  *)
(* in a statement of its own.                                               *)
Refer(d) ==
  /\ table = "assets" /\ Try
  /\ orders' = [orders EXCEPT ![d] = ~@]
  /\ UNCHANGED <<table, doc, request, holder, accepted, overrun, stale>>

(* Two series updates that began at different members wait for each other:      *)
(* PostgreSQL ends one of them.                                             *)
Waits(c, e) ==
  c # e /\ \/ request[c].step = "checked" /\ \E d \in request[c].todo : holder[d] = e
           \/ request[c].step = "seen" /\ Locks(c) /\ holder[request[c].doc] = e
Deadlocked(c) == \E e \in Editors : Waits(c, e) /\ Waits(e, c)
LoseEditDeadlock(c) == Deadlocked(c) /\ Abort(c) /\ UNCHANGED tries
Disconnect(c) == request[c].step \notin {"idle", "seen"} /\ Try /\ Abort(c)

EditsNext ==
  \E c \in Editors :
    \/ \E d \in Docs : Update(c, d) \/ \E op \in Operations : ReadDoc(c, d, op)
    \/ Lock(c) \/ Check(c)
    \/ \E bumps \in 1..2, unanswered \in BOOLEAN : CommitEdit(c, bumps, unanswered)
    \/ LoseEditDeadlock(c) \/ Disconnect(c)
    \/ \E d \in Docs : Refer(d)

EditsSpec == EditsInit /\ [][EditsNext]_editVars

-----------------------------------------------------------------------------
(* An edit that was accepted stays until somebody who has seen it writes the    *)
(* row, or it is overrun by an update of its whole series; whatever the requests  *)
(* in flight, their retries, and the transactions that die.  A request with      *)
(* If-Match only ever changes the row as its client saw it.                  *)
EditsAreKept ==
  /\ \A c \in Editors, d \in Docs : <<c, d>> \in accepted => c \in doc[d].edits \/ d \in overrun
  /\ ~stale

(* Violated: no asset is deleted while a work order for it is open.             *)
DeletedIsUnused == \A d \in Docs : orders[d] => doc[d].live
=============================================================================
