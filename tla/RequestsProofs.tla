--------------------------- MODULE RequestsProofs ---------------------------
(***************************************************************************)
(* Theorems about requests side by side: VersionedEdits for any documents,   *)
(* editors and kinds of tables, RoomCalendar for any rooms and callers,       *)
(* TenantSettings for any facilities, users, bodies and rows, KeysetPages for    *)
(* any rows, keys and listings of the shapes the program has, AssetRelations     *)
(* for any assets, depth limit and tasks, AssetRegister for any assets,          *)
(* definitions, bodies, files and tasks, and Attachments for any files and tasks. *)
(***************************************************************************)
EXTENDS MCRequests,
  FiniteSetTheorems, WellFoundedInduction, SequenceTheorems, TLAPS

-----------------------------------------------------------------------------
(* Optimistic locking *)

EditSteps == {"seen", "opened", "checked", "written"}
EditOps == {"patch", "series", "delete", "transition", "blind_transition"}
EditRequest == [step : EditSteps, doc : Docs, op : EditOps, read : Doc, todo : SUBSET Docs]

EditsTyped ==
  /\ EditsTypeOK
  /\ request \in [Editors -> {NoEdit} \cup EditRequest]

(* What a client has read is the row or an older version of it; and a transaction   *)
(* that has checked an If-Match holds the lock on the row it has compared.           *)
ReadIsPast(c) ==
  LET old == request[c].read
      now == doc[request[c].doc] IN
  old.version <= now.version /\ (old.version = now.version => old = now)
LocksAreHeld(c) ==
  LET d == request[c].doc IN
  /\ request[c].step # "seen" /\ Locks(c) => holder[d] = c
  /\ request[c].step \in {"seen", "opened"} => RowsOf(c) \subseteq request[c].todo
  /\ \A e \in RowsOf(c) \ request[c].todo : holder[e] = c
  /\ request[c].step = "written" => request[c].todo = {}
ComparedIsRead(c) ==
  request[c].step \in {"checked", "written"} /\ IfMatch(c) => request[c].read = doc[request[c].doc]

EditInv(c) == request[c].step # "idle" => ReadIsPast(c) /\ LocksAreHeld(c) /\ ComparedIsRead(c)

EditsInv ==
  /\ EditsTyped
  /\ \A c \in Editors : EditInv(c)
  /\ EditsAreKept

LEMMA EditsKinds ==
  ASSUME EditsTyped, NEW c \in Editors
  PROVE  /\ request[c].step = "idle" <=> request[c] = NoEdit
         /\ request[c].step # "idle" => request[c] \in EditRequest
<1> QED BY DEF EditsTyped, EditRequest, EditSteps, NoEdit

LEMMA InitEditsInv == EditsInit => EditsInv
<1> SUFFICES ASSUME EditsInit PROVE EditsInv
  OBVIOUS
<1>1. EditsTyped
  <2>1. /\ doc \in [Docs -> Doc] /\ holder \in [Docs -> Editors \cup {"nobody"}]
        /\ orders \in [Docs -> BOOLEAN]
    BY DEF EditsInit, Doc
  <2>2. /\ request \in [Editors -> {NoEdit} \cup EditRequest]
        /\ \A c \in Editors : request[c].step = "idle"
    BY DEF EditsInit, NoEdit
  <2>3. /\ accepted \subseteq Editors \X Docs /\ overrun \subseteq Docs
        /\ tries \in 0..MaxTries /\ table \in Tables
    <3>1. accepted = {} /\ overrun = {} /\ tries = 0 /\ table \in Tables
      BY DEF EditsInit
    <3> QED BY <3>1, EditsAssumption
  <2>4. stale \in BOOLEAN
    BY DEF EditsInit
  <2> QED BY <2>1, <2>2, <2>3, <2>4 DEF EditsTyped, EditsTypeOK
<1>2. ASSUME NEW c \in Editors PROVE EditInv(c)
  BY DEF EditsInit, EditInv, NoEdit
<1>3. EditsAreKept
  BY DEF EditsInit, EditsAreKept
<1> QED BY <1>1, <1>2, <1>3 DEF EditsInv

(* The others: their rows, locks and versions are as they were.                   *)
LEMMA OtherEdits ==
  ASSUME EditsInv, NEW c \in Editors, NEW e \in Editors, e # c,
         request'[e] = request[e], doc' = doc, table' = table,
         \A d \in Docs : holder[d] = e => holder'[d] = e
  PROVE  EditInv(e)'
<1> SUFFICES ASSUME request[e].step # "idle"
             PROVE  ReadIsPast(e)' /\ LocksAreHeld(e)' /\ ComparedIsRead(e)'
  BY DEF EditInv
<1>1. request[e] \in EditRequest /\ ReadIsPast(e) /\ LocksAreHeld(e) /\ ComparedIsRead(e)
  BY EditsKinds DEF EditsInv, EditInv
<1>2. ReadIsPast(e)' /\ ComparedIsRead(e)'
  BY <1>1 DEF ReadIsPast, ComparedIsRead, IfMatch, Versioned
<1>3. request[e].doc \in Docs /\ RowsOf(e) \subseteq Docs
  BY <1>1 DEF EditRequest, RowsOf
<1>4. LocksAreHeld(e)'
  BY <1>1, <1>3 DEF LocksAreHeld, Locks, Versioned, RowsOf
<1> QED BY <1>2, <1>4

(* A step of c's request that commits nothing.                                   *)
LEMMA RequestMoves ==
  ASSUME EditsInv, NEW c \in Editors, NEW r, request' = [request EXCEPT ![c] = r],
         r \in {NoEdit} \cup EditRequest,
         UNCHANGED <<table, doc, orders, accepted, overrun, stale>>, tries' \in 0..MaxTries,
         holder' \in [Docs -> Editors \cup {"nobody"}],
         \A d \in Docs, e \in Editors : e # c /\ holder[d] = e => holder'[d] = e,
         r # NoEdit => ReadIsPast(c)' /\ LocksAreHeld(c)' /\ ComparedIsRead(c)'
  PROVE  EditsInv'
<1>1. /\ request'[c] = r
      /\ \A e \in Editors \ {c} : request'[e] = request[e]
  BY DEF EditsInv, EditsTyped
<1>2. EditsTyped'
  <2>1. request' \in [Editors -> {NoEdit} \cup EditRequest]
    BY DEF EditsInv, EditsTyped
  <2>2. \A e \in Editors : request'[e].step \in {"idle", "seen", "opened", "checked", "written"}
    BY <2>1 DEF NoEdit, EditRequest, EditSteps
  <2> QED BY <2>1, <2>2 DEF EditsInv, EditsTyped, EditsTypeOK
<1>3. EditsAreKept'
  BY DEF EditsInv, EditsAreKept
<1>4. EditInv(c)'
  BY <1>1 DEF EditInv, NoEdit
<1>5. ASSUME NEW e \in Editors, e # c PROVE EditInv(e)'
  BY <1>1, <1>5, OtherEdits
<1> QED BY <1>2, <1>3, <1>4, <1>5 DEF EditsInv

LEMMA ReadKeeps ==
  ASSUME EditsInv, NEW c \in Editors, NEW d \in Docs, NEW op \in Operations, ReadDoc(c, d, op)
  PROVE  EditsInv'
<1> DEFINE r == [step |-> "seen", doc |-> d, op |-> op, read |-> doc[d],
                 todo |-> IF op = "series" THEN Docs ELSE {d}]
<1>1. op \in EditOps /\ doc[d] \in Doc
  BY DEF EditsInv, EditsTyped, EditsTypeOK, Operations, EditOps, Tables
<1>2. /\ request' = [request EXCEPT ![c] = r]
      /\ UNCHANGED <<table, doc, orders, holder, accepted, overrun, stale>>
      /\ tries' \in 0..MaxTries
  BY EditsAssumption DEF ReadDoc, Try, EditsInv, EditsTyped, EditsTypeOK
<1>3. r.step = "seen" /\ r.doc = d /\ r.op = op /\ r.read = doc[d]
      /\ r.todo = IF op = "series" THEN Docs ELSE {d}
  OBVIOUS
<1>4. r \in EditRequest
  BY <1>1 DEF EditRequest, EditSteps
<1> HIDE DEF r
<1>5. request'[c] = r
  BY <1>2 DEF EditsInv, EditsTyped
<1>6. ReadIsPast(c)' /\ ComparedIsRead(c)'
  BY <1>1, <1>2, <1>3, <1>5 DEF ReadIsPast, ComparedIsRead, Doc
<1>7. LocksAreHeld(c)'
  BY <1>2, <1>3, <1>5 DEF LocksAreHeld, RowsOf
<1>8. holder' \in [Docs -> Editors \cup {"nobody"}]
  BY <1>2 DEF EditsInv, EditsTyped, EditsTypeOK
<1> QED BY <1>2, <1>4, <1>6, <1>7, <1>8, RequestMoves

(* The transaction goes on to its next step; nothing but the step differs.          *)
LEMMA StepIs ==
  ASSUME EditsTyped, NEW c \in Editors, NEW step \in EditSteps, request[c].step # "idle", Step(c, step)
  PROVE  \E r \in EditRequest :
           /\ request' = [request EXCEPT ![c] = r] /\ request'[c] = r
           /\ r.step = step /\ r.doc = request[c].doc /\ r.op = request[c].op
           /\ r.read = request[c].read /\ r.todo = request[c].todo
<1> DEFINE r == [request[c] EXCEPT !.step = step]
<1>1. request[c] \in EditRequest
  BY EditsKinds
<1>2. request' = [request EXCEPT ![c] = r] /\ request'[c] = r
  BY DEF Step, EditsTyped
<1>3. r \in EditRequest /\ r.step = step /\ r.doc = request[c].doc /\ r.op = request[c].op
      /\ r.read = request[c].read /\ r.todo = request[c].todo
  BY <1>1 DEF EditRequest
<1> QED BY <1>2, <1>3

LEMMA LockKeeps ==
  ASSUME EditsInv, NEW c \in Editors, Lock(c)
  PROVE  EditsInv'
<1>1. request[c].step = "seen" /\ request[c] \in EditRequest
      /\ ReadIsPast(c) /\ LocksAreHeld(c)
  BY EditsKinds DEF Lock, EditsInv, EditInv
<1>2. PICK r \in EditRequest :
           /\ request' = [request EXCEPT ![c] = r] /\ request'[c] = r
           /\ r.step = "opened" /\ r.doc = request[c].doc /\ r.op = request[c].op
           /\ r.read = request[c].read /\ r.todo = request[c].todo
  BY <1>1, StepIs DEF Lock, EditsInv, EditSteps
<1>3. /\ UNCHANGED <<table, doc, orders, accepted, overrun, stale, tries>>
      /\ \/ Locks(c) /\ Free(c, request[c].doc) /\ holder' = [holder EXCEPT ![request[c].doc] = c]
         \/ ~Locks(c) /\ holder' = holder
  BY DEF Lock
<1>4. request[c].doc \in Docs
  BY <1>1 DEF EditRequest
<1>5. /\ holder' \in [Docs -> Editors \cup {"nobody"}]
      /\ \A d \in Docs, e \in Editors : e # c /\ holder[d] = e => holder'[d] = e
      /\ \A d \in Docs : holder[d] = c => holder'[d] = c
      /\ Locks(c) => holder'[request[c].doc] = c
  BY <1>3, <1>4, EditsAssumption DEF Free, EditsInv, EditsTyped, EditsTypeOK
<1>6. ReadIsPast(c)' /\ ComparedIsRead(c)'
  BY <1>1, <1>2, <1>3 DEF ReadIsPast, ComparedIsRead
<1>7. RowsOf(c)' = RowsOf(c) /\ Locks(c)' = Locks(c)
  BY <1>2, <1>3 DEF RowsOf, Locks, Versioned
<1>8. LocksAreHeld(c)'
  BY <1>1, <1>2, <1>5, <1>7 DEF LocksAreHeld
<1>9. tries' \in 0..MaxTries
  BY <1>3 DEF EditsInv, EditsTyped, EditsTypeOK
<1> QED BY <1>2, <1>3, <1>5, <1>6, <1>8, <1>9, RequestMoves

(* 404, 412, 409, a lost connection, a deadlock: the locks of c go.                 *)
LEMMA AbortKeeps ==
  ASSUME EditsInv, NEW c \in Editors, Abort(c), tries' \in 0..MaxTries
  PROVE  EditsInv'
<1>1. /\ holder' \in [Docs -> Editors \cup {"nobody"}]
      /\ \A d \in Docs, e \in Editors : e # c /\ holder[d] = e => holder'[d] = e
  BY DEF Abort, Release, EditsInv, EditsTyped, EditsTypeOK
<1> QED BY <1>1, RequestMoves DEF Abort

LEMMA CheckKeeps ==
  ASSUME EditsInv, NEW c \in Editors, Check(c)
  PROVE  EditsInv'
<1>0. tries' \in 0..MaxTries
  BY DEF Check, EditsInv, EditsTyped, EditsTypeOK
<1>1. CASE Refused(c)
  BY <1>0, <1>1, AbortKeeps DEF Check
<1>2. CASE ~Refused(c)
  <2>1. request[c].step = "opened" /\ request[c] \in EditRequest
        /\ ReadIsPast(c) /\ LocksAreHeld(c)
    BY EditsKinds DEF Check, EditsInv, EditInv
  <2>2. PICK r \in EditRequest :
             /\ request' = [request EXCEPT ![c] = r] /\ request'[c] = r
             /\ r.step = "checked" /\ r.doc = request[c].doc /\ r.op = request[c].op
             /\ r.read = request[c].read /\ r.todo = request[c].todo
    BY <1>2, <2>1, StepIs DEF Check, EditsInv, EditSteps
  <2>3. UNCHANGED <<table, doc, orders, holder, accepted, overrun, stale>>
    BY <1>2 DEF Check
  <2>4. IfMatch(c) => doc[request[c].doc].version = request[c].read.version
    BY <1>2 DEF Refused
  <2>5. RowsOf(c)' = RowsOf(c) /\ Locks(c)' = Locks(c) /\ IfMatch(c)' = IfMatch(c)
    BY <2>2, <2>3 DEF RowsOf, Locks, Versioned, IfMatch
  <2>6. ReadIsPast(c)'
    BY <2>1, <2>2, <2>3 DEF ReadIsPast
  <2>7. ComparedIsRead(c)'
    BY <2>1, <2>2, <2>3, <2>4, <2>5 DEF ReadIsPast, ComparedIsRead
  <2>8. LocksAreHeld(c)'
    BY <2>1, <2>2, <2>3, <2>5 DEF LocksAreHeld
  <2>9. holder' \in [Docs -> Editors \cup {"nobody"}]
    BY <2>3 DEF EditsInv, EditsTyped, EditsTypeOK
  <2> QED BY <1>0, <2>2, <2>3, <2>6, <2>7, <2>8, <2>9, RequestMoves
<1> QED BY <1>1, <1>2

LEMMA UpdateKeeps ==
  ASSUME EditsInv, NEW c \in Editors, NEW d \in Docs, Update(c, d)
  PROVE  EditsInv'
<1> DEFINE r == [request[c] EXCEPT !.todo = @ \ {d},
                                   !.step = IF request[c].todo = {d} THEN "written" ELSE @]
<1>1. request[c].step = "checked" /\ request[c] \in EditRequest
      /\ ReadIsPast(c) /\ LocksAreHeld(c) /\ ComparedIsRead(c)
  BY EditsKinds DEF Update, EditsInv, EditInv
<1>2. /\ UNCHANGED <<table, doc, orders, accepted, overrun, stale, tries>>
      /\ holder' = [holder EXCEPT ![d] = c] /\ Free(c, d)
  BY DEF Update
<1>3. request' = [request EXCEPT ![c] = r] /\ request'[c] = r
  BY DEF Update, EditsInv, EditsTyped
<1>4. /\ r \in EditRequest /\ r.doc = request[c].doc /\ r.op = request[c].op
      /\ r.read = request[c].read /\ r.todo = request[c].todo \ {d}
      /\ r.step = IF request[c].todo = {d} THEN "written" ELSE "checked"
  BY <1>1 DEF EditRequest, EditSteps
<1> HIDE DEF r
<1>5. /\ holder' \in [Docs -> Editors \cup {"nobody"}]
      /\ \A x \in Docs, e \in Editors : e # c /\ holder[x] = e => holder'[x] = e
      /\ \A x \in Docs : holder[x] = c \/ x = d => holder'[x] = c
  BY <1>2, EditsAssumption DEF Free, EditsInv, EditsTyped, EditsTypeOK
<1>6. RowsOf(c)' = RowsOf(c) /\ Locks(c)' = Locks(c) /\ IfMatch(c)' = IfMatch(c)
  BY <1>2, <1>3, <1>4 DEF RowsOf, Locks, Versioned, IfMatch
<1>7. ReadIsPast(c)' /\ ComparedIsRead(c)'
  BY <1>1, <1>2, <1>3, <1>4, <1>6 DEF ReadIsPast, ComparedIsRead
<1>8. request[c].doc \in Docs /\ RowsOf(c) \subseteq Docs
  BY <1>1 DEF EditRequest, RowsOf
<1>9. LocksAreHeld(c)'
  BY <1>1, <1>3, <1>4, <1>5, <1>6, <1>8 DEF LocksAreHeld
<1>10. tries' \in 0..MaxTries
  BY <1>2 DEF EditsInv, EditsTyped, EditsTypeOK
<1> QED BY <1>2, <1>3, <1>4, <1>5, <1>7, <1>9, <1>10, RequestMoves

(* The trigger of the version: a row that is written gets a higher one.             *)
LEMMA WrittenRows ==
  ASSUME EditsTyped, NEW c \in Editors, request[c].step # "idle", NEW d \in Docs, NEW bumps \in 1..2
  PROVE  /\ Written(c, d, bumps) \in Doc
         /\ Written(c, d, bumps).version >= doc[d].version
         /\ Written(c, d, bumps).version = doc[d].version => Written(c, d, bumps) = doc[d]
         /\ \/ Written(c, d, bumps).edits = doc[d].edits
            \/ /\ request[c].op \in {"patch", "series"} /\ doc[d].live
               /\ Written(c, d, bumps).edits = request[c].read.edits \cup {c}
         /\ request[c].op \in {"patch", "series"} /\ doc[d].live =>
              Written(c, d, bumps).edits = request[c].read.edits \cup {c}
<1>1. doc[d] \in Doc /\ request[c] \in EditRequest
  BY EditsKinds DEF EditsTyped, EditsTypeOK
<1> DEFINE fields == request[c].op \in {"patch", "series"}
           written == IF fields THEN request[c].read.edits \cup {c} ELSE doc[d].edits
           lives == request[c].op # "delete"
<1>2. CASE ~doc[d].live
  BY <1>1, <1>2 DEF Written, Doc
<1>3. CASE doc[d].live
  <2>1. written \in SUBSET Editors /\ lives \in BOOLEAN /\ doc[d].version + bumps \in Nat
    BY <1>1 DEF EditRequest, Doc
  <2>2. Written(c, d, bumps) = [doc[d] EXCEPT !.version = @ + bumps, !.edits = written, !.live = lives]
    BY <1>3 DEF Written
  <2> HIDE DEF written, lives
  <2>3. /\ Written(c, d, bumps) \in Doc
        /\ Written(c, d, bumps).version = doc[d].version + bumps
        /\ Written(c, d, bumps).edits = written
    BY <1>1, <2>1, <2>2 DEF Doc
  <2> QED BY <1>1, <1>3, <2>3 DEF written, Doc
<1> QED BY <1>2, <1>3

LEMMA CommitKeeps ==
  ASSUME EditsInv, NEW c \in Editors, NEW bumps \in 1..2, NEW unanswered \in BOOLEAN,
         CommitEdit(c, bumps, unanswered)
  PROVE  EditsInv'
<1> DEFINE d == request[c].doc
           fields == request[c].op \in {"patch", "series"}
<1>1. /\ request[c].step = "written" /\ request[c] \in EditRequest
      /\ LocksAreHeld(c) /\ ComparedIsRead(c) /\ ReadIsPast(c)
  BY EditsKinds DEF CommitEdit, EditsInv, EditInv
<1>2. d \in Docs /\ RowsOf(c) \subseteq Docs /\ d \in RowsOf(c) /\ \A e \in RowsOf(c) : holder[e] = c
  BY <1>1 DEF EditRequest, RowsOf, LocksAreHeld
<1>3. /\ doc' = [e \in Docs |-> IF e \in RowsOf(c) THEN Written(c, e, bumps) ELSE doc[e]]
      /\ accepted' = IF fields /\ doc[d].live THEN accepted \cup {<<c, d>>} ELSE accepted
      /\ overrun' = overrun \cup (IF Versioned THEN RowsOf(c) \ {d} ELSE RowsOf(c))
      /\ stale' = (stale \/ (IfMatch(c) /\ doc[d] # request[c].read))
      /\ holder' = [e \in Docs |-> IF holder[e] = c THEN "nobody" ELSE holder[e]]
      /\ UNCHANGED <<table, orders>>
  BY DEF CommitEdit, Release
<1>4. /\ \A e \in Editors \ {c} : request'[e] = request[e]
      /\ request' \in [Editors -> {NoEdit} \cup EditRequest]
      /\ \/ request'[c] = NoEdit
         \/ /\ request'[c].step = "seen" /\ request'[c].doc = d /\ request'[c].op = request[c].op
            /\ request'[c].read = request[c].read /\ request'[c].todo = RowsOf(c)
      /\ tries' \in 0..MaxTries
  <2>1. CASE ~unanswered
    <3>1. UNCHANGED tries /\ request' = [request EXCEPT ![c] = NoEdit]
      BY <2>1 DEF CommitEdit
    <3> QED BY <3>1 DEF EditsInv, EditsTyped, EditsTypeOK
  <2>2. CASE unanswered
    <3> DEFINE r == [request[c] EXCEPT !.step = "seen", !.todo = RowsOf(c)]
    <3>1. Try /\ request' = [request EXCEPT ![c] = r]
      BY <2>2 DEF CommitEdit, EditsInv, EditsTyped
    <3>2. /\ r \in EditRequest /\ r.step = "seen" /\ r.doc = d /\ r.op = request[c].op
          /\ r.read = request[c].read /\ r.todo = RowsOf(c)
      BY <1>1, <1>2 DEF EditRequest, EditSteps
    <3> HIDE DEF r
    <3> QED BY <3>1, <3>2, EditsAssumption DEF Try, EditsInv, EditsTyped, EditsTypeOK
  <2> QED BY <2>1, <2>2
<1>5. \A e \in Docs :
        /\ doc'[e] \in Doc /\ doc[e] \in Doc
        /\ doc'[e].version >= doc[e].version
        /\ doc'[e].version = doc[e].version => doc'[e] = doc[e]
        /\ e \notin RowsOf(c) => doc'[e] = doc[e]
  BY <1>1, <1>3, WrittenRows DEF EditsInv, EditsTyped, EditsTypeOK, Doc
<1>6. EditsTyped'
  <2>1. \A e \in Editors : request'[e].step \in {"idle", "seen", "opened", "checked", "written"}
    BY <1>4 DEF NoEdit, EditRequest, EditSteps
  <2>2. /\ doc' \in [Docs -> Doc] /\ holder' \in [Docs -> Editors \cup {"nobody"}]
        /\ accepted' \subseteq Editors \X Docs /\ overrun' \subseteq Docs /\ stale' \in BOOLEAN
    BY <1>2, <1>3, <1>5 DEF EditsInv, EditsTyped, EditsTypeOK
  <2> QED BY <1>3, <1>4, <2>1, <2>2 DEF EditsInv, EditsTyped, EditsTypeOK
<1>7. IfMatch(c) => request[c].read = doc[d]
  BY <1>1 DEF ComparedIsRead
<1>8. EditsAreKept'
  <2>1. ~stale'
    BY <1>3, <1>7 DEF EditsInv, EditsAreKept
  <2>2. ASSUME NEW e \in Editors, NEW x \in Docs, <<e, x>> \in accepted'
        PROVE  e \in doc'[x].edits \/ x \in overrun'
    <3>1. CASE x \notin RowsOf(c)
      <4>1. <<e, x>> \in accepted
        BY <1>2, <1>3, <2>2, <3>1
      <4> QED BY <1>3, <1>5, <3>1, <4>1 DEF EditsInv, EditsAreKept
    <3>2. CASE x \in RowsOf(c) /\ (~Versioned \/ x # d)
      BY <1>3, <3>2
    <3>3. CASE Versioned /\ x = d
      <4>1. doc'[d] = Written(c, d, bumps)
        BY <1>2, <1>3
      <4>2. CASE fields /\ doc[d].live
        <5>1. doc'[d].edits = request[c].read.edits \cup {c}
          BY <1>1, <1>2, <4>1, <4>2, WrittenRows DEF EditsInv
        <5>2. request[c].read = doc[d]
          BY <1>7, <3>3, <4>2 DEF IfMatch
        <5>3. e = c \/ <<e, d>> \in accepted
          BY <1>3, <2>2, <3>3
        <5> QED BY <1>3, <3>3, <5>1, <5>2, <5>3 DEF EditsInv, EditsAreKept
      <4>3. CASE ~(fields /\ doc[d].live)
        <5>1. doc'[d].edits = doc[d].edits
          BY <1>1, <1>2, <4>1, <4>3, WrittenRows DEF EditsInv
        <5>2. <<e, d>> \in accepted
          BY <1>3, <2>2, <3>3, <4>3
        <5> QED BY <1>2, <1>3, <3>3, <5>1, <5>2 DEF EditsInv, EditsAreKept
      <4> QED BY <4>2, <4>3
    <3> QED BY <3>1, <3>2, <3>3
  <2> QED BY <2>1, <2>2 DEF EditsAreKept
<1>9. EditInv(c)'
  <2> SUFFICES ASSUME request'[c] # NoEdit
               PROVE  ReadIsPast(c)' /\ LocksAreHeld(c)' /\ ComparedIsRead(c)'
    BY DEF EditInv, NoEdit
  <2>1. /\ request'[c].step = "seen" /\ request'[c].doc = d /\ request'[c].op = request[c].op
        /\ request'[c].read = request[c].read /\ request'[c].todo = RowsOf(c)
    BY <1>4
  <2>2. RowsOf(c)' = RowsOf(c)
    BY <2>1 DEF RowsOf
  <2>3. request[c].read \in Doc
    BY <1>1 DEF EditRequest
  <2>4. /\ request[c].read.version <= doc'[d].version
        /\ request[c].read.version = doc'[d].version => request[c].read = doc'[d]
    <3>1. doc[d].version \in Nat /\ doc'[d].version \in Nat /\ request[c].read.version \in Nat
      BY <1>2, <1>5, <2>3 DEF Doc
    <3> QED BY <1>1, <1>2, <1>5, <3>1 DEF ReadIsPast
  <2>5. ReadIsPast(c)'
    BY <2>1, <2>4 DEF ReadIsPast
  <2> QED BY <2>1, <2>2, <2>5 DEF LocksAreHeld, ComparedIsRead
<1>10. ASSUME NEW e \in Editors, e # c PROVE EditInv(e)'
  <2> DEFINE x == request[e].doc
  <2> SUFFICES ASSUME request[e].step # "idle"
               PROVE  ReadIsPast(e)' /\ LocksAreHeld(e)' /\ ComparedIsRead(e)'
    BY <1>4, <1>10 DEF EditInv
  <2>1. request[e] \in EditRequest /\ ReadIsPast(e) /\ LocksAreHeld(e) /\ ComparedIsRead(e)
    BY EditsKinds DEF EditsInv, EditInv
  <2>2. request'[e] = request[e] /\ x \in Docs /\ request[e].read \in Doc /\ RowsOf(e) \subseteq Docs
    BY <1>4, <1>10, <2>1 DEF EditRequest, RowsOf
  <2>3. /\ request[e].read.version <= doc'[x].version
        /\ request[e].read.version = doc'[x].version => request[e].read = doc'[x]
    <3>1. doc[x].version \in Nat /\ doc'[x].version \in Nat /\ request[e].read.version \in Nat
      BY <1>5, <2>2 DEF Doc
    <3> QED BY <1>5, <2>1, <2>2, <3>1 DEF ReadIsPast
  <2>4. ReadIsPast(e)'
    BY <2>2, <2>3 DEF ReadIsPast
  <2>5. RowsOf(e)' = RowsOf(e) /\ Locks(e)' = Locks(e) /\ IfMatch(e)' = IfMatch(e)
    BY <1>3, <2>2 DEF RowsOf, Locks, Versioned, IfMatch
  <2>6. \A y \in Docs : holder[y] = e => holder'[y] = e
    BY <1>3, <1>10
  <2>7. LocksAreHeld(e)'
    BY <2>1, <2>2, <2>5, <2>6 DEF LocksAreHeld
  <2>8. ComparedIsRead(e)'
    <3> SUFFICES ASSUME request[e].step \in {"checked", "written"}, IfMatch(e)
                 PROVE  request[e].read = doc'[x]
      BY <2>2, <2>5 DEF ComparedIsRead
    <3>1. Locks(e)
      BY DEF IfMatch, Locks
    <3>2. holder[x] = e
      BY <2>1, <3>1 DEF LocksAreHeld
    <3>3. x \notin RowsOf(c)
      BY <1>2, <1>10, <3>2
    <3> QED BY <1>5, <2>1, <2>2, <3>3 DEF ComparedIsRead
  <2> QED BY <2>4, <2>7, <2>8
<1> QED BY <1>6, <1>8, <1>9, <1>10 DEF EditsInv

LEMMA ReferKeeps ==
  ASSUME EditsInv, NEW d \in Docs, Refer(d)
  PROVE  EditsInv'
<1>1. UNCHANGED <<table, doc, request, holder, accepted, overrun, stale>>
  BY DEF Refer
<1>2. orders' \in [Docs -> BOOLEAN] /\ tries' \in 0..MaxTries
  BY EditsAssumption DEF Refer, Try, EditsInv, EditsTyped, EditsTypeOK
<1>3. EditsTyped' /\ EditsAreKept'
  BY <1>1, <1>2 DEF EditsInv, EditsTyped, EditsTypeOK, EditsAreKept
<1>4. ASSUME NEW c \in Editors PROVE EditInv(c)'
  BY <1>1 DEF EditsInv, EditInv, ReadIsPast, LocksAreHeld, ComparedIsRead, RowsOf, Locks, IfMatch,
              Versioned
<1> QED BY <1>3, <1>4 DEF EditsInv

LEMMA EditsInvIsKept == EditsInv /\ [EditsNext]_editVars => EditsInv'
<1> SUFFICES ASSUME EditsInv, [EditsNext]_editVars PROVE EditsInv'
  OBVIOUS
<1>1. CASE EditsNext
  <2>1. PICK c \in Editors :
          \/ \E d \in Docs : Update(c, d) \/ \E op \in Operations : ReadDoc(c, d, op)
          \/ Lock(c) \/ Check(c)
          \/ \E bumps \in 1..2, unanswered \in BOOLEAN : CommitEdit(c, bumps, unanswered)
          \/ LoseEditDeadlock(c) \/ Disconnect(c)
          \/ \E d \in Docs : Refer(d)
    BY <1>1 DEF EditsNext
  <2>2. CASE \E d \in Docs : Update(c, d) \/ \E op \in Operations : ReadDoc(c, d, op)
    BY <2>2, UpdateKeeps, ReadKeeps
  <2>3. CASE Lock(c) \/ Check(c)
    BY <2>3, LockKeeps, CheckKeeps
  <2>4. CASE \E bumps \in 1..2, unanswered \in BOOLEAN : CommitEdit(c, bumps, unanswered)
    BY <2>4, CommitKeeps
  <2>5. CASE LoseEditDeadlock(c) \/ Disconnect(c)
    <3>1. Abort(c) /\ tries' \in 0..MaxTries
      BY <2>5, EditsAssumption
         DEF LoseEditDeadlock, Disconnect, Try, EditsInv, EditsTyped, EditsTypeOK
    <3> QED BY <3>1, AbortKeeps
  <2>6. CASE \E d \in Docs : Refer(d)
    BY <2>6, ReferKeeps
  <2> QED BY <2>1, <2>2, <2>3, <2>4, <2>5, <2>6
<1>2. CASE UNCHANGED editVars
  <2>1. EditsTyped' /\ EditsAreKept'
    BY <1>2 DEF editVars, EditsInv, EditsTyped, EditsTypeOK, EditsAreKept
  <2>2. ASSUME NEW c \in Editors PROVE EditInv(c)'
    BY <1>2 DEF editVars, EditsInv, EditInv, ReadIsPast, LocksAreHeld, ComparedIsRead, RowsOf,
                Locks, IfMatch, Versioned
  <2> QED BY <2>1, <2>2 DEF EditsInv
<1> QED BY <1>1, <1>2

(* check_version under the lock of SELECT ... FOR UPDATE, against series updates,     *)
(* deletions and transitions that send no version: no accepted edit is lost unseen,    *)
(* and If-Match never lets a request change a row that its client has not seen.        *)
THEOREM AcceptedIsKept == EditsSpec => []EditsAreKept
<1> QED BY InitEditsInv, EditsInvIsKept, PTL DEF EditsSpec, EditsInv

-----------------------------------------------------------------------------
(* The calendar of the rooms *)

RoomSettings ==
  {s \in [bookable : BOOLEAN, shortest : Slots, longest : Slots, with : SUBSET (Equipment \X Callers)] :
     s.shortest <= s.longest}
EntryKinds == {"booking", "hold", "closure", "list", "lapsed", "undone"}

RoomTyped ==
  /\ room \in [Rooms -> RoomSettings] /\ patched \in 0..MaxSettings
  /\ open \in [Callers -> {Idle} \cup Requests \cup EquipmentPuts]
  /\ entry \in [Callers -> {Idle, Undone} \cup Requests \cup EquipmentPuts]
  /\ \A c \in Callers : /\ open[c].kind = "booking" => open[c].place \in Rooms
                        /\ entry[c].kind = "booking" => entry[c].place \in Rooms

(* A caller with an open request has written nothing, and whoever had written when a     *)
(* request read still has an entry.                                              *)
OneRequestEach ==
  /\ \A c \in Callers : open[c].kind # "idle" => entry[c].kind = "idle"
  /\ \A c \in Callers : open[c].kind # "lapsed"
Asked(x) == x.kind \in {"booking", "hold", "lapsed", "closure", "list"}
PastIsWritten ==
  \A c, d \in Callers :
    /\ Asked(open[c]) /\ d \in open[c].before => entry[d].kind # "idle"
    /\ Asked(entry[c]) /\ d \in entry[c].before => entry[d].kind # "idle"

(* A booking in flight has passed every closure that it saw, and a closure in flight     *)
(* lists every booking that it saw, or its list ended before.  What is on a list was       *)
(* written.                                                                   *)
BookingHasPassed ==
  \A b, k \in Callers :
    open[b].kind = "booking" /\ entry[k].kind = "closure" /\ k \in open[b].before =>
      ~(Meet(open[b], entry[k]) /\ entry[k].place \in {open[b].place, Everywhere})
Concerns(x, y) ==
  Meet(y, x) /\ x.place \in {Everywhere, y.place} \cup PartsOf[y.place]
TellsIn(e, x, b) ==
  \/ Told(x, b)
  \/ /\ Cardinality(x.told) = ListLimit
     /\ \A row \in x.told :
          e[row[1]].kind = "booking" /\ ~e[row[1]].moved => e[row[1]].from <= e[b].from
ClosureTells ==
  \A b, k \in Callers :
    open[k].kind = "closure" /\ entry[b].kind = "booking" /\ b \in open[k].before
      /\ Concerns(open[k], entry[b]) =>
        TellsIn(entry, open[k], b) \/ entry[b].moved
ToldIsWritten ==
  \A k \in Callers :
    /\ open[k].kind = "closure" => \A row \in open[k].told : entry[row[1]].kind # "idle"
    /\ entry[k].kind = "closure" => \A row \in entry[k].told : entry[row[1]].kind # "idle"

(* A row of equipment is of somebody's written list, and a list in flight has seen those *)
(* of the callers it saw.                                                      *)
RowsAreOfLists ==
  \A r \in Rooms : \A e \in room[r].with : entry[e[2]].kind = "list"
ListHasSeen ==
  \A c \in Callers : open[c].kind = "list" =>
    \A e \in room[open[c].place].with : e \in open[c].saw \/ e[2] \notin open[c].before

RoomInv ==
  /\ RoomTyped /\ OneRequestEach /\ PastIsWritten
  /\ BookingHasPassed /\ ClosureTells /\ ToldIsWritten /\ NoSilentClosure
  /\ RowsAreOfLists /\ ListHasSeen /\ EquipmentIsOneList

-----------------------------------------------------------------------------
LEMMA EntryShape ==
  ASSUME NEW x \in {Idle, Undone} \cup Requests \cup EquipmentPuts
  PROVE  /\ x.kind \in EntryKinds \cup {"idle"}
         /\ x.kind \in {"booking", "hold", "lapsed", "closure"} => x \in Requests
         /\ x.kind = "list" => x \in EquipmentPuts
         /\ x.kind = "idle" => x = Idle
<1>1. CASE x \in {Idle, Undone}
  BY <1>1 DEF Idle, Undone, EntryKinds
<1>2. CASE x \in Requests
  BY <1>2 DEF Requests, EntryKinds
<1>3. CASE x \in EquipmentPuts
  BY <1>3 DEF EquipmentPuts, EntryKinds
<1> QED BY <1>1, <1>2, <1>3

LEMMA OpenShape ==
  ASSUME RoomTyped, NEW c \in Callers
  PROVE  /\ open[c] \in {Idle} \cup Requests \cup EquipmentPuts
         /\ open[c].kind \in (EntryKinds \ {"undone"}) \cup {"idle"}
         /\ open[c].kind \in {"booking", "hold", "lapsed", "closure"} => open[c] \in Requests
         /\ open[c].kind = "list" => open[c] \in EquipmentPuts
         /\ open[c].kind = "idle" <=> open[c] = Idle
<1>1. open[c] \in {Idle} \cup Requests \cup EquipmentPuts
  BY DEF RoomTyped
<1>2. open[c].kind # "undone"
  BY <1>1 DEF Idle, Requests, EquipmentPuts
<1>3. Idle.kind = "idle"
  BY DEF Idle
<1> QED BY <1>1, <1>2, <1>3, EntryShape

LEMMA InitRoomInv == RoomInit => RoomInv
<1> SUFFICES ASSUME RoomInit PROVE RoomInv
  OBVIOUS
<1>0. /\ 1 \in Slots /\ LastSlot \in Slots
  BY CalendarAssumption DEF Slots
<1>2. \A c \in Callers : open[c].kind = "idle" /\ entry[c].kind \in {"idle", "undone"}
  BY DEF RoomInit, Idle, Undone
<1>1. RoomTyped
  <2>1. room \in [Rooms -> RoomSettings]
    BY <1>0, CalendarAssumption DEF RoomInit, RoomSettings, Slots
  <2> QED BY <1>2, <2>1 DEF RoomInit, RoomTyped
<1>3. \A r \in Rooms : room[r].with = {}
  BY DEF RoomInit
<1>4. OneRequestEach /\ PastIsWritten
  BY <1>2 DEF OneRequestEach, PastIsWritten, Asked
<1>5. BookingHasPassed /\ ClosureTells /\ ToldIsWritten /\ NoSilentClosure
  BY <1>2 DEF BookingHasPassed, ClosureTells, ToldIsWritten, NoSilentClosure, WrittenAs
<1>6. RowsAreOfLists /\ ListHasSeen /\ EquipmentIsOneList
  BY <1>2, <1>3 DEF RowsAreOfLists, ListHasSeen, EquipmentIsOneList
<1> QED BY <1>1, <1>4, <1>5, <1>6 DEF RoomInv

-----------------------------------------------------------------------------
(* A request that begins has seen all that is written.                            *)
NowWritten == Callers \ WrittenAs({"idle"})

(* What a list tells it goes on to tell, whatever is written, moved and undone.        *)
LEMMA TellsOn ==
  ASSUME NEW e, NEW f, NEW x \in Requests, NEW b \in Callers, TellsIn(e, x, b),
         f[b].from = e[b].from,
         \A row \in x.told :
           \/ f[row[1]] = e[row[1]]
           \/ f[row[1]].kind # "booking" \/ f[row[1]].moved
  PROVE  TellsIn(f, x, b)
BY DEF TellsIn

(* What is there is told, or comes after all that is told.                          *)
LEMMA ListTells ==
  ASSUME RoomTyped, NEW x \in Requests, NEW listing \in Listings(x), NEW y, y.told = listing,
         NEW b \in WrittenAs({"booking"}), Concerns(x, entry[b])
  PROVE  TellsIn(entry, y, b)
<1>1. PICK r \in Rooms : <<b, r>> \in Conflicts(x)
  <2>1. PICK r \in WithParts(entry[b].place) : x.place \in {Everywhere, r}
    BY DEF Concerns, WithParts
  <2>2. r \in Rooms
    BY <2>1, CalendarAssumption DEF RoomTyped, WrittenAs, WithParts
  <2> QED
    BY <2>1, <2>2 DEF Conflicts, WrittenAs, Concerns
<1>2. CASE <<b, r>> \in listing
  BY <1>2 DEF TellsIn, Told
<1>3. CASE <<b, r>> \notin listing
  <2>1. /\ Cardinality(listing) = ListLimit
        /\ \A row \in listing : entry[row[1]].from <= entry[<<b, r>>[1]].from
    BY <1>1, <1>3 DEF Listings
  <2> QED
    BY <2>1 DEF TellsIn
<1> QED
  BY <1>2, <1>3

LEMMA BeginKeeps ==
  ASSUME RoomInv, NEW c \in Callers, NEW x, Begin(c, x), Unused(c),
         x \in Requests \cup EquipmentPuts, x.kind \notin {"idle", "lapsed"},
         x.before = NowWritten,
         x.kind = "booking" => Closed(x.place, x) = {} /\ x.place \in Rooms,
         x.kind = "closure" =>
           /\ \A b \in WrittenAs({"booking"}) : Concerns(x, entry[b]) => TellsIn(entry, x, b)
           /\ \A row \in x.told : entry[row[1]].kind # "idle",
         x.kind = "list" => x.saw = room[x.place].with
  PROVE  RoomInv'
<1>0. /\ open[c].kind = "idle" /\ entry[c].kind = "idle"
      /\ room' = room /\ entry' = entry /\ patched' = patched
      /\ open' = [open EXCEPT ![c] = x]
  BY DEF Begin, Unused, Idle
<1>1. /\ RoomTyped'
      /\ open'[c] = x /\ \A d \in Callers : d # c => open'[d] = open[d]
  BY <1>0 DEF RoomInv, RoomTyped
<1>2. OneRequestEach'
  BY <1>0, <1>1 DEF RoomInv, OneRequestEach
<1>3. \A d \in Callers : d \in NowWritten <=> entry[d].kind # "idle"
  BY DEF NowWritten, WrittenAs
<1>4. PastIsWritten'
  BY <1>0, <1>1, <1>3 DEF RoomInv, PastIsWritten
<1>5. BookingHasPassed'
  <2> SUFFICES ASSUME NEW b \in Callers, NEW k \in Callers,
                      open'[b].kind = "booking", entry[k].kind = "closure", k \in open'[b].before
               PROVE  ~(Meet(open'[b], entry[k]) /\ entry[k].place \in {open'[b].place, Everywhere})
    BY <1>0 DEF BookingHasPassed
  <2>1. CASE b = c
    <3>1. k \notin Closed(x.place, x)
      BY <1>1, <2>1
    <3> QED BY <1>1, <2>1, <3>1 DEF Closed, WrittenAs, Meet
  <2>2. CASE b # c
    BY <1>1, <2>2 DEF RoomInv, BookingHasPassed
  <2> QED BY <2>1, <2>2
<1>6. ClosureTells' /\ ToldIsWritten'
  BY <1>0, <1>1 DEF RoomInv, ClosureTells, ToldIsWritten, WrittenAs
<1>7. ListHasSeen'
  BY <1>0, <1>1 DEF RoomInv, ListHasSeen
<1>8. NoSilentClosure' /\ RowsAreOfLists' /\ EquipmentIsOneList'
  BY <1>0 DEF RoomInv, NoSilentClosure, WrittenAs, Shuts, OffTheList, Crossed, RowsAreOfLists,
              EquipmentIsOneList
<1> QED BY <1>1, <1>2, <1>4, <1>5, <1>6, <1>7, <1>8 DEF RoomInv

LEMMA AskingFacts ==
  ASSUME NEW kind \in {"booking", "hold", "closure"}, NEW r \in Rooms \cup {Everywhere}, NEW s \in Spans
  PROVE  /\ Asking(kind, r, s) \in Requests
         /\ Asking(kind, r, s).kind = kind /\ Asking(kind, r, s).place = r
         /\ Asking(kind, r, s).before = NowWritten
         /\ Asking(kind, r, s).from = s.from /\ Asking(kind, r, s).to = s.to
<1>1. s.from \in Slots /\ s.to \in Slots
  BY DEF Spans
<1> QED BY <1>1 DEF Asking, Requests, NowWritten

LEMMA BeginsKeep ==
  ASSUME RoomInv, NEW c \in Callers, BeginBooking(c) \/ BeginClosure(c) \/ BeginList(c)
  PROVE  RoomInv'
<1>1. CASE BeginBooking(c)
  <2>1. PICK kind \in {"booking", "hold"}, r \in Rooms, s \in Spans :
          Unused(c) /\ Passes(c, Asking(kind, r, s)) /\ Begin(c, Asking(kind, r, s))
    BY <1>1 DEF BeginBooking
  <2> DEFINE x == Asking(kind, r, s)
  <2>2. Closed(x.place, x) = {}
    BY <2>1 DEF Passes
  <2>3. x \in Requests /\ x.kind = kind /\ x.before = NowWritten /\ x.place \in Rooms
    BY AskingFacts
  <2>4. Unused(c) /\ Begin(c, x)
    BY <2>1
  <2> HIDE DEF x
  <2> QED BY <2>2, <2>3, <2>4, BeginKeeps
<1>2. CASE BeginClosure(c)
  <2>1. PICK place \in Rooms \cup {Everywhere}, s \in Spans :
          \E listing \in Listings(Asking("closure", place, s)) :
            Unused(c) /\ Begin(c, [Asking("closure", place, s) EXCEPT !.told = listing])
    BY <1>2 DEF BeginClosure
  <2> DEFINE a == Asking("closure", place, s)
  <2>0. PICK listing \in Listings(a) : Unused(c) /\ Begin(c, [a EXCEPT !.told = listing])
    BY <2>1
  <2> DEFINE x == [a EXCEPT !.told = listing]
  <2>2. a \in Requests /\ a.kind = "closure" /\ a.before = NowWritten
    BY AskingFacts
  <2>3. listing \subseteq Callers \X Rooms /\ \A row \in listing : entry[row[1]].kind # "idle"
    <3>1. listing \subseteq Conflicts(a)
      BY <2>0 DEF Listings
    <3> QED
      BY <3>1 DEF Conflicts
  <2>4. Unused(c) /\ Begin(c, x)
    BY <2>0
  <2> HIDE DEF a
  <2>6. /\ x \in Requests /\ x.kind = "closure" /\ x.before = NowWritten /\ x.told = listing
        /\ x.place = a.place /\ x.from = a.from /\ x.to = a.to
    BY <2>2, <2>3 DEF Requests
  <2> HIDE DEF x
  <2>7. ASSUME NEW b \in WrittenAs({"booking"}), Concerns(x, entry[b]) PROVE TellsIn(entry, x, b)
    <3>1. Concerns(a, entry[b])
      BY <2>6, <2>7 DEF Concerns, Meet
    <3> QED
      BY <2>0, <2>2, <2>6, <3>1, ListTells DEF RoomInv
  <2>8. \A row \in x.told : entry[row[1]].kind # "idle"
    BY <2>3, <2>6
  <2> QED BY <2>4, <2>6, <2>7, <2>8, BeginKeeps
<1>3. CASE BeginList(c)
  <2>1. PICK r \in Rooms, wants \in SUBSET Equipment :
          Unused(c) /\ Begin(c, [kind |-> "list", place |-> r, wants |-> wants, saw |-> room[r].with,
                                 before |-> Callers \ WrittenAs({"idle"})])
    BY <1>3 DEF BeginList
  <2> DEFINE x == [kind |-> "list", place |-> r, wants |-> wants, saw |-> room[r].with,
                   before |-> Callers \ WrittenAs({"idle"})]
  <2>2. room[r].with \subseteq Equipment \X Callers
    BY DEF RoomInv, RoomTyped, RoomSettings
  <2>3. /\ x \in EquipmentPuts /\ x.kind = "list" /\ x.before = NowWritten
        /\ x.saw = room[x.place].with
    BY <2>2 DEF EquipmentPuts, NowWritten
  <2>4. Unused(c) /\ Begin(c, x)
    BY <2>1
  <2> HIDE DEF x
  <2> QED BY <2>3, <2>4, BeginKeeps
<1> QED BY <1>1, <1>2, <1>3

(* What a request leaves that only ends.                                          *)
LEMMA LoseKeeps ==
  ASSUME RoomInv, NEW c \in Callers, Answer(c), UNCHANGED entry
  PROVE  RoomInv'
<1>0. /\ room' = room /\ entry' = entry /\ patched' = patched
      /\ open' = [open EXCEPT ![c] = Idle]
  BY DEF Answer
<1>6. open'[c] = Idle /\ \A d \in Callers : d # c => open'[d] = open[d]
  BY <1>0 DEF RoomInv, RoomTyped
<1>2. open'[c].kind = "idle"
  BY <1>6 DEF Idle
<1>1. RoomTyped' /\ open'[c] = Idle /\ \A d \in Callers : d # c => open'[d] = open[d]
  BY <1>0, <1>2, <1>6 DEF RoomInv, RoomTyped
<1>3. OneRequestEach' /\ PastIsWritten'
  BY <1>0, <1>1, <1>2 DEF RoomInv, OneRequestEach, PastIsWritten, Asked
<1>4. BookingHasPassed' /\ ClosureTells' /\ ToldIsWritten' /\ ListHasSeen'
  BY <1>0, <1>1, <1>2 DEF RoomInv, BookingHasPassed, ClosureTells, ToldIsWritten, ListHasSeen
<1>5. NoSilentClosure' /\ RowsAreOfLists' /\ EquipmentIsOneList'
  BY <1>0 DEF RoomInv, NoSilentClosure, WrittenAs, Shuts, OffTheList, Crossed, RowsAreOfLists,
              EquipmentIsOneList
<1> QED BY <1>1, <1>3, <1>4, <1>5 DEF RoomInv

(* A request writes its entry; what the entry of a list means is the caller's matter. *)
LEMMA FinishFacts ==
  ASSUME RoomInv, NEW c \in Callers, open[c].kind # "idle",
         open' = [open EXCEPT ![c] = Idle], entry' = [entry EXCEPT ![c] = open[c]],
         patched' = patched, room' \in [Rooms -> RoomSettings]
  PROVE  /\ RoomTyped' /\ OneRequestEach' /\ PastIsWritten'
         /\ BookingHasPassed' /\ ClosureTells' /\ ToldIsWritten' /\ NoSilentClosure'
<1>0. entry[c].kind = "idle"
  BY DEF RoomInv, OneRequestEach
<1>11. /\ open'[c] = Idle /\ \A d \in Callers : d # c => open'[d] = open[d]
       /\ entry'[c] = open[c] /\ \A d \in Callers : d # c => entry'[d] = entry[d]
  BY DEF RoomInv, RoomTyped
<1>2. open'[c].kind = "idle" /\ entry'[c].kind # "idle"
  BY <1>11 DEF Idle
<1>1. /\ RoomTyped'
      /\ open'[c] = Idle /\ \A d \in Callers : d # c => open'[d] = open[d]
      /\ entry'[c] = open[c] /\ \A d \in Callers : d # c => entry'[d] = entry[d]
  BY <1>2, <1>11 DEF RoomInv, RoomTyped
<1>3. OneRequestEach'
  BY <1>1, <1>2 DEF RoomInv, OneRequestEach
<1>4. PastIsWritten'
  BY <1>1, <1>2 DEF RoomInv, PastIsWritten, Asked
(* No request had seen this caller's entry.                                      *)
<1>5. \A d \in Callers : /\ Asked(open[d]) => c \notin open[d].before
                         /\ Asked(entry[d]) => c \notin entry[d].before
  BY <1>0 DEF RoomInv, PastIsWritten
<1>10. \A k \in Callers :
         /\ open[k].kind = "closure" =>
              \A row \in open[k].told : row[1] \in Callers \ {c} /\ entry[row[1]].kind # "idle"
         /\ entry[k].kind = "closure" =>
              \A row \in entry[k].told : row[1] \in Callers \ {c} /\ entry[row[1]].kind # "idle"
  <2>1. \A k \in Callers :
          /\ open[k].kind = "closure" => open[k].told \subseteq Callers \X Rooms
          /\ entry[k].kind = "closure" => entry[k].told \subseteq Callers \X Rooms
    BY OpenShape, EntryShape DEF RoomInv, RoomTyped, Requests
  <2> QED BY <1>0, <2>1 DEF RoomInv, ToldIsWritten
<1>6. BookingHasPassed'
  <2> SUFFICES ASSUME NEW b \in Callers, NEW k \in Callers,
                      open'[b].kind = "booking", entry'[k].kind = "closure", k \in open'[b].before
               PROVE  ~(Meet(open'[b], entry'[k]) /\ entry'[k].place \in {open'[b].place, Everywhere})
    BY DEF BookingHasPassed
  <2>1. b # c /\ k # c
    BY <1>1, <1>2, <1>5 DEF Asked
  <2> QED BY <1>1, <2>1 DEF RoomInv, BookingHasPassed
<1>7. ClosureTells'
  <2> SUFFICES ASSUME NEW b \in Callers, NEW k \in Callers,
                      open'[k].kind = "closure", entry'[b].kind = "booking", b \in open'[k].before,
                      Concerns(open'[k], entry'[b])
               PROVE  TellsIn(entry', open'[k], b) \/ entry'[b].moved
    BY DEF ClosureTells
  <2>1. b # c /\ k # c
    BY <1>1, <1>2, <1>5 DEF Asked
  <2>2. TellsIn(entry, open[k], b) \/ entry[b].moved
    BY <1>1, <2>1 DEF RoomInv, ClosureTells
  <2>3. \A row \in open[k].told : entry'[row[1]] = entry[row[1]]
    BY <1>1, <2>1, <1>10 DEF RoomInv, ToldIsWritten
  <2>4. open[k] \in Requests
    BY <1>1, <2>1, OpenShape DEF RoomInv
  <2> QED BY <1>1, <2>1, <2>2, <2>3, <2>4, TellsOn
<1>8. NoSilentClosure'
  <2> SUFFICES ASSUME NEW b \in Callers, NEW k \in Callers,
                      entry'[b].kind = "booking", entry'[k].kind = "closure",
                      Meet(entry'[b], entry'[k]),
                      entry'[k].place \in {Everywhere, entry'[b].place} \cup PartsOf[entry'[b].place],
                      ~TellsIn(entry', entry'[k], b), ~entry'[b].moved,
                      k \in entry'[b].before \/ b \in entry'[k].before
               PROVE  k \in entry'[b].before /\ entry'[k].place \in PartsOf[entry'[b].place]
    BY DEF NoSilentClosure, WrittenAs, Shuts, Crossed, OffTheList, TellsIn
  <2>1. CASE b = c
    <3>1. k # c /\ entry'[k] = entry[k] /\ entry'[b] = open[b]
      BY <1>1, <2>1
    <3>2. b \notin entry'[k].before
      BY <1>5, <2>1, <3>1 DEF Asked
    <3> QED BY <3>1, <3>2 DEF RoomInv, BookingHasPassed
  <2>2. CASE k = c
    <3>1. b # c /\ entry'[b] = entry[b] /\ entry'[k] = open[k]
      BY <1>1, <2>2
    <3>2. k \notin entry'[b].before
      BY <1>5, <2>2, <3>1 DEF Asked
    <3>3. TellsIn(entry, open[k], b) => TellsIn(entry', open[k], b)
      <4>1. \A row \in open[k].told : entry'[row[1]] = entry[row[1]]
        BY <1>1, <1>10, <2>2, <3>1
      <4>2. open[k] \in Requests
        BY <3>1, OpenShape DEF RoomInv
      <4> QED BY <3>1, <4>1, <4>2, TellsOn
    <3> QED BY <3>1, <3>2, <3>3 DEF RoomInv, ClosureTells, Concerns
  <2>3. CASE b # c /\ k # c
    <3>1. entry'[b] = entry[b] /\ entry'[k] = entry[k]
      BY <1>1, <2>3
    <3>3. TellsIn(entry, entry[k], b) => TellsIn(entry', entry[k], b)
      <4>1. \A row \in entry[k].told : entry'[row[1]] = entry[row[1]]
        BY <1>1, <1>10, <3>1
      <4>2. entry[k] \in Requests
        BY <3>1, EntryShape DEF RoomInv, RoomTyped
      <4> QED BY <3>1, <4>1, <4>2, TellsOn
    <3>2. (~TellsIn(entry, entry[k], b) /\ ~entry[b].moved /\ ~Crossed(b, k) /\ Shuts(k, b)) =>
            k \in entry[b].before /\ entry[k].place \in PartsOf[entry[b].place]
      BY <3>1 DEF RoomInv, NoSilentClosure, WrittenAs, OffTheList, TellsIn
    <3> QED BY <3>1, <3>2, <3>3 DEF Shuts, Crossed
  <2> QED BY <2>1, <2>2, <2>3
<1>9. ToldIsWritten'
  BY <1>1, <1>2, <1>10 DEF ToldIsWritten
<1> QED BY <1>1, <1>3, <1>4, <1>6, <1>7, <1>8, <1>9

LEMMA FinishKeeps ==
  ASSUME RoomInv, NEW c \in Callers, FinishBooking(c) \/ FinishClosure(c)
  PROVE  RoomInv'
<1>1. /\ Answer(c) /\ open[c].kind \in {"booking", "hold", "closure"}
      /\ entry' \in {entry, [entry EXCEPT ![c] = open[c]]}
  BY DEF FinishBooking, FinishClosure
<1>2. CASE entry' = entry
  BY <1>1, <1>2, LoseKeeps
<1>3. CASE entry' = [entry EXCEPT ![c] = open[c]]
  <2>1. /\ room' = room /\ patched' = patched /\ open' = [open EXCEPT ![c] = Idle]
    BY <1>1 DEF Answer
  <2>2. room' \in [Rooms -> RoomSettings]
    BY <2>1 DEF RoomInv, RoomTyped
  <2>3. /\ RoomTyped' /\ OneRequestEach' /\ PastIsWritten'
        /\ BookingHasPassed' /\ ClosureTells' /\ ToldIsWritten' /\ NoSilentClosure'
    BY <1>1, <1>3, <2>1, <2>2, FinishFacts
  <2>4. /\ open'[c] = Idle /\ \A d \in Callers : d # c => open'[d] = open[d]
        /\ \A d \in Callers : d # c => entry'[d] = entry[d]
    BY <1>3, <2>1 DEF RoomInv, RoomTyped
  <2>5. entry[c].kind = "idle" /\ open'[c].kind = "idle"
    BY <1>1, <2>4 DEF RoomInv, OneRequestEach, Idle
  <2>6. \A r \in Rooms : \A e \in room[r].with : e[2] \in Callers /\ e[2] # c
    BY <2>5 DEF RoomInv, RoomTyped, RoomSettings, RowsAreOfLists
  <2>7. RowsAreOfLists' /\ EquipmentIsOneList'
    BY <2>1, <2>4, <2>6 DEF RoomInv, RowsAreOfLists, EquipmentIsOneList, Crossed
  <2>8. ListHasSeen'
    BY <2>1, <2>4, <2>5 DEF RoomInv, ListHasSeen
  <2> QED BY <2>3, <2>7, <2>8 DEF RoomInv
<1> QED BY <1>1, <1>2, <1>3

LEMMA FinishListKeeps ==
  ASSUME RoomInv, NEW c \in Callers, FinishList(c)
  PROVE  RoomInv'
<1> DEFINE q == open[c]
           left == room[q.place].with \ q.saw
<1>1. /\ q.kind = "list" /\ open' = [open EXCEPT ![c] = Idle] /\ patched' = patched
  BY DEF FinishList
<1>2. CASE UNCHANGED <<room, entry>>
  BY <1>1, <1>2, LoseKeeps DEF Answer
<1>3. CASE /\ room' = [room EXCEPT ![q.place].with = left \cup (q.wants \X {c})]
           /\ entry' = [entry EXCEPT ![c] = q]
  <2>1. q \in EquipmentPuts /\ q.place \in Rooms /\ q.wants \subseteq Equipment
    BY <1>1, OpenShape DEF RoomInv, EquipmentPuts
  <2>2. /\ room[q.place] \in RoomSettings /\ left \cup (q.wants \X {c}) \subseteq Equipment \X Callers
    BY <2>1 DEF RoomInv, RoomTyped, RoomSettings
  <2>3. /\ room' \in [Rooms -> RoomSettings]
        /\ room'[q.place].with = left \cup (q.wants \X {c})
        /\ \A r \in Rooms : r # q.place => room'[r] = room[r]
    BY <1>3, <2>1, <2>2 DEF RoomInv, RoomTyped, RoomSettings
  <2>4. /\ RoomTyped' /\ OneRequestEach' /\ PastIsWritten'
        /\ BookingHasPassed' /\ ClosureTells' /\ ToldIsWritten' /\ NoSilentClosure'
    BY <1>1, <1>3, <2>3, FinishFacts
  <2>5. /\ open'[c] = Idle /\ \A d \in Callers : d # c => open'[d] = open[d]
        /\ entry'[c] = q /\ \A d \in Callers : d # c => entry'[d] = entry[d]
    BY <1>1, <1>3 DEF RoomInv, RoomTyped
  <2>6. entry[c].kind = "idle" /\ open'[c].kind = "idle"
    BY <1>1, <2>5 DEF RoomInv, OneRequestEach, Idle
  <2>7. \A r \in Rooms : \A e \in room[r].with :
          e[2] \in Callers /\ e[2] # c /\ entry[e[2]].kind = "list"
    BY <2>6 DEF RoomInv, RoomTyped, RoomSettings, RowsAreOfLists
  <2>8. \A r \in Rooms : \A e \in room'[r].with :
          \/ e \in room[r].with /\ (r = q.place => e \notin q.saw)
          \/ r = q.place /\ e[2] = c
    BY <2>3
  <2>9. RowsAreOfLists'
    BY <1>1, <2>5, <2>7, <2>8 DEF RowsAreOfLists
  (* What is left was written by requests that this one has not seen.              *)
  <2>10. \A e \in left : e[2] \notin q.before /\ c \notin entry[e[2]].before
    BY <1>1, <2>1, <2>6, <2>7 DEF RoomInv, ListHasSeen, PastIsWritten, Asked
  <2>11. EquipmentIsOneList'
    <3> SUFFICES ASSUME NEW r \in Rooms, NEW e \in room'[r].with, NEW f \in room'[r].with, e[2] # f[2]
                 PROVE  f[2] \notin entry'[e[2]].before /\ e[2] \notin entry'[f[2]].before
      BY DEF EquipmentIsOneList, Crossed
    <3>1. CASE e[2] = c
      <4>1. f \in room[r].with /\ r = q.place /\ f \in left
        BY <2>7, <2>8, <3>1
      <4> QED BY <2>5, <2>7, <2>10, <3>1, <4>1
    <3>2. CASE f[2] = c
      <4>1. e \in room[r].with /\ r = q.place /\ e \in left
        BY <2>7, <2>8, <3>2
      <4> QED BY <2>5, <2>7, <2>10, <3>2, <4>1
    <3>3. CASE e[2] # c /\ f[2] # c
      <4>1. e \in room[r].with /\ f \in room[r].with
        BY <2>8, <3>3
      <4> QED BY <2>5, <2>7, <3>3, <4>1 DEF RoomInv, EquipmentIsOneList, Crossed
    <3> QED BY <3>1, <3>2, <3>3
  <2>12. ListHasSeen'
    <3> SUFFICES ASSUME NEW d \in Callers, open'[d].kind = "list",
                        NEW e \in room'[open'[d].place].with, e[2] \in open'[d].before
                 PROVE  e \in open'[d].saw
      BY DEF ListHasSeen
    <3>1. d # c /\ open'[d] = open[d]
      BY <2>5, <2>6
    <3>2. open[d].place \in Rooms
      BY <3>1, OpenShape DEF RoomInv, EquipmentPuts
    <3>3. e[2] # c
      BY <2>6, <3>1 DEF RoomInv, PastIsWritten, Asked
    <3>4. e \in room[open[d].place].with
      BY <2>8, <3>1, <3>2, <3>3
    <3> QED BY <3>1, <3>4 DEF RoomInv, ListHasSeen
  <2> QED BY <2>4, <2>9, <2>11, <2>12 DEF RoomInv
<1> QED BY <1>2, <1>3 DEF FinishList

-----------------------------------------------------------------------------
(* A booking moves, or ends; a hold ends.                                        *)
LEMMA RewriteKeeps ==
  ASSUME RoomInv, NEW c \in Callers, NEW new, Rewrite(c, new),
         entry[c].kind \in {"booking", "hold", "lapsed"},
         \/ new = Undone
         \/ /\ new \in Requests /\ new.kind = entry[c].kind /\ new.before = entry[c].before
            /\ new.kind = "booking" /\ new.moved /\ new.place = entry[c].place
         \/ /\ new \in Requests /\ new.kind = "lapsed" /\ new.before = entry[c].before
  PROVE  RoomInv'
<1>0. /\ room' = room /\ open' = open /\ patched' = patched /\ entry' = [entry EXCEPT ![c] = new]
  BY DEF Rewrite
<1>12. new.kind = "booking" => new.place = entry[c].place /\ entry[c].kind = "booking"
  BY DEF Undone
<1>13. entry'[c] = new /\ \A d \in Callers : d # c => entry'[d] = entry[d]
  BY <1>0 DEF RoomInv, RoomTyped
<1>1. RoomTyped' /\ entry'[c] = new /\ \A d \in Callers : d # c => entry'[d] = entry[d]
  BY <1>0, <1>12, <1>13 DEF RoomInv, RoomTyped
<1>2. new.kind = "undone" \/ (new.kind = "booking" /\ new.moved) \/ new.kind = "lapsed"
  BY DEF Undone
<1>3. OneRequestEach'
  BY <1>0, <1>1, <1>2 DEF RoomInv, OneRequestEach
<1>4. PastIsWritten'
  BY <1>0, <1>1, <1>2 DEF RoomInv, PastIsWritten, Asked, Undone
<1>5. BookingHasPassed'
  BY <1>0, <1>1, <1>2 DEF RoomInv, BookingHasPassed
<1>10. ASSUME NEW x \in Requests, NEW b \in Callers \ {c}, x.told \subseteq Callers \X Rooms,
              TellsIn(entry, x, b)
       PROVE  TellsIn(entry', x, b)
  <2>1. \A row \in x.told : \/ entry'[row[1]] = entry[row[1]]
                           \/ entry'[row[1]].kind # "booking" \/ entry'[row[1]].moved
    BY <1>1, <1>2, <1>10
  <2> QED BY <1>1, <1>10, <2>1, TellsOn
<1>6. ClosureTells'
  <2> SUFFICES ASSUME NEW b \in Callers, NEW k \in Callers,
                      open[k].kind = "closure", entry'[b].kind = "booking", b \in open[k].before,
                      Concerns(open[k], entry'[b]), ~entry'[b].moved
               PROVE  TellsIn(entry', open[k], b)
    BY <1>0 DEF ClosureTells
  <2>1. b # c /\ entry'[b] = entry[b]
    BY <1>1, <1>2
  <2>2. TellsIn(entry, open[k], b)
    BY <2>1 DEF RoomInv, ClosureTells
  <2>3. open[k] \in Requests /\ open[k].told \subseteq Callers \X Rooms
    BY OpenShape DEF RoomInv, Requests
  <2> QED BY <1>10, <2>1, <2>2, <2>3
<1>7. NoSilentClosure'
  <2> SUFFICES ASSUME NEW b \in Callers, NEW k \in Callers,
                      entry'[b].kind = "booking", entry'[k].kind = "closure", Shuts(k, b)',
                      ~TellsIn(entry', entry'[k], b), ~entry'[b].moved, ~Crossed(b, k)'
               PROVE  k \in entry'[b].before /\ entry'[k].place \in PartsOf[entry'[b].place]
    BY DEF NoSilentClosure, WrittenAs, OffTheList, TellsIn
  <2>1. /\ b # c /\ entry'[b] = entry[b] /\ k # c /\ entry'[k] = entry[k]
    BY <1>1, <1>2
  <2>2. entry[k] \in Requests /\ entry[k].told \subseteq Callers \X Rooms
    BY <2>1, EntryShape DEF RoomInv, RoomTyped, Requests
  <2>3. ~TellsIn(entry, entry[k], b)
    BY <1>10, <2>1, <2>2
  <2>4. Shuts(k, b) /\ ~Crossed(b, k)
    BY <2>1 DEF Shuts, Crossed
  <2> QED BY <2>1, <2>3, <2>4 DEF RoomInv, NoSilentClosure, WrittenAs, OffTheList, TellsIn
<1>11. ToldIsWritten'
  BY <1>0, <1>1, <1>2 DEF RoomInv, ToldIsWritten
<1>8. \A r \in Rooms : \A e \in room[r].with : e[2] \in Callers /\ e[2] # c
  BY DEF RoomInv, RoomTyped, RoomSettings, RowsAreOfLists
<1>9. RowsAreOfLists' /\ EquipmentIsOneList' /\ ListHasSeen'
  BY <1>0, <1>1, <1>8 DEF RoomInv, RowsAreOfLists, EquipmentIsOneList, ListHasSeen, Crossed
<1> QED BY <1>1, <1>3, <1>4, <1>5, <1>6, <1>7, <1>9, <1>11 DEF RoomInv

LEMMA RewritesKeep ==
  ASSUME RoomInv, NEW c \in Callers, Move(c) \/ Undo(c) \/ Lapse(c)
  PROVE  RoomInv'
<1>0. entry[c].kind \in {"booking", "hold", "lapsed"} => entry[c] \in Requests
  BY EntryShape DEF RoomInv, RoomTyped
<1>1. CASE Move(c)
  <2>1. PICK s \in Spans :
          /\ entry[c].kind = "booking"
          /\ Rewrite(c, [entry[c] EXCEPT !.from = s.from, !.to = s.to, !.moved = TRUE])
    BY <1>1 DEF Move
  <2> DEFINE e == entry[c]
             new == [e EXCEPT !.from = s.from, !.to = s.to, !.moved = TRUE]
  <2>2. e \in Requests /\ e.kind = "booking" /\ s.from \in Slots /\ s.to \in Slots
    BY <1>0, <2>1 DEF Spans
  <2>3. Rewrite(c, new)
    BY <2>1
  <2> HIDE DEF e
  <2>4. new \in Requests /\ new.kind = "booking" /\ new.before = e.before /\ new.moved
        /\ new.place = e.place
    BY <2>2 DEF Requests
  <2> HIDE DEF new
  <2> QED BY <2>1, <2>2, <2>3, <2>4, RewriteKeeps DEF e
<1>2. CASE Undo(c)
  BY <1>2, RewriteKeeps DEF Undo
<1>3. CASE Lapse(c)
  <2> DEFINE e == entry[c]
             new == [e EXCEPT !.kind = "lapsed"]
  <2>1. e \in Requests /\ e.kind = "hold" /\ Rewrite(c, new)
    BY <1>0, <1>3 DEF Lapse
  <2> HIDE DEF e
  <2>2. new \in Requests /\ new.kind = "lapsed" /\ new.before = e.before
    BY <2>1 DEF Requests
  <2> HIDE DEF new
  <2> QED BY <2>1, <2>2, RewriteKeeps DEF e
<1> QED BY <1>1, <1>2, <1>3

LEMMA PatchRoomKeeps ==
  ASSUME RoomInv, NEW r \in Rooms, PatchRoom(r)
  PROVE  RoomInv'
<1>1. PICK b \in BOOLEAN, short \in Slots, long \in Slots :
        short <= long /\
        room' = [room EXCEPT ![r].bookable = b, ![r].shortest = short, ![r].longest = long]
  BY DEF PatchRoom
<1>2. open' = open /\ entry' = entry
  BY DEF PatchRoom
<1>3. room[r] \in RoomSettings
  BY DEF RoomInv, RoomTyped
<1>4. room' \in [Rooms -> RoomSettings] /\ \A s \in Rooms : room'[s].with = room[s].with
  BY <1>1, <1>3 DEF RoomInv, RoomTyped, RoomSettings
<1>5. patched' \in 0..MaxSettings
  BY CalendarAssumption DEF PatchRoom, RoomInv, RoomTyped
<1>6. RoomTyped'
  BY <1>2, <1>4, <1>5 DEF RoomInv, RoomTyped
<1>7. /\ OneRequestEach' /\ PastIsWritten' /\ BookingHasPassed' /\ ClosureTells' /\ ToldIsWritten'
      /\ NoSilentClosure'
  BY <1>2 DEF RoomInv, OneRequestEach, PastIsWritten, BookingHasPassed, ClosureTells, ToldIsWritten,
              NoSilentClosure, WrittenAs, Shuts, OffTheList, Crossed
<1>8. RowsAreOfLists' /\ EquipmentIsOneList'
  BY <1>2, <1>4 DEF RoomInv, RowsAreOfLists, EquipmentIsOneList, Crossed
<1>9. ListHasSeen'
  <2>1. \A d \in Callers : open[d].kind = "list" => open[d].place \in Rooms
    BY OpenShape DEF RoomInv, EquipmentPuts
  <2> QED BY <1>2, <1>4, <2>1 DEF RoomInv, ListHasSeen
<1> QED BY <1>6, <1>7, <1>8, <1>9 DEF RoomInv

LEMMA RoomInvIsKept == RoomInv /\ [RoomNext]_roomVars => RoomInv'
<1> SUFFICES ASSUME RoomInv, [RoomNext]_roomVars PROVE RoomInv'
  OBVIOUS
<1>1. ASSUME NEW c \in Callers,
             \/ BeginBooking(c) \/ FinishBooking(c) \/ BeginClosure(c) \/ FinishClosure(c)
             \/ BeginList(c) \/ FinishList(c) \/ Lose(c) \/ Move(c) \/ Undo(c) \/ Lapse(c)
      PROVE  RoomInv'
  <2>1. CASE Lose(c)
    BY <2>1, LoseKeeps DEF Lose
  <2> QED BY <1>1, <2>1, BeginsKeep, FinishKeeps, FinishListKeeps, RewritesKeep
<1>2. CASE UNCHANGED roomVars
  BY <1>2 DEF roomVars, RoomInv, RoomTyped, OneRequestEach, PastIsWritten, BookingHasPassed,
              ClosureTells, ToldIsWritten, NoSilentClosure, WrittenAs, Shuts, OffTheList, Crossed,
              RowsAreOfLists, ListHasSeen, EquipmentIsOneList
<1> QED BY <1>1, <1>2, PatchRoomKeeps DEF RoomNext

-----------------------------------------------------------------------------
(* What the calendar of a single room offers is free, whatever is written.           *)
LEMMA OffersFollow == RoomTyped => OffersAreAccepted
<1> SUFFICES ASSUME RoomTyped, NEW r \in Rooms, NEW c \in Callers, NEW n \in Offered(r),
                    PartsOf[r] = {}, 1 \in room[r].shortest..room[r].longest
             PROVE  Passes(c, Asking("booking", r, Slot(n))) /\ Fits(c, Asking("booking", r, Slot(n)))
  BY DEF OffersAreAccepted
<1> DEFINE x == Asking("booking", r, Slot(n))
<1>1. n \in Slots /\ room[r].bookable /\ Busy(r, Slot(n)) = {}
  BY DEF Offered
<1>2. x.place = r /\ x.from = n /\ x.to = n /\ Slot(n).from = n /\ Slot(n).to = n
  BY DEF Asking, Slot
<1>3. n \in Nat
  BY <1>1 DEF Slots
<1> HIDE DEF x
<1>4. Taken(r, x) = {} /\ Held(r, x) = {} /\ Closed(r, x) = {}
  BY <1>1, <1>2 DEF Busy, Taken, Held, Closed, Meet
<1>5. WithParts(r) = {r}
  BY DEF WithParts
<1>6. {e \in Callers \X WithParts(r) : e[1] \in Taken(e[2], x)} = {}
  BY <1>4, <1>5
<1>7. Cardinality({}) = 0 /\ Capacity[r] \in Nat \ {0}
  BY FS_EmptySet, CalendarAssumption
<1>8. x.to - x.from + 1 \in room[r].shortest..room[r].longest
  BY <1>2, <1>3
<1>9. Passes(c, x)
  <2>1. Cardinality({e \in Callers \X WithParts(x.place) : e[1] \in Taken(e[2], x)}) < Capacity[x.place]
    BY <1>2, <1>6, <1>7
  <2> QED BY <1>1, <1>2, <1>4, <1>8, <2>1 DEF Passes
<1>10. Fits(c, x)
  BY <1>2, <1>4, <1>5 DEF Fits
<1> QED BY <1>9, <1>10 DEF x

(* GET availability, check_resource_availability, the closures with their                *)
(* acknowledgement and PUT amenities, none of which locks a room: no closure is silent     *)
(* but for the named crossings, what a calendar offers is accepted, and the equipment is   *)
(* one list.                                                                 *)
THEOREM CalendarsAreSound == RoomSpec => []CalendarIsSound
<1>1. RoomInv => CalendarIsSound
  BY OffersFollow DEF RoomInv, CalendarIsSound
<1> QED BY <1>1, InitRoomInv, RoomInvIsKept, PTL DEF RoomSpec

-----------------------------------------------------------------------------
(* The settings of a tenant *)

LineShape ==
  [there : {"none", "live", "gone"}, place : Places, key : KeyNames \cup {AnyKey},
   flag : BOOLEAN, need : BOOLEAN, active : BOOLEAN, crossed : BOOLEAN]
Posts == [kind : {"post"}, user : Users, form : Forms]
Patches == [kind : {"patch"}, user : Users, id : Lines, asks : Changes, fresh : BOOLEAN]
Deletes == [kind : {"delete"}, user : Users, id : Lines]
Takes == [kind : {"take"}, id : Lines, flag : BOOLEAN, need : BOOLEAN]

SettingTyped ==
  /\ kept \in SettingKinds /\ filed \in 0..MaxFiled
  /\ line \in [Lines -> LineShape]
  /\ desk \in [Offices -> {NoRequest} \cup Posts \cup Patches \cup Deletes \cup Takes]
  /\ sold \in [Lines -> {"never", "free", "priced", "unpriced"}]

(* The unique index of the table.                                               *)
RowsAreUnique ==
  \A i, j \in Lines :
    i # j /\ InIndex(kept, line[i]) /\ InIndex(kept, line[j]) =>
      ~(line[i].place = line[j].place /\ line[i].key = line[j].key)

(* What a request was judged by still holds, unless somebody wrote the row since then.   *)
RequestInv(q) ==
  /\ q.kind = "post" => Sensible(kept, FromForm(kept, q.form))
  /\ q.kind = "patch" =>
       /\ DOMAIN q.asks \subseteq Patchable(kept)
       /\ q.fresh => Judged(kept, line[q.id], q.asks)
  /\ q.kind = "take" =>
       /\ line[q.id].there # "none"
       /\ q.flag /\ ~q.need => line[q.id].crossed

SettingsInv ==
  /\ SettingTyped /\ RowsAreUnique /\ RulesHold
  /\ \A c \in Offices : RequestInv(desk[c])
  /\ \A i \in Lines : line[i].there = "none" => sold[i] = "never"

-----------------------------------------------------------------------------
LEMMA LeastLine == ASSUME NEW S \in SUBSET Nat, S # {} PROVE Min(S) \in S
<1>1. PICK x \in S : \A y \in S : ~(<<y, x>> \in OpToRel(<, Nat))
  BY WFMin, NatLessThanWellFounded
<1>2. \A y \in S : x <= y
  <2> SUFFICES ASSUME NEW y \in S PROVE x <= y
    OBVIOUS
  <2>1. x \in Nat /\ y \in Nat /\ ~(y < x)
    BY <1>1 DEF OpToRel
  <2> QED BY <2>1
<1> QED BY <1>2 DEF Min

LEMMA DeskShape ==
  ASSUME SettingTyped, NEW c \in Offices
  PROVE  /\ desk[c].kind = "none" <=> desk[c] = NoRequest
         /\ desk[c].kind = "post" => desk[c] \in Posts
         /\ desk[c].kind = "patch" => desk[c] \in Patches
         /\ desk[c].kind = "delete" => desk[c] \in Deletes
         /\ desk[c].kind = "take" => desk[c] \in Takes
         /\ desk[c].kind \in {"none", "post", "patch", "delete", "take"}
<1> DEFINE q == desk[c]
<1>0. q \in {NoRequest} \cup Posts \cup Patches \cup Deletes \cup Takes
  BY DEF SettingTyped
<1> HIDE DEF q
<1>1. CASE q = NoRequest
  BY <1>1 DEF NoRequest, q
<1>2. CASE q \in Posts
  BY <1>2 DEF Posts, NoRequest, q
<1>3. CASE q \in Patches
  BY <1>3 DEF Patches, NoRequest, q
<1>4. CASE q \in Deletes
  BY <1>4 DEF Deletes, NoRequest, q
<1>5. CASE q \in Takes
  BY <1>5 DEF Takes, NoRequest, q
<1> QED BY <1>0, <1>1, <1>2, <1>3, <1>4, <1>5

LEMMA FormFacts ==
  ASSUME NEW t \in SettingKinds, NEW form \in Forms
  PROVE  /\ FromForm(t, form) \in LineShape
         /\ FromForm(t, form).there = "live" /\ FromForm(t, form).place = form.place
         /\ ~FromForm(t, form).crossed
<1>1. form \in [place : Places, key : KeyNames \cup {AnyKey}, flag : BOOLEAN, need : BOOLEAN]
  BY SettingsAssumption
<1>2. NoLine \in LineShape /\ ~NoLine.crossed
  BY DEF NoLine, LineShape, Places
<1> QED BY <1>1, <1>2 DEF FromForm, LineShape

LEMMA AskedFacts ==
  ASSUME NEW old \in LineShape, NEW asks \in Changes, NEW t \in SettingKinds,
         DOMAIN asks \subseteq Patchable(t)
  PROVE  /\ WithAsked(old, asks) \in LineShape
         /\ WithAsked(old, asks).there = old.there /\ WithAsked(old, asks).crossed = old.crossed
<1> DEFINE new == WithAsked(old, asks)
<1>1. DOMAIN old = {"there", "place", "key", "flag", "need", "active", "crossed"}
  BY DEF LineShape
<1>2. \A f \in DOMAIN old : new[f] = IF f \in DOMAIN asks THEN asks[f] ELSE old[f]
  BY DEF WithAsked
<1>3. "there" \notin DOMAIN asks /\ "crossed" \notin DOMAIN asks
  BY DEF Patchable, SettingKinds
<1>4. \A f \in DOMAIN asks : f \in DOMAIN Settable /\ asks[f] \in Settable[f]
  BY SettingsAssumption
<1>5. new = [there |-> new.there, place |-> new.place, key |-> new.key, flag |-> new.flag,
             need |-> new.need, active |-> new.active, crossed |-> new.crossed]
  BY <1>1 DEF WithAsked
<1>6. new.there = old.there /\ new.crossed = old.crossed
  BY <1>1, <1>2, <1>3
<1>7. /\ new.place \in Places /\ new.key \in KeyNames \cup {AnyKey}
      /\ new.flag \in BOOLEAN /\ new.need \in BOOLEAN /\ new.active \in BOOLEAN
  BY <1>1, <1>2, <1>4 DEF Settable, LineShape
<1> HIDE DEF new
<1>8. new \in LineShape
  BY <1>5, <1>6, <1>7 DEF LineShape
<1> QED BY <1>6, <1>8 DEF new

-----------------------------------------------------------------------------
LEMMA InitSettingsInv == SettingsInit => SettingsInv
<1> SUFFICES ASSUME SettingsInit PROVE SettingsInv
  OBVIOUS
<1>1. PICK form \in Forms :
        /\ Sensible(kept, FromForm(kept, form))
        /\ line = [i \in Lines |-> IF i = 1 THEN FromForm(kept, form) ELSE NoLine]
  BY DEF SettingsInit
<1>2. NoLine \in LineShape /\ NoLine.there = "none" /\ ~NoLine.crossed
  BY DEF NoLine, LineShape, Places
<1>3. kept \in SettingKinds /\ FromForm(kept, form) \in LineShape
  BY FormFacts DEF SettingsInit
<1>4. line \in [Lines -> LineShape]
  BY <1>1, <1>2, <1>3
<1>5. SettingTyped
  BY <1>3, <1>4, SettingsAssumption DEF SettingsInit, SettingTyped
<1>6. \A i \in Lines : line[i].there # "none" => i = 1 /\ Sensible(kept, line[i])
  BY <1>1, <1>2
<1>7. RowsAreUnique
  BY <1>6 DEF RowsAreUnique, InIndex
<1>8. RulesHold
  BY <1>6 DEF RulesHold, SettingsInit
<1>9. \A c \in Offices : RequestInv(desk[c])
  BY DEF SettingsInit, RequestInv, NoRequest
<1> QED BY <1>5, <1>7, <1>8, <1>9 DEF SettingsInv, SettingsInit

(* The variables of a request that begins.                                        *)
LEMMA OpenKeeps ==
  ASSUME SettingsInv, NEW c \in Offices, NEW q \in Posts \cup Patches \cup Deletes \cup Takes,
         RequestInv(q), Open(c, q)
  PROVE  SettingsInv'
<1>1. /\ kept' = kept /\ line' = line /\ sold' = sold /\ filed' \in 0..MaxFiled
      /\ desk' = [desk EXCEPT ![c] = q]
  BY SettingsAssumption DEF Open, SettingsInv, SettingTyped
<1>2. SettingTyped'
  BY <1>1 DEF SettingsInv, SettingTyped
<1>3. \A d \in Offices : desk'[d] = q \/ desk'[d] = desk[d]
  BY <1>1 DEF SettingsInv, SettingTyped
<1>4. \A d \in Offices : RequestInv(desk'[d])
  BY <1>3 DEF SettingsInv
<1>5. \A d \in Offices : RequestInv(desk[d])'
  BY <1>1, <1>4 DEF RequestInv
<1>6. RowsAreUnique' /\ RulesHold'
  BY <1>1 DEF SettingsInv, RowsAreUnique, RulesHold
<1> QED BY <1>1, <1>2, <1>5, <1>6 DEF SettingsInv

LEMMA TurnDownKeeps ==
  ASSUME SettingsInv, NEW c \in Offices, Close(c), line' = line,
         sold' \in [Lines -> {"never", "free", "priced", "unpriced"}],
         \A i \in Lines : sold'[i] = sold[i] \/ (line[i].there # "none"
                                                 /\ (sold'[i] = "unpriced" => line[i].crossed))
  PROVE  SettingsInv'
<1>1. kept' = kept /\ filed' = filed /\ desk' = [desk EXCEPT ![c] = NoRequest]
  BY DEF Close
<1>2. SettingTyped'
  BY <1>1 DEF SettingsInv, SettingTyped
<1>3. \A d \in Offices : desk'[d] = NoRequest \/ desk'[d] = desk[d]
  BY <1>1 DEF SettingsInv, SettingTyped
<1>4. \A d \in Offices : RequestInv(desk'[d])
  BY <1>3 DEF SettingsInv, RequestInv, NoRequest
<1>5. \A d \in Offices : RequestInv(desk[d])'
  BY <1>1, <1>4 DEF RequestInv
<1>6. RowsAreUnique' /\ RulesHold'
  BY <1>1 DEF SettingsInv, RowsAreUnique, RulesHold
<1> QED BY <1>1, <1>2, <1>5, <1>6 DEF SettingsInv

(* A row is written: what a request had read of it is old from now on.              *)
LEMMA PutKeeps ==
  ASSUME SettingsInv, NEW c \in Offices, NEW i \in Lines, NEW new \in LineShape, Put(c, i, new),
         new.there # "none", NoDuplicate(i, new) \/ new.there = "gone",
         new.there = "live" /\ ~Sensible(kept, new) => new.crossed,
         line[i].there # "none" /\ line[i].crossed => new.crossed
  PROVE  SettingsInv'
<1>1. /\ kept' = kept /\ sold' = sold /\ filed' = filed /\ line' = [line EXCEPT ![i] = new]
      /\ desk' = [d \in Offices |->
           IF d = c THEN NoRequest
           ELSE IF desk[d].kind = "patch" /\ desk[d].id = i THEN [desk[d] EXCEPT !.fresh = FALSE]
           ELSE desk[d]]
  BY DEF Put
<1>2. /\ line' \in [Lines -> LineShape] /\ line'[i] = new
      /\ \A j \in Lines : j # i => line'[j] = line[j]
  BY <1>1 DEF SettingsInv, SettingTyped
<1>3. ASSUME NEW d \in Offices
      PROVE  /\ desk'[d] \in {NoRequest} \cup Posts \cup Patches \cup Deletes \cup Takes
             /\ \/ desk'[d] = NoRequest
                \/ /\ desk[d].kind = "patch" /\ desk[d].id = i /\ desk[d] \in Patches
                   /\ desk'[d] = [desk[d] EXCEPT !.fresh = FALSE]
                \/ desk'[d] = desk[d] /\ (desk[d].kind = "patch" => desk[d].id # i)
  <2>1. desk[d].kind = "patch" => desk[d] \in Patches
    BY DeskShape DEF SettingsInv
  <2>2. desk[d] \in {NoRequest} \cup Posts \cup Patches \cup Deletes \cup Takes
    BY DEF SettingsInv, SettingTyped
  <2>3. desk[d] \in Patches => [desk[d] EXCEPT !.fresh = FALSE] \in Patches
    BY DEF Patches
  <2> QED BY <1>1, <2>1, <2>2, <2>3
<1>4. SettingTyped'
  <2>1. desk' \in [Offices -> {NoRequest} \cup Posts \cup Patches \cup Deletes \cup Takes]
    BY <1>1, <1>3
  <2> QED BY <1>1, <1>2, <2>1 DEF SettingsInv, SettingTyped
<1>5. RowsAreUnique'
  <2> SUFFICES ASSUME NEW j \in Lines, NEW k \in Lines, j # k,
                      InIndex(kept, line'[j]), InIndex(kept, line'[k]),
                      line'[j].place = line'[k].place, line'[j].key = line'[k].key
               PROVE  FALSE
    BY <1>1 DEF RowsAreUnique
  <2>1. CASE j # i /\ k # i
    BY <1>2, <2>1 DEF SettingsInv, RowsAreUnique
  <2>2. CASE j = i
    BY <1>2, <2>2 DEF NoDuplicate, InIndex
  <2>3. CASE k = i
    BY <1>2, <2>3 DEF NoDuplicate, InIndex
  <2> QED BY <2>1, <2>2, <2>3
<1>6. \A j \in Lines : line'[j].there = "none" => line[j].there = "none"
  BY <1>2
<1>7. \A j \in Lines : line[j].there # "none" /\ line[j].crossed => line'[j].crossed
  BY <1>2
<1>8. RulesHold'
  <2> SUFFICES ASSUME NEW j \in Lines
               PROVE  /\ line'[j].there = "live" /\ ~Sensible(kept, line'[j]) => line'[j].crossed
                      /\ sold[j] = "unpriced" => line'[j].crossed
    BY <1>1 DEF RulesHold, Sensible
  <2>1. sold[j] = "unpriced" => line[j].there # "none" /\ line[j].crossed
    BY DEF SettingsInv, RulesHold
  <2>2. line[j].there = "live" /\ ~Sensible(kept, line[j]) => line[j].crossed
    BY DEF SettingsInv, RulesHold
  <2> QED BY <1>2, <1>7, <2>1, <2>2
<1>9. \A d \in Offices : RequestInv(desk[d])'
  <2> SUFFICES ASSUME NEW d \in Offices PROVE RequestInv(desk[d])'
    OBVIOUS
  <2>0. RequestInv(desk[d])
    BY DEF SettingsInv
  <2>1. CASE desk'[d] = NoRequest
    BY <2>1 DEF RequestInv, NoRequest
  <2>2. CASE /\ desk[d] \in Patches /\ desk[d].kind = "patch"
             /\ desk'[d] = [desk[d] EXCEPT !.fresh = FALSE]
    <3>1. desk'[d].kind = "patch" /\ ~desk'[d].fresh /\ desk'[d].asks = desk[d].asks
      BY <2>2 DEF Patches
    <3> QED BY <1>1, <2>0, <2>2, <3>1 DEF RequestInv
  <2>3. CASE desk'[d] = desk[d] /\ (desk[d].kind = "patch" => desk[d].id # i)
    <3>1. desk[d].kind = "post" => Sensible(kept', FromForm(kept', desk'[d].form))
      BY <1>1, <2>0, <2>3 DEF RequestInv
    <3>2. desk[d].kind = "patch" =>
            /\ DOMAIN desk'[d].asks \subseteq Patchable(kept')
            /\ desk'[d].fresh => Judged(kept', line'[desk'[d].id], desk'[d].asks)
      <4>1. desk[d].kind = "patch" => desk[d].id \in Lines
        BY DeskShape DEF SettingsInv, Patches
      <4> QED BY <1>1, <1>2, <2>0, <2>3, <4>1 DEF RequestInv
    <3>3. desk[d].kind = "take" =>
            /\ line'[desk'[d].id].there # "none"
            /\ desk'[d].flag /\ ~desk'[d].need => line'[desk'[d].id].crossed
      <4>1. desk[d].kind = "take" => desk[d].id \in Lines
        BY DeskShape DEF SettingsInv, Takes
      <4> QED BY <1>6, <1>7, <2>0, <2>3, <4>1 DEF RequestInv
    <3> QED BY <2>3, <3>1, <3>2, <3>3 DEF RequestInv
  <2> QED BY <1>3, <2>1, <2>2, <2>3
<1>10. \A j \in Lines : line'[j].there = "none" => sold'[j] = "never"
  BY <1>1, <1>6 DEF SettingsInv
<1> QED BY <1>4, <1>5, <1>8, <1>9, <1>10 DEF SettingsInv

-----------------------------------------------------------------------------
(* The beginnings                                                             *)
LEMMA BeginsOfSettings ==
  ASSUME SettingsInv, NEW c \in Offices,
         \/ \E u \in Users, form \in Forms : BeginPost(c, u, form)
         \/ \E u \in Users, i \in Lines, asks \in Changes : BeginSetting(c, u, i, asks)
         \/ \E u \in Users, i \in Lines : BeginDelete(c, u, i)
         \/ \E i \in Lines : BeginTake(c, i)
  PROVE  SettingsInv'
<1>1. ASSUME NEW u \in Users, NEW form \in Forms, BeginPost(c, u, form)
      PROVE  SettingsInv'
  <2> DEFINE q == [kind |-> "post", user |-> u, form |-> form]
  <2>1. q \in Posts /\ Open(c, q) /\ Sensible(kept, FromForm(kept, form))
    BY <1>1 DEF BeginPost, Posts
  <2>2. RequestInv(q)
    BY <2>1 DEF RequestInv
  <2> HIDE DEF q
  <2> QED BY <2>1, <2>2, OpenKeeps
<1>2. ASSUME NEW u \in Users, NEW i \in Lines, NEW asks \in Changes, BeginSetting(c, u, i, asks)
      PROVE  SettingsInv'
  <2> DEFINE q == [kind |-> "patch", user |-> u, id |-> i, asks |-> asks, fresh |-> TRUE]
  <2>1. /\ q \in Patches /\ Open(c, q)
        /\ DOMAIN asks \subseteq Patchable(kept) /\ Judged(kept, line[i], asks)
    BY <1>2 DEF BeginSetting, Patches
  <2>2. RequestInv(q)
    BY <2>1 DEF RequestInv
  <2> HIDE DEF q
  <2> QED BY <2>1, <2>2, OpenKeeps
<1>3. ASSUME NEW u \in Users, NEW i \in Lines, BeginDelete(c, u, i)
      PROVE  SettingsInv'
  <2> DEFINE q == [kind |-> "delete", user |-> u, id |-> i]
  <2>1. q \in Deletes /\ Open(c, q) /\ RequestInv(q)
    BY <1>3 DEF BeginDelete, Deletes, RequestInv
  <2> HIDE DEF q
  <2> QED BY <2>1, OpenKeeps
<1>4. ASSUME NEW i \in Lines, BeginTake(c, i)
      PROVE  SettingsInv'
  <2> DEFINE q == [kind |-> "take", id |-> i, flag |-> line[i].flag, need |-> line[i].need]
  <2>1. line[i] \in LineShape
    BY DEF SettingsInv, SettingTyped
  <2>2. q \in Takes /\ Open(c, q) /\ kept = "items" /\ line[i].there = "live"
    BY <1>4, <2>1 DEF BeginTake, Takes, LineShape
  <2>3. line[i].flag /\ ~line[i].need => line[i].crossed
    BY <2>2 DEF SettingsInv, RulesHold, Sensible
  <2>4. RequestInv(q)
    BY <2>2, <2>3 DEF RequestInv
  <2> HIDE DEF q
  <2> QED BY <2>2, <2>4, OpenKeeps
<1> QED BY <1>1, <1>2, <1>3, <1>4

-----------------------------------------------------------------------------
(* The endings: each either changes no row or puts one that its user may write.       *)
Writes(c, i, new) ==
  /\ Put(c, i, new) /\ new \in LineShape /\ new.there # "none"
  /\ NoDuplicate(i, new) \/ new.there = "gone"
  /\ new.there = "live" /\ ~Sensible(kept, new) => new.crossed
  /\ line[i].there # "none" /\ line[i].crossed => new.crossed
  /\ line[i].there # "gone"
  /\ line[i].there = "live" => line[i].place \in Scope[desk[c].user]
  /\ new.place \in Scope[desk[c].user]

LEMMA PostEnds ==
  ASSUME SettingsInv, NEW c \in Offices, FinishPost(c)
  PROVE  TurnDown(c) \/ \E i \in Lines, new \in LineShape : Writes(c, i, new)
<1> DEFINE q == desk[c]
           free == {i \in Lines : line[i].there = "none"}
           new == FromForm(kept, q.form)
<1>1. q.kind = "post" /\ free # {}
  BY DEF FinishPost
<1>2. q \in Posts /\ q.form \in Forms /\ kept \in SettingKinds
  BY <1>1, DeskShape DEF SettingsInv, SettingTyped, Posts
<1>3. Min(free) \in free
  BY <1>1, LeastLine, SettingsAssumption
<1>4. /\ new \in LineShape /\ new.there = "live" /\ new.place = q.form.place
  BY <1>2, FormFacts
<1>5. Sensible(kept, new)
  BY <1>1 DEF SettingsInv, RequestInv
<1>6. CASE TurnDown(c)
  BY <1>6
<1>7. CASE q.form.place \in Scope[q.user] /\ NoDuplicate(Min(free), new) /\ Put(c, Min(free), new)
  <2>1. Min(free) \in Lines /\ line[Min(free)].there = "none"
    BY <1>3
  <2>2. Writes(c, Min(free), new)
    BY <1>4, <1>5, <1>7, <2>1 DEF Writes
  <2> QED BY <1>4, <2>1, <2>2
<1> QED BY <1>6, <1>7 DEF FinishPost

LEMMA PatchEnds ==
  ASSUME SettingsInv, NEW c \in Offices, FinishSetting(c)
  PROVE  TurnDown(c) \/ \E i \in Lines, new \in LineShape : Writes(c, i, new)
<1> DEFINE q == desk[c]
           old == line[q.id]
           asked == WithAsked(old, q.asks)
           new == [asked EXCEPT !.crossed = @ \/ ~q.fresh]
<1>1. q.kind = "patch" /\ q \in Patches /\ q.id \in Lines /\ q.asks \in Changes /\ q.fresh \in BOOLEAN
  BY DeskShape DEF FinishSetting, SettingsInv, Patches
<1>2. CASE TurnDown(c)
  BY <1>2
<1>3. CASE /\ old.there = "live" /\ old.place \in Scope[q.user] /\ new.place \in Scope[q.user]
           /\ NoDuplicate(q.id, new) /\ Put(c, q.id, new)
  <2>1. old \in LineShape /\ kept \in SettingKinds
    BY <1>1 DEF SettingsInv, SettingTyped
  <2>2. DOMAIN q.asks \subseteq Patchable(kept) /\ (q.fresh => Sensible(kept, asked))
    BY <1>1 DEF SettingsInv, RequestInv, Judged
  <2>3. asked \in LineShape /\ asked.there = old.there /\ asked.crossed = old.crossed
    BY <1>1, <2>1, <2>2, AskedFacts
  <2> HIDE DEF asked
  <2>4. /\ new \in LineShape /\ new.there = asked.there
        /\ new.crossed = (asked.crossed \/ ~q.fresh)
        /\ new.flag = asked.flag /\ new.need = asked.need
        /\ new.place = asked.place /\ new.key = asked.key
    BY <1>1, <2>3 DEF LineShape
  <2> HIDE DEF new
  <2>5. Sensible(kept, asked) => Sensible(kept, new)
    BY <2>4 DEF Sensible
  <2>6. Put(c, q.id, new) /\ new \in LineShape /\ new.there = "live" /\ NoDuplicate(q.id, new)
    BY <1>3, <2>3, <2>4
  <2>7. ~Sensible(kept, new) => new.crossed
    BY <2>2, <2>4, <2>5
  <2>8. old.crossed => new.crossed
    BY <2>3, <2>4
  <2>9. Writes(c, q.id, new)
    BY <1>3, <2>6, <2>7, <2>8 DEF Writes
  <2> QED BY <1>1, <2>4, <2>9
<1> QED BY <1>2, <1>3 DEF FinishSetting

LEMMA DeleteEnds ==
  ASSUME SettingsInv, NEW c \in Offices, FinishDelete(c)
  PROVE  TurnDown(c) \/ \E i \in Lines, new \in LineShape : Writes(c, i, new)
<1> DEFINE q == desk[c]
           old == line[q.id]
           new == [old EXCEPT !.there = "gone", !.active = kept = "holidays" /\ @]
<1>1. q.kind = "delete" /\ q.id \in Lines
  BY DeskShape DEF FinishDelete, SettingsInv, Deletes
<1>2. CASE TurnDown(c)
  BY <1>2
<1>3. CASE old.there = "live" /\ old.place \in Scope[q.user] /\ Put(c, q.id, new)
  <2>1. old \in LineShape
    BY <1>1 DEF SettingsInv, SettingTyped
  <2>2. Put(c, q.id, new) /\ old = line[q.id]
    BY <1>3
  <2> HIDE DEF old
  <2>3. /\ new \in LineShape /\ new.there = "gone" /\ new.crossed = old.crossed
        /\ new.place = old.place
    BY <2>1 DEF LineShape
  <2> HIDE DEF new
  <2>4. Writes(c, q.id, new)
    BY <1>3, <2>2, <2>3 DEF Writes
  <2> QED BY <1>1, <2>3, <2>4
<1> QED BY <1>2, <1>3 DEF FinishDelete

LEMMA WritesKeep ==
  ASSUME SettingsInv, NEW c \in Offices,
         TurnDown(c) \/ \E i \in Lines, new \in LineShape : Writes(c, i, new)
  PROVE  SettingsInv' /\ WritesStayInScope
<1>1. CASE TurnDown(c)
  <2>1. SettingsInv'
    BY <1>1, TurnDownKeeps DEF TurnDown, SettingsInv, SettingTyped
  <2> QED BY <1>1, <2>1 DEF TurnDown, WritesStayInScope
<1>2. ASSUME NEW i \in Lines, NEW new \in LineShape, Writes(c, i, new)
      PROVE  SettingsInv' /\ WritesStayInScope
  <2>1. SettingsInv'
    BY <1>2, PutKeeps DEF Writes
  <2>2. line' = [line EXCEPT ![i] = new]
    BY <1>2 DEF Writes, Put
  <2>3. line'[i] = new /\ \A j \in Lines : j # i => line'[j] = line[j]
    BY <2>2 DEF SettingsInv, SettingTyped
  (* Nobody else's request ends in this step.                                     *)
  <2>4. ASSUME NEW d \in Offices, d # c, desk[d] # NoRequest
        PROVE  desk'[d] # NoRequest
    <3>1. desk'[d] = IF desk[d].kind = "patch" /\ desk[d].id = i
                     THEN [desk[d] EXCEPT !.fresh = FALSE] ELSE desk[d]
      BY <1>2, <2>4 DEF Writes, Put
    <3>2. desk[d].kind = "patch" => [desk[d] EXCEPT !.fresh = FALSE].kind = "patch"
      BY DeskShape DEF SettingsInv, Patches
    <3> QED BY <2>4, <3>1, <3>2 DEF NoRequest
  <2>5. WritesStayInScope
    BY <1>2, <2>3, <2>4 DEF WritesStayInScope, Writes
  <2> QED BY <2>1, <2>5
<1> QED BY <1>1, <1>2

LEMMA TakeEnds ==
  ASSUME SettingsInv, NEW c \in Offices, FinishTake(c)
  PROVE  SettingsInv' /\ WritesStayInScope
<1> DEFINE q == desk[c]
           price == IF ~q.flag THEN "free" ELSE IF q.need THEN "priced" ELSE "unpriced"
<1>1. /\ q.kind = "take" /\ Close(c) /\ line' = line /\ sold' = [sold EXCEPT ![q.id] = price]
  BY DEF FinishTake
<1>2. q.id \in Lines
  BY <1>1, DeskShape DEF SettingsInv, Takes
<1>3. line[q.id].there # "none" /\ (price = "unpriced" => line[q.id].crossed)
  BY <1>1 DEF SettingsInv, RequestInv
<1>4. price \in {"free", "priced", "unpriced"}
  OBVIOUS
<1> HIDE DEF price
<1>5. /\ sold' \in [Lines -> {"never", "free", "priced", "unpriced"}]
      /\ \A i \in Lines : sold'[i] = sold[i] \/ (i = q.id /\ sold'[i] = price)
  BY <1>1, <1>2, <1>4 DEF SettingsInv, SettingTyped
<1>6. SettingsInv'
  BY <1>1, <1>3, <1>5, TurnDownKeeps
<1> QED BY <1>1, <1>6 DEF WritesStayInScope

LEMMA SettingsStep ==
  SettingsInv /\ [SettingsNext]_settingVars =>
    SettingsInv' /\ (<<line, sold>>' # <<line, sold>> => WritesStayInScope)
<1> SUFFICES ASSUME SettingsInv, [SettingsNext]_settingVars
             PROVE  SettingsInv' /\ (<<line, sold>>' # <<line, sold>> => WritesStayInScope)
  OBVIOUS
<1>1. ASSUME NEW c \in Offices,
             \/ \E u \in Users, form \in Forms : BeginPost(c, u, form)
             \/ \E u \in Users, i \in Lines, asks \in Changes : BeginSetting(c, u, i, asks)
             \/ \E u \in Users, i \in Lines : BeginDelete(c, u, i)
             \/ \E i \in Lines : BeginTake(c, i)
      PROVE  SettingsInv' /\ <<line, sold>>' = <<line, sold>>
  <2>1. <<line, sold>>' = <<line, sold>>
    BY <1>1 DEF BeginPost, BeginSetting, BeginDelete, BeginTake, Open
  <2>2. SettingsInv'
    BY <1>1, BeginsOfSettings
  <2> QED BY <2>1, <2>2
<1>2. CASE UNCHANGED settingVars
  BY <1>2 DEF settingVars, SettingsInv, SettingTyped, RowsAreUnique, RulesHold, RequestInv
<1>3. ASSUME NEW c \in Offices,
             FinishPost(c) \/ FinishSetting(c) \/ FinishDelete(c) \/ FinishTake(c) \/ LoseSetting(c)
      PROVE  SettingsInv' /\ WritesStayInScope
  <2>1. CASE FinishTake(c)
    BY <2>1, TakeEnds
  <2>2. CASE LoseSetting(c)
    BY <2>2, WritesKeep DEF LoseSetting
  <2> QED BY <1>3, <2>1, <2>2, PostEnds, PatchEnds, DeleteEnds, WritesKeep
<1> QED BY <1>1, <1>2, <1>3 DEF SettingsNext, settingVars

-----------------------------------------------------------------------------
(* Two rows that answer have the same place and the same key.                       *)
LEMMA OneRowAnswers == SettingsInv => OneAnswer
<1> SUFFICES ASSUME SettingsInv, NEW f \in Facilities, NEW k \in KeyNames
             PROVE  Cardinality(Answers(f, k)) <= 1
  BY DEF OneAnswer
<1>1. ASSUME NEW i \in Answers(f, k), NEW j \in Answers(f, k) PROVE i = j
  <2>1. /\ i \in Lines /\ InIndex(kept, line[i])
        /\ line[i].place \in {f, TenantWide} /\ line[i].key \in {k, AnyKey}
        /\ j \in Lines /\ InIndex(kept, line[j])
        /\ line[j].place \in {f, TenantWide} /\ line[j].key \in {k, AnyKey}
    BY DEF Answers, Candidates
  <2>2. Rank(line[i]) <= Rank(line[j]) /\ Rank(line[j]) <= Rank(line[i])
    BY DEF Answers
  <2>3. f # TenantWide /\ k # AnyKey
    BY SettingsAssumption
  <2>4. line[i].place = line[j].place /\ line[i].key = line[j].key
    BY <2>1, <2>2, <2>3 DEF Rank, Bit
  <2> QED BY <2>1, <2>4 DEF SettingsInv, RowsAreUnique
<1>2. CASE Answers(f, k) = {}
  BY <1>2, FS_EmptySet
<1>3. CASE Answers(f, k) # {}
  <2>1. PICK i \in Answers(f, k) : Answers(f, k) = {i}
    BY <1>1, <1>3
  <2> QED BY <2>1, FS_Singleton
<1> QED BY <1>2, <1>3

(* update_service_item, sla_policies, holidays and add_services: judged by an unlocked     *)
(* copy, written under a unique index and row security, whatever requests cross.          *)
THEOREM SettingsStaySound == SettingsSpec => SettingsAreSound
<1>1. SettingsInv => RulesHold /\ OneAnswer
  BY OneRowAnswers DEF SettingsInv
<1>2. SettingsInv' => RulesHold' /\ OneAnswer'
  BY <1>1, PTL
<1>3. SettingsInv /\ [SettingsNext]_settingVars =>
        /\ SettingsInv'
        /\ [<<line, sold>>' # <<line, sold>> => RulesHold' /\ OneAnswer' /\ WritesStayInScope]_settingVars
  BY <1>2, SettingsStep
<1> QED BY <1>3, InitSettingsInv, PTL DEF SettingsSpec, SettingsAreSound

-----------------------------------------------------------------------------
(* Keyset pages *)

Kinds == {"plain", "joined", "padded"}

(* A list that clients do not sort.                                         *)
OwnSort(l) ==
  /\ l.columns = {l.default.column}
  /\ l.default = [column |-> l.default.column, desc |-> l.default.desc]
  /\ l.default.column.name # "" /\ l.default.column.kind \in Kinds /\ l.default.desc \in BOOLEAN
  /\ l.default.column.kind # "plain" => l.default.desc = FALSE

(* What a sort by a column of the list itself looks like. *)
LEMMA OwnSortFacts ==
  ASSUME NEW name, NEW kind \in Kinds, NEW desc \in BOOLEAN,
         name # "", kind # "plain" => desc = FALSE
  PROVE  OwnSort(SortedBy(Fixed(name, kind), desc)) /\ OwnSort(SortedBy(Moving(name, kind), desc))
<1>1. Fixed(name, kind).name = name /\ Fixed(name, kind).kind = kind
  BY DEF Fixed
<1>2. Moving(name, kind).name = name /\ Moving(name, kind).kind = kind
  BY DEF Moving
<1>3. \A c : /\ SortedBy(c, desc).columns = {c} /\ SortedBy(c, desc).default.column = c
             /\ SortedBy(c, desc).default = [column |-> c, desc |-> desc]
             /\ SortedBy(c, desc).default.desc = desc
  BY DEF SortedBy
<1> QED
  BY <1>1, <1>2, <1>3 DEF OwnSort

(* The listing endpoints, by kind. *)
LEMMA ListShape ==
  ASSUME NEW l \in Lists
  PROVE  OwnSort(l) \/ l = WorkOrderList \/ l = AssetList
<1>1. "plain" \in Kinds /\ "joined" \in Kinds /\ "padded" \in Kinds
  BY DEF Kinds
<1>2. OwnSort(AssetModelList)
  BY <1>1, OwnSortFacts DEF AssetModelList
<1>3. OwnSort(ServiceItemList)
  BY <1>1, OwnSortFacts DEF ServiceItemList
<1>4. OwnSort(AssetWorkOrderList) /\ OwnSort(BimModelList) /\ OwnSort(CalendarList)
  BY <1>1, OwnSortFacts DEF AssetWorkOrderList, BimModelList, CalendarList, CreatedAt
<1>5. OwnSort(StatusHistoryList) /\ OwnSort(MeterReadingList) /\ OwnSort(DeviceList)
      /\ OwnSort(AlarmRuleList) /\ OwnSort(BlackoutList) /\ OwnSort(AuditList)
  BY <1>1, OwnSortFacts DEF StatusHistoryList, MeterReadingList, DeviceList, AlarmRuleList,
    BlackoutList, AuditList
<1>6. OwnSort(IdentityProviderList) /\ OwnSort(PlanList) /\ OwnSort(OccurrenceList)
      /\ OwnSort(WebhookList)
  BY <1>1, OwnSortFacts DEF IdentityProviderList, PlanList, OccurrenceList, WebhookList
<1>7. OwnSort(AlarmList) /\ OwnSort(ReservationList) /\ OwnSort(UserList)
      /\ OwnSort(DirectoryGroupList)
  BY <1>1, OwnSortFacts DEF AlarmList, ReservationList, UserList, DirectoryGroupList
<1>8. OwnSort(OrganizationList) /\ OwnSort(FacilityList) /\ OwnSort(SpatialNodeList)
  BY <1>1, OwnSortFacts DEF OrganizationList, FacilityList, SpatialNodeList
<1> HIDE DEF OwnSort
<1> QED
  BY <1>2, <1>3, <1>4, <1>5, <1>6, <1>7, <1>8 DEF Lists

(* A sort is by a column of the list; its name tells the column, and only plain    *)
(* keys are sorted downwards.                                               *)
LEMMA SortFacts ==
  ASSUME NEW l \in Lists, NEW sort \in Sorts(l)
  PROVE  /\ sort.column \in l.columns /\ sort.column.name # "" /\ sort.column.kind \in Kinds
         /\ sort = [column |-> sort.column, desc |-> sort.desc]
         /\ sort.desc \in BOOLEAN /\ (sort.column.kind # "plain" => sort.desc = FALSE)
         /\ \A other \in Sorts(l) :
              other.column.name = sort.column.name => other.column = sort.column
<1>1. ASSUME OwnSort(l)
      PROVE  /\ sort.column \in l.columns /\ sort.column.name # "" /\ sort.column.kind \in Kinds
             /\ sort = [column |-> sort.column, desc |-> sort.desc]
         /\ sort.desc \in BOOLEAN /\ (sort.column.kind # "plain" => sort.desc = FALSE)
             /\ \A other \in Sorts(l) :
                  other.column.name = sort.column.name => other.column = sort.column
  <2>1. Cardinality(l.columns) = 1
    BY <1>1, FS_Singleton DEF OwnSort
  <2>2. Sorts(l) = {l.default}
    BY <2>1 DEF Sorts
  <2> QED
    BY <1>1, <2>2 DEF OwnSort
<1>2. ASSUME l = WorkOrderList \/ l = AssetList
      PROVE  /\ sort.column \in l.columns /\ sort.column.name # "" /\ sort.column.kind \in Kinds
             /\ sort = [column |-> sort.column, desc |-> sort.desc]
         /\ sort.desc \in BOOLEAN /\ (sort.column.kind # "plain" => sort.desc = FALSE)
             /\ \A other \in Sorts(l) :
                  other.column.name = sort.column.name => other.column = sort.column
  <2> DEFINE Made(a, b, c) ==
               /\ l.columns = {a, b, c} /\ l.default = [column |-> a, desc |-> TRUE]
               /\ a.name # "" /\ b.name # "" /\ c.name # ""
               /\ a.kind = "plain" /\ b.kind = "plain" /\ c.kind = "plain"
               /\ a.name # b.name /\ b.name # c.name /\ a.name # c.name
  <2>0. \A name, kind : Fixed(name, kind).name = name /\ Fixed(name, kind).kind = kind
                        /\ Moving(name, kind).name = name /\ Moving(name, kind).kind = kind
    BY DEF Fixed, Moving
  <2>1. ASSUME l = WorkOrderList
        PROVE  Made(CreatedAt, Fixed("wo_no", "plain"), Moving("priority", "plain"))
    <3>1. l.columns = {CreatedAt, Fixed("wo_no", "plain"), Moving("priority", "plain")}
          /\ l.default = [column |-> CreatedAt, desc |-> TRUE]
      BY <2>1 DEF WorkOrderList, Sortable
    <3>2. CreatedAt.name = "created_at" /\ CreatedAt.kind = "plain"
      BY <2>0 DEF CreatedAt
    <3>3. /\ Fixed("wo_no", "plain").name = "wo_no" /\ Fixed("wo_no", "plain").kind = "plain"
          /\ Moving("priority", "plain").name = "priority"
          /\ Moving("priority", "plain").kind = "plain"
      BY <2>0
    <3> QED
      BY <3>1, <3>2, <3>3
  <2>2. ASSUME l = AssetList
        PROVE  Made(CreatedAt, Moving("asset_code", "plain"), Moving("name", "plain"))
    <3>1. l.columns = {CreatedAt, Moving("asset_code", "plain"), Moving("name", "plain")}
          /\ l.default = [column |-> CreatedAt, desc |-> TRUE]
      BY <2>2 DEF AssetList, Sortable
    <3>2. CreatedAt.name = "created_at" /\ CreatedAt.kind = "plain"
      BY <2>0 DEF CreatedAt
    <3>3. /\ Moving("asset_code", "plain").name = "asset_code"
          /\ Moving("asset_code", "plain").kind = "plain"
          /\ Moving("name", "plain").name = "name" /\ Moving("name", "plain").kind = "plain"
      BY <2>0
    <3> QED
      BY <3>1, <3>2, <3>3
  <2> HIDE DEF Made
  <2>3. PICK a, b, c : Made(a, b, c)
    BY <1>2, <2>1, <2>2, Zenon
  <2> USE DEF Made
  <2>4. \A other \in Sorts(l) : other.column \in l.columns /\ other.desc \in BOOLEAN
                                 /\ other = [column |-> other.column, desc |-> other.desc]
    <3> TAKE other \in Sorts(l)
    <3>1. CASE other = l.default
      <4>1. l.default.column = a /\ l.default.desc = TRUE /\ a \in l.columns
            /\ l.default = [column |-> l.default.column, desc |-> l.default.desc]
        <5>1. l.default = [column |-> a, desc |-> TRUE] /\ l.columns = {a, b, c}
          BY <2>3
        <5> HIDE DEF Made
        <5> QED
          BY <5>1
      <4> HIDE DEF Made
      <4> QED
        BY <3>1, <4>1
    <3>2. CASE other \in [column : l.columns, desc : BOOLEAN]
      BY <3>2
    <3> QED
      BY <3>1, <3>2 DEF Sorts
  <2> QED
    BY <2>3, <2>4 DEF Kinds
<1> QED
  BY <1>1, <1>2, ListShape

-----------------------------------------------------------------------------
(* The comparison of sequences of two, three and four numbers.                 *)
LEMMA LessOfTwo ==
  ASSUME NEW x \in [1..2 -> Int], NEW y \in [1..2 -> Int]
  PROVE  Less(x, y) <=> x[1] < y[1] \/ (x[1] = y[1] /\ x[2] < y[2])
<1>1. DOMAIN x = 1..2 /\ 1..2 = {1, 2} /\ 1..(1 - 1) = {} /\ 1..(2 - 1) = {1}
  OBVIOUS
<1> QED
  BY <1>1 DEF Less

(* Tuples of three are compared place by place. *)
LEMMA LessOfThree ==
  ASSUME NEW x \in [1..3 -> Int], NEW y \in [1..3 -> Int]
  PROVE  Less(x, y) <=> \/ x[1] < y[1]
                        \/ (x[1] = y[1] /\ x[2] < y[2])
                        \/ (x[1] = y[1] /\ x[2] = y[2] /\ x[3] < y[3])
<1>1. DOMAIN x = 1..3 /\ 1..3 = {1, 2, 3} /\ 1..(1 - 1) = {} /\ 1..(2 - 1) = {1}
      /\ 1..(3 - 1) = {1, 2}
  OBVIOUS
<1> QED
  BY <1>1 DEF Less

(* And tuples of four. *)
LEMMA LessOfFour ==
  ASSUME NEW x \in [1..4 -> Int], NEW y \in [1..4 -> Int]
  PROVE  Less(x, y) <=> \/ x[1] < y[1]
                        \/ (x[1] = y[1] /\ x[2] < y[2])
                        \/ (x[1] = y[1] /\ x[2] = y[2] /\ x[3] < y[3])
                        \/ (x[1] = y[1] /\ x[2] = y[2] /\ x[3] = y[3] /\ x[4] < y[4])
<1>1. DOMAIN x = 1..4 /\ 1..4 = {1, 2, 3, 4} /\ 1..(1 - 1) = {} /\ 1..(2 - 1) = {1}
      /\ 1..(3 - 1) = {1, 2} /\ 1..(4 - 1) = {1, 2, 3}
  OBVIOUS
<1> QED
  BY <1>1 DEF Less

(* Sequences of equal length are in a strict total order.                     *)
LEMMA LessIsOrder ==
  ASSUME NEW n \in {2, 3}, NEW a \in [1..n -> Int], NEW b \in [1..n -> Int], NEW c \in [1..n -> Int]
  PROVE  /\ ~Less(a, a)
         /\ Less(a, b) /\ Less(b, c) => Less(a, c)
         /\ Less(a, b) \/ Less(b, a) \/ a = b
<1>1. CASE n = 2
  <2>1. (a[1] = b[1] /\ a[2] = b[2]) => a = b
    BY <1>1
  <2> QED
    BY <1>1, <2>1, LessOfTwo
<1>2. CASE n = 3
  <2>1. (a[1] = b[1] /\ a[2] = b[2] /\ a[3] = b[3]) => a = b
    BY <1>2
  <2> QED
    BY <1>2, <2>1, LessOfThree
<1> QED
  BY <1>1, <1>2

(* A key of n numbers that has another one at its end. *)
Extends(n, key, id) ==
  /\ Append(key, id) \in [1..(n + 1) -> Int]
  /\ \A i \in 1..n : Append(key, id)[i] = key[i]
  /\ Append(key, id)[n + 1] = id
TwoPlaces(key, id) ==
  /\ key \in [1..1 -> Int]
  /\ Append(key, id) \in [1..2 -> Int] /\ Append(key, id)[1] = key[1] /\ Append(key, id)[2] = id
ThreePlaces(key, id) ==
  /\ key \in [1..2 -> Int]
  /\ Append(key, id) \in [1..3 -> Int] /\ Append(key, id)[1] = key[1]
  /\ Append(key, id)[2] = key[2] /\ Append(key, id)[3] = id

(* The place of a row in the order: its key and, to break ties, its id.          *)
LEMMA AppendToKey ==
  ASSUME NEW n \in Nat, NEW key \in [1..n -> Int], NEW id \in Int
  PROVE  Extends(n, key, id)
<1>1. key \in Seq(Int)
  OBVIOUS
<1>2. Len(key) \in Nat /\ DOMAIN key = 1..Len(key)
  BY <1>1, LenProperties
<1>3. Len(key) = n
  BY <1>2
<1>4. /\ Append(key, id) \in Seq(Int) /\ Len(Append(key, id)) = n + 1
      /\ \A i \in 1..n : Append(key, id)[i] = key[i]
      /\ Append(key, id)[n + 1] = id
  BY <1>1, <1>3, AppendProperties
<1>5. Append(key, id) \in [1..(n + 1) -> Int]
  BY <1>4, LenProperties
<1> QED
  BY <1>4, <1>5 DEF Extends

(* The place of a row in the order of a walk. *)
LEMMA PlaceFacts ==
  ASSUME NEW kind \in Kinds, NEW key \in KeyShape(kind), NEW id \in Nat
  PROVE  /\ kind = "plain" => TwoPlaces(key, id)
         /\ kind # "plain" => ThreePlaces(key, id)
<1>1. CASE kind = "plain"
  <2>1. key \in [1..1 -> Int] /\ 1 \in Nat /\ id \in Int
    BY <1>1 DEF KeyShape
  <2>2. Extends(1, key, id)
    BY <2>1, AppendToKey
  <2>3. PICK x : x = Append(key, id)
    OBVIOUS
  <2>4. x \in [1..(1 + 1) -> Int] /\ (\A i \in 1..1 : x[i] = key[i]) /\ x[1 + 1] = id
    BY <2>2, <2>3, Zenon DEF Extends
  <2>5. x \in [1..2 -> Int] /\ x[1] = key[1] /\ x[2] = id
    BY <2>4
  <2>6. TwoPlaces(key, id)
    BY <2>1, <2>3, <2>5, Zenon DEF TwoPlaces
  <2> QED
    BY <1>1, <2>6
<1>2. CASE kind # "plain"
  <2>1. key \in [1..2 -> Int] /\ 2 \in Nat /\ id \in Int
    BY <1>2 DEF KeyShape
  <2>2. Extends(2, key, id)
    BY <2>1, AppendToKey
  <2>3. PICK x : x = Append(key, id)
    OBVIOUS
  <2>4. x \in [1..(2 + 1) -> Int] /\ (\A i \in 1..2 : x[i] = key[i]) /\ x[2 + 1] = id
    BY <2>2, <2>3, Zenon DEF Extends
  <2>5. x \in [1..3 -> Int] /\ x[1] = key[1] /\ x[2] = key[2] /\ x[3] = id
    BY <2>4
  <2>6. ThreePlaces(key, id)
    BY <2>1, <2>3, <2>5, Zenon DEF ThreePlaces
  <2> QED
    BY <1>2, <2>6
<1> QED
  BY <1>1, <1>2

(* A shorter tuple that decides leaves no say to what follows. *)
LEMMA LessOfLonger ==
  ASSUME NEW p \in [1..3 -> Int], NEW q \in [1..3 -> Int], NEW d \in Int, NEW h \in Int
  PROVE  Less(Append(p, d), Append(q, h)) <=>
           \/ p[1] < q[1] \/ (p[1] = q[1] /\ p[2] < q[2])
           \/ (p[1] = q[1] /\ p[2] = q[2] /\ p[3] < q[3])
           \/ (p[1] = q[1] /\ p[2] = q[2] /\ p[3] = q[3] /\ d < h)
<1>0. PICK x, y : x = Append(p, d) /\ y = Append(q, h)
  OBVIOUS
<1>1. x \in [1..(3 + 1) -> Int] /\ (\A i \in 1..3 : x[i] = p[i]) /\ x[3 + 1] = d
  <2>1. Extends(3, p, d)
    BY AppendToKey
  <2> QED
    BY <1>0, <2>1, Zenon DEF Extends
<1>2. y \in [1..(3 + 1) -> Int] /\ (\A i \in 1..3 : y[i] = q[i]) /\ y[3 + 1] = h
  <2>1. Extends(3, q, h)
    BY AppendToKey
  <2> QED
    BY <1>0, <2>1, Zenon DEF Extends
<1>3. /\ x \in [1..4 -> Int] /\ x[1] = p[1] /\ x[2] = p[2] /\ x[3] = p[3] /\ x[4] = d
      /\ y \in [1..4 -> Int] /\ y[1] = q[1] /\ y[2] = q[2] /\ y[3] = q[3] /\ y[4] = h
  BY <1>1, <1>2
<1>4. Less(x, y) <=> \/ p[1] < q[1] \/ (p[1] = q[1] /\ p[2] < q[2])
                    \/ (p[1] = q[1] /\ p[2] = q[2] /\ p[3] < q[3])
                    \/ (p[1] = q[1] /\ p[2] = q[2] /\ p[3] = q[3] /\ d < h)
  BY <1>3, LessOfFour
<1> QED
  BY <1>0, <1>4, Zenon

(* The comparison of the WHERE clause is the order of the rows, but for a page of     *)
(* service items that ends at a negative position and for the rows of the          *)
(* manufacturer at which a page of asset models ends.                          *)
LEMMA ComparedRightly ==
  ASSUME NEW kind \in Kinds, NEW key \in KeyShape(kind), NEW last \in KeyShape(kind),
         NEW r \in Nat, NEW id \in Nat, kind = "padded" => last[1] >= 0
  PROVE  LET after == Less(Append(Bound(kind, last), id), Append(Compared(kind, key), r))
             later == Less(Append(last, id), Append(key, r)) IN
         /\ after => later
         /\ later => after \/ (kind = "joined" /\ last[1] = key[1])
<1>1. CASE kind = "plain"
  BY <1>1 DEF Bound, Compared
<1>2. CASE kind # "plain"
  <2>0. key \in [1..2 -> Int] /\ last \in [1..2 -> Int]
    BY <1>2 DEF KeyShape
  <2>2. Less(Append(last, id), Append(key, r)) <=>
          \/ last[1] < key[1] \/ (last[1] = key[1] /\ last[2] < key[2])
          \/ (last[1] = key[1] /\ last[2] = key[2] /\ id < r)
    <3>1. ThreePlaces(last, id) /\ ThreePlaces(key, r)
      BY <1>2, PlaceFacts
    <3>2. PICK x, y : x = Append(last, id) /\ y = Append(key, r)
      OBVIOUS
    <3>3. /\ x \in [1..3 -> Int] /\ x[1] = last[1] /\ x[2] = last[2] /\ x[3] = id
          /\ y \in [1..3 -> Int] /\ y[1] = key[1] /\ y[2] = key[2] /\ y[3] = r
      BY <3>1, <3>2, Zenon DEF ThreePlaces
    <3>4. Less(x, y) <=>
            \/ last[1] < key[1] \/ (last[1] = key[1] /\ last[2] < key[2])
            \/ (last[1] = key[1] /\ last[2] = key[2] /\ id < r)
      BY <3>3, LessOfThree
    <3> QED
      BY <3>2, <3>4, Zenon
  <2> DEFINE p == Bound(kind, last)
             q == Compared(kind, key)
  <2>3. CASE kind = "joined"
    <3>1. /\ p \in [1..3 -> Int] /\ p[1] = last[1] /\ p[2] = 1
          /\ q \in [1..3 -> Int] /\ q[1] = key[1] /\ q[2] = 0
      BY <2>0, <2>3 DEF Bound, Compared
    <3> HIDE DEF p, q
    <3>2. Less(Append(p, id), Append(q, r)) <=> last[1] < key[1]
      BY <2>0, <3>1, LessOfLonger
    <3> QED
      BY <2>0, <2>2, <2>3, <3>2 DEF p, q
  <2>4. CASE kind = "padded"
    <3>1. p \in [1..3 -> Int] /\ p[1] = 2 /\ p[2] = last[1] /\ p[3] = last[2]
      BY <2>0, <2>4 DEF Bound
    <3>2. q \in [1..3 -> Int] /\ (key[1] < 0 => q[1] = 1)
          /\ (key[1] >= 0 => q[1] = 2 /\ q[2] = key[1] /\ q[3] = key[2])
      BY <2>0, <2>4 DEF Compared
    <3> HIDE DEF p, q
    <3>3. Less(Append(p, id), Append(q, r)) <=>
            /\ key[1] >= 0
            /\ \/ last[1] < key[1] \/ (last[1] = key[1] /\ last[2] < key[2])
               \/ (last[1] = key[1] /\ last[2] = key[2] /\ id < r)
      BY <2>0, <3>1, <3>2, LessOfLonger
    <3> QED
      BY <2>0, <2>2, <2>4, <3>3 DEF p, q
  <2> QED
    BY <1>2, <2>3, <2>4 DEF Kinds
<1> QED
  BY <1>1, <1>2

LEMMA PlaceTellsId ==
  ASSUME NEW kind, NEW key, NEW id, NEW other, NEW id2,
         kind \in Kinds, key \in KeyShape(kind), other \in KeyShape(kind), id \in Nat, id2 \in Nat,
         Append(key, id) = Append(other, id2)
  PROVE  id = id2
<1>1. CASE kind = "plain"
  <2>1. TwoPlaces(key, id)
    BY <1>1, PlaceFacts
  <2>2. TwoPlaces(other, id2)
    BY <1>1, PlaceFacts
  <2> QED
    BY <2>1, <2>2, Zenon DEF TwoPlaces
<1>2. CASE kind # "plain"
  <2>1. ThreePlaces(key, id)
    BY <1>2, PlaceFacts
  <2>2. ThreePlaces(other, id2)
    BY <1>2, PlaceFacts
  <2> QED
    BY <2>1, <2>2, Zenon DEF ThreePlaces
<1> QED
  BY <1>1, <1>2

(* A strict partial order on a finite set has a smallest element.               *)
LEMMA Smallest ==
  ASSUME NEW S, IsFiniteSet(S), S # {}, NEW R,
         \A x \in S : <<x, x>> \notin R,
         \A x, y, z \in S : <<x, y>> \in R /\ <<y, z>> \in R => <<x, z>> \in R
  PROVE  \E x \in S : \A y \in S : <<y, x>> \notin R
<1> DEFINE Below(x) == {y \in S : <<y, x>> \in R}
           Sizes == {Cardinality(Below(x)) : x \in S}
<1>1. \A x \in S : IsFiniteSet(Below(x)) /\ Cardinality(Below(x)) \in Nat
  BY FS_Subset, FS_CardinalityType
<1>2. Sizes \subseteq Nat /\ Sizes # {}
  <2>1. \A x \in S : Cardinality(Below(x)) \in Nat
    BY <1>1
  <2> HIDE DEF Below
  <2> QED
    BY <2>1
<1>3. PICK n \in Sizes : \A m \in Sizes : <<m, n>> \notin OpToRel(<, Nat)
  BY <1>2, WFMin, NatLessThanWellFounded
<1>4. PICK x \in S : n = Cardinality(Below(x))
  OBVIOUS
<1>5. \A y \in S : <<y, x>> \notin R
  <2> SUFFICES ASSUME NEW y \in S, <<y, x>> \in R PROVE FALSE
    OBVIOUS
  <2>1. Below(y) \in SUBSET Below(x) /\ y \in Below(x) /\ y \notin Below(y)
    OBVIOUS
  <2>2. Cardinality(Below(y)) <= Cardinality(Below(x)) /\ Cardinality(Below(y)) # Cardinality(Below(x))
    BY <1>1, <2>1, FS_Subset
  <2>3. Cardinality(Below(y)) < n /\ Cardinality(Below(y)) \in Nat /\ n \in Nat
    BY <1>1, <1>4, <2>2
  <2>4. Cardinality(Below(y)) \in Sizes
    OBVIOUS
  <2> QED
    BY <1>3, <2>3, <2>4 DEF OpToRel
<1> QED
  BY <1>5

-----------------------------------------------------------------------------
(* The walk: the cursor is where the last page was cut; a row that keeps its key has  *)
(* been returned at most once, and only if it is not behind the cursor; and a row   *)
(* that was always shown has been returned if it is not behind the cursor.         *)
Later(r) ==
  LET last == Append(walk.cursor.key, walk.cursor.id)
      at == Append(Key(r, walk.sort), r) IN
  IF walk.sort.desc THEN Less(at, last) ELSE Less(last, at)
CursorIsCut ==
  /\ walk.cursor.column = walk.sort.column.name
  /\ walk.cursor.key \in KeyShape(walk.sort.column.kind) /\ walk.cursor.key \in cuts
  /\ walk.cursor.id \in Listed
ExactSoFar(r) ==
  r \notin moved =>
    /\ seen[r] <= 1 /\ (seen[r] = 1 => ~Later(r))
    /\ r \in steady /\ ~Later(r) => seen[r] = 1 \/ CutAtMaker(r)

PagesInv ==
  /\ PagesTypeOK
  /\ walk = [stage |-> walk.stage, sort |-> walk.sort, cursor |-> walk.cursor]
  /\ \A r \in steady : item[r].shown
  /\ walk.stage = "start" => walk.cursor = NoCursor /\ \A r \in Listed : seen[r] = 0
  /\ walk.stage = "on" => CursorIsCut
  /\ walk.stage = "on" => CutAtNegative \/ \A r \in Listed : ExactSoFar(r)
  /\ walk.stage = "end" => CutAtNegative \/ \A r \in Listed : ReturnedOnce(r) /\ NotLeftOut(r)

(* Keys have the shape of their list. *)
LEMMA KeyTyped ==
  ASSUME PagesTypeOK, NEW sort \in Sorts(list), NEW r \in Listed
  PROVE  Key(r, sort) \in KeyShape(sort.column.kind)
<1>1. item[r].content \in Contents
  BY DEF PagesTypeOK
<1>2. list \in Lists /\ sort.column \in list.columns
  BY SortFacts DEF PagesTypeOK
<1> QED
  BY <1>1, <1>2, KeysAssumption DEF Key

(* Spots of rows, and of the cursor, are in a strict order, downwards too.       *)
Ahead(desc, a, b) == IF desc THEN Less(b, a) ELSE Less(a, b)
Spots(kind) == {Append(key, id) : key \in KeyShape(kind), id \in Nat}

(* Places have it too. *)
LEMMA PlaceTyped ==
  ASSUME NEW kind \in Kinds, NEW a \in Spots(kind)
  PROVE  a \in [1..(IF kind = "plain" THEN 2 ELSE 3) -> Int]
<1>1. PICK key \in KeyShape(kind), id \in Nat : a = Append(key, id)
  BY DEF Spots
<1>2. /\ kind = "plain" => TwoPlaces(key, id)
      /\ kind # "plain" => ThreePlaces(key, id)
  BY PlaceFacts
<1>3. CASE kind = "plain"
  <2>1. Append(key, id) \in [1..2 -> Int]
    BY <1>2, <1>3, Zenon DEF TwoPlaces
  <2> QED
    BY <1>1, <1>3, <2>1, Zenon
<1>4. CASE kind # "plain"
  <2>1. Append(key, id) \in [1..3 -> Int]
    BY <1>2, <1>4, Zenon DEF ThreePlaces
  <2> QED
    BY <1>1, <1>4, <2>1, Zenon
<1> QED
  BY <1>3, <1>4

(* Rows are in a strict total order. *)
LEMMA AheadIsOrder ==
  ASSUME NEW kind \in Kinds, NEW desc \in BOOLEAN,
         NEW a \in Spots(kind), NEW b \in Spots(kind), NEW c \in Spots(kind)
  PROVE  /\ ~Ahead(desc, a, a)
         /\ Ahead(desc, a, b) /\ Ahead(desc, b, c) => Ahead(desc, a, c)
         /\ Ahead(desc, a, b) \/ Ahead(desc, b, a) \/ a = b
<1> DEFINE n == IF kind = "plain" THEN 2 ELSE 3
<1>1. n \in {2, 3} /\ a \in [1..n -> Int] /\ b \in [1..n -> Int] /\ c \in [1..n -> Int]
  BY PlaceTyped
<1> HIDE DEF n
<1>2. /\ ~Less(a, a) /\ (Less(a, b) /\ Less(b, c) => Less(a, c))
      /\ (Less(c, b) /\ Less(b, a) => Less(c, a)) /\ (Less(a, b) \/ Less(b, a) \/ a = b)
  BY <1>1, LessIsOrder
<1> QED
  BY <1>2 DEF Ahead

(* And so are they in the direction of the walk. *)
LEMMA BeforeIsOrder ==
  ASSUME PagesTypeOK, NEW sort \in Sorts(list), NEW a \in Listed, NEW b \in Listed, NEW c \in Listed
  PROVE  /\ ~Before(a, a, sort)
         /\ Before(a, b, sort) /\ Before(b, c, sort) => Before(a, c, sort)
         /\ Before(a, b, sort) \/ Before(b, a, sort) \/ a = b
<1> DEFINE P(r) == Append(Key(r, sort), r)
<1>1. sort.column.kind \in Kinds /\ sort.desc \in BOOLEAN
  BY SortFacts DEF PagesTypeOK
<1>2. \A r \in Listed : P(r) \in Spots(sort.column.kind)
  BY KeyTyped, PagesAssumption DEF Spots
<1>3. P(a) = P(b) => a = b
  <2>1. Key(a, sort) \in KeyShape(sort.column.kind) /\ Key(b, sort) \in KeyShape(sort.column.kind) /\ a \in Nat /\ b \in Nat
    BY KeyTyped, PagesAssumption
  <2> QED
    BY <1>1, <2>1, PlaceTellsId
<1>4. \A q, r \in Listed : Before(q, r, sort) <=> Ahead(sort.desc, P(q), P(r))
  BY DEF Before, Ahead
<1> HIDE DEF P
<1>5. /\ ~Ahead(sort.desc, P(a), P(a))
      /\ Ahead(sort.desc, P(a), P(b)) /\ Ahead(sort.desc, P(b), P(c)) => Ahead(sort.desc, P(a), P(c))
      /\ Ahead(sort.desc, P(a), P(b)) \/ Ahead(sort.desc, P(b), P(a)) \/ P(a) = P(b)
  BY <1>1, <1>2, AheadIsOrder
<1> QED
  BY <1>3, <1>4, <1>5

(* What a page reads is behind the cursor, and what is behind it is read or was cut    *)
(* off with its manufacturer.                                               *)
LEMMA AfterIsLater ==
  ASSUME PagesInv, walk.stage = "on", ~CutAtNegative, NEW r \in Listed
  PROVE  /\ After(r, walk.sort, walk.cursor) => Later(r)
         /\ Later(r) => After(r, walk.sort, walk.cursor) \/ CutAtMaker(r)
<1> DEFINE kind == walk.sort.column.kind
           c == walk.cursor
           key == Key(r, walk.sort)
<1>0. PagesTypeOK /\ walk.sort \in Sorts(list) /\ list \in Lists
  BY DEF PagesInv, PagesTypeOK
<1>1. kind \in Kinds /\ walk.sort.desc \in BOOLEAN /\ (kind # "plain" => walk.sort.desc = FALSE)
      /\ walk.sort.column.name # ""
  BY <1>0, SortFacts
<1>2. key \in KeyShape(kind) /\ r \in Nat
  BY <1>0, KeyTyped, PagesAssumption
<1>3. c.column = walk.sort.column.name /\ c.key \in KeyShape(kind) /\ c.key \in cuts /\ c.id \in Nat
  BY PagesAssumption DEF PagesInv, CursorIsCut
<1>4. c # NoCursor
  <2>1. NoCursor.column = ""
    BY DEF NoCursor
  <2> QED
    BY <1>1, <1>3, <2>1
<1>5. CASE kind = "plain"
  <2>1. Compared(kind, key) = key /\ Bound(kind, c.key) = c.key
    BY <1>5 DEF Compared, Bound
  <2> QED
    BY <1>4, <2>1 DEF After, Later
<1>6. CASE kind # "plain"
  <2>1. kind = "padded" => c.key[1] >= 0
    <3>1. c.key \in [1..2 -> Int]
      BY <1>3, <1>6 DEF KeyShape
    <3>2. kind = "padded" => ~(c.key[1] < 0)
      BY <1>3 DEF CutAtNegative
    <3> QED
      BY <3>1, <3>2
  <2>2. LET after == Less(Append(Bound(kind, c.key), c.id), Append(Compared(kind, key), r))
            later == Less(Append(c.key, c.id), Append(key, r)) IN
        /\ after => later
        /\ later => after \/ (kind = "joined" /\ c.key[1] = key[1])
    <3> DEFINE k == c.key
               i == c.id
    <3>1. kind \in Kinds /\ key \in KeyShape(kind) /\ k \in KeyShape(kind) /\ r \in Nat /\ i \in Nat
          /\ (kind = "padded" => k[1] >= 0)
      BY <1>1, <1>2, <1>3, <2>1
    <3> HIDE DEF k, i, key, kind
    <3>2. LET after == Less(Append(Bound(kind, k), i), Append(Compared(kind, key), r))
              later == Less(Append(k, i), Append(key, r)) IN
          /\ after => later
          /\ later => after \/ (kind = "joined" /\ k[1] = key[1])
      BY <3>1, ComparedRightly
    <3> QED
      BY <3>2 DEF k, i
  <2>3. After(r, walk.sort, c) <=> Less(Append(Bound(kind, c.key), c.id), Append(Compared(kind, key), r))
    BY <1>1, <1>4, <1>6 DEF After
  <2>4. Later(r) <=> Less(Append(c.key, c.id), Append(key, r))
    BY <1>1, <1>6 DEF Later
  <2>5. kind = "joined" /\ c.key[1] = key[1] => CutAtMaker(r)
    BY <1>3 DEF CutAtMaker
  <2> QED
    BY <2>2, <2>3, <2>4, <2>5
<1> QED
  BY <1>5, <1>6

(* What comes after a row behind the cursor is behind the cursor.               *)
LEMMA LaterGoesOn ==
  ASSUME PagesInv, walk.stage = "on", NEW q \in Listed, NEW r \in Listed,
         Later(q), Before(q, r, walk.sort)
  PROVE  Later(r)
<1> DEFINE P(x) == Append(Key(x, walk.sort), x)
           last == Append(walk.cursor.key, walk.cursor.id)
<1>0. PagesTypeOK /\ walk.sort \in Sorts(list) /\ list \in Lists
  BY DEF PagesInv, PagesTypeOK
<1>1. walk.sort.column.kind \in Kinds /\ walk.sort.desc \in BOOLEAN
  BY <1>0, SortFacts
<1>2. P(q) \in Spots(walk.sort.column.kind) /\ P(r) \in Spots(walk.sort.column.kind)
  BY <1>0, KeyTyped, PagesAssumption DEF Spots
<1>3. last \in Spots(walk.sort.column.kind)
  BY PagesAssumption DEF PagesInv, CursorIsCut, Spots
<1>4. Ahead(walk.sort.desc, last, P(q)) /\ Ahead(walk.sort.desc, P(q), P(r))
  BY DEF Later, Before, Ahead
<1>5. Ahead(walk.sort.desc, last, P(r))
  <2> HIDE DEF P, last
  <2> QED
    BY <1>1, <1>2, <1>3, <1>4, AheadIsOrder
<1> QED
  BY <1>5 DEF Later, Ahead

-----------------------------------------------------------------------------
(* The invariant holds before the first page. *)
LEMMA PagesStart == PagesInit => PagesInv
<1> SUFFICES ASSUME PagesInit PROVE PagesInv
  OBVIOUS
<1>1. PICK sort \in Sorts(list) : walk = [stage |-> "start", sort |-> sort, cursor |-> NoCursor]
  BY DEF PagesInit
<1>2. walk.stage = "start" /\ walk.sort = sort /\ walk.cursor = NoCursor
  BY <1>1
<1>3. PagesTypeOK
  <2>1. edits \in 0..MaxEdits
    BY PagesAssumption DEF PagesInit
  <2> QED
    BY <1>2, <2>1 DEF PagesInit, PagesTypeOK
<1> QED
  BY <1>1, <1>2, <1>3 DEF PagesInit, PagesInv

(* A change by another request touches neither the keys of rows that are not moved,    *)
(* nor the cursor.                                                          *)
LEMMA EditKeeps ==
  ASSUME PagesInv, Edit, PagesTypeOK', UNCHANGED <<list, walk, seen, cuts>>,
         \A r \in steady' : r \in steady /\ item'[r].shown, moved \subseteq moved',
         \A r \in Listed \ moved' : Key(r, walk.sort)' = Key(r, walk.sort)
  PROVE  PagesInv'
<1>1. walk.stage = "on" /\ walk' = walk /\ cuts' = cuts /\ seen' = seen
  BY DEF Edit
<1>2. CutAtNegative' = CutAtNegative /\ CursorIsCut'
  BY <1>1 DEF PagesInv, CutAtNegative, CursorIsCut
<1>3. ASSUME NEW r \in Listed, ExactSoFar(r) PROVE ExactSoFar(r)'
  <2> SUFFICES ASSUME r \notin moved' PROVE ExactSoFar(r)'
    BY DEF ExactSoFar
  <2>1. Key(r, walk.sort)' = Key(r, walk.sort) /\ r \notin moved
    BY <1>1
  <2>2. Later(r)' = Later(r)
    BY <1>1, <2>1 DEF Later
  <2>3. CutAtMaker(r)' = CutAtMaker(r)
    BY <1>1, <2>1 DEF CutAtMaker
  <2> QED
    BY <1>1, <1>3, <2>1, <2>2, <2>3 DEF ExactSoFar
<1> QED
  BY <1>1, <1>2, <1>3 DEF PagesInv

(* Showing and hiding a row keeps it. *)
LEMMA ToggleKeeps == ASSUME PagesInv, NEW r \in Listed, Toggle(r) PROVE PagesInv'
<1>1. PagesTypeOK'
  <2>1. item' \in [Listed -> [shown : BOOLEAN, content : Contents]]
    BY DEF PagesInv, PagesTypeOK, Toggle
  <2>2. edits' \in 0..MaxEdits
    BY PagesAssumption DEF PagesInv, PagesTypeOK, Toggle, Edit
  <2> QED
    BY <2>1, <2>2 DEF PagesInv, PagesTypeOK, Toggle
<1>2. \A q \in steady' : q \in steady /\ item'[q].shown
  BY DEF PagesInv, PagesTypeOK, Toggle
<1>3. \A q \in Listed : item'[q].content = item[q].content
  BY DEF PagesInv, PagesTypeOK, Toggle
<1>4. \A q \in Listed : Key(q, walk.sort)' = Key(q, walk.sort)
  BY <1>3 DEF Key, Toggle
<1> QED
  BY <1>1, <1>2, <1>4, EditKeeps DEF Toggle

(* Changing a key keeps it. *)
LEMMA ChangeKeeps ==
  ASSUME PagesInv, NEW r \in Listed, NEW content \in Contents, Change(r, content) PROVE PagesInv'
<1>1. PagesTypeOK'
  <2>1. item' \in [Listed -> [shown : BOOLEAN, content : Contents]]
    BY DEF PagesInv, PagesTypeOK, Change
  <2>2. edits' \in 0..MaxEdits
    BY PagesAssumption DEF PagesInv, PagesTypeOK, Change, Edit
  <2>3. moved' \subseteq Listed
    BY DEF PagesInv, PagesTypeOK, Change
  <2> QED
    BY <2>1, <2>2, <2>3 DEF PagesInv, PagesTypeOK, Change
<1>2. \A q \in steady' : q \in steady /\ item'[q].shown
  BY DEF PagesInv, PagesTypeOK, Change
<1>3. moved \subseteq moved'
  BY DEF Change
<1>4. ASSUME NEW q \in Listed \ moved' PROVE Key(q, walk.sort)' = Key(q, walk.sort)
  <2>0. item \in [Listed -> [shown : BOOLEAN, content : Contents]]
    BY DEF PagesInv, PagesTypeOK
  <2>1. CASE q # r
    <3>1. item'[q] = item[q]
      BY <2>0, <2>1 DEF Change
    <3> QED
      BY <3>1 DEF Key, Change
  <2>2. CASE q = r
    <3>1. item'[q].content = content
      BY <2>0, <2>2 DEF Change
    <3>2. content[walk.sort.column.name] = Key(q, walk.sort)
      BY <1>4, <2>2 DEF Change
    <3> QED
      BY <3>1, <3>2 DEF Key, Change
  <2> QED
    BY <2>1, <2>2
<1> QED
  BY <1>1, <1>2, <1>3, <1>4, EditKeeps DEF Change

-----------------------------------------------------------------------------
(* One page.  Its rows are the first of what is left, and its last row is behind all   *)
(* the others.                                                              *)
Rest(sort) == {r \in Listed : item[r].shown /\ After(r, sort, walk.cursor)}
Page(sort, limit) ==
  {r \in Rest(sort) : Cardinality({q \in Rest(sort) : Before(q, r, sort)}) < limit}
LastOf(page, sort) == CHOOSE r \in page : \A q \in page \ {r} : Before(q, r, sort)

(* Limits are positive. *)
LEMMA LimitFacts ==
  ASSUME NEW wanted \in Requested PROVE ClampLimit(wanted) \in Nat /\ ClampLimit(wanted) >= 1
BY PagesAssumption DEF ClampLimit

(* The last row of a page. *)
LEMMA LastFacts ==
  ASSUME PagesTypeOK, NEW sort \in Sorts(list), NEW page \in SUBSET Listed, page # {}
  PROVE  LastOf(page, sort) \in page
         /\ \A q \in page \ {LastOf(page, sort)} : Before(q, LastOf(page, sort), sort)
<1> DEFINE R == {p \in Listed \X Listed : Before(p[2], p[1], sort)}
<1>1. \A x, y \in Listed : <<x, y>> \in R <=> Before(y, x, sort)
  OBVIOUS
<1> HIDE DEF R
<1>2. IsFiniteSet(page)
  BY PagesAssumption, FS_Subset
<1>3. \A x \in page : <<x, x>> \notin R
  BY <1>1, BeforeIsOrder
<1>4. \A x, y, z \in page : <<x, y>> \in R /\ <<y, z>> \in R => <<x, z>> \in R
  BY <1>1, BeforeIsOrder
<1>5. PICK x \in page : \A y \in page : <<y, x>> \notin R
  BY <1>2, <1>3, <1>4, Smallest
<1>6. \A q \in page \ {x} : Before(q, x, sort)
  BY <1>1, <1>5, BeforeIsOrder
<1> QED
  BY <1>6 DEF LastOf

(* What a page is. *)
LEMMA PageFacts ==
  ASSUME PagesTypeOK, NEW sort \in Sorts(list), NEW limit \in Nat, limit >= 1
  PROVE  /\ Page(sort, limit) \in SUBSET Rest(sort) /\ Rest(sort) \in SUBSET Listed
         /\ Page(sort, limit) # Rest(sort) => Page(sort, limit) # {}
         /\ \A q \in Rest(sort), r \in Page(sort, limit) :
              Before(q, r, sort) => q \in Page(sort, limit)
<1> DEFINE rest == Rest(sort)
           Under(r) == {q \in rest : Before(q, r, sort)}
<1>1. rest \in SUBSET Listed /\ IsFiniteSet(rest) /\ Page(sort, limit) \in SUBSET rest
  BY PagesAssumption, FS_Subset DEF Rest, Page
<1> HIDE DEF rest
<1>2. \A r \in rest : r \in Page(sort, limit) <=> Cardinality(Under(r)) < limit
  BY DEF Page, rest
<1>3. \A r \in rest : IsFiniteSet(Under(r)) /\ Cardinality(Under(r)) \in Nat
  <2> TAKE r \in rest
  <2>1. Under(r) \in SUBSET rest
    OBVIOUS
  <2> QED
    BY <1>1, <2>1, FS_Subset, FS_CardinalityType
<1>4. ASSUME NEW q \in rest, NEW r \in Page(sort, limit), Before(q, r, sort)
      PROVE  q \in Page(sort, limit)
  <2>1. Under(q) \in SUBSET Under(r)
    BY <1>1, <1>4, BeforeIsOrder
  <2>2. Cardinality(Under(q)) <= Cardinality(Under(r))
    BY <1>1, <1>3, <2>1, FS_Subset
  <2>3. Cardinality(Under(r)) < limit /\ Cardinality(Under(q)) \in Nat /\ Cardinality(Under(r)) \in Nat
    BY <1>1, <1>2, <1>3
  <2>4. Cardinality(Under(q)) < limit
    BY <2>2, <2>3
  <2> QED
    BY <1>2, <2>4
<1>5. ASSUME rest # {} PROVE Page(sort, limit) # {}
  <2> DEFINE R == {p \in Listed \X Listed : Before(p[1], p[2], sort)}
  <2>1. \A x, y \in Listed : <<x, y>> \in R <=> Before(x, y, sort)
    OBVIOUS
  <2> HIDE DEF R
  <2>2. \A x \in rest : <<x, x>> \notin R
    BY <1>1, <2>1, BeforeIsOrder
  <2>3. \A x, y, z \in rest : <<x, y>> \in R /\ <<y, z>> \in R => <<x, z>> \in R
    BY <1>1, <2>1, BeforeIsOrder
  <2>4. PICK x \in rest : \A y \in rest : <<y, x>> \notin R
    BY <1>1, <1>5, <2>2, <2>3, Smallest
  <2>5. Under(x) = {}
    BY <1>1, <2>1, <2>4
  <2>6. Cardinality(Under(x)) = 0
    BY <2>5, FS_EmptySet
  <2> QED
    BY <1>2, <2>6
<1> QED
  BY <1>1, <1>4, <1>5 DEF rest

(* Behind the cursor; every row is at the start.                              *)
Behind(r) == walk.stage = "on" => Later(r)

(* A page returns no unmoved row again, and every row that is left is behind it.   *)
LEMMA FetchKeeps ==
  ASSUME PagesInv, NEW sort \in Sorts(list), NEW wanted \in Requested, FetchPage(sort, wanted)
  PROVE  PagesInv'
<1> DEFINE limit == ClampLimit(wanted)
           rest == Rest(sort)
           page == Page(sort, limit)
           last == LastOf(page, sort)
<1>0. PagesTypeOK /\ walk.sort \in Sorts(list) /\ list \in Lists
  BY DEF PagesInv, PagesTypeOK
<1>1. /\ walk.stage \in {"start", "on"}
      /\ walk.stage = "start" => sort = walk.sort
      /\ Decodes(sort, walk.cursor)
      /\ seen' = [r \in Listed |-> IF r \in page /\ seen[r] < 2 THEN seen[r] + 1 ELSE seen[r]]
      /\ IF sort.desc # walk.sort.desc
         THEN walk' = [walk EXCEPT !.stage = "astray", !.cursor = NoCursor] /\ UNCHANGED cuts
         ELSE IF page = rest
         THEN walk' = [walk EXCEPT !.stage = "end", !.cursor = NoCursor] /\ UNCHANGED cuts
         ELSE /\ walk' = [walk EXCEPT !.stage = "on", !.cursor =
                            [column |-> sort.column.name, key |-> Key(last, sort), id |-> last]]
              /\ cuts' = cuts \cup {Key(last, sort)}
      /\ UNCHANGED <<list, item, steady, moved, edits>>
  BY DEF FetchPage, Page, Rest, LastOf
<1>2. limit \in Nat /\ limit >= 1
  BY LimitFacts
<1>3. /\ page \in SUBSET rest /\ rest \in SUBSET Listed
      /\ page # rest => page # {}
      /\ \A q \in rest, r \in page : Before(q, r, sort) => q \in page
  BY <1>0, <1>2, PageFacts
<1>4. \A r \in Listed : r \in rest <=> item[r].shown /\ After(r, sort, walk.cursor)
  BY DEF Rest
<1>5. page # {} => last \in page /\ \A q \in page \ {last} : Before(q, last, sort)
  BY <1>0, <1>3, LastFacts
<1> HIDE DEF limit, rest, page, last
<1>6. walk = [stage |-> walk.stage, sort |-> walk.sort, cursor |-> walk.cursor]
  BY DEF PagesInv
<1>7. walk'.sort = walk.sort /\ walk'.stage \in {"on", "end", "astray"}
      /\ walk' = [stage |-> walk'.stage, sort |-> walk'.sort, cursor |-> walk'.cursor]
      /\ cuts \subseteq cuts'
  BY <1>1, <1>6
<1>8. sort.column = walk.sort.column
  <2>1. CASE walk.stage = "start"
    BY <1>1, <2>1
  <2>2. CASE walk.stage = "on"
    <3>1. walk.cursor.column = walk.sort.column.name /\ walk.sort.column.name # ""
      BY <1>0, <2>2, SortFacts DEF PagesInv, CursorIsCut
    <3>2. NoCursor.column = ""
      BY DEF NoCursor
    <3>3. walk.cursor.column = sort.column.name
      BY <1>1, <3>1, <3>2 DEF Decodes
    <3> QED
      BY <1>0, <3>1, <3>3, SortFacts
  <2> QED
    BY <1>1, <2>1, <2>2
<1>9. \A r \in Listed : /\ seen[r] \in 0..2 /\ seen'[r] \in 0..2
                        /\ r \notin page => seen'[r] = seen[r]
                        /\ r \in page /\ seen[r] = 0 => seen'[r] = 1
  BY <1>0, <1>1 DEF PagesTypeOK
<1>10. PagesTypeOK'
  <2>1. seen' \in [Listed -> 0..2]
    <3>1. \A r \in Listed :
            (IF r \in page /\ seen[r] < 2 THEN seen[r] + 1 ELSE seen[r]) \in 0..2
      BY <1>0 DEF PagesTypeOK
    <3> QED
      BY <1>1, <3>1
  <2> QED
    BY <1>0, <1>1, <1>7, <2>1 DEF PagesTypeOK
<1>11. \A r \in steady' : item'[r].shown
  BY <1>1 DEF PagesInv
<1>12. CutAtNegative => CutAtNegative'
  BY <1>7 DEF CutAtNegative
<1>13. CASE sort.desc # walk.sort.desc
  <2>1. walk'.stage = "astray"
    BY <1>1, <1>6, <1>13
  <2> QED
    BY <1>7, <1>10, <1>11, <2>1 DEF PagesInv
<1>14. CASE sort.desc = walk.sort.desc
  <2>1. sort = walk.sort
    <3>1. sort = [column |-> sort.column, desc |-> sort.desc]
          /\ walk.sort = [column |-> walk.sort.column, desc |-> walk.sort.desc]
      BY <1>0, SortFacts
    <3> QED
      BY <1>8, <1>14, <3>1
  <2>2. ASSUME NEW r \in Listed
        PROVE  CutAtMaker(r) => CutAtMaker(r)'
    BY <1>1, <1>7 DEF CutAtMaker, Key
  <2>3. ASSUME ~CutAtNegative, NEW r \in Listed
        PROVE  /\ r \in rest => Behind(r)
               /\ item[r].shown /\ Behind(r) => r \in rest \/ CutAtMaker(r)
               /\ \A q \in Listed : Behind(q) /\ Before(q, r, sort) => Behind(r)
               /\ r \notin moved =>
                    /\ seen[r] <= 1 /\ (seen[r] = 1 => ~Behind(r))
                    /\ r \in steady /\ ~Behind(r) => seen[r] = 1 \/ CutAtMaker(r)
    <3>1. CASE walk.stage = "start"
      <4>1. \A q \in Listed : Behind(q)
        BY <3>1 DEF Behind
      <4>2. seen[r] = 0 /\ After(r, sort, walk.cursor)
        BY <3>1 DEF PagesInv, After
      <4> QED
        BY <1>4, <4>1, <4>2
    <3>2. CASE walk.stage = "on"
      <4>1. \A q \in Listed : Behind(q) <=> Later(q)
        BY <3>2 DEF Behind
      <4>2. ExactSoFar(r)
        BY <2>3, <3>2 DEF PagesInv
      <4>3. \A q \in Listed : Later(q) /\ Before(q, r, sort) => Later(r)
        BY <2>1, <3>2, LaterGoesOn
      <4>4. /\ After(r, sort, walk.cursor) => Later(r)
            /\ Later(r) => After(r, sort, walk.cursor) \/ CutAtMaker(r)
        BY <2>1, <2>3, <3>2, AfterIsLater
      <4> QED
        BY <1>4, <4>1, <4>2, <4>3, <4>4 DEF ExactSoFar
    <3> QED
      BY <1>1, <3>1, <3>2
  <2>4. CASE page = rest
    <3>1. walk'.stage = "end" /\ cuts' = cuts
      BY <1>1, <1>6, <1>14, <2>4
    <3>2. ASSUME ~CutAtNegative, NEW r \in Listed
          PROVE  ReturnedOnce(r)' /\ NotLeftOut(r)'
      <4>1. r \notin moved => seen'[r] <= 1
        BY <1>9, <2>3, <2>4, <3>2
      <4>2. r \in steady /\ r \notin moved => seen'[r] = 1 \/ CutAtMaker(r)
        BY <1>9, <1>11, <1>1, <2>3, <2>4, <3>2
      <4> QED
        BY <1>1, <2>2, <4>1, <4>2 DEF ReturnedOnce, NotLeftOut
    <3> QED
      BY <1>7, <1>10, <1>11, <1>12, <3>1, <3>2 DEF PagesInv
  <2>5. CASE page # rest
    <3>1. /\ walk'.stage = "on"
          /\ walk'.cursor = [column |-> sort.column.name, key |-> Key(last, sort), id |-> last]
          /\ cuts' = cuts \cup {Key(last, sort)}
      BY <1>1, <1>6, <1>14, <2>5
    <3>2. last \in page /\ (\A q \in page \ {last} : Before(q, last, sort)) /\ last \in Listed
      BY <1>3, <1>5, <2>5
    <3>3. CursorIsCut'
      <4>1. Key(last, sort) \in KeyShape(sort.column.kind)
        BY <1>0, <3>2, KeyTyped
      <4> QED
        BY <1>7, <2>1, <3>1, <3>2, <4>1 DEF CursorIsCut
    <3>4. ASSUME NEW r \in Listed PROVE Later(r)' <=> Before(last, r, sort)
      <4>1. Key(r, walk.sort)' = Key(r, sort)
        BY <1>1, <1>7, <2>1 DEF Key
      <4>2. walk'.cursor.key = Key(last, sort) /\ walk'.cursor.id = last /\ walk'.sort = sort
        BY <1>7, <2>1, <3>1
      <4> QED
        BY <4>1, <4>2 DEF Later, Before
    <3>5. ASSUME ~CutAtNegative, NEW r \in Listed PROVE ExactSoFar(r)'
      <4> SUFFICES ASSUME r \notin moved
                   PROVE  /\ seen'[r] <= 1 /\ (seen'[r] = 1 => ~Before(last, r, sort))
                          /\ r \in steady /\ ~Before(last, r, sort) => seen'[r] = 1 \/ CutAtMaker(r)
        BY <1>1, <2>2, <3>4 DEF ExactSoFar
      <4>1. CASE r \in page
        <5>1. Behind(r) /\ seen[r] = 0
          BY <1>3, <1>9, <2>3, <3>5, <4>1
        <5>2. ~Before(last, r, sort)
          BY <1>0, <3>2, <4>1, BeforeIsOrder
        <5> QED
          BY <1>9, <4>1, <5>1, <5>2
      <4>2. CASE r \notin page
        <5>1. seen'[r] = seen[r] /\ r # last
          BY <1>9, <3>2, <4>2
        <5>2. Before(last, r, sort) => Behind(r)
          BY <1>3, <2>3, <3>2, <3>5
        <5>3. ASSUME r \in steady, ~Before(last, r, sort) PROVE seen[r] = 1 \/ CutAtMaker(r)
          <6>1. Before(r, last, sort)
            BY <1>0, <3>2, <5>1, <5>3, BeforeIsOrder
          <6>2. r \notin rest
            BY <1>3, <3>2, <4>2, <6>1
          <6>3. item[r].shown
            BY <5>3 DEF PagesInv
          <6> QED
            BY <2>3, <3>5, <5>3, <6>2, <6>3
        <5> QED
          BY <2>3, <3>5, <5>1, <5>2, <5>3
      <4> QED
        BY <4>1, <4>2
    <3> QED
      BY <1>7, <1>10, <1>11, <1>12, <3>1, <3>3, <3>5 DEF PagesInv
  <2> QED
    BY <2>4, <2>5
<1> QED
  BY <1>13, <1>14

(* Every step keeps it. *)
LEMMA PagesStep == ASSUME PagesInv, [PagesNext]_pagesVars PROVE PagesInv'
<1>1. ASSUME UNCHANGED pagesVars PROVE PagesInv'
  <2>0. /\ list' = list /\ item' = item /\ walk' = walk /\ seen' = seen
        /\ steady' = steady /\ moved' = moved /\ cuts' = cuts /\ edits' = edits
    BY <1>1 DEF pagesVars
  <2>1. (PagesTypeOK <=> PagesTypeOK') /\ (CursorIsCut <=> CursorIsCut')
    <3>1. PagesTypeOK <=> PagesTypeOK'
      BY <2>0 DEF PagesTypeOK
    <3>2. CursorIsCut <=> CursorIsCut'
      BY ONLY <2>0, Zenon DEF CursorIsCut
    <3> QED BY <3>1, <3>2
  <2>2. (CutAtNegative <=> CutAtNegative') /\ \A r \in Listed : CutAtMaker(r) <=> CutAtMaker(r)'
    <3>1. CutAtNegative <=> CutAtNegative'
      BY <2>0 DEF CutAtNegative
    <3>2. ASSUME NEW r \in Listed PROVE CutAtMaker(r) <=> CutAtMaker(r)'
      BY <2>0 DEF CutAtMaker, Key
    <3> QED BY <3>1, <3>2
  <2>3. \A r \in Listed : Later(r)' = Later(r)
    BY <2>0 DEF Later, Key
  <2>4. \A r \in Listed : ExactSoFar(r)' = ExactSoFar(r)
    BY <2>0, <2>2, <2>3 DEF ExactSoFar
  <2>5. \A r \in Listed : ReturnedOnce(r)' = ReturnedOnce(r) /\ NotLeftOut(r)' = NotLeftOut(r)
    BY <2>0, <2>2 DEF ReturnedOnce, NotLeftOut
  <2> QED
    BY <2>0, <2>1, <2>2, <2>4, <2>5 DEF PagesInv
<1> QED
  BY <1>1, FetchKeeps, ToggleKeeps, ChangeKeeps DEF PagesNext

(* Keyset pages: while others add, remove, hide and change rows and the limit varies, a    *)
(* walk returns no row twice unless its key has changed, and ends without leaving out a  *)
(* row that was shown all the time with one key; except, as the program compares them,  *)
(* service items after a negative position and models of the manufacturer of a cut.      *)
THEOREM WalksStayExact == PagesSpec => []WalksAreExact
<1>1. PagesInv => WalksAreExact
  <2> SUFFICES ASSUME PagesInv, walk.stage # "astray", ~CutAtNegative, NEW r \in Listed
               PROVE  ReturnedOnce(r) /\ NotLeftOut(r)
    BY DEF WalksAreExact
  <2>1. CASE walk.stage = "start"
    BY <2>1 DEF PagesInv, ReturnedOnce, NotLeftOut
  <2>2. CASE walk.stage = "on"
    BY <2>2 DEF PagesInv, ExactSoFar, ReturnedOnce, NotLeftOut
  <2>3. CASE walk.stage = "end"
    BY <2>3 DEF PagesInv
  <2> QED
    BY <2>1, <2>2, <2>3 DEF PagesInv, PagesTypeOK
<1> QED
  BY <1>1, PagesStart, PagesStep, PTL DEF PagesSpec

-----------------------------------------------------------------------------
(* Relations of assets *)

USE RelationAssumption

(* What has been read by a request excludes every ring its relation could      *)
(* close; and rings there are cross.                                       *)
WalksOK(l) ==
  /\ l.step # "idle" => l.new.from # l.new.to
  /\ l.step \in {"depth", "insert"} => ~LeadsBack(l.seen, l.new)
  /\ l.step = "insert" => ~TooDeep(l.seen, l.new)
RingsCross(E, missed) ==
  \A n \in Nat \ {0} : \A c \in Rings(E, n) : \E i, j \in 1..n : <<c[i], c[j]>> \in missed
RelationInv ==
  /\ LinkTypeOK
  /\ \A t \in LinkTasks : WalksOK(link[t])
  /\ RingsCross(relation, unseen)

(* A walk within fewer relations is one within more.                          *)
LEMMA ChainsGrow ==
  ASSUME NEW E, NEW G, E \subseteq G, NEW n \in Nat, NEW c \in Chains(E, n)
  PROVE  c \in Chains(G, n)
  BY DEF Chains

(* A walk's beginning is a walk.                                              *)
LEMMA ChainsPrefix ==
  ASSUME NEW E, NEW n \in Nat \ {0}, NEW m \in 1..n, NEW c \in Chains(E, n)
  PROVE  \E b \in Chains(E, m) : b[1] = c[1]
<1> DEFINE b == [i \in 1..m |-> c[i]]
<1>1. b \in [1..m -> E]  BY DEF Chains
<1>2. ASSUME NEW i \in 1..m - 1 PROVE b[i].to = b[i + 1].from
  <2>1. i \in 1..n - 1 /\ i \in 1..m /\ i + 1 \in 1..m  OBVIOUS
  <2> QED BY <2>1 DEF Chains
<1>3. b \in Chains(E, m)  BY <1>1, <1>2 DEF Chains
<1>4. b[1] = c[1]  OBVIOUS
<1> QED BY <1>3, <1>4

(* With less read, less is found.                                            *)
LEMMA FoundGrows ==
  ASSUME NEW E, NEW G, E \subseteq G, NEW e
  PROVE  /\ LeadsBack(E, e) => LeadsBack(G, e)
         /\ TooDeep(E, e) => TooDeep(G, e)
<1>1. \A n \in Nat : \A c \in Chains(E, n) : c \in Chains(G, n)  BY ChainsGrow
<1>2. 1..MaxDepth \subseteq Nat /\ MaxDepth \in Nat  OBVIOUS
<1> QED BY <1>1, <1>2 DEF LeadsBack, TooDeep

(* What is left of a ring without one of its relations: a walk from its end to its start. *)
Opened(E, n, c, k) ==
  \E b \in Chains(E \ {c[k]}, n - 1) :
    /\ b[1].from = c[k].to /\ b[n - 1].to = c[k].from
    /\ \A i \in 1..n - 1 : \E j \in 1..n : b[i] = c[j]
(* A ring through a relation is that and a walk from its end back to its start. *)
LEMMA RingOpens ==
  ASSUME NEW E, NEW n \in Nat \ {0}, NEW c \in Rings(E, n), NEW k \in 1..n, c[k].from # c[k].to
  PROVE  n > 1 /\ Opened(E, n, c, k)
<1> DEFINE At(i) == IF k + i <= n THEN k + i ELSE k + i - n
<1> DEFINE b == [i \in 1..n - 1 |-> c[At(i)]]
<1>0. /\ c \in [1..n -> E] /\ c[n].to = c[1].from
      /\ \A i \in 1..n - 1 : c[i].to = c[i + 1].from
      /\ \A i, j \in 1..n : c[i].from = c[j].from => i = j
  BY DEF Rings, Chains
<1>1. n > 1
  <2> SUFFICES ASSUME n = 1 PROVE FALSE  OBVIOUS
  <2>1. k = 1 /\ k = n  OBVIOUS
  <2> QED BY <2>1, <1>0
<1>2. \A i \in 1..n - 1 : At(i) \in 1..n /\ At(i) # k  OBVIOUS
<1>3. ASSUME NEW i \in 1..n - 1 PROVE b[i] = c[At(i)] /\ b[i] \in E \ {c[k]}
  <2>1. At(i) \in 1..n /\ At(i) # k  BY <1>2
  <2>2. c[At(i)] # c[k]  BY <2>1, <1>0
  <2> QED BY <2>1, <2>2, <1>0
<1>4. ASSUME NEW i \in 1..n - 2 PROVE b[i].to = b[i + 1].from
  <2>1. i \in 1..n - 1 /\ i + 1 \in 1..n - 1  BY <1>1
  <2>2. b[i] = c[At(i)] /\ b[i + 1] = c[At(i + 1)]  BY <2>1
  <2>3. CASE k + i = n
    <3>1. At(i) = n /\ At(i + 1) = 1  BY <2>3
    <3> QED BY <3>1, <2>2, <1>0
  <2>4. CASE k + i # n
    <3>1. At(i) \in 1..n - 1 /\ At(i + 1) = At(i) + 1  BY <2>4, <2>1
    <3> HIDE DEF At
    <3> QED BY <3>1, <2>2, <1>0
  <2> QED BY <2>3, <2>4
<1>5. b \in Chains(E \ {c[k]}, n - 1)
  <2>1. b \in [1..n - 1 -> E \ {c[k]}]  BY <1>3
  <2>2. \A i \in 1..(n - 1) - 1 : b[i].to = b[i + 1].from
    <3>1. (n - 1) - 1 = n - 2  OBVIOUS
    <3> HIDE DEF b
    <3> QED BY <1>4, <3>1
  <2> HIDE DEF b
  <2> QED BY <2>1, <2>2 DEF Chains
<1>6. b[1].from = c[k].to
  <2>1. 1 \in 1..n - 1 /\ b[1] = c[At(1)]  BY <1>1
  <2>2. CASE k = n
    <3>1. At(1) = 1  BY <2>2, <1>1
    <3> QED BY <3>1, <2>1, <2>2, <1>0
  <2>3. CASE k # n
    <3>1. At(1) = k + 1 /\ k \in 1..n - 1  BY <2>3
    <3> QED BY <3>1, <2>1, <1>0
  <2> QED BY <2>2, <2>3
<1>7. b[n - 1].to = c[k].from
  <2>1. n - 1 \in 1..n - 1 /\ b[n - 1] = c[At(n - 1)]  BY <1>1
  <2>2. CASE k = 1
    <3>1. At(n - 1) = n  BY <2>2, <1>1
    <3> QED BY <3>1, <2>1, <2>2, <1>0
  <2>3. CASE k # 1
    <3>1. At(n - 1) = k - 1 /\ k - 1 \in 1..n - 1 /\ (k - 1) + 1 = k  BY <2>3
    <3>2. c[k - 1].to = c[k].from  BY <3>1, <1>0
    <3> QED BY <3>1, <3>2, <2>1
  <2> QED BY <2>2, <2>3
<1>8. \A i \in 1..n - 1 : \E j \in 1..n : b[i] = c[j]  BY <1>2, <1>3
<1> HIDE DEF b
<1> QED BY <1>1, <1>5, <1>6, <1>7, <1>8 DEF Opened

(* A relation that none of what its request saw leads back to closes rings     *)
(* only together with something it did not see.                            *)
LEMMA InsertCrosses ==
  ASSUME NEW E, NEW S, NEW e, e \notin E, e.from # e.to,
         ~LeadsBack(S, e), ~TooDeep(S, e),
         NEW n \in Nat \ {0}, NEW c \in Rings(E \cup {e}, n), NEW k \in 1..n, c[k] = e
  PROVE  \E j \in 1..n : c[j] \in E \ S
<1> SUFFICES ASSUME \A j \in 1..n : c[j] \notin E \ S PROVE FALSE  OBVIOUS
<1>1. n > 1 /\ Opened(E \cup {e}, n, c, k)
  BY RingOpens
<1>2. PICK b \in Chains((E \cup {e}) \ {e}, n - 1) :
        /\ b[1].from = e.to /\ b[n - 1].to = e.from
        /\ \A i \in 1..n - 1 : \E j \in 1..n : b[i] = c[j]
  BY <1>1 DEF Opened
<1>3. (E \cup {e}) \ {e} = E  OBVIOUS
<1>4. b \in [1..n - 1 -> S]
  <2>1. \A i \in 1..n - 1 : b[i] \in E  BY <1>2, <1>3 DEF Chains
  <2>2. \A i \in 1..n - 1 : b[i] \in S  BY <2>1, <1>2
  <2> QED BY <2>2, <1>2 DEF Chains
<1>5. b \in Chains(S, n - 1)  BY <1>4, <1>2 DEF Chains
<1>6. n - 1 \in Nat \ {0}  BY <1>1
<1>7. CASE n - 1 <= MaxDepth
  <2>1. n - 1 \in 1..MaxDepth  BY <1>6, <1>7
  <2> QED BY <2>1, <1>5, <1>2 DEF LeadsBack
<1>8. CASE n - 1 >= MaxDepth
  <2>1. MaxDepth \in 1..n - 1  BY <1>8
  <2>2. \E a \in Chains(S, MaxDepth) : a[1] = b[1]  BY <2>1, <1>5, <1>6, ChainsPrefix
  <2> QED BY <2>2, <1>2 DEF TooDeep
<1> QED BY <1>6, <1>7, <1>8

-----------------------------------------------------------------------------
(* Every step keeps the types, what the walks have excluded, and the rings.    *)
LEMMA RelationStarts == RelationInit => RelationInv
<1> SUFFICES ASSUME RelationInit PROVE RelationInv  OBVIOUS
<1>1. LinkTypeOK  BY FS_EmptySet DEF RelationInit, LinkTypeOK, RelationAssumption
<1>2. \A t \in LinkTasks : WalksOK(link[t])  BY DEF RelationInit, WalksOK, NoRelation
<1>3. RingsCross(relation, unseen)
  <2> SUFFICES ASSUME NEW n \in Nat \ {0}, NEW c \in Rings({}, n) PROVE FALSE
    BY DEF RelationInit, RingsCross
  <2>1. c \in [1..n -> {}] /\ 1 \in 1..n  BY DEF Rings, Chains
  <2> QED BY <2>1
<1> QED BY <1>1, <1>2, <1>3 DEF RelationInv

(* A request's own step changes nothing else, and what it has read stays true.  *)
LEMMA SetLinkKeeps ==
  ASSUME RelationInv, NEW t \in LinkTasks, NEW l \in OpenLink \cup {NoRelation}, WalksOK(l), SetLink(t, l)
  PROVE  RelationInv'
<1>1. link' = [link EXCEPT ![t] = l] /\ UNCHANGED <<relation, unseen, linked>>  BY DEF SetLink
<1>2. LinkTypeOK'  BY <1>1 DEF RelationInv, LinkTypeOK
<1>3. \A u \in LinkTasks : WalksOK(link'[u])  BY <1>1 DEF RelationInv, LinkTypeOK
<1>4. RingsCross(relation, unseen)'  BY <1>1 DEF RelationInv
<1> QED BY <1>2, <1>3, <1>4 DEF RelationInv

(* Every step keeps what the walks have excluded, and that rings cross.            *)
LEMMA RelationSteps == RelationInv /\ [RelationNext]_linkVars => RelationInv'
<1> SUFFICES ASSUME RelationInv, [RelationNext]_linkVars PROVE RelationInv'  OBVIOUS
<1>0. /\ relation \subseteq Relations /\ IsFiniteSet(relation)
      /\ link \in [LinkTasks -> OpenLink \cup {NoRelation}]
      /\ unseen \subseteq relation \X relation /\ linked \in 0..MaxLinks
  BY DEF RelationInv, LinkTypeOK
<1>1. ASSUME NEW t \in LinkTasks PROVE WalksOK(link[t])  BY DEF RelationInv
<1>2. RingsCross(relation, unseen)  BY DEF RelationInv
<1>3. WalksOK(NoRelation) /\ NoRelation \in OpenLink \cup {NoRelation} /\ NoRelation.step = "idle"  BY DEF WalksOK, NoRelation
<1>4. ASSUME NEW t \in LinkTasks, link[t].step # "idle" PROVE link[t] \in OpenLink
  BY <1>0, <1>4 DEF NoRelation
<1>5. ASSUME NEW t \in LinkTasks, NEW e \in Relations, AskRelation(t, e) PROVE RelationInv'
  <2> DEFINE l == [step |-> "cycle", new |-> e, seen |-> {}]
  <2>1. l \in OpenLink  BY DEF OpenLink
  <2>2. WalksOK(l)  BY <1>5 DEF WalksOK, AskRelation
  <2>3. /\ link' = [link EXCEPT ![t] = l] /\ UNCHANGED <<relation, unseen>>
        /\ linked' = linked + 1 /\ linked < MaxLinks
    BY <1>5 DEF AskRelation
  <2> HIDE DEF l
  <2>4. LinkTypeOK'  BY <1>0, <2>1, <2>3 DEF LinkTypeOK, RelationAssumption
  <2>5. \A u \in LinkTasks : WalksOK(link'[u])  BY <1>0, <1>1, <2>2, <2>3
  <2> QED BY <2>3, <2>4, <2>5, <1>2 DEF RelationInv
<1>6. ASSUME NEW t \in LinkTasks, WalkBack(t) PROVE RelationInv'
  <2> DEFINE l == [link[t] EXCEPT !.step = "depth", !.seen = relation]
  <2>1. link[t] \in OpenLink /\ link[t].step = "cycle"  BY <1>4, <1>6 DEF WalkBack
  <2>2. CASE LeadsBack(relation, link[t].new)
    <3>1. SetLink(t, NoRelation)  BY <1>6, <2>2 DEF WalkBack
    <3> QED BY <3>1, <1>3, SetLinkKeeps
  <2>3. CASE ~LeadsBack(relation, link[t].new)
    <3>1. SetLink(t, l)  BY <1>6, <2>3 DEF WalkBack
    <3>2. /\ l \in OpenLink /\ l.step = "depth" /\ l.seen = relation /\ l.new = link[t].new
      BY <2>1, <1>0 DEF OpenLink
    <3>3. l.new.from # l.new.to  BY <3>2, <2>1, <1>1 DEF WalksOK
    <3> HIDE DEF l
    <3>4. WalksOK(l)  BY <3>2, <3>3, <2>3 DEF WalksOK
    <3> QED BY <3>1, <3>2, <3>4, SetLinkKeeps
  <2> QED BY <2>2, <2>3
<1>7. ASSUME NEW t \in LinkTasks, WalkDown(t) PROVE RelationInv'
  <2> DEFINE l == [link[t] EXCEPT !.step = "insert", !.seen = @ \cap relation]
  <2>1. link[t] \in OpenLink /\ link[t].step = "depth"  BY <1>4, <1>7 DEF WalkDown
  <2>2. CASE TooDeep(relation, link[t].new)
    <3>1. SetLink(t, NoRelation)  BY <1>7, <2>2 DEF WalkDown
    <3> QED BY <3>1, <1>3, SetLinkKeeps
  <2>3. CASE ~TooDeep(relation, link[t].new)
    <3>1. SetLink(t, l)  BY <1>7, <2>3 DEF WalkDown
    <3>2. /\ l \in OpenLink /\ l.step = "insert" /\ l.seen = link[t].seen \cap relation
          /\ l.new = link[t].new
      BY <2>1, <1>0 DEF OpenLink
    <3>3. l.new.from # l.new.to /\ ~LeadsBack(link[t].seen, l.new)
      BY <3>2, <2>1, <1>1 DEF WalksOK
    <3> HIDE DEF l
    <3>4. ~LeadsBack(l.seen, l.new) /\ ~TooDeep(l.seen, l.new)
      <4>1. l.seen \subseteq link[t].seen /\ l.seen \subseteq relation  BY <3>2
      <4> QED BY <4>1, <3>2, <3>3, <2>3, FoundGrows
    <3>5. WalksOK(l)  BY <3>2, <3>3, <3>4 DEF WalksOK
    <3> QED BY <3>1, <3>2, <3>5, SetLinkKeeps
  <2> QED BY <2>2, <2>3
<1>8. ASSUME NEW t \in LinkTasks, InsertRelation(t) PROVE RelationInv'
  <2> DEFINE e == link[t].new
             S == link[t].seen
  <2>1. link[t] \in OpenLink /\ link[t].step = "insert"  BY <1>4, <1>8 DEF InsertRelation
  <2>2. CASE e \in relation
    <3>1. SetLink(t, NoRelation)  BY <1>8, <2>2 DEF InsertRelation
    <3> QED BY <3>1, <1>3, SetLinkKeeps
  <2>3. CASE e \notin relation
    <3>1. /\ relation' = relation \cup {e} /\ unseen' = unseen \cup ({e} \X (relation \ S))
          /\ link' = [link EXCEPT ![t] = NoRelation] /\ linked' = linked
      BY <1>8, <2>3 DEF InsertRelation
    <3>2. e \in Relations /\ e.from # e.to /\ ~LeadsBack(S, e) /\ ~TooDeep(S, e)
      BY <2>1, <1>1 DEF WalksOK, OpenLink
    <3> HIDE DEF e, S
    <3>3. LinkTypeOK'
      <4>1. IsFiniteSet(relation')  BY <3>1, <1>0, FS_AddElement
      <4> QED BY <4>1, <3>1, <3>2, <1>0 DEF LinkTypeOK
    <3>4. \A u \in LinkTasks : WalksOK(link'[u])  BY <3>1, <1>0, <1>1, <1>3
    <3>5. ASSUME NEW n \in Nat \ {0}, NEW c \in Rings(relation', n)
          PROVE  \E i, j \in 1..n : <<c[i], c[j]>> \in unseen'
      <4>1. CASE \E k \in 1..n : c[k] = e
        <5>1. PICK k \in 1..n : c[k] = e  BY <4>1
        <5>2. c \in Rings(relation \cup {e}, n)  BY <3>1
        <5>3. \E j \in 1..n : c[j] \in relation \ S  BY <5>1, <5>2, <3>2, <2>3, InsertCrosses
        <5> QED BY <5>1, <5>3, <3>1
      <4>2. CASE \A k \in 1..n : c[k] # e
        <5>1. c \in Chains(relation', n)  BY DEF Rings
        <5>2. c \in Chains(relation, n)  BY <5>1, <4>2, <3>1 DEF Chains
        <5>3. c \in Rings(relation, n)  BY <5>2 DEF Rings
        <5> QED BY <5>3, <1>2, <3>1 DEF RingsCross
      <4> QED BY <4>1, <4>2
    <3>6. RingsCross(relation, unseen)'  BY <3>5 DEF RingsCross
    <3> QED BY <3>3, <3>4, <3>6 DEF RelationInv
  <2> QED BY <2>2, <2>3
<1>9. ASSUME NEW t \in LinkTasks, LoseLink(t) PROVE RelationInv'
  BY <1>9, <1>3, SetLinkKeeps DEF LoseLink
<1>10. ASSUME NEW e \in relation, DeleteRelation(e) PROVE RelationInv'
  <2>1. /\ relation' = relation \ {e} /\ unseen' = {p \in unseen : p[1] # e /\ p[2] # e}
        /\ link' = link /\ linked' = linked + 1 /\ linked < MaxLinks
    BY <1>10 DEF DeleteRelation
  <2>2. LinkTypeOK'
    <3>1. IsFiniteSet(relation')  BY <2>1, <1>0, FS_Subset
    <3>2. unseen' \subseteq relation' \X relation'  BY <2>1, <1>0
    <3> QED BY <3>1, <3>2, <2>1, <1>0 DEF LinkTypeOK, RelationAssumption
  <2>3. \A u \in LinkTasks : WalksOK(link'[u])  BY <2>1, <1>1
  <2>4. ASSUME NEW n \in Nat \ {0}, NEW c \in Rings(relation', n)
        PROVE  \E i, j \in 1..n : <<c[i], c[j]>> \in unseen'
    <3>1. c \in Chains(relation', n)  BY DEF Rings
    <3>2. c \in Chains(relation, n) /\ \A k \in 1..n : c[k] # e  BY <3>1, <2>1 DEF Chains
    <3>3. c \in Rings(relation, n)  BY <3>2 DEF Rings
    <3>4. PICK i \in 1..n, j \in 1..n : <<c[i], c[j]>> \in unseen  BY <3>3, <1>2 DEF RingsCross
    <3>5. <<c[i], c[j]>> \in unseen'  BY <3>4, <3>2, <2>1
    <3> QED BY <3>5
  <2>5. RingsCross(relation, unseen)'  BY <2>4 DEF RingsCross
  <2> QED BY <2>2, <2>3, <2>5 DEF RelationInv
<1>11. CASE UNCHANGED linkVars
  BY <1>11 DEF linkVars, RelationInv, LinkTypeOK
<1> QED BY <1>5, <1>6, <1>7, <1>8, <1>9, <1>10, <1>11 DEF RelationNext

(* So both always hold.                                                      *)
LEMMA RelationHolds == RelationSpec => []RelationInv
  BY RelationStarts, RelationSteps, PTL DEF RelationSpec

(* Rings of relations that are there are no longer than their number.               *)
LEMMA CyclesCrossInInv == RelationInv => CyclesCross
<1> SUFFICES ASSUME RelationInv, NEW n \in 1..Cardinality(relation), NEW c \in Rings(relation, n)
             PROVE  \E i, j \in 1..n : <<c[i], c[j]>> \in unseen
  BY DEF CyclesCross
<1>1. Cardinality(relation) \in Nat  BY FS_CardinalityType DEF RelationInv, LinkTypeOK
<1>2. n \in Nat \ {0}  BY <1>1
<1> QED BY <1>2 DEF RelationInv, RingsCross

(* Two requests at once are the only way to a cycle of relations, however long.  *)
THEOREM DependenciesAcyclic == RelationSpec => []CyclesCross
  BY RelationHolds, CyclesCrossInInv, PTL

HIDE RelationAssumption

-----------------------------------------------------------------------------
(* The register of assets *)

USE RegisterAssumption

(* A row, and what a request may have in hand: of an import, rows that nobody else   *)
(* sees yet, and a report that is true of them.                                 *)
Refusals == {"attributes", "category", "code", "error"}
RowFields(r) ==
  r = [state |-> r.state, code |-> r.code, category |-> r.category, parent |-> r.parent,
       attrs |-> r.attrs, known |-> r.known]
RowOK(r) ==
  /\ RowFields(r) /\ r.state \in {"none", "live", "deleted"}
  /\ r.parent \in AssetIds \cup {NoAsset}
  /\ r.known \subseteq Definitions /\ Conforms(r.attrs, r.known)
NewAssetRow(r) == RowOK(r) /\ r.state = "live" /\ r.parent = NoAsset
ImportFields(h) ==
  h = [step |-> "import", file |-> h.file, dry |-> h.dry, known |-> h.known,
       rows |-> h.rows, outcome |-> h.outcome]
ImportOK(h) ==
  /\ ImportFields(h) /\ h.file \in AssetFiles /\ h.known \subseteq definition
  /\ h.outcome \in Seq(AssetIds \cup Refusals) /\ Len(h.outcome) <= Len(h.file)
  /\ DOMAIN h.rows \subseteq AssetIds /\ \A a \in DOMAIN h.rows : NewAssetRow(h.rows[a])
  /\ ReportIsTrue(h)
CreateOK(h) ==
  /\ h = [step |-> h.step, form |-> h.form, parent |-> h.parent, known |-> h.known]
  /\ h.parent \in AssetIds \cup {NoAsset} /\ h.known \subseteq definition
  /\ h.step = "insert" => Conforms(h.form.attrs, h.known)
DeleteOK(h) == h.asset \in AssetIds /\ register[h.asset].state # "none"
RequestOK(h) ==
  /\ h.step \in {"idle", "validate", "insert", "import", "delete"}
  /\ h.step \in {"validate", "insert"} => CreateOK(h)
  /\ h.step = "import" => ImportOK(h)
  /\ h.step = "delete" => DeleteOK(h)

(* Uncommitted rows are under ids and codes that no committed row and no other       *)
(* uncommitted one has.                                                      *)
IdsPending ==
  /\ \A t \in RegisterTasks : \A a \in DOMAIN Importing(t) : register[a] = NoEntry
  /\ \A t, u \in RegisterTasks : \A a \in DOMAIN Importing(t) : a \in DOMAIN Importing(u) => t = u
CodesPending ==
  /\ \A t \in RegisterTasks : \A a \in DOMAIN Importing(t), b \in AssetIds :
       LiveAsset(b) => register[b].code # Importing(t)[a].code
  /\ \A t, u \in RegisterTasks : \A a \in DOMAIN Importing(t), b \in DOMAIN Importing(u) :
       Importing(t)[a].code = Importing(u)[b].code => t = u /\ a = b

(* What is under an asset that goes came late, from the count of its dependents on.  *)
Doomed(a) == register[a].state = "deleted" \/ Going(a)
LateUnderDoomed ==
  /\ \A a \in AssetIds : LiveAsset(a) /\ register[a].parent # NoAsset /\ Doomed(register[a].parent)
       => <<a, register[a].parent>> \in late
  /\ \A o \in OpenOrders : placed[o] # NoAsset /\ Doomed(placed[o]) => <<o, placed[o]>> \in late

RegisterShape ==
  /\ DOMAIN register = AssetIds /\ \A a \in AssetIds : RowOK(register[a])
  /\ definition \subseteq Definitions
  /\ placed \in [OpenOrders -> AssetIds \cup {NoAsset}]
  /\ DOMAIN handling = RegisterTasks
  /\ late \subseteq (AssetIds \cup OpenOrders) \X AssetIds
  /\ handled \in 0..MaxHandled
RegisterInv ==
  /\ RegisterShape /\ \A t \in RegisterTasks : RequestOK(handling[t])
  /\ IdsPending /\ CodesPending /\ AssetCodesDiffer /\ LateUnderDoomed

-----------------------------------------------------------------------------
(* The invariant is what the run checks, and its types.                           *)
LEMMA RegisterInvSound == RegisterInv => RegisterIsSound
<1> SUFFICES ASSUME RegisterInv PROVE RegisterIsSound  OBVIOUS
<1>1. NothingStranded  BY DEF RegisterInv, LateUnderDoomed, Doomed, NothingStranded
<1>2. AssetCodesDiffer  BY DEF RegisterInv
<1>3. WrittenConform  BY DEF RegisterInv, RegisterShape, RowOK, WrittenConform
<1>4. \A t \in RegisterTasks : handling[t].step = "import" => ReportIsTrue(handling[t])
  BY DEF RegisterInv, RequestOK, ImportOK
<1> QED BY <1>1, <1>2, <1>3, <1>4 DEF RegisterIsSound

(* It implies the types.                                                       *)
LEMMA RegisterInvTyped == RegisterInv => RegisterTypeOK
  BY DEF RegisterInv, RegisterShape, RowOK, RequestOK, RegisterTypeOK

(* What there is before any row, and a task without a request, are in order.        *)
LEMMA NoEntryOK == RowOK(NoEntry)
  BY DEF RowOK, RowFields, NoEntry, Conforms

(* An id without a row is of no row.                                           *)
LEMMA NoEntryIsNone == NoEntry.state = "none"
  BY DEF NoEntry

(* A task at rest asks nothing of the state.                                     *)
LEMMA RestingOK == RequestOK(Resting) /\ RequestOK(Resting)' /\ Resting.step = "idle"
  BY DEF RequestOK, Resting

(* An import without rows holds no id.                                           *)
LEMMA NoRows == DOMAIN <<>> = {}
  OBVIOUS

(* The invariant holds at the start.                                            *)
LEMMA RegisterStarts == RegisterInit => RegisterInv
<1> SUFFICES ASSUME RegisterInit PROVE RegisterInv  OBVIOUS
<1>1. RegisterShape
  BY NoEntryOK DEF RegisterInit, RegisterShape
<1>2. \A t \in RegisterTasks : RequestOK(handling[t]) /\ Importing(t) = <<>> /\ handling[t].step = "idle"
  BY RestingOK DEF RegisterInit, Importing
<1>3. IdsPending /\ CodesPending  BY <1>2, NoRows DEF IdsPending, CodesPending
<1>4. AssetCodesDiffer /\ LateUnderDoomed
  BY <1>2 DEF RegisterInit, AssetCodesDiffer, LateUnderDoomed, LiveAsset, NoEntry
<1> QED BY <1>1, <1>2, <1>3, <1>4 DEF RegisterInv

(* What the others do not see of a request.                                       *)
OpenRows(h) == IF h.step = "import" THEN h.rows ELSE <<>>
(* One request goes on, and nothing else changes.                                *)
LEMMA TaskMoves ==
  ASSUME RegisterInv, NEW t \in RegisterTasks, NEW h,
         handling' = [handling EXCEPT ![t] = h], RequestOK(h),
         UNCHANGED <<register, definition, placed, late>>, handled' \in 0..MaxHandled,
         h.step = "delete" => Unneeded(h.asset),
         \A a \in DOMAIN OpenRows(h) :
           /\ register[a] = NoEntry
           /\ \A b \in AssetIds : LiveAsset(b) => register[b].code # OpenRows(h)[a].code
           /\ \A b \in DOMAIN OpenRows(h) : OpenRows(h)[a].code = OpenRows(h)[b].code => a = b
           /\ \A u \in RegisterTasks \ {t} :
                /\ a \notin DOMAIN Importing(u)
                /\ \A b \in DOMAIN Importing(u) : OpenRows(h)[a].code # Importing(u)[b].code
  PROVE  RegisterInv'
<1>0. RegisterShape /\ IdsPending /\ CodesPending /\ AssetCodesDiffer /\ LateUnderDoomed
      /\ \A u \in RegisterTasks : RequestOK(handling[u])
  BY DEF RegisterInv
<1>1. handling'[t] = h /\ \A u \in RegisterTasks \ {t} : handling'[u] = handling[u]
  BY <1>0 DEF RegisterShape
<1>2. \A u \in RegisterTasks : Importing(u)' = IF u = t THEN OpenRows(h) ELSE Importing(u)
  BY <1>1 DEF Importing, OpenRows
<1>3. RegisterShape'  BY <1>0 DEF RegisterShape, RowOK, RowFields, Conforms
<1>4. ASSUME NEW u \in RegisterTasks PROVE RequestOK(handling[u])'
  <2>1. RequestOK(handling'[u])  BY <1>0, <1>1
  <2> QED BY <2>1 DEF RequestOK, CreateOK, DeleteOK, ImportOK, ReportIsTrue
<1>5. IdsPending'  BY <1>0, <1>2 DEF IdsPending
<1>6. CodesPending'  BY <1>0, <1>2 DEF CodesPending, LiveAsset
<1>7. AssetCodesDiffer'  BY <1>0 DEF AssetCodesDiffer, LiveAsset
<1>8. LateUnderDoomed'
  <2>1. ASSUME NEW a, Doomed(a)' PROVE Doomed(a) \/ Unneeded(a)
    BY <2>1, <1>1 DEF Doomed, Going
  <2> QED BY <2>1, <1>0 DEF LateUnderDoomed, LiveAsset, Unneeded, RegisterShape
<1> QED BY <1>3, <1>4, <1>5, <1>6, <1>7, <1>8 DEF RegisterInv

(* A create begins, and is validated against the definitions of that moment, which    *)
(* include those of its beginning.                                            *)
LEMMA AssetCreates ==
  ASSUME RegisterInv, NEW t \in RegisterTasks, NEW form, NEW parent \in AssetIds \cup {NoAsset},
         BeginCreate(t, form, parent)
  PROVE  RegisterInv'
<1> DEFINE h == [step |-> "validate", form |-> form, parent |-> parent, known |-> definition]
<1>1. handling' = [handling EXCEPT ![t] = h] /\ UNCHANGED <<register, definition, placed, late>>
      /\ handled' \in 0..MaxHandled
  BY DEF BeginCreate, Start, Handle, RegisterInv, RegisterShape
<1>2. RequestOK(h) /\ OpenRows(h) = <<>>  BY DEF RequestOK, CreateOK, OpenRows
<1> HIDE DEF h
<1>3. h.step = "validate"  BY DEF h
<1> QED BY <1>1, <1>2, <1>3, NoRows, TaskMoves

(* What passes the validation conforms to what was known when it began, too.           *)
LEMMA Validates ==
  ASSUME RegisterInv, NEW t \in RegisterTasks, ValidateCreate(t)
  PROVE  RegisterInv'
<1>1. RequestOK(handling[t]) /\ handling[t].step = "validate"  BY DEF RegisterInv, ValidateCreate
<1>2. PICK h : h = IF handling[t].form.category \in Categories /\ Conforms(handling[t].form.attrs, definition)
                   THEN [handling[t] EXCEPT !.step = "insert"] ELSE Resting
  OBVIOUS
<1>3. handling' = [handling EXCEPT ![t] = h] /\ UNCHANGED <<register, definition, placed, late>>
      /\ handled' \in 0..MaxHandled
  BY <1>2 DEF ValidateCreate, Go, RegisterInv, RegisterShape
<1>4. RequestOK(h) /\ OpenRows(h) = <<>> /\ h.step # "delete"
  <2>1. CASE h = Resting  BY <2>1, RestingOK DEF OpenRows
  <2>2. CASE h # Resting
    <3>1. h = [handling[t] EXCEPT !.step = "insert"] /\ Conforms(handling[t].form.attrs, definition)
      BY <1>2, <2>2
    <3>2. CreateOK(handling[t])  BY <1>1 DEF RequestOK
    <3>3. h.step = "insert" /\ h.form = handling[t].form /\ h.parent = handling[t].parent
          /\ h.known = handling[t].known
          /\ h = [step |-> h.step, form |-> h.form, parent |-> h.parent, known |-> h.known]
      BY <3>1, <3>2 DEF CreateOK
    <3>4. Conforms(h.form.attrs, h.known)  BY <3>1, <3>2, <3>3 DEF CreateOK, Conforms
    <3> QED BY <3>2, <3>3, <3>4 DEF RequestOK, CreateOK, OpenRows
  <2> QED BY <2>1, <2>2
<1> QED BY <1>3, <1>4, NoRows, TaskMoves

(* An import begins with no rows and an empty report.                               *)
LEMMA ImportBegins ==
  ASSUME RegisterInv, NEW t \in RegisterTasks, NEW file \in AssetFiles, NEW dry, BeginImport(t, file, dry)
  PROVE  RegisterInv'
<1> DEFINE h == [step |-> "import", file |-> file, dry |-> dry, known |-> definition,
                 rows |-> <<>>, outcome |-> <<>>]
<1>1. handling' = [handling EXCEPT ![t] = h] /\ UNCHANGED <<register, definition, placed, late>>
      /\ handled' \in 0..MaxHandled
  BY DEF BeginImport, Start, Handle, RegisterInv, RegisterShape
<1>2. RequestOK(h) /\ OpenRows(h) = <<>>
  <2>1. file \in Seq(AssetForms) /\ DOMAIN <<>> = {} /\ Len(<<>>) = 0  OBVIOUS
  <2>2. ReportIsTrue(h)  BY <2>1 DEF ReportIsTrue
  <2>3. ImportOK(h)  BY <2>1, <2>2 DEF ImportOK, ImportFields
  <2> QED BY <2>3 DEF RequestOK, OpenRows
<1> HIDE DEF h
<1>3. h.step = "import"  BY DEF h
<1> QED BY <1>1, <1>2, <1>3, NoRows, TaskMoves

(* A deletion begins when nothing needs the asset.                                   *)
LEMMA Counts ==
  ASSUME RegisterInv, NEW t \in RegisterTasks, NEW a \in AssetIds, CountBlockers(t, a)
  PROVE  RegisterInv'
<1> DEFINE h == [step |-> "delete", asset |-> a]
<1>1. handling' = [handling EXCEPT ![t] = h] /\ UNCHANGED <<register, definition, placed, late>>
      /\ handled' \in 0..MaxHandled /\ Unneeded(a) /\ LiveAsset(a)
  BY DEF CountBlockers, Start, Handle, RegisterInv, RegisterShape
<1>2. RequestOK(h) /\ OpenRows(h) = <<>>  BY <1>1 DEF RequestOK, DeleteOK, OpenRows, LiveAsset
<1> HIDE DEF h
<1>3. h.asset = a  BY DEF h
<1> QED BY <1>1, <1>2, <1>3, NoRows, TaskMoves

(* A request is lost, or ends without a row.                                       *)
LEMMA Loses ==
  ASSUME RegisterInv, NEW t \in RegisterTasks, handling' = [handling EXCEPT ![t] = Resting],
         UNCHANGED <<register, definition, placed, late>>, handled' \in 0..MaxHandled
  PROVE  RegisterInv'
<1>1. OpenRows(Resting) = <<>>  BY RestingOK DEF OpenRows
<1> QED BY <1>1, RestingOK, NoRows, TaskMoves

(* An import that has one more line in its report: a row refused for a reason, or     *)
(* inserted under an id that it did not have.                                   *)
Grown(h, taken, o) == [h EXCEPT !.rows = taken, !.outcome = Append(@, o)]
RowRefused(h, taken, o, form) ==
  /\ taken = h.rows /\ o \in Refusals
  /\ o = "attributes" => ~Conforms(form.attrs, h.known)
  /\ o = "category" => form.category \notin Categories
RowInserted(h, taken, o, form) ==
  /\ o \in AssetIds \ DOMAIN h.rows /\ NewAssetRow(Entry(form, NoAsset, h.known))
  /\ taken = [b \in DOMAIN h.rows \cup {o} |->
               IF b = o THEN Entry(form, NoAsset, h.known) ELSE h.rows[b]]
(* Its report stays true.                                                       *)
LEMMA ReportGrows ==
  ASSUME NEW h, ImportOK(h), Len(h.outcome) < Len(h.file), NEW taken, NEW o, NEW form,
         form = h.file[Len(h.outcome) + 1], RowRefused(h, taken, o, form) \/ RowInserted(h, taken, o, form)
  PROVE  ImportOK(Grown(h, taken, o)) /\ Grown(h, taken, o).step = "import" /\ Grown(h, taken, o).rows = taken
<1> USE DEF RowRefused, RowInserted
<1> DEFINE new == Grown(h, taken, o)
<1>0. new = [step |-> "import", file |-> h.file, dry |-> h.dry, known |-> h.known,
             rows |-> taken, outcome |-> Append(h.outcome, o)]
  <2>1. PICK grown : grown = Append(h.outcome, o)  OBVIOUS
  <2>2. new = [h EXCEPT !.rows = taken, !.outcome = grown]
    <3>1. [h EXCEPT !.rows = taken].outcome = h.outcome  BY DEF ImportOK, ImportFields
    <3> QED BY <2>1, <3>1 DEF Grown
  <2>3. h = [step |-> "import", file |-> h.file, dry |-> h.dry, known |-> h.known,
             rows |-> h.rows, outcome |-> h.outcome]
    BY DEF ImportOK, ImportFields
  <2>4. [h EXCEPT !.rows = taken] = [step |-> "import", file |-> h.file, dry |-> h.dry, known |-> h.known,
                                    rows |-> taken, outcome |-> h.outcome]
    BY <2>3
  <2> HIDE DEF new
  <2>5. PICK half : half = [h EXCEPT !.rows = taken]  OBVIOUS
  <2>6. new = [half EXCEPT !.outcome = grown]  BY <2>2, <2>5
  <2> QED BY <2>1, <2>4, <2>5, <2>6
<1> HIDE DEF new
<1>1. /\ ImportFields(new) /\ new.step = "import" /\ new.file = h.file /\ new.known = h.known
      /\ new.rows = taken /\ new.outcome = Append(h.outcome, o)
  BY <1>0 DEF ImportFields
<1>2. PICK n \in Nat : n = Len(h.outcome) /\ n < Len(h.file)  BY DEF ImportOK
<1>3. /\ Append(h.outcome, o) \in Seq(AssetIds \cup Refusals) /\ Len(Append(h.outcome, o)) = n + 1
      /\ DOMAIN Append(h.outcome, o) = 1..(n + 1) /\ DOMAIN h.outcome = 1..n
      /\ Append(h.outcome, o)[n + 1] = o /\ \A i \in 1..n : Append(h.outcome, o)[i] = h.outcome[i]
  BY <1>2 DEF ImportOK
<1>4. /\ DOMAIN taken \subseteq AssetIds /\ DOMAIN h.rows \subseteq DOMAIN taken
      /\ \A a \in DOMAIN h.rows : taken[a] = h.rows[a]
      /\ \A a \in DOMAIN taken : NewAssetRow(taken[a])
  BY DEF ImportOK
<1>5. ReportIsTrue(h) /\ h.file \in AssetFiles /\ h.known \subseteq definition
  BY DEF ImportOK
<1>6. PICK out : out = Append(h.outcome, o)  OBVIOUS
<1>7. ASSUME NEW i \in 1..(n + 1)
      PROVE  CASE out[i] \in AssetIds -> out[i] \in DOMAIN taken /\ taken[out[i]] = Entry(h.file[i], NoAsset, h.known)
               [] out[i] = "attributes" -> ~Conforms(h.file[i].attrs, h.known)
               [] out[i] = "category" -> h.file[i].category \notin Categories
               [] OTHER -> TRUE
  <2>1. CASE i = n + 1
    <3>1. out[i] = o /\ h.file[i] = form  BY <2>1, <1>2, <1>3, <1>6
    <3> QED BY <3>1 DEF Refusals
  <2>2. CASE i # n + 1
    <3>1. out[i] = h.outcome[i] /\ i \in DOMAIN h.outcome  BY <2>2, <1>2, <1>3, <1>6
    <3> QED BY <3>1, <1>4, <1>5 DEF ReportIsTrue
  <2> QED BY <2>1, <2>2
<1>8. ASSUME NEW i \in 1..(n + 1), NEW j \in 1..(n + 1), out[i] = out[j], out[i] \in AssetIds PROVE i = j
  <2>1. \A k \in 1..n : h.outcome[k] \in AssetIds => h.outcome[k] \in DOMAIN h.rows
    BY <1>3, <1>5 DEF ReportIsTrue
  <2>2. o \in AssetIds => o \notin DOMAIN h.rows  BY DEF Refusals
  <2>3. \A k, l \in 1..n : h.outcome[k] = h.outcome[l] /\ h.outcome[k] \in AssetIds => k = l
    BY <1>3, <1>5 DEF ReportIsTrue
  <2>4. \A k \in 1..(n + 1) : k = n + 1 \/ k \in 1..n  BY <1>2
  <2> QED BY <2>1, <2>2, <2>3, <2>4, <1>8, <1>3, <1>6
<1>9. ASSUME NEW a \in DOMAIN taken PROVE \E i \in 1..(n + 1) : out[i] = a
  <2>1. CASE a \in DOMAIN h.rows
    <3>1. PICK i \in DOMAIN h.outcome : h.outcome[i] = a  BY <2>1, <1>5 DEF ReportIsTrue
    <3> QED BY <3>1, <1>2, <1>3, <1>6
  <2>2. CASE a = o  BY <2>2, <1>2, <1>3, <1>6
  <2> QED BY <2>1, <2>2
<1>10. ReportIsTrue(new)
  <2>1. new.outcome = out /\ DOMAIN out = 1..(n + 1)  BY <1>1, <1>3, <1>6
  <2> QED BY <2>1, <1>1, <1>7, <1>8, <1>9 DEF ReportIsTrue
<1>11. ImportOK(new)  BY <1>1, <1>2, <1>3, <1>4, <1>5, <1>10 DEF ImportOK
<1> QED BY <1>1, <1>11 DEF new

(* A refused row adds a true line to the report and no row.                          *)
LEMMA Refuses ==
  ASSUME RegisterInv, NEW t \in RegisterTasks, handling[t].step = "import",
         Len(handling[t].outcome) < Len(handling[t].file), NEW why \in Refusals, RefuseRow(t, why),
         why = "attributes" => ~Conforms(NextForm(t).attrs, handling[t].known),
         why = "category" => NextForm(t).category \notin Categories
  PROVE  RegisterInv'
<1>1. PICK h : h = handling[t] /\ h.step = "import"  OBVIOUS
<1>2. ImportOK(h)  BY <1>1 DEF RegisterInv, RequestOK
<1>0. PICK taken : taken = h.rows  OBVIOUS
<1>3. PICK new : new = Grown(h, taken, why)  OBVIOUS
<1>4. handling' = [handling EXCEPT ![t] = new] /\ UNCHANGED <<register, definition, placed, late, handled>>
  BY <1>1, <1>0, <1>3 DEF RefuseRow, Outcome, Go, Grown
<1>5. ImportOK(new) /\ new.step = "import" /\ new.rows = taken
  <2>1. PICK form : form = h.file[Len(h.outcome) + 1] /\ form = NextForm(t)  BY <1>1 DEF NextForm
  <2>2. RowRefused(h, taken, why, form)  BY <1>1, <1>0, <2>1 DEF RowRefused
  <2>3. Len(h.outcome) < Len(h.file)  BY <1>1
  <2>4. PICK o : o = why  OBVIOUS
  <2>5. RowRefused(h, taken, o, form) /\ new = Grown(h, taken, o)  BY ONLY <2>2, <2>4, <1>3
  <2>6. form = h.file[Len(h.outcome) + 1]  BY ONLY <2>1
  <2> QED BY ONLY <1>2, <2>3, <2>5, <2>6, ReportGrows
<1>6. RequestOK(new) /\ handled' \in 0..MaxHandled  BY <1>4, <1>5 DEF RequestOK, RegisterInv, RegisterShape
<1>7. OpenRows(new) = Importing(t)  BY <1>1, <1>0, <1>5 DEF OpenRows, Importing
<1>8. \A a \in DOMAIN OpenRows(new) :
        /\ register[a] = NoEntry
        /\ \A b \in AssetIds : LiveAsset(b) => register[b].code # OpenRows(new)[a].code
        /\ \A b \in DOMAIN OpenRows(new) : OpenRows(new)[a].code = OpenRows(new)[b].code => a = b
        /\ \A u \in RegisterTasks \ {t} :
             /\ a \notin DOMAIN Importing(u)
             /\ \A b \in DOMAIN Importing(u) : OpenRows(new)[a].code # Importing(u)[b].code
  BY <1>7 DEF RegisterInv, IdsPending, CodesPending
<1> QED BY <1>4, <1>5, <1>6, <1>8, TaskMoves

(* An inserted row gets an id and a code of its own.                              *)
LEMMA AssetImports ==
  ASSUME RegisterInv, NEW t \in RegisterTasks, NEW a \in AssetIds, ImportAsset(t, a)
  PROVE  RegisterInv'
<1>1. PICK h : h = handling[t] /\ h.step = "import"  BY DEF ImportAsset
<1>2. ImportOK(h) /\ Len(h.outcome) < Len(h.file)  BY <1>1 DEF RegisterInv, RequestOK, ImportAsset
<1>3. PICK form : form = NextForm(t) /\ form = h.file[Len(h.outcome) + 1]  BY <1>1 DEF NextForm
<1>4. CASE ~Conforms(form.attrs, h.known) /\ RefuseRow(t, "attributes")
  BY <1>1, <1>2, <1>3, <1>4, Refuses DEF Refusals
<1>5. CASE form.category \notin Categories /\ RefuseRow(t, "category")
  BY <1>1, <1>2, <1>3, <1>5, Refuses DEF Refusals
<1>6. CASE RefuseRow(t, "code")
  BY <1>1, <1>2, <1>3, <1>6, Refuses DEF Refusals
<1>7. ASSUME Conforms(form.attrs, h.known), a \in FreshIds, ~CodeOpen(t, form.code), ~CodeUsed(a, form.code),
             \A b \in DOMAIN h.rows : h.rows[b].code # form.code,
             Outcome(t, [b \in DOMAIN h.rows \cup {a} |->
                           IF b = a THEN Entry(form, NoAsset, h.known) ELSE h.rows[b]], a)
      PROVE  RegisterInv'
  <2>1. PICK taken : taken = [b \in DOMAIN h.rows \cup {a} |->
                              IF b = a THEN Entry(form, NoAsset, h.known) ELSE h.rows[b]]
    OBVIOUS
  <2>2. PICK new : new = Grown(h, taken, a)  OBVIOUS
  <2>3. handling' = [handling EXCEPT ![t] = new] /\ UNCHANGED <<register, definition, placed, late, handled>>
    BY <1>1, <1>7, <2>1, <2>2 DEF Outcome, Go, Grown
  <2>4. PICK e : e = Entry(form, NoAsset, h.known)  OBVIOUS
  <2>5. NewAssetRow(e) /\ e.code = form.code
    BY <2>4, <1>2, <1>7 DEF Entry, NewAssetRow, RowOK, RowFields, ImportOK, RegisterInv, RegisterShape
  <2>6. a \notin DOMAIN h.rows /\ register[a] = NoEntry /\ \A u \in RegisterTasks : a \notin DOMAIN Importing(u)
    BY <1>1, <1>7 DEF FreshIds, Importing
  <2>7. ImportOK(new) /\ new.step = "import" /\ new.rows = taken
    <3>1. RowInserted(h, taken, a, form)  BY <2>1, <2>4, <2>5, <2>6 DEF RowInserted
    <3> QED BY ONLY <1>2, <1>3, <2>2, <3>1, ReportGrows
  <2>8. RequestOK(new) /\ handled' \in 0..MaxHandled  BY <2>3, <2>7 DEF RequestOK, RegisterInv, RegisterShape
  <2>9. OpenRows(new) = taken /\ Importing(t) = h.rows  BY <1>1, <2>7 DEF OpenRows, Importing
  <2>10. \A b \in DOMAIN taken : b = a \/ (b \in DOMAIN h.rows /\ taken[b] = h.rows[b])  BY <2>1
  <2>11. taken[a] = e  BY <2>1, <2>4
  <2>12. ASSUME NEW b \in DOMAIN taken
         PROVE  /\ register[b] = NoEntry
                /\ \A d \in AssetIds : LiveAsset(d) => register[d].code # taken[b].code
                /\ \A d \in DOMAIN taken : taken[b].code = taken[d].code => b = d
                /\ \A u \in RegisterTasks \ {t} :
                     /\ b \notin DOMAIN Importing(u)
                     /\ \A d \in DOMAIN Importing(u) : taken[b].code # Importing(u)[d].code
    <3>1. IdsPending /\ CodesPending  BY DEF RegisterInv
    <3>2. CASE b = a
      <4>1. \A d \in AssetIds : LiveAsset(d) => register[d].code # form.code
        <5>1. ~LiveAsset(a)  BY <2>6, NoEntryIsNone DEF LiveAsset
        <5> QED BY <5>1, <1>7 DEF CodeUsed
      <4>2. \A u \in RegisterTasks \ {t} : \A d \in DOMAIN Importing(u) : Importing(u)[d].code # form.code
        BY <1>7 DEF CodeOpen
      <4> QED BY <4>1, <4>2, <3>2, <1>7, <2>5, <2>6, <2>10, <2>11
    <3>3. CASE b # a
      <4>1. b \in DOMAIN h.rows /\ taken[b] = h.rows[b]  BY <3>3, <2>10
      <4> QED BY <4>1, <3>1, <1>7, <2>5, <2>9, <2>10, <2>11 DEF IdsPending, CodesPending
    <3> QED BY <3>2, <3>3
  <2>13. \A b \in DOMAIN OpenRows(new) :
           /\ register[b] = NoEntry
           /\ \A d \in AssetIds : LiveAsset(d) => register[d].code # OpenRows(new)[b].code
           /\ \A d \in DOMAIN OpenRows(new) : OpenRows(new)[b].code = OpenRows(new)[d].code => b = d
           /\ \A u \in RegisterTasks \ {t} :
                /\ b \notin DOMAIN Importing(u)
                /\ \A d \in DOMAIN Importing(u) : OpenRows(new)[b].code # Importing(u)[d].code
    BY <2>9, <2>12
  <2>14. new.step # "delete"  BY <2>7
  <2> QED BY ONLY RegisterInv, t \in RegisterTasks, <2>3, <2>8, <2>13, <2>14, TaskMoves
<1> QED BY <1>1, <1>3, <1>4, <1>5, <1>6, <1>7 DEF ImportAsset

(* A commit turns rows that nobody saw into rows that everybody sees.                 *)
LEMMA ImportEnds ==
  ASSUME RegisterInv, NEW t \in RegisterTasks, EndAssetImport(t)
  PROVE  RegisterInv'
<1>1. PICK h : h = handling[t] /\ h.step = "import"  BY DEF EndAssetImport
<1>2. ImportOK(h)  BY <1>1 DEF RegisterInv, RequestOK
<1>3. handling' = [handling EXCEPT ![t] = Resting] /\ UNCHANGED <<definition, placed, late, handled>>
  BY DEF EndAssetImport, Go
<1>4. CASE h.dry
  <2>1. register' = register  BY <1>1, <1>4 DEF EndAssetImport
  <2> QED BY <2>1, <1>3, Loses DEF RegisterInv, RegisterShape
<1>5. CASE ~h.dry
  <2>1. register' = [a \in AssetIds |-> IF a \in DOMAIN h.rows THEN h.rows[a] ELSE register[a]]
    BY <1>1, <1>5 DEF EndAssetImport
  <2>2. RegisterShape /\ IdsPending /\ CodesPending /\ AssetCodesDiffer /\ LateUnderDoomed
        /\ \A u \in RegisterTasks : RequestOK(handling[u])
    BY DEF RegisterInv
  <2>3. handling'[t] = Resting /\ \A u \in RegisterTasks \ {t} : handling'[u] = handling[u]
    BY <1>3, <2>2 DEF RegisterShape
  <2>4. Importing(t) = h.rows /\ DOMAIN h.rows \subseteq AssetIds /\ \A a \in DOMAIN h.rows : NewAssetRow(h.rows[a])
    BY <1>1, <1>2 DEF Importing, ImportOK
  <2>5. /\ \A a \in DOMAIN h.rows : register'[a] = h.rows[a] /\ register[a] = NoEntry /\ LiveAsset(a)'
        /\ \A a \in AssetIds \ DOMAIN h.rows : register'[a] = register[a] /\ LiveAsset(a)' = LiveAsset(a)
    BY <2>1, <2>2, <2>4 DEF IdsPending, NewAssetRow, LiveAsset
  <2>6. DOMAIN (Importing(t)') = {} /\ \A u \in RegisterTasks \ {t} : Importing(u)' = Importing(u)
    BY <2>3, RestingOK, NoRows DEF Importing
  <2>7. RegisterShape'
    <3>1. ASSUME NEW a \in AssetIds PROVE RowOK(register'[a])
      BY <2>2, <2>4, <2>5 DEF RegisterShape, NewAssetRow
    <3>2. \A a \in AssetIds : RowOK(register[a])'  BY <3>1 DEF RowOK, RowFields, Conforms
    <3> QED BY <3>2, <1>3, <2>1, <2>2, <2>3 DEF RegisterShape
  <2>8. ASSUME NEW u \in RegisterTasks PROVE RequestOK(handling[u])'
    <3>1. RequestOK(handling'[u])  BY <2>2, <2>3, RestingOK
    <3>2. ASSUME NEW a \in AssetIds, register[a].state # "none" PROVE register'[a].state # "none"
      BY <3>2, <2>5, NoEntryIsNone
    <3> QED BY <3>1, <3>2, <1>3 DEF RequestOK, CreateOK, DeleteOK, ImportOK, ReportIsTrue
  <2>9. IdsPending'
    <3>1. ASSUME NEW u \in RegisterTasks \ {t}, NEW a \in DOMAIN Importing(u)
          PROVE  register'[a] = NoEntry
      <4>1. a \notin DOMAIN h.rows /\ register[a] = NoEntry  BY <2>2, <2>4, <3>1 DEF IdsPending
      <4>2. a \in AssetIds  BY <3>1, <2>2, NoRows DEF Importing, RequestOK, ImportOK
      <4> QED BY <4>1, <4>2, <2>5
    <3> QED BY <3>1, <2>2, <2>6 DEF IdsPending
  <2>10. CodesPending'
    <3>1. ASSUME NEW u \in RegisterTasks \ {t}, NEW a \in DOMAIN Importing(u), NEW b \in AssetIds, LiveAsset(b)'
          PROVE  register'[b].code # Importing(u)[a].code
      BY <3>1, <2>2, <2>4, <2>5 DEF CodesPending
    <3>2. \A u, v \in RegisterTasks \ {t} : \A a \in DOMAIN Importing(u), b \in DOMAIN Importing(v) :
             Importing(u)[a].code = Importing(v)[b].code => u = v /\ a = b
      BY <2>2 DEF CodesPending
    <3> QED BY <3>1, <3>2, <2>6 DEF CodesPending
  <2>11. AssetCodesDiffer'
    <3>1. ASSUME NEW a \in AssetIds, NEW b \in AssetIds, LiveAsset(a)', LiveAsset(b)',
                 register'[a].code = register'[b].code
          PROVE  a = b
      <4>1. CASE a \in DOMAIN h.rows /\ b \in DOMAIN h.rows
        BY <4>1, <3>1, <2>2, <2>4, <2>5 DEF CodesPending
      <4>2. CASE a \in DOMAIN h.rows /\ b \notin DOMAIN h.rows
        BY <4>2, <3>1, <2>2, <2>4, <2>5 DEF CodesPending
      <4>3. CASE a \notin DOMAIN h.rows /\ b \in DOMAIN h.rows
        BY <4>3, <3>1, <2>2, <2>4, <2>5 DEF CodesPending
      <4>4. CASE a \notin DOMAIN h.rows /\ b \notin DOMAIN h.rows
        BY <4>4, <3>1, <2>2, <2>5 DEF AssetCodesDiffer
      <4> QED BY <4>1, <4>2, <4>3, <4>4
    <3> QED BY <3>1 DEF AssetCodesDiffer
  <2>12. LateUnderDoomed'
    <3>1. ASSUME NEW a \in AssetIds, Doomed(a)' PROVE Doomed(a)
      <4>1. register'[a].state = "deleted" => register[a].state = "deleted"
        BY <2>4, <2>5 DEF NewAssetRow
      <4>2. Going(a)' => Going(a)  BY <2>3, RestingOK DEF Going
      <4> QED BY <3>1, <4>1, <4>2 DEF Doomed
    <3>2. ASSUME NEW a \in AssetIds, LiveAsset(a)', register'[a].parent # NoAsset
          PROVE  LiveAsset(a) /\ register'[a].parent = register[a].parent /\ register[a].parent \in AssetIds
      BY <3>2, <2>2, <2>4, <2>5 DEF NewAssetRow, RegisterShape, RowOK
    <3>3. \A o \in OpenOrders : placed[o] \in AssetIds \cup {NoAsset}  BY <2>2 DEF RegisterShape
    <3> QED BY <3>1, <3>2, <3>3, <1>3, <2>2 DEF LateUnderDoomed
  <2> QED BY <2>7, <2>8, <2>9, <2>10, <2>11, <2>12 DEF RegisterInv
<1> QED BY <1>4, <1>5

(* One committed row is written, under a code that is free.                        *)
LEMMA RowWritten ==
  ASSUME RegisterInv, NEW a \in AssetIds, NEW r, RowOK(r), register' = [register EXCEPT ![a] = r],
         UNCHANGED <<definition, placed>>, handled' \in 0..MaxHandled, DOMAIN handling' = RegisterTasks,
         \A u \in RegisterTasks : handling'[u] = handling[u] \/ handling'[u] = Resting,
         \A u \in RegisterTasks : Importing(u)' = Importing(u) /\ a \notin DOMAIN Importing(u),
         register[a].state # "none" => r.state # "none",
         r.state = "live" =>
           /\ ~CodeUsed(a, r.code)
           /\ \A u \in RegisterTasks : \A b \in DOMAIN Importing(u) : Importing(u)[b].code # r.code,
         late' \subseteq (AssetIds \cup OpenOrders) \X AssetIds, LateUnderDoomed'
  PROVE  RegisterInv'
<1>0. RegisterShape /\ IdsPending /\ CodesPending /\ AssetCodesDiffer
      /\ \A u \in RegisterTasks : RequestOK(handling[u])
  BY DEF RegisterInv
<1>1. register'[a] = r /\ \A b \in AssetIds \ {a} : register'[b] = register[b]
  BY <1>0 DEF RegisterShape
<1>2. (LiveAsset(a)' <=> r.state = "live") /\ \A b \in AssetIds \ {a} : LiveAsset(b)' <=> LiveAsset(b)
  BY <1>1 DEF LiveAsset
<1>3. RegisterShape'
  <2>1. ASSUME NEW b \in AssetIds PROVE RowOK(register'[b])  BY <1>0, <1>1 DEF RegisterShape
  <2>2. \A b \in AssetIds : RowOK(register[b])'  BY <2>1 DEF RowOK, RowFields, Conforms
  <2> QED BY <2>2, <1>0 DEF RegisterShape
<1>4. ASSUME NEW u \in RegisterTasks PROVE RequestOK(handling[u])'
  <2>1. RequestOK(handling'[u])  BY <1>0, RestingOK
  <2>2. \A b \in AssetIds : register[b].state # "none" => register'[b].state # "none"  BY <1>1
  <2> QED BY <2>1, <2>2 DEF RequestOK, CreateOK, DeleteOK, ImportOK, ReportIsTrue
<1>5. ASSUME NEW u \in RegisterTasks, NEW b \in DOMAIN Importing(u) PROVE b \in AssetIds /\ b # a
  BY <1>5, <1>0, NoRows DEF Importing, RequestOK, ImportOK
<1>6. IdsPending'  BY <1>0, <1>1, <1>5 DEF IdsPending
<1>7. CodesPending'
  <2>1. ASSUME NEW u \in RegisterTasks, NEW b \in DOMAIN Importing(u), NEW c \in AssetIds, LiveAsset(c)'
        PROVE  register'[c].code # Importing(u)[b].code
    BY <2>1, <1>0, <1>1, <1>2 DEF CodesPending
  <2> QED BY <2>1, <1>0 DEF CodesPending
<1>8. AssetCodesDiffer'  BY <1>0, <1>1, <1>2 DEF AssetCodesDiffer, CodeUsed
<1> QED BY <1>3, <1>4, <1>6, <1>7, <1>8 DEF RegisterInv

(* A create commits its row, or finds the code or the parent amiss.                   *)
LEMMA Inserts ==
  ASSUME RegisterInv, NEW t \in RegisterTasks, NEW a \in AssetIds, InsertAsset(t, a)
  PROVE  RegisterInv'
<1>1. PICK h : h = handling[t] /\ h.step = "insert"  BY DEF InsertAsset
<1>2. CreateOK(h) /\ Conforms(h.form.attrs, h.known)  BY <1>1 DEF RegisterInv, RequestOK, CreateOK
<1>3. handling' = [handling EXCEPT ![t] = Resting] /\ UNCHANGED <<definition, placed, handled>>
  BY DEF InsertAsset, Go
<1>4. CASE UNCHANGED <<register, late>>
  BY <1>3, <1>4, Loses DEF RegisterInv, RegisterShape
<1>5. CASE ~UNCHANGED <<register, late>>
  <2>1. PICK r : r = Entry(h.form, h.parent, h.known)  OBVIOUS
  <2>2. /\ ~CodeUsed(a, h.form.code) /\ register' = [register EXCEPT ![a] = r]
        /\ late' = late \cup Late(a, h.parent) /\ a \in FreshIds /\ ~CodeOpen(t, h.form.code)
    BY <1>1, <1>5, <2>1 DEF InsertAsset
  <2>3. RowOK(r) /\ r.state = "live" /\ r.code = h.form.code /\ r.parent = h.parent
    BY <2>1, <1>2 DEF Entry, RowOK, RowFields, CreateOK, RegisterInv, RegisterShape
  <2>4. register[a] = NoEntry /\ \A u \in RegisterTasks : a \notin DOMAIN Importing(u)
    BY <2>2 DEF FreshIds
  <2>5. handling'[t] = Resting /\ (\A u \in RegisterTasks \ {t} : handling'[u] = handling[u])
        /\ DOMAIN handling' = RegisterTasks
    BY <1>3 DEF RegisterInv, RegisterShape
  <2>6. \A u \in RegisterTasks : Importing(u)' = Importing(u)  BY <2>5, <1>1, RestingOK DEF Importing
  <2>7. Importing(t) = <<>>  BY <1>1 DEF Importing
  <2>8. \A u \in RegisterTasks : \A b \in DOMAIN Importing(u) : Importing(u)[b].code # r.code
    BY <2>2, <2>3, <2>7, NoRows DEF CodeOpen
  <2>9. Late(a, h.parent) \subseteq (AssetIds \cup OpenOrders) \X AssetIds
    BY <1>2 DEF CreateOK, Late
  <2>10. register'[a] = r /\ \A b \in AssetIds \ {a} : register'[b] = register[b]
    BY <2>2 DEF RegisterInv, RegisterShape
  <2>11. LateUnderDoomed'
    <3>1. ASSUME NEW b \in AssetIds, Doomed(b)' PROVE Doomed(b)
      <4>1. register'[b].state = "deleted" => register[b].state = "deleted"  BY <2>3, <2>10
      <4>2. Going(b)' => Going(b)  BY <2>5, RestingOK DEF Going
      <4> QED BY <3>1, <4>1, <4>2 DEF Doomed
    <3>2. h.parent # NoAsset /\ Doomed(h.parent) => <<a, h.parent>> \in late'
      BY <2>2 DEF Late, Doomed
    <3>3. \A b \in AssetIds \ {a} : LiveAsset(b)' = LiveAsset(b)  BY <2>10 DEF LiveAsset
    <3>4. /\ \A b \in AssetIds : register[b].parent \in AssetIds \cup {NoAsset}
          /\ \A o \in OpenOrders : placed[o] \in AssetIds \cup {NoAsset}
          /\ h.parent \in AssetIds \cup {NoAsset}
      BY <1>2 DEF RegisterInv, RegisterShape, RowOK, CreateOK
    <3> QED BY <3>1, <3>2, <3>3, <3>4, <1>3, <2>2, <2>3, <2>10 DEF LateUnderDoomed, RegisterInv
  <2>12. \A u \in RegisterTasks : handling'[u] = handling[u] \/ handling'[u] = Resting  BY <2>5
  <2>13. late' \subseteq (AssetIds \cup OpenOrders) \X AssetIds
         /\ handled' \in 0..MaxHandled /\ register[a].state = "none"
    BY <2>2, <2>4, <2>9, <1>3, NoEntryIsNone DEF RegisterInv, RegisterShape
  <2> QED
    BY ONLY RegisterInv, a \in AssetIds, <2>2, <2>3, <2>4, <2>5, <2>6, <2>8, <2>11, <2>12, <2>13, <1>3, RowWritten
<1> QED BY <1>4, <1>5

(* A PATCH keeps codes apart, and what moves under a going asset is on record.           *)
LEMMA AssetPatches ==
  ASSUME RegisterInv, NEW a \in AssetIds, NEW change, NEW parent \in AssetIds \cup {NoAsset},
         PatchAsset(a, change, parent)
  PROVE  RegisterInv'
<1>1. PICK r : r = [register[a] EXCEPT !.code = Changed(a, change, "code"),
                      !.category = Changed(a, change, "category"), !.attrs = Changed(a, change, "attrs"),
                      !.known = IF "attrs" \in DOMAIN change THEN {} ELSE @,
                      !.parent = IF parent # NoAsset THEN parent ELSE @]
  OBVIOUS
<1>2. /\ LiveAsset(a) /\ ~CodeUsed(a, r.code) /\ register' = [register EXCEPT ![a] = r]
      /\ \A u \in RegisterTasks : \A b \in DOMAIN Importing(u) : Importing(u)[b].code # r.code
      /\ late' = IF parent \in {NoAsset, register[a].parent} THEN late ELSE Leaves(a) \cup Late(a, parent)
      /\ UNCHANGED <<definition, placed, handling>> /\ handled' \in 0..MaxHandled
  BY <1>1 DEF PatchAsset, Handle, RegisterInv, RegisterShape
<1>3. RowOK(register[a]) /\ register[a].state = "live"  BY <1>2 DEF RegisterInv, RegisterShape, LiveAsset
<1>4. /\ r = [state |-> "live", code |-> r.code, category |-> r.category, parent |-> r.parent,
              attrs |-> r.attrs, known |-> r.known]
      /\ r.parent = (IF parent # NoAsset THEN parent ELSE register[a].parent)
      /\ r.known = (IF "attrs" \in DOMAIN change THEN {} ELSE register[a].known)
      /\ "attrs" \notin DOMAIN change => r.attrs = register[a].attrs
  BY <1>1, <1>3 DEF RowOK, RowFields, Changed
<1>5. RowOK(r) /\ r.state = "live"  BY <1>3, <1>4 DEF RowOK, RowFields, Conforms
<1>6. register'[a] = r /\ \A b \in AssetIds \ {a} : register'[b] = register[b]
  BY <1>2 DEF RegisterInv, RegisterShape
<1>7. \A u \in RegisterTasks : a \notin DOMAIN Importing(u)
  BY <1>3, NoEntryIsNone DEF RegisterInv, IdsPending
<1>8. \A u \in RegisterTasks : Importing(u)' = Importing(u)  BY <1>2 DEF Importing
<1>9. late' \subseteq (AssetIds \cup OpenOrders) \X AssetIds
  BY <1>2 DEF Leaves, Late, RegisterInv, RegisterShape
<1>10. LateUnderDoomed'
  <2>1. ASSUME NEW b \in AssetIds, Doomed(b)' PROVE Doomed(b)
    BY <2>1, <1>2, <1>5, <1>6 DEF Doomed, Going
  <2>2. ASSUME NEW b \in AssetIds \ {a}, LiveAsset(b)', NEW p \in AssetIds, p = register'[b].parent, Doomed(p)'
        PROVE  <<b, p>> \in late'
    <3>1. LiveAsset(b) /\ register[b].parent = p  BY <2>2, <1>6 DEF LiveAsset
    <3>2. <<b, p>> \in late  BY <2>1, <2>2, <3>1 DEF RegisterInv, LateUnderDoomed
    <3> QED BY <3>1, <3>2, <1>2 DEF Leaves
  <2>3. ASSUME NEW o \in OpenOrders, NEW p \in AssetIds, p = placed'[o], Doomed(p)' PROVE <<o, p>> \in late'
    <3>1. placed[o] = p /\ o # a  BY <2>3, <1>2
    <3>2. <<o, p>> \in late  BY <2>1, <2>3, <3>1 DEF RegisterInv, LateUnderDoomed
    <3> QED BY <3>1, <3>2, <1>2 DEF Leaves
  <2>4. ASSUME r.parent # NoAsset, Doomed(r.parent)' PROVE <<a, r.parent>> \in late'
    <3>1. r.parent \in AssetIds /\ Doomed(r.parent)  BY <2>1, <2>4, <1>5 DEF RowOK
    <3>2. CASE parent \in {NoAsset, register[a].parent}
      <4>1. r.parent = register[a].parent  BY <3>2, <1>4
      <4> QED BY <4>1, <3>1, <3>2, <2>4, <1>2 DEF RegisterInv, LateUnderDoomed
    <3>3. CASE parent \notin {NoAsset, register[a].parent}
      BY <3>1, <3>3, <2>4, <1>2, <1>4 DEF Late, Doomed
    <3> QED BY <3>2, <3>3
  <2>5. /\ \A b \in AssetIds : register'[b].parent \in AssetIds \cup {NoAsset}
        /\ \A o \in OpenOrders : placed'[o] \in AssetIds \cup {NoAsset}
    BY <1>2, <1>5, <1>6 DEF RegisterInv, RegisterShape, RowOK
  <2> QED BY <2>2, <2>3, <2>4, <2>5, <1>6 DEF LateUnderDoomed
<1>11. (\A u \in RegisterTasks : handling'[u] = handling[u]) /\ DOMAIN handling' = RegisterTasks
  BY <1>2 DEF RegisterInv, RegisterShape
<1> QED BY ONLY RegisterInv, a \in AssetIds, <1>2, <1>5, <1>7, <1>8, <1>9, <1>10, <1>11, RowWritten

(* The row is marked: what is under it by now came after the count.                     *)
LEMMA Marks ==
  ASSUME RegisterInv, NEW t \in RegisterTasks, MarkDeleted(t)
  PROVE  RegisterInv'
<1>1. handling[t].step = "delete" /\ DeleteOK(handling[t])  BY DEF MarkDeleted, RegisterInv, RequestOK
<1>2. PICK a \in AssetIds : a = handling[t].asset  BY <1>1 DEF DeleteOK
<1>3. PICK r : r = [register[a] EXCEPT !.state = IF @ = "live" THEN "deleted" ELSE @]  OBVIOUS
<1>4. /\ handling' = [handling EXCEPT ![t] = Resting] /\ UNCHANGED <<definition, placed, handled, late>>
      /\ register' = [register EXCEPT ![a] = r]
  BY <1>2, <1>3 DEF MarkDeleted, Go
<1>5. RowOK(register[a]) /\ register[a].state # "none"  BY <1>1, <1>2 DEF DeleteOK, RegisterInv, RegisterShape
<1>6. RowOK(r) /\ r.state = "deleted" /\ r.parent = register[a].parent
  BY <1>3, <1>5 DEF RowOK, RowFields
<1>7. register'[a] = r /\ \A b \in AssetIds \ {a} : register'[b] = register[b]
  BY <1>4 DEF RegisterInv, RegisterShape
<1>8. handling'[t] = Resting /\ (\A u \in RegisterTasks \ {t} : handling'[u] = handling[u])
      /\ DOMAIN handling' = RegisterTasks
  BY <1>4 DEF RegisterInv, RegisterShape
<1>9. /\ \A u \in RegisterTasks : Importing(u)' = Importing(u) /\ a \notin DOMAIN Importing(u)
      /\ \A u \in RegisterTasks : handling'[u] = handling[u] \/ handling'[u] = Resting
  <2>1. \A u \in RegisterTasks : Importing(u)' = Importing(u)  BY <1>8, <1>1, RestingOK DEF Importing
  <2>2. \A u \in RegisterTasks : a \notin DOMAIN Importing(u)  BY <1>5, NoEntryIsNone DEF RegisterInv, IdsPending
  <2> QED BY <2>1, <2>2, <1>8
<1>10. LateUnderDoomed'
  <2>1. Going(a)  BY <1>1, <1>2 DEF Going
  <2>2. ASSUME NEW b \in AssetIds, Doomed(b)' PROVE Doomed(b)
    <3>1. Going(b)' => Going(b)  BY <1>8, RestingOK DEF Going
    <3> QED BY <2>1, <2>2, <3>1, <1>7 DEF Doomed
  <2>3. \A b \in AssetIds : LiveAsset(b)' => LiveAsset(b) /\ register'[b] = register[b]  BY <1>6, <1>7 DEF LiveAsset
  <2>4. /\ \A b \in AssetIds : register[b].parent \in AssetIds \cup {NoAsset}
        /\ \A o \in OpenOrders : placed[o] \in AssetIds \cup {NoAsset}
    BY DEF RegisterInv, RegisterShape, RowOK
  <2> QED BY <2>2, <2>3, <2>4, <1>4 DEF LateUnderDoomed, RegisterInv
<1>11. handled' \in 0..MaxHandled /\ late' \subseteq (AssetIds \cup OpenOrders) \X AssetIds
       /\ r.state # "live" /\ r.state # "none"
  BY <1>4, <1>6 DEF RegisterInv, RegisterShape
<1> QED BY ONLY RegisterInv, a \in AssetIds, <1>4, <1>6, <1>8, <1>9, <1>10, <1>11, RowWritten

(* An order is placed on an asset, or leaves it.                                   *)
LEMMA OrderMoves ==
  ASSUME RegisterInv, NEW o \in OpenOrders,
         (\E a \in AssetIds : PlaceOrder(o, a)) \/ CloseOrder(o)
  PROVE  RegisterInv'
<1>0. /\ UNCHANGED <<register, definition, handling>> /\ handled' \in 0..MaxHandled
      /\ \A a \in AssetIds : Doomed(a)' = Doomed(a)
  BY DEF PlaceOrder, CloseOrder, Handle, Doomed, Going, RegisterInv, RegisterShape
<1>1. PICK a \in AssetIds \cup {NoAsset} :
        /\ placed' = [placed EXCEPT ![o] = a]
        /\ late' = late \cup Late(o, a) \/ (a = NoAsset /\ late' = Leaves(o))
  BY DEF PlaceOrder, CloseOrder
<1>2. RegisterShape'
  <2>1. late' \subseteq (AssetIds \cup OpenOrders) \X AssetIds
    BY <1>1 DEF Late, Leaves, RegisterInv, RegisterShape
  <2>2. placed' \in [OpenOrders -> AssetIds \cup {NoAsset}]  BY <1>1 DEF RegisterInv, RegisterShape
  <2> QED BY <2>1, <2>2, <1>0 DEF RegisterInv, RegisterShape, RowOK, RowFields, Conforms
<1>3. \A u \in RegisterTasks : RequestOK(handling[u])'
  BY <1>0 DEF RegisterInv, RequestOK, CreateOK, DeleteOK, ImportOK, ReportIsTrue
<1>4. IdsPending' /\ CodesPending' /\ AssetCodesDiffer'
  BY <1>0 DEF RegisterInv, IdsPending, CodesPending, AssetCodesDiffer, Importing, LiveAsset
<1>5. LateUnderDoomed'
  <2>1. ASSUME NEW b \in AssetIds, LiveAsset(b)', NEW p \in AssetIds, p = register'[b].parent, Doomed(p)'
        PROVE  <<b, p>> \in late'
    <3>1. LiveAsset(b) /\ register[b].parent = p /\ Doomed(p) /\ b # o  BY <2>1, <1>0 DEF LiveAsset
    <3>2. <<b, p>> \in late  BY <3>1 DEF RegisterInv, LateUnderDoomed
    <3> QED BY <3>1, <3>2, <1>1 DEF Leaves
  <2>2. ASSUME NEW x \in OpenOrders, NEW p \in AssetIds, p = placed'[x], Doomed(p)' PROVE <<x, p>> \in late'
    <3>1. CASE x = o
      BY <3>1, <2>2, <1>0, <1>1 DEF Late, Doomed, RegisterInv, RegisterShape
    <3>2. CASE x # o
      <4>1. placed[x] = p /\ Doomed(p)  BY <3>2, <2>2, <1>0, <1>1 DEF RegisterInv, RegisterShape
      <4>2. <<x, p>> \in late  BY <4>1 DEF RegisterInv, LateUnderDoomed
      <4> QED BY <3>2, <4>2, <1>1 DEF Leaves
    <3> QED BY <3>1, <3>2
  <2>3. /\ \A b \in AssetIds : register'[b].parent \in AssetIds \cup {NoAsset}
        /\ \A x \in OpenOrders : placed'[x] \in AssetIds \cup {NoAsset}
    BY <1>2 DEF RegisterShape, RowOK
  <2> QED BY <2>1, <2>2, <2>3 DEF LateUnderDoomed
<1> QED BY <1>2, <1>3, <1>4, <1>5 DEF RegisterInv

(* A new definition takes nothing from what requests know.                            *)
LEMMA Defines ==
  ASSUME RegisterInv, NEW d \in Definitions, CreateDefinition(d)
  PROVE  RegisterInv'
<1>1. /\ definition \subseteq definition' /\ definition' \subseteq Definitions
      /\ UNCHANGED <<register, placed, handling, late>> /\ handled' \in 0..MaxHandled
  BY DEF CreateDefinition, Handle, RegisterInv, RegisterShape
<1>2. RegisterShape'  BY <1>1 DEF RegisterInv, RegisterShape, RowOK, RowFields, Conforms
<1>3. ASSUME NEW u \in RegisterTasks PROVE RequestOK(handling[u])'
  <2>1. RequestOK(handling[u])  BY DEF RegisterInv
  <2> QED BY <2>1, <1>1 DEF RequestOK, CreateOK, DeleteOK, ImportOK, ReportIsTrue
<1>4. IdsPending' /\ CodesPending' /\ AssetCodesDiffer' /\ LateUnderDoomed'
  BY <1>1 DEF RegisterInv, IdsPending, CodesPending, AssetCodesDiffer, LateUnderDoomed, Importing, LiveAsset,
              Doomed, Going
<1> QED BY <1>2, <1>3, <1>4 DEF RegisterInv

(* Every step keeps the invariant.                                              *)
LEMMA RegisterSteps == RegisterInv /\ [RegisterNext]_registerVars => RegisterInv'
<1> SUFFICES ASSUME RegisterInv, [RegisterNext]_registerVars PROVE RegisterInv'  OBVIOUS
<1>1. CASE UNCHANGED registerVars
  <2>1. UNCHANGED <<register, definition, placed, handling, late, handled>>  BY <1>1 DEF registerVars
  <2>2. RegisterShape'  BY <2>1 DEF RegisterInv, RegisterShape, RowOK, RowFields, Conforms
  <2>3. \A u \in RegisterTasks : RequestOK(handling[u])'
    BY <2>1 DEF RegisterInv, RequestOK, CreateOK, DeleteOK, ImportOK, ReportIsTrue
  <2>4. IdsPending' /\ CodesPending' /\ AssetCodesDiffer' /\ LateUnderDoomed'
    BY <2>1 DEF RegisterInv, IdsPending, CodesPending, AssetCodesDiffer, LateUnderDoomed, Importing, LiveAsset,
                Doomed, Going
  <2> QED BY <2>2, <2>3, <2>4 DEF RegisterInv
<1>2. ASSUME NEW t \in RegisterTasks, LoseRequest(t) PROVE RegisterInv'
  <2>1. handling' = [handling EXCEPT ![t] = Resting] /\ UNCHANGED <<register, definition, placed, late>>
        /\ handled' \in 0..MaxHandled
    BY <1>2 DEF LoseRequest, Handle, RegisterInv, RegisterShape
  <2> QED BY <2>1, Loses
<1>3. ASSUME NEW t \in RegisterTasks, RowFails(t) PROVE RegisterInv'
  BY <1>3, Refuses DEF RowFails, Refusals
<1> QED
  BY <1>1, <1>2, <1>3, AssetCreates, Validates, Inserts, ImportBegins, AssetImports, ImportEnds, Counts, Marks, AssetPatches,
     OrderMoves, Defines
     DEF RegisterNext

(* So it always holds.                                                        *)
LEMMA RegisterHolds == RegisterSpec => []RegisterInv
  BY RegisterStarts, RegisterSteps, PTL DEF RegisterSpec

(* Deletion strands nothing but what came late, codes stay unique across overlapping  *)
(* imports, and import reports are true, for any number of assets, files and tasks. *)
THEOREM RegisterStaysSound == RegisterSpec => []RegisterIsSound
  BY RegisterHolds, RegisterInvSound, PTL

HIDE RegisterAssumption

-----------------------------------------------------------------------------
(* Attachments *)

USE AttachmentAssumption

(* What a request has made sure of: the object that it inserts a row for is there,   *)
(* under a key no one else uses; what it removes has been marked; what it will     *)
(* sign has an object, or has been deleted since.                             *)
Reachable(f) == f \in object \/ attached[f].state = "deleted"
CallOK(c) ==
  /\ c.step \in {"put", "insert"} => attached[c.file].state = "none"
  /\ c.step = "insert" => c.file \in object
  /\ c.step = "mark" => Reachable(c.file) /\ attached[c.file].state # "none"
  /\ c.step = "remove" => attached[c.file].state = "deleted"
  /\ c.step = "sign" => \A f \in c.files : Reachable(f)
OwnKeys ==
  \A t, u \in FileTasks :
    /\ call[t].step \in {"put", "insert"} /\ call[u].step \in {"put", "insert"}
    /\ call[t].file = call[u].file
    => t = u
FileInv ==
  FileTypeOK /\ FilesAreSound /\ OwnKeys /\ \A t \in FileTasks : CallOK(call[t])

(* What one request does to a file leaves the others what they know of it.          *)
Forward(t) ==
  \A g \in FileKeys :
    /\ g \in object => g \in object' \/ attached[g].state = "deleted"
    /\ attached[g].state = "deleted" => attached'[g].state = "deleted"
    /\ attached[g].state # "none" => attached'[g].state # "none"
    /\ attached[g].state = "none" =>
         attached'[g].state = "none" \/ (call[t].step = "insert" /\ call[t].file = g)

WithFile == [step : {"put", "insert", "mark", "remove"}, file : FileKeys, on : Owners]
Signing == [step : {"sign"}, files : SUBSET FileKeys]
CallKinds == {NoServe} \cup WithFile \cup Signing

(* The invariant holds at the start.                                            *)
LEMMA FilesStart == FilesInit => FileInv
<1> SUFFICES ASSUME FilesInit PROVE FileInv  OBVIOUS
<1>1. FileTypeOK  BY DEF FilesInit, FileTypeOK, States, AttachmentAssumption
<1>2. FilesAreSound
  BY DEF FilesInit, FilesAreSound, RowsHaveObjects, AddressesLead, OrphansAreKnown, LiveFile
<1>3. OwnKeys /\ \A t \in FileTasks : CallOK(call[t])  BY DEF FilesInit, OwnKeys, CallOK, NoServe
<1> QED BY <1>1, <1>2, <1>3 DEF FileInv

(* By its step, a request has the fields that the step needs.                      *)
LEMMA CallFields ==
  ASSUME FileTypeOK, NEW t \in FileTasks
  PROVE  /\ call[t].step \in {"put", "insert", "mark", "remove"} => call[t] \in WithFile
         /\ call[t].step = "sign" => call[t] \in Signing
  BY DEF FileTypeOK, NoServe, WithFile, Signing

(* Every step keeps it: a request does to its file only what others can bear.         *)
LEMMA FileSteps == FileInv /\ [FilesNext]_fileVars => FileInv'
<1> SUFFICES ASSUME FileInv, [FilesNext]_fileVars PROVE FileInv'  OBVIOUS
<1>0. /\ attached \in [FileKeys -> [state : States, on : Owners \cup {"nobody"}]]
      /\ object \subseteq FileKeys /\ given \subseteq FileKeys /\ lost \subseteq FileKeys
      /\ owner \subseteq Owners /\ call \in [FileTasks -> CallKinds] /\ served \in 0..MaxServed
  BY DEF FileInv, FileTypeOK, CallKinds, WithFile, Signing
<1>1. /\ \A f \in FileKeys : LiveFile(f) => f \in object
      /\ \A f \in given : Reachable(f)
      /\ \A f \in object : LiveFile(f) \/ InHand(f) \/ f \in lost
  BY DEF FileInv, FilesAreSound, RowsHaveObjects, AddressesLead, OrphansAreKnown, Reachable
<1>2. OwnKeys /\ \A t \in FileTasks : CallOK(call[t])  BY DEF FileInv
<1>3. NoServe \in CallKinds /\ NoServe.step = "idle"  BY DEF CallKinds, NoServe
<1>4. ASSUME NEW t \in FileTasks
      PROVE  /\ call[t].step \in {"put", "insert", "mark", "remove"} => call[t] \in WithFile
             /\ call[t].step = "sign" => call[t] \in Signing
  BY CallFields DEF FileInv
<1>5. ASSUME NEW t \in FileTasks, NEW c \in CallKinds, Serve(t, c), CallOK(c),
             c.step = "put" => UnusedKey(c.file), c.step # "insert", c.step # "remove"
      PROVE  FileInv'
  <2>1. /\ call[t] = NoServe /\ call' = [call EXCEPT ![t] = c]
        /\ UNCHANGED <<attached, object, owner, given, lost>> /\ served < MaxServed /\ served' = served + 1
    BY <1>5 DEF Serve
  <2>2. FileTypeOK'  BY <2>1, <1>0 DEF FileTypeOK, CallKinds, WithFile, Signing, AttachmentAssumption
  <2>3. \A f \in FileKeys : InHand(f) => InHand(f)'  BY <2>1, <1>0, <1>3 DEF InHand
  <2>4. FilesAreSound'
    BY <2>1, <2>3, <1>0, <1>1
       DEF FilesAreSound, RowsHaveObjects, AddressesLead, OrphansAreKnown, LiveFile, Reachable
  <2>5. \A u \in FileTasks : CallOK(call[u])'
    <3>1. ASSUME NEW u \in FileTasks PROVE CallOK(call'[u])  BY <1>2, <1>5, <2>1, <1>0
    <3> QED BY <3>1, <2>1 DEF CallOK, Reachable
  <2>6. OwnKeys'
    <3>1. ASSUME NEW u \in FileTasks \ {t}, c.step = "put", call[u].step \in {"put", "insert"}
          PROVE  call[u].file # c.file
      BY <3>1, <1>5 DEF UnusedKey
    <3> QED BY <3>1, <2>1, <1>0, <1>2, <1>5 DEF OwnKeys
  <2> QED BY <2>2, <2>4, <2>5, <2>6 DEF FileInv
<1>6. ASSUME NEW t \in FileTasks, NEW f \in FileKeys, NEW o \in owner, BeginUpload(t, f, o) PROVE FileInv'
  <2> DEFINE c == [step |-> "put", file |-> f, on |-> o]
  <2>1. UnusedKey(f) /\ Serve(t, c)  BY <1>6 DEF BeginUpload
  <2>2. c \in CallKinds  BY <1>0 DEF CallKinds, WithFile
  <2>3. CallOK(c)  BY <2>1 DEF CallOK, UnusedKey
  <2> QED BY <2>1, <2>2, <2>3, <1>5
<1>7. ASSUME NEW t \in FileTasks, NEW fs \in SUBSET FileKeys, ReadFiles(t, fs) PROVE FileInv'
  <2> DEFINE c == [step |-> "sign", files |-> fs]
  <2>1. Serve(t, c) /\ \A f \in fs : LiveFile(f)  BY <1>7 DEF ReadFiles
  <2>2. c \in CallKinds  BY DEF CallKinds, Signing
  <2>3. CallOK(c)  BY <2>1, <1>1 DEF CallOK, Reachable
  <2> QED BY <2>1, <2>2, <2>3, <1>5
<1>8. ASSUME NEW t \in FileTasks, NEW f \in FileKeys, BeginRemoval(t, f) PROVE FileInv'
  <2> DEFINE c == [step |-> "mark", file |-> f, on |-> attached[f].on]
  <2>1. Serve(t, c) /\ LiveFile(f) /\ attached[f].on \in Owners  BY <1>8, <1>0 DEF BeginRemoval
  <2>2. c \in CallKinds  BY <2>1 DEF CallKinds, WithFile
  <2>3. CallOK(c)  BY <2>1, <1>1 DEF CallOK, LiveFile, Reachable
  <2> QED BY <2>1, <2>2, <2>3, <1>5
<1>9. ASSUME NEW t \in FileTasks, NEW c \in CallKinds, call' = [call EXCEPT ![t] = c], Forward(t),
             CallOK(c)', UNCHANGED <<owner, served>>, c.step # "put",
             c.step = "insert" => call[t].step = "put" /\ c.file = call[t].file,
             attached' \in [FileKeys -> [state : States, on : Owners \cup {"nobody"}]],
             object' \subseteq FileKeys, given' \subseteq FileKeys, lost' \subseteq FileKeys, FilesAreSound'
      PROVE  FileInv'
  <2>1. FileTypeOK'  BY <1>9, <1>0 DEF FileTypeOK, CallKinds, WithFile, Signing
  <2>2. OwnKeys'  BY <1>9, <1>0, <1>2 DEF OwnKeys
  <2>3. ASSUME NEW u \in FileTasks PROVE CallOK(call[u])'
    <3>1. CASE u = t
      <4>1. call'[u] = c  BY <3>1, <1>9, <1>0
      <4> QED BY <4>1, <1>9 DEF CallOK, Reachable
    <3>2. CASE u # t
      <4>1. PICK d \in CallKinds : d = call[u]  BY <1>0
      <4>2. call'[u] = d /\ CallOK(d)  BY <3>2, <4>1, <1>9, <1>0, <1>2
      <4>3. /\ d.step \in {"put", "insert", "mark", "remove"} => d.file \in FileKeys
            /\ d.step = "sign" => d.files \subseteq FileKeys
        BY <1>4, <4>1 DEF WithFile, Signing
      <4>4. d.step \in {"put", "insert"} /\ call[t].step = "insert" => d.file # call[t].file
        BY <3>2, <4>1, <1>2 DEF OwnKeys
      <4>5. CallOK(d)'
        <5>1. \A g \in FileKeys : Reachable(g) => Reachable(g)'  BY <1>9 DEF Forward, Reachable
        <5> QED BY <5>1, <4>2, <4>3, <4>4, <1>9 DEF CallOK, Forward
      <4> QED BY <4>2, <4>5 DEF CallOK, Reachable
    <3> QED BY <3>1, <3>2
  <2> QED BY <2>1, <2>2, <2>3, <1>9 DEF FileInv
<1>10. ASSUME NEW t \in FileTasks, PutObject(t) PROVE FileInv'
  <2>1. call[t] \in WithFile /\ call[t].step = "put"  BY <1>10, <1>4 DEF PutObject
  <2>2. PICK f \in FileKeys : f = call[t].file  BY <2>1 DEF WithFile
  <2>4. PICK c : c = To(t, "insert")  OBVIOUS
  <2>5. c \in CallKinds /\ c.step = "insert" /\ c.file = f
    BY <2>1, <2>2, <2>4, <1>3 DEF CallKinds, WithFile, To
  <2>6. /\ call' = [call EXCEPT ![t] = c] /\ UNCHANGED <<owner, served>>
        /\ object' = object \cup {f} /\ UNCHANGED <<attached, given, lost>>
    BY <1>10, <2>2, <2>4 DEF PutObject, Advance
  <2>7. CallOK(call[t])  BY <1>2
  <2>8. Forward(t)  BY <2>1, <2>2, <2>6, <2>7, <1>0 DEF Forward, CallOK, Reachable
  <2>9. CallOK(c)'  BY <2>1, <2>2, <2>5, <2>6, <2>7, <1>0 DEF CallOK, Reachable
  <2>10. RowsHaveObjects' /\ AddressesLead'
    BY <2>1, <2>2, <2>6, <2>7, <1>0, <1>1 DEF RowsHaveObjects, AddressesLead, LiveFile, CallOK, Reachable
  <2>11. OrphansAreKnown'
    <3>1. ASSUME NEW g \in FileKeys, InHand(g), g # f PROVE InHand(g)'  BY <3>1, <2>2, <2>6, <1>0 DEF InHand
    <3>2. ASSUME f \in object' PROVE LiveFile(f)' \/ InHand(f)' \/ f \in lost'
      BY <2>5, <2>6, <1>0 DEF InHand
    <3> QED BY <3>1, <3>2, <2>6, <1>0, <1>1 DEF OrphansAreKnown, LiveFile
  <2> QED BY <2>1, <2>2, <2>5, <2>6, <2>8, <2>9, <2>10, <2>11, <1>0, <1>9 DEF FilesAreSound, States
<1>11. ASSUME NEW t \in FileTasks, NEW stored \in SUBSET FileKeys, PutFails(t, stored) PROVE FileInv'
  <2>1. call[t] \in WithFile /\ call[t].step = "put"  BY <1>11, <1>4 DEF PutFails
  <2>2. PICK f \in FileKeys : f = call[t].file  BY <2>1 DEF WithFile
  <2>4. PICK c : c = NoServe  OBVIOUS
  <2>5. c \in CallKinds /\ c.step = "idle"
    BY <2>1, <2>2, <2>4, <1>3 DEF CallKinds, WithFile, To
  <2>6. /\ call' = [call EXCEPT ![t] = c] /\ UNCHANGED <<owner, served>>
        /\ object' = object \cup stored /\ lost' = lost \cup stored /\ stored \subseteq {f} /\ UNCHANGED <<attached, given>>
    BY <1>11, <2>2, <2>4 DEF PutFails, Advance
  <2>7. CallOK(call[t])  BY <1>2
  <2>8. Forward(t)  BY <2>1, <2>2, <2>6, <2>7, <1>0 DEF Forward, CallOK, Reachable
  <2>9. CallOK(c)'  BY <2>1, <2>2, <2>5, <2>6, <2>7, <1>0 DEF CallOK, Reachable
  <2>10. RowsHaveObjects' /\ AddressesLead'
    BY <2>1, <2>2, <2>6, <2>7, <1>0, <1>1 DEF RowsHaveObjects, AddressesLead, LiveFile, CallOK, Reachable
  <2>11. OrphansAreKnown'
    <3>1. ASSUME NEW g \in FileKeys, InHand(g), g # f PROVE InHand(g)'  BY <3>1, <2>2, <2>6, <1>0 DEF InHand
    <3>2. ASSUME f \in object' PROVE LiveFile(f)' \/ InHand(f)' \/ f \in lost'
      <4>1. CASE f \in stored  BY <4>1, <2>6
      <4>2. CASE f \in object /\ ~LiveFile(f) /\ f \notin lost
        <5>1. PICK u \in FileTasks : call[u].step \in {"insert", "remove"} /\ call[u].file = f
          BY <4>2, <1>1 DEF InHand
        <5>2. u # t /\ call'[u] = call[u]  BY <5>1, <2>1, <2>6, <1>0
        <5> QED BY <5>1, <5>2 DEF InHand
      <4> QED BY <3>2, <4>1, <4>2, <2>6 DEF LiveFile
    <3> QED BY <3>1, <3>2, <2>6, <1>0, <1>1 DEF OrphansAreKnown, LiveFile
  <2> QED BY <2>1, <2>2, <2>5, <2>6, <2>8, <2>9, <2>10, <2>11, <1>0, <1>9 DEF FilesAreSound, States
<1>12. ASSUME NEW t \in FileTasks, CommitFile(t) PROVE FileInv'
  <2>1. call[t] \in WithFile /\ call[t].step = "insert"  BY <1>12, <1>4 DEF CommitFile
  <2>2. PICK f \in FileKeys : f = call[t].file  BY <2>1 DEF WithFile
  <2>3. PICK o \in Owners : o = call[t].on  BY <2>1 DEF WithFile
  <2>4. PICK c : c = NoServe  OBVIOUS
  <2>5. c \in CallKinds /\ c.step = "idle"
    BY <2>1, <2>2, <2>4, <1>3 DEF CallKinds, WithFile, To
  <2>6. /\ call' = [call EXCEPT ![t] = c] /\ UNCHANGED <<owner, served>>
        /\ attached' = [attached EXCEPT ![f] = [state |-> "live", on |-> o]] /\ given' = given \cup {f} /\ UNCHANGED <<object, lost>>
    BY <1>12, <2>2, <2>3, <2>4 DEF CommitFile, Advance
  <2>7. CallOK(call[t])  BY <1>2
  <2>8. Forward(t)  BY <2>1, <2>2, <2>6, <2>7, <1>0 DEF Forward, CallOK, Reachable
  <2>9. CallOK(c)'  BY <2>1, <2>2, <2>5, <2>6, <2>7, <1>0 DEF CallOK, Reachable
  <2>10. RowsHaveObjects' /\ AddressesLead'
    BY <2>1, <2>2, <2>6, <2>7, <1>0, <1>1 DEF RowsHaveObjects, AddressesLead, LiveFile, CallOK, Reachable
  <2>11. OrphansAreKnown'
    <3>1. ASSUME NEW g \in FileKeys, InHand(g), g # f PROVE InHand(g)'  BY <3>1, <2>2, <2>6, <1>0 DEF InHand
    <3>2. ASSUME f \in object' PROVE LiveFile(f)' \/ InHand(f)' \/ f \in lost'
      BY <3>2, <2>6, <1>0 DEF LiveFile
    <3> QED BY <3>1, <3>2, <2>6, <1>0, <1>1 DEF OrphansAreKnown, LiveFile
  <2> QED BY <2>1, <2>2, <2>5, <2>6, <2>8, <2>9, <2>10, <2>11, <1>0, <1>9 DEF FilesAreSound, States
<1>13. ASSUME NEW t \in FileTasks, MarkFile(t) PROVE FileInv'
  <2>1. call[t] \in WithFile /\ call[t].step = "mark"  BY <1>13, <1>4 DEF MarkFile
  <2>2. PICK f \in FileKeys : f = call[t].file  BY <2>1 DEF WithFile
  <2>4. PICK c : c = To(t, "remove")  OBVIOUS
  <2>5. c \in CallKinds /\ c.step = "remove" /\ c.file = f
    BY <2>1, <2>2, <2>4, <1>3 DEF CallKinds, WithFile, To
  <2>6. /\ call' = [call EXCEPT ![t] = c] /\ UNCHANGED <<owner, served>>
        /\ attached' = [attached EXCEPT ![f].state = "deleted"] /\ UNCHANGED <<object, given, lost>>
    BY <1>13, <2>2, <2>4 DEF MarkFile, Advance
  <2>7. CallOK(call[t])  BY <1>2
  <2>8. Forward(t)  BY <2>1, <2>2, <2>6, <2>7, <1>0 DEF Forward, CallOK, Reachable
  <2>9. CallOK(c)'  BY <2>1, <2>2, <2>5, <2>6, <2>7, <1>0 DEF CallOK, Reachable
  <2>10. RowsHaveObjects' /\ AddressesLead'
    BY <2>1, <2>2, <2>6, <2>7, <1>0, <1>1 DEF RowsHaveObjects, AddressesLead, LiveFile, CallOK, Reachable
  <2>11. OrphansAreKnown'
    <3>1. ASSUME NEW g \in FileKeys, InHand(g), g # f PROVE InHand(g)'  BY <3>1, <2>2, <2>6, <1>0 DEF InHand
    <3>2. ASSUME f \in object' PROVE LiveFile(f)' \/ InHand(f)' \/ f \in lost'
      BY <2>5, <2>6, <1>0 DEF InHand
    <3> QED BY <3>1, <3>2, <2>6, <1>0, <1>1 DEF OrphansAreKnown, LiveFile
  <2> QED BY <2>1, <2>2, <2>5, <2>6, <2>8, <2>9, <2>10, <2>11, <1>0, <1>9 DEF FilesAreSound, States
<1>14. ASSUME NEW t \in FileTasks, RemoveObject(t) PROVE FileInv'
  <2>1. call[t] \in WithFile /\ call[t].step = "remove"  BY <1>14, <1>4 DEF RemoveObject
  <2>2. PICK f \in FileKeys : f = call[t].file  BY <2>1 DEF WithFile
  <2>4. PICK c : c = NoServe  OBVIOUS
  <2>5. c \in CallKinds /\ c.step = "idle"
    BY <2>1, <2>2, <2>4, <1>3 DEF CallKinds, WithFile, To
  <2>6. /\ call' = [call EXCEPT ![t] = c] /\ UNCHANGED <<owner, served>>
        /\ object' = object \ {f} /\ UNCHANGED <<attached, given, lost>>
    BY <1>14, <2>2, <2>4 DEF RemoveObject, Advance
  <2>7. CallOK(call[t])  BY <1>2
  <2>8. Forward(t)  BY <2>1, <2>2, <2>6, <2>7, <1>0 DEF Forward, CallOK, Reachable
  <2>9. CallOK(c)'  BY <2>1, <2>2, <2>5, <2>6, <2>7, <1>0 DEF CallOK, Reachable
  <2>10. RowsHaveObjects' /\ AddressesLead'
    BY <2>1, <2>2, <2>6, <2>7, <1>0, <1>1 DEF RowsHaveObjects, AddressesLead, LiveFile, CallOK, Reachable
  <2>11. OrphansAreKnown'
    <3>1. ASSUME NEW g \in FileKeys, InHand(g), g # f PROVE InHand(g)'  BY <3>1, <2>2, <2>6, <1>0 DEF InHand
    <3>2. ASSUME f \in object' PROVE LiveFile(f)' \/ InHand(f)' \/ f \in lost'
      BY <3>2, <2>6, <1>0 DEF LiveFile
    <3> QED BY <3>1, <3>2, <2>6, <1>0, <1>1 DEF OrphansAreKnown, LiveFile
  <2> QED BY <2>1, <2>2, <2>5, <2>6, <2>8, <2>9, <2>10, <2>11, <1>0, <1>9 DEF FilesAreSound, States
<1>15. ASSUME NEW t \in FileTasks, RemoveFails(t) PROVE FileInv'
  <2>1. call[t] \in WithFile /\ call[t].step = "remove"  BY <1>15, <1>4 DEF RemoveFails
  <2>2. PICK f \in FileKeys : f = call[t].file  BY <2>1 DEF WithFile
  <2>4. PICK c : c = NoServe  OBVIOUS
  <2>5. c \in CallKinds /\ c.step = "idle"
    BY <2>1, <2>2, <2>4, <1>3 DEF CallKinds, WithFile, To
  <2>6. /\ call' = [call EXCEPT ![t] = c] /\ UNCHANGED <<owner, served>>
        /\ lost' = lost \cup {f} /\ UNCHANGED <<attached, object, given>>
    BY <1>15, <2>2, <2>4 DEF RemoveFails, Advance
  <2>7. CallOK(call[t])  BY <1>2
  <2>8. Forward(t)  BY <2>1, <2>2, <2>6, <2>7, <1>0 DEF Forward, CallOK, Reachable
  <2>9. CallOK(c)'  BY <2>1, <2>2, <2>5, <2>6, <2>7, <1>0 DEF CallOK, Reachable
  <2>10. RowsHaveObjects' /\ AddressesLead'
    BY <2>1, <2>2, <2>6, <2>7, <1>0, <1>1 DEF RowsHaveObjects, AddressesLead, LiveFile, CallOK, Reachable
  <2>11. OrphansAreKnown'
    <3>1. ASSUME NEW g \in FileKeys, InHand(g), g # f PROVE InHand(g)'  BY <3>1, <2>2, <2>6, <1>0 DEF InHand
    <3>2. ASSUME f \in object' PROVE LiveFile(f)' \/ InHand(f)' \/ f \in lost'
      BY <3>2, <2>6, <1>0 DEF LiveFile
    <3> QED BY <3>1, <3>2, <2>6, <1>0, <1>1 DEF OrphansAreKnown, LiveFile
  <2> QED BY <2>1, <2>2, <2>5, <2>6, <2>8, <2>9, <2>10, <2>11, <1>0, <1>9 DEF FilesAreSound, States
<1>16. ASSUME NEW t \in FileTasks, SignAddresses(t) PROVE FileInv'
  <2>1. call[t] \in Signing /\ call[t].step = "sign"  BY <1>16, <1>4 DEF SignAddresses
  <2>2. PICK fs \in SUBSET FileKeys : fs = call[t].files  BY <2>1 DEF Signing
  <2>3. PICK c : c = NoServe  OBVIOUS
  <2>4. /\ call' = [call EXCEPT ![t] = c] /\ UNCHANGED <<owner, served>>
        /\ given' = given \cup fs /\ UNCHANGED <<attached, object, lost>>
    BY <1>16, <2>2, <2>3 DEF SignAddresses, Advance
  <2>5. \A f \in fs : Reachable(f)  BY <2>1, <2>2, <1>2 DEF CallOK
  <2>6. Forward(t) /\ CallOK(c)'  BY <2>3, <2>4, <1>3 DEF Forward, CallOK
  <2>7. ASSUME NEW g \in FileKeys, InHand(g) PROVE InHand(g)'  BY <2>7, <2>1, <2>4, <1>0 DEF InHand
  <2>8. FilesAreSound'
    BY <2>4, <2>5, <2>7, <1>0, <1>1
       DEF FilesAreSound, RowsHaveObjects, AddressesLead, OrphansAreKnown, LiveFile, Reachable
  <2> QED BY <2>3, <2>4, <2>6, <2>8, <1>0, <1>3, <1>9
<1>17. ASSUME NEW t \in FileTasks, DropCall(t) PROVE FileInv'
  <2>1. PICK left \in SUBSET FileKeys : left = (IF call[t].step = "insert" THEN {call[t].file} ELSE {})
    <3>1. call[t].step = "insert" => call[t].file \in FileKeys  BY <1>4 DEF WithFile
    <3> QED BY <3>1
  <2>2. PICK c : c = NoServe  OBVIOUS
  <2>3. /\ call' = [call EXCEPT ![t] = c] /\ UNCHANGED <<owner, served>>
        /\ lost' = lost \cup left /\ UNCHANGED <<attached, object, given>>
        /\ call[t].step \in {"insert", "mark", "sign"}
    BY <1>17, <2>1, <2>2 DEF DropCall, Advance
  <2>4. Forward(t) /\ CallOK(c)'  BY <2>2, <2>3, <1>3 DEF Forward, CallOK
  <2>5. ASSUME NEW g \in FileKeys, InHand(g), g \notin left PROVE InHand(g)'
    BY <2>5, <2>1, <2>3, <1>0 DEF InHand
  <2>6. FilesAreSound'
    BY <2>3, <2>5, <1>0, <1>1
       DEF FilesAreSound, RowsHaveObjects, AddressesLead, OrphansAreKnown, LiveFile, Reachable
  <2> QED BY <2>2, <2>3, <2>4, <2>6, <1>0, <1>3, <1>9
<1>18. ASSUME NEW o \in owner, DropOwner(o) PROVE FileInv'
  <2>1. owner' = owner \ {o} /\ UNCHANGED <<attached, object, call, given, lost, served>>  BY <1>18 DEF DropOwner
  <2> QED BY <2>1, <1>0, <1>2 DEF FileInv, FileTypeOK, FilesAreSound, RowsHaveObjects, AddressesLead,
                     OrphansAreKnown, LiveFile, InHand, OwnKeys, CallOK, Reachable
<1>19. CASE UNCHANGED fileVars
  BY <1>19, <1>2 DEF fileVars, FileInv, FileTypeOK, FilesAreSound, RowsHaveObjects, AddressesLead,
                     OrphansAreKnown, LiveFile, InHand, OwnKeys, CallOK, Reachable
<1>20. ASSUME NEW t \in FileTasks, NEW f \in FileKeys, GetFile(t, f) PROVE FileInv'
  BY <1>20, <1>7 DEF GetFile
<1>21. ASSUME NEW t \in FileTasks, NEW o \in owner, ListFiles(t, o) PROVE FileInv'
  BY <1>21, <1>7 DEF ListFiles
<1> QED
  BY <1>6, <1>8, <1>10, <1>11, <1>12, <1>13, <1>14, <1>15, <1>16, <1>17, <1>18, <1>19, <1>20, <1>21 DEF FilesNext

(* So it always holds.                                                        *)
LEMMA FilesHold == FilesSpec => []FileInv
  BY FilesStart, FileSteps, PTL DEF FilesSpec

(* No row without its object, no dead address, no orphan that nothing explains.    *)
THEOREM FilesStaySound == FilesSpec => []FilesAreSound
<1>1. FileInv => FilesAreSound  BY DEF FileInv
<1> QED BY <1>1, FilesHold, PTL

HIDE AttachmentAssumption

-----------------------------------------------------------------------------
(* All the parts of a run together *)

(* The inductive invariants of the parts say what each of their variables holds: of    *)
(* documents and edits,                                                        *)
LEMMA EditsInvTyped == EditsInv => EditsTypeOK
  BY DEF EditsInv, EditsTyped

(* of rooms and what their callers have open or written,                           *)
LEMMA RoomInvTyped == RoomInv => RoomTypeOK
<1> SUFFICES ASSUME RoomInv PROVE RoomTypeOK
  OBVIOUS
<1>1. ASSUME NEW r \in Rooms
      PROVE  /\ room[r].bookable \in BOOLEAN /\ room[r].shortest \in Slots
             /\ room[r].longest \in Slots /\ room[r].shortest <= room[r].longest
             /\ room[r].with \subseteq Equipment \X Callers
  BY DEF RoomInv, RoomTyped, RoomSettings
<1>2. ASSUME NEW c \in Callers
      PROVE  /\ open[c] \in {Idle} \cup Requests \cup EquipmentPuts
             /\ entry[c] \in {Idle, Undone} \cup Requests \cup EquipmentPuts
  BY DEF RoomInv, RoomTyped
<1> QED BY <1>1, <1>2 DEF RoomTypeOK, RoomInv, RoomTyped

(* and of the rows of a table of settings.                                       *)
LEMMA SettingsInvTyped == SettingsInv => SettingTypeOK
<1> SUFFICES ASSUME SettingsInv PROVE SettingTypeOK
  OBVIOUS
<1>1. ASSUME NEW i \in Lines
      PROVE  /\ line[i].there \in {"none", "live", "gone"} /\ line[i].place \in Places
             /\ line[i].key \in KeyNames \cup {AnyKey}
             /\ line[i].flag \in BOOLEAN /\ line[i].need \in BOOLEAN /\ line[i].active \in BOOLEAN
             /\ sold[i] \in {"never", "free", "priced", "unpriced"}
  BY DEF SettingsInv, SettingTyped, LineShape
<1>2. \A c \in Offices : desk[c].kind \in {"none", "post", "patch", "delete", "take"}
  BY DeskShape DEF SettingsInv
<1> QED BY <1>1, <1>2 DEF SettingTypeOK, SettingsInv, SettingTyped

RequestsInv ==
  /\ PagesInv /\ EditsInv /\ RoomInv /\ SettingsInv
  /\ RelationInv /\ RegisterInv /\ FileInv

(* A step of the run is a step of one part; every other part rests.                 *)
LEMMA RequestsStep ==
  [RequestsNext]_requestsVars =>
    /\ [PagesNext]_pagesVars /\ [EditsNext]_editVars /\ [RoomNext]_roomVars /\ [SettingsNext]_settingVars
    /\ [RelationNext]_linkVars /\ [RegisterNext]_registerVars /\ [FilesNext]_fileVars
  BY DEF RequestsNext, requestsVars, OfficeRests, AssetsRest, PagesPart, EditsPart, RoomsPart, SettingsPart,
         RelationsPart, RegisterPart, FilesPart

(* All parts begin in order,                                                      *)
LEMMA RequestsStart == RequestsInit => RequestsInv
  BY PagesStart, InitEditsInv, InitRoomInv, InitSettingsInv, RelationStarts, RegisterStarts, FilesStart
     DEF RequestsInit, RequestsInv

(* and stay in order, whichever moves.                                            *)
LEMMA RequestsKeep == RequestsInv /\ [RequestsNext]_requestsVars => RequestsInv'
  BY RequestsStep, PagesStep, EditsInvIsKept, RoomInvIsKept, SettingsStep, RelationSteps, RegisterSteps,
     FileSteps
     DEF RequestsInv

(* Requests side by side leave rows, cursors, locks, settings, relations, the register  *)
(* of assets and files with their types, for all values of the constants.          *)
THEOREM RequestsTyped == RequestsSpec => []TypesOK
<1>1. RequestsInv => TypesOK
  BY EditsInvTyped, RoomInvTyped, SettingsInvTyped, RegisterInvTyped
     DEF RequestsInv, TypesOK, PagesInv, RelationInv, FileInv
<1> QED BY <1>1, RequestsStart, RequestsKeep, PTL DEF RequestsSpec

(* Deletions strand nothing but what came late, codes are unique, what POST and imports *)
(* wrote conforms and was reported as it is; no live file is without its object, no       *)
(* address led nowhere but to a deleted file, and every orphan is known.           *)
THEOREM AssetsStaySound == RequestsSpec => []AssetsAreSound
<1>1. RequestsInv => AssetsAreSound
  BY RegisterInvSound DEF RequestsInv, AssetsAreSound, FileInv
<1> QED BY <1>1, RequestsStart, RequestsKeep, PTL DEF RequestsSpec
=============================================================================
