-------------------------- MODULE ReservationsProofs --------------------------
(***************************************************************************)
(* Proofs about Reservations for every set of resources, rooms, users,     *)
(* windows and server tasks and any bounds.  RowsInv is about the          *)
(* reservation table alone, HoldsInv about the hold table and the open     *)
(* transactions; together with the types they are inductive.               *)
(***************************************************************************)
EXTENDS Reservations, TLAPS

Statuses == Blocking \cup Ended

(* A reservation has a status, and its main row stands for it.             *)
RowsExist == \A i \in Ids : Exists(i) => Status(i) \in Statuses

RowsInv ==
  /\ booking \in [Ids -> Booking]
  /\ rows \in [Ids -> [Resources -> Row]]
  /\ RowsExist
  /\ ShadowsFollow
  /\ Exclusive(rows)

(* What the UPDATE of a set of reservations and the sync trigger leave.    *)
Updated(S, m) == [i \in Ids |-> IF i \in S THEN Synced(i, m[i]) ELSE rows[i]]

StatusUpdated(S, s) == [i \in Ids |-> IF i \in S THEN WithStatus(i, s) ELSE rows[i]]

(* A hold is owned once it exists.                                         *)
HoldsOwned ==
  \A h \in HoldIds : hold[h].status # "NONE" =>
     hold[h].res \in Resources /\ hold[h].user \in Users

(* The lock of a hold and the transaction that consumed it belong together.*)
LocksOwned ==
  /\ \A h \in HoldIds, p \in Procs : hold[h].lock = p =>
        /\ op[p].kind \in {"consumed", "checked"} /\ op[p].hold = h
        /\ op[p].user = hold[h].user /\ op[p].res = hold[h].res
        /\ hold[h].status = "CONSUMED"
  /\ \A p \in Procs : op[p].kind \in {"consumed", "checked"} /\ op[p].hold # 0 =>
        hold[op[p].hold].lock = p /\ Len(op[p].windows) = 1

(* The hold of a reservation is committed, and never ACTIVE again.         *)
TokensSpent ==
  \A i \in Ids : booking[i].token # 0 =>
     /\ Exists(i)
     /\ hold[booking[i].token].status \in {"CONSUMED", "RELEASED"}
     /\ hold[booking[i].token].lock = None

(* Only an existing hold is about to be released.                          *)
ReleasesKnown ==
  \A p \in Procs : op[p].kind = "releasing" => hold[op[p].hold].status # "NONE"

HoldsInv ==
  /\ HoldsOwned
  /\ ReleasesKnown
  /\ LocksOwned
  /\ TokensSpent
  /\ HoldServesOneBooking
  /\ ConsumedHasBooking

(* What a series cancellation is about to touch exists.                    *)
TargetsExist ==
  \A p \in Procs : op[p].kind = "cancelling" => \A i \in op[p].targets : Exists(i)

ReservationsInv ==
  /\ TypeOK
  /\ RowsInv
  /\ HoldsInv
  /\ TargetsExist
  /\ NoShowIsAbsent

-----------------------------------------------------------------------------
(* The trigger writes the main row to every room of the reservation, and   *)
(* to nothing else.                                                        *)
LEMMA SyncedValue ==
  ASSUME RowsInv, NEW i \in Ids, Exists(i), NEW main \in Row, NEW r \in Resources
  PROVE  Synced(i, main)[r] = IF r \in Rooms(booking[i].res) THEN main ELSE NoRow
<1>1. booking[i].res \in Resources
  BY DEF RowsInv, Booking, Exists
<1>2. Main(i).status # "NONE"
  BY DEF RowsInv, RowsExist, Status, Statuses, Blocking, Ended
<1>3. rows[i][r] = IF r \in Rooms(booking[i].res) THEN Main(i) ELSE NoRow
  BY DEF RowsInv, ShadowsFollow
<1>4. booking[i].res \in Rooms(booking[i].res)
  BY DEF Rooms
<1> QED BY <1>1, <1>2, <1>3, <1>4 DEF Synced, NoRow

LEMMA SyncedMain ==
  ASSUME RowsInv, NEW i \in Ids, Exists(i), NEW main \in Row
  PROVE  /\ Synced(i, main) \in [Resources -> Row]
         /\ Synced(i, main)[booking[i].res] = main
<1>1. booking[i].res \in Resources
  BY DEF RowsInv, Booking, Exists
<1> QED BY <1>1 DEF Synced, RowsInv

(* An UPDATE of existing reservations keeps the table in order if the      *)
(* exclusion constraint accepts the result.                                *)
LEMMA UpdateKeepsRows ==
  ASSUME RowsInv, NEW S \in SUBSET Ids, NEW m,
         \A i \in S : Exists(i) /\ m[i] \in Row /\ m[i].status \in Statuses,
         rows' = Updated(S, m), Exclusive(rows'),
         booking' \in [Ids -> Booking],
         \A i \in Ids : booking'[i].res = booking[i].res
  PROVE  /\ RowsInv'
         /\ \A i \in Ids : Main(i)' = IF i \in S THEN m[i] ELSE Main(i)
<1>1. rows' \in [Ids -> [Resources -> Row]]
  BY SyncedMain DEF RowsInv, Updated
<1>2. ASSUME NEW i \in S PROVE Main(i)' = m[i]
  <2>1. rows'[i] = Synced(i, m[i])
    BY DEF Updated
  <2> QED BY <2>1, SyncedMain DEF Main
<1>3. ASSUME NEW i \in Ids, i \notin S PROVE rows'[i] = rows[i] /\ Main(i)' = Main(i)
  <2>1. rows'[i] = rows[i]
    BY <1>3 DEF Updated
  <2> QED BY <2>1 DEF Main
<1>4. RowsExist'
  <2> SUFFICES ASSUME NEW i \in Ids, Exists(i)' PROVE Status(i)' \in Statuses
    BY DEF RowsExist
  <2>1. CASE i \in S
    BY <2>1, <1>2 DEF Status
  <2>2. CASE i \notin S
    BY <2>2, <1>3 DEF Status, RowsInv, RowsExist, Exists
  <2> QED BY <2>1, <2>2
<1>5. ShadowsFollow'
  <2> SUFFICES ASSUME NEW i \in Ids, NEW r \in Resources
               PROVE  rows'[i][r] = IF Exists(i)' /\ r \in Rooms(booking'[i].res)
                                    THEN Main(i)' ELSE NoRow
    BY DEF ShadowsFollow
  <2>1. CASE i \in S
    <3>1. rows'[i] = Synced(i, m[i])
      BY <2>1 DEF Updated
    <3>2. Exists(i)'
      BY <2>1 DEF Exists
    <3> QED BY <2>1, <3>1, <3>2, <1>2, SyncedValue
  <2>2. CASE i \notin S
    BY <2>2, <1>3 DEF RowsInv, ShadowsFollow, Exists
  <2> QED BY <2>1, <2>2
<1> QED BY <1>1, <1>2, <1>3, <1>4, <1>5 DEF RowsInv

(* A change of status that blocks no more than before cannot violate the   *)
(* exclusion constraint.                                                   *)
LEMMA StatusKeepsExclusive ==
  ASSUME RowsInv, NEW S \in SUBSET Ids, NEW s \in Statuses,
         \A i \in S : Exists(i) /\ (s \in Blocking => Status(i) \in Blocking)
  PROVE  /\ Exclusive(Updated(S, [i \in Ids |-> [Main(i) EXCEPT !.status = s]]))
         /\ \A i \in S : [Main(i) EXCEPT !.status = s] \in Row
<1> DEFINE M(i) == [Main(i) EXCEPT !.status = s]
           rs == Updated(S, [i \in Ids |-> M(i)])
<1>1. ASSUME NEW i \in S PROVE Main(i) \in Row /\ M(i) \in Row
  <2>1. booking[i].res \in Resources
    BY DEF RowsInv, Booking, Exists
  <2>2. Main(i) \in Row
    BY <2>1 DEF RowsInv, Main
  <2> QED BY <2>2 DEF Row, Statuses
<1>2. ASSUME NEW i \in Ids, NEW r \in Resources, rs[i][r].status \in Blocking
      PROVE  /\ rows[i][r].status \in Blocking
             /\ rs[i][r].start = rows[i][r].start /\ rs[i][r].end = rows[i][r].end
  <2>1. CASE i \in S
    <3>1. rs[i] = Synced(i, M(i))
      BY <2>1 DEF Updated
    <3>2. rs[i][r] = IF r \in Rooms(booking[i].res) THEN M(i) ELSE NoRow
      BY <2>1, <3>1, <1>1, SyncedValue
    <3>3. rows[i][r] = IF r \in Rooms(booking[i].res) THEN Main(i) ELSE NoRow
      BY <2>1 DEF RowsInv, ShadowsFollow
    <3>4. r \in Rooms(booking[i].res)
      BY <1>2, <3>2 DEF NoRow, Blocking
    <3>5. M(i).status = s /\ M(i).start = Main(i).start /\ M(i).end = Main(i).end
      BY <2>1, <1>1 DEF Row
    <3> QED BY <1>2, <2>1, <3>2, <3>3, <3>4, <3>5 DEF Status
  <2>2. CASE i \notin S
    BY <1>2, <2>2 DEF Updated
  <2> QED BY <2>1, <2>2
<1>3. Exclusive(rs)
  <2> SUFFICES ASSUME NEW i \in Ids, NEW j \in Ids, i # j, NEW r \in Resources,
                      rs[i][r].status \in Blocking, rs[j][r].status \in Blocking
               PROVE  ~Overlap(rs[i][r], rs[j][r])
    BY DEF Exclusive
  <2>1. ~Overlap(rows[i][r], rows[j][r])
    BY <1>2 DEF RowsInv, Exclusive
  <2> QED BY <1>2, <2>1 DEF Overlap
<1> QED BY <1>1, <1>3

LEMMA StatusKeepsRows ==
  ASSUME RowsInv, NEW S \in SUBSET Ids, NEW s \in Statuses,
         \A i \in S : Exists(i) /\ (s \in Blocking => Status(i) \in Blocking),
         rows' = StatusUpdated(S, s),
         booking' \in [Ids -> Booking],
         \A i \in Ids : booking'[i].res = booking[i].res
  PROVE  /\ RowsInv'
         /\ \A i \in Ids : Exists(i) => Status(i)' = IF i \in S THEN s ELSE Status(i)
<1> DEFINE m == [i \in Ids |-> [Main(i) EXCEPT !.status = s]]
<1>1. rows' = Updated(S, m)
  BY DEF Updated, StatusUpdated, WithStatus
<1>2. Exclusive(Updated(S, m)) /\ \A i \in S : m[i] \in Row
  BY StatusKeepsExclusive
<1>3. \A i \in S : m[i].status = s
  <2> SUFFICES ASSUME NEW i \in S PROVE m[i].status = s
    OBVIOUS
  <2>1. booking[i].res \in Resources
    BY DEF RowsInv, Booking, Exists
  <2>2. Main(i) \in Row
    BY <2>1 DEF RowsInv, Main
  <2> QED BY <2>2 DEF Row
<1>4. Exclusive(rows')
  BY <1>1, <1>2
<1> HIDE DEF m
<1>5. RowsInv' /\ \A i \in Ids : Main(i)' = IF i \in S THEN m[i] ELSE Main(i)
  BY <1>1, <1>2, <1>3, <1>4, UpdateKeepsRows
<1> QED BY <1>3, <1>5 DEF Status

(* The same for one reservation.                                           *)
LEMMA SetStatusKeepsRows ==
  ASSUME RowsInv, NEW i \in Ids, NEW s \in Statuses,
         Exists(i), s \in Blocking => Status(i) \in Blocking, SetStatus(i, s),
         booking' \in [Ids -> Booking],
         \A j \in Ids : booking'[j].res = booking[j].res
  PROVE  /\ RowsInv'
         /\ \A j \in Ids : Exists(j) => Status(j)' = IF j = i THEN s ELSE Status(j)
<1>1. rows' = StatusUpdated({i}, s)
  BY DEF StatusUpdated, SetStatus, RowsInv
<1>2. \A j \in {i} : Exists(j) /\ (s \in Blocking => Status(j) \in Blocking)
  OBVIOUS
<1>3. {i} \in SUBSET Ids
  OBVIOUS
<1>4. RowsInv' /\ \A j \in Ids : Exists(j) => Status(j)' = IF j \in {i} THEN s ELSE Status(j)
  BY <1>1, <1>2, <1>3, StatusKeepsRows
<1> QED BY <1>4

LEMMA MoveKeepsRows ==
  ASSUME ReservationsInv, NEW i \in Ids, Move(i)
  PROVE  /\ RowsInv'
         /\ \A j \in Ids : Exists(j) => Status(j)' = Status(j)
<1>1. PICK w \in Windows :
        /\ rows' = [rows EXCEPT ![i] =
              Synced(i, [Main(i) EXCEPT !.start = w.start, !.end = w.end])]
        /\ Exclusive(rows')
  BY DEF Move
<1> DEFINE main == [Main(i) EXCEPT !.start = w.start, !.end = w.end]
           m == [j \in {i} |-> main]
<1>2. Exists(i) /\ booking' = [booking EXCEPT ![i].moved = TRUE]
  BY DEF Move
<1>3. booking' \in [Ids -> Booking] /\ \A j \in Ids : booking'[j].res = booking[j].res
  BY <1>2 DEF ReservationsInv, RowsInv, Booking
<1>4. Main(i) \in Row
  <2>1. booking[i].res \in Resources
    BY <1>2 DEF ReservationsInv, RowsInv, Booking, Exists
  <2> QED BY <2>1 DEF ReservationsInv, RowsInv, Main
<1>5. w.start \in Nat /\ w.end \in Nat
  BY ReservationsAssumption
<1>6. main \in Row /\ main.status = Status(i)
  BY <1>4, <1>5 DEF Row, Status
<1>7. Status(i) \in Statuses
  BY <1>2 DEF ReservationsInv, RowsInv, RowsExist
<1>8. m[i] = main
  OBVIOUS
<1>9. rows' = Updated({i}, m)
  BY <1>1, <1>8 DEF Updated, ReservationsInv, RowsInv
<1> HIDE DEF m, main
<1>10. \A j \in {i} : Exists(j) /\ m[j] \in Row /\ m[j].status \in Statuses
  BY <1>2, <1>6, <1>7, <1>8
<1>11. RowsInv' /\ \A j \in Ids : Main(j)' = IF j \in {i} THEN m[j] ELSE Main(j)
  <2>1. RowsInv /\ {i} \in SUBSET Ids
    BY DEF ReservationsInv
  <2> QED BY <1>1, <1>3, <1>9, <1>10, <2>1, UpdateKeepsRows
<1> QED BY <1>6, <1>8, <1>11 DEF Status

-----------------------------------------------------------------------------
(* The fields of an open transaction, by its kind.                         *)
LEMMA OpFields ==
  ASSUME TypeOK, NEW p \in Procs
  PROVE  /\ op[p].kind \in {"consumed", "checked"} =>
              /\ op[p] \in [kind : {"consumed", "checked"}, user : Users, res : Resources,
                            windows : Seq(Windows), hold : 0..MaxHolds]
              /\ op[p].user \in Users /\ op[p].res \in Resources
              /\ op[p].windows \in Seq(Windows) /\ op[p].hold \in 0..MaxHolds
         /\ op[p].kind = "holding" =>
              op[p].user \in Users /\ op[p].res \in Resources /\ op[p].window \in Windows
         /\ op[p].kind = "releasing" => op[p].hold \in HoldIds
         /\ op[p].kind = "cancelling" => op[p].targets \in SUBSET Ids
<1>1. op[p] \in Op
  BY DEF TypeOK
<1> QED BY <1>1 DEF Op, Idle

(* The part of an Insert that commits: `new' are the reservations it adds. *)
Inserted(p, new) ==
  /\ \A i \in new :
       /\ ~Exists(i)
       /\ booking'[i].res = op[p].res /\ booking'[i].org = op[p].user
       /\ booking'[i].token = op[p].hold
       /\ \E w \in Windows : rows'[i] = Expanded(op[p].res, w)
       /\ Len(op[p].windows) = 1 => rows'[i] = Expanded(op[p].res, op[p].windows[1])
  /\ \A i \in Ids \ new : booking'[i] = booking[i] /\ rows'[i] = rows[i]
  /\ booking' \in [Ids -> Booking]
  /\ rows' \in [Ids -> [Resources -> Row]]
  /\ Exclusive(rows')
  /\ Len(op[p].windows) = 1 => \E i \in Ids : new = {i}
  /\ hold' = [h \in HoldIds |-> IF hold[h].lock = p THEN [hold[h] EXCEPT !.lock = None]
                                                     ELSE hold[h]]
  /\ Goto(p, Idle)
  /\ UNCHANGED <<now, due>>

LEMMA ExpandedType ==
  ASSUME NEW r \in Resources, NEW w \in Windows
  PROVE  /\ Expanded(r, w) \in [Resources -> Row]
         /\ Expanded(r, w)[r].status \in {"PENDING_APPROVAL", "CONFIRMED"}
<1>1. w.start \in Nat /\ w.end \in Nat
  BY ReservationsAssumption
<1> QED BY <1>1 DEF Expanded, Row, NoRow, Blocking, Ended, Rooms

LEMMA InsertCommitsOrNot ==
  ASSUME ReservationsInv, NEW p \in Procs, Insert(p)
  PROVE  Rollback(p) \/ \E new \in SUBSET Ids : Inserted(p, new)
<1> DEFINE o == op[p]
           len == Len(o.windows)
<1>1. /\ o.kind = "checked" /\ o.user \in Users /\ o.res \in Resources
      /\ o.windows \in Seq(Windows) /\ o.hold \in 0..MaxHolds
  BY OpFields DEF ReservationsInv, Insert
<1>2. len \in Nat /\ \A k \in 1..len : o.windows[k] \in Windows
  BY <1>1
<1> HIDE DEF o, len
<1>3. PICK n \in 0..MaxBookings :
        /\ \A i \in Ids : Exists(i) <=> i <= n
        /\ LET new == (n + 1)..(n + len)
               inserted == [i \in Ids |-> IF i \in new THEN Expanded(o.res, o.windows[i - n])
                                                       ELSE rows[i]]
           IN IF n + len <= MaxBookings /\ Exclusive(inserted)
              THEN /\ rows' = inserted
                   /\ booking' = [i \in Ids |->
                        IF i \in new
                        THEN NewBooking(o, o.windows[i - n], IF len = 1 THEN 0 ELSE n + 1)
                        ELSE booking[i]]
                   /\ hold' = [h \in HoldIds |-> IF hold[h].lock = p
                                                 THEN [hold[h] EXCEPT !.lock = None]
                                                 ELSE hold[h]]
                   /\ Goto(p, Idle)
                   /\ UNCHANGED <<now, due>>
              ELSE Rollback(p)
  BY DEF Insert, o, len
<1> DEFINE new == (n + 1)..(n + len)
           inserted == [i \in Ids |-> IF i \in new THEN Expanded(o.res, o.windows[i - n])
                                                   ELSE rows[i]]
<1>4. CASE ~(n + len <= MaxBookings /\ Exclusive(inserted))
  BY <1>3, <1>4
<1>5. CASE n + len <= MaxBookings /\ Exclusive(inserted)
  <2>1. /\ rows' = inserted
        /\ booking' = [i \in Ids |->
             IF i \in new THEN NewBooking(o, o.windows[i - n], IF len = 1 THEN 0 ELSE n + 1)
                          ELSE booking[i]]
        /\ hold' = [h \in HoldIds |-> IF hold[h].lock = p THEN [hold[h] EXCEPT !.lock = None]
                                                          ELSE hold[h]]
        /\ Goto(p, Idle)
        /\ UNCHANGED <<now, due>>
    BY <1>3, <1>5
  <2>2. new \in SUBSET Ids
    BY <1>2, <1>5, ReservationsAssumption DEF Ids
  <2>3. \A i \in new : ~Exists(i) /\ o.windows[i - n] \in Windows
    BY <1>2, <1>3, <2>2
  <2>4. ASSUME NEW i \in new
        PROVE  /\ rows'[i] = Expanded(o.res, o.windows[i - n])
               /\ booking'[i] = NewBooking(o, o.windows[i - n], IF len = 1 THEN 0 ELSE n + 1)
    BY <2>1, <2>2
  <2>5. ASSUME NEW w \in Windows, NEW g \in 0..MaxBookings
        PROVE  NewBooking(o, w, g) \in Booking
    <3>1. w.start \in Nat /\ ReleaseAfter[o.res] \in Nat
      BY <1>1, ReservationsAssumption
    <3> QED BY <1>1, <3>1 DEF NewBooking, Booking
  <2>6. booking' \in [Ids -> Booking]
    <3>1. ASSUME NEW i \in new PROVE booking'[i] \in Booking
      <4>1. (IF len = 1 THEN 0 ELSE n + 1) \in 0..MaxBookings
        BY <1>2, <1>5, <2>2, ReservationsAssumption DEF Ids
      <4> QED BY <2>3, <2>4, <2>5, <4>1
    <3>2. ASSUME NEW i \in Ids \ new PROVE booking'[i] \in Booking
      BY <2>1 DEF ReservationsInv, RowsInv
    <3>3. booking' = [i \in Ids |-> booking'[i]]
      BY <2>1
    <3>4. \A i \in Ids : booking'[i] \in Booking
      BY <3>1, <3>2
    <3> QED BY <3>3, <3>4
  <2>7. rows' \in [Ids -> [Resources -> Row]]
    <3>1. \A i \in new : rows'[i] \in [Resources -> Row]
      BY <1>1, <2>3, <2>4, ExpandedType
    <3>2. \A i \in Ids \ new : rows'[i] \in [Resources -> Row]
      BY <2>1 DEF ReservationsInv, RowsInv
    <3> QED BY <2>1, <3>1, <3>2
  <2>8. \A i \in new : /\ booking'[i].res = o.res /\ booking'[i].org = o.user
                       /\ booking'[i].token = o.hold
    <3>1. \A w, g : /\ NewBooking(o, w, g).res = o.res /\ NewBooking(o, w, g).org = o.user
                    /\ NewBooking(o, w, g).token = o.hold
      BY DEF NewBooking
    <3> HIDE DEF new
    <3> QED BY <2>4, <3>1
  <2>9. \A i \in Ids \ new : booking'[i] = booking[i] /\ rows'[i] = rows[i]
    BY <2>1
  <2>10. len = 1 => \E i \in Ids : new = {i}
    <3> SUFFICES ASSUME len = 1 PROVE \E i \in Ids : new = {i}
      OBVIOUS
    <3>1. n + 1 \in Ids
      BY <1>5 DEF Ids
    <3>2. new = {n + 1}
      OBVIOUS
    <3> QED BY <3>1, <3>2
  <2>11. Exclusive(rows')
    BY <1>5, <2>1
  <2>12. \A i \in new : \E w \in Windows : rows'[i] = Expanded(o.res, w)
    BY <2>3, <2>4
  <2>13. \A i \in new : len = 1 => rows'[i] = Expanded(o.res, o.windows[1])
    <3> SUFFICES ASSUME NEW i \in new, len = 1 PROVE rows'[i] = Expanded(o.res, o.windows[1])
      OBVIOUS
    <3>1. i - n = 1
      OBVIOUS
    <3> QED BY <2>4, <3>1
  <2> HIDE DEF new, inserted
  <2>14. Inserted(p, new)
    BY <2>1, <2>3, <2>6, <2>7, <2>8, <2>9, <2>10, <2>11, <2>12, <2>13 DEF Inserted, o, len
  <2> QED BY <2>2, <2>14
<1> QED BY <1>4, <1>5

LEMMA InsertedKeepsRows ==
  ASSUME ReservationsInv, NEW p \in Procs, NEW new \in SUBSET Ids, Inserted(p, new),
         op[p].kind = "checked"
  PROVE  /\ RowsInv'
         /\ \A i \in new : Status(i)' \in {"PENDING_APPROVAL", "CONFIRMED"}
         /\ \A i \in Ids \ new : Status(i)' = Status(i) /\ (Exists(i)' <=> Exists(i))
<1>1. op[p].res \in Resources
  BY OpFields DEF ReservationsInv
<1>2. op[p].res # None
  BY <1>1, ReservationsAssumption
<1>3. ASSUME NEW i \in new
      PROVE  /\ Exists(i)'
             /\ Status(i)' \in {"PENDING_APPROVAL", "CONFIRMED"}
             /\ \A r \in Resources :
                  rows'[i][r] = IF r \in Rooms(booking'[i].res) THEN Main(i)' ELSE NoRow
  <2>1. PICK w \in Windows : rows'[i] = Expanded(op[p].res, w)
    BY DEF Inserted
  <2>2. booking'[i].res = op[p].res
    BY DEF Inserted
  <2>3. Main(i)' = Expanded(op[p].res, w)[op[p].res]
    BY <2>1, <2>2 DEF Main
  <2>4. Status(i)' \in {"PENDING_APPROVAL", "CONFIRMED"}
    BY <1>1, <2>3, ExpandedType DEF Status
  <2>5. \A r \in Resources :
          rows'[i][r] = IF r \in Rooms(op[p].res) THEN Main(i)' ELSE NoRow
    BY <1>1, <2>1, <2>3 DEF Expanded, Rooms
  <2> QED BY <1>2, <2>2, <2>4, <2>5 DEF Exists
<1>4. ASSUME NEW i \in Ids \ new
      PROVE  /\ booking'[i] = booking[i] /\ rows'[i] = rows[i]
             /\ Main(i)' = Main(i) /\ Status(i)' = Status(i) /\ (Exists(i)' <=> Exists(i))
  BY DEF Inserted, Main, Status, Exists
<1>5. RowsExist'
  BY <1>3, <1>4 DEF ReservationsInv, RowsInv, RowsExist, Statuses, Blocking
<1>6. ShadowsFollow'
  <2> SUFFICES ASSUME NEW i \in Ids, NEW r \in Resources
               PROVE  rows'[i][r] = IF Exists(i)' /\ r \in Rooms(booking'[i].res)
                                    THEN Main(i)' ELSE NoRow
    BY DEF ShadowsFollow
  <2>1. CASE i \in new
    BY <1>3, <2>1
  <2>2. CASE i \notin new
    BY <1>4, <2>2 DEF ReservationsInv, RowsInv, ShadowsFollow
  <2> QED BY <2>1, <2>2
<1>7. /\ booking' \in [Ids -> Booking] /\ rows' \in [Ids -> [Resources -> Row]]
      /\ Exclusive(rows')
  BY DEF Inserted
<1> QED BY <1>3, <1>4, <1>5, <1>6, <1>7 DEF RowsInv

-----------------------------------------------------------------------------
(* What every step does to the reservations: nothing, a change of status   *)
(* that brings no freed slot back, a move, or an insertion.                *)
StatusStep ==
  /\ \A i \in Ids : /\ booking'[i].res = booking[i].res /\ booking'[i].org = booking[i].org
                    /\ booking'[i].token = booking[i].token
                    /\ booking'[i].releaseAt = booking[i].releaseAt
  /\ \A i \in Ids : Exists(i) /\ Status(i) \in Ended => Status(i)' \in Ended
  /\ \A i \in Ids : Exists(i) /\ Status(i)' = "NO_SHOW" =>
        (Status(i) = "NO_SHOW" \/ Overdue(i)) /\ booking'[i].arrived = booking[i].arrived

LEMMA Quiet ==
  ASSUME RowsInv, UNCHANGED <<booking, rows>>
  PROVE  RowsInv' /\ StatusStep /\ \A i \in Ids : Status(i)' = Status(i)
BY DEF RowsInv, RowsExist, ShadowsFollow, Exclusive, StatusStep, Exists, Main, Status

(* The status changes of one reservation.                                  *)
LEMMA ChangeKeepsRows ==
  ASSUME ReservationsInv, NEW i \in Ids, NEW s \in Statuses,
         Exists(i), s \in Blocking => Status(i) \in Blocking, SetStatus(i, s),
         booking' = booking \/ booking' = [booking EXCEPT ![i].arrived = TRUE],
         s = "NO_SHOW" => Overdue(i) /\ booking' = booking
  PROVE  /\ RowsInv' /\ StatusStep
         /\ \A j \in Ids : Exists(j) => Status(j)' = IF j = i THEN s ELSE Status(j)
<1>1. /\ booking' \in [Ids -> Booking]
      /\ \A j \in Ids : /\ booking'[j].res = booking[j].res /\ booking'[j].org = booking[j].org
                        /\ booking'[j].token = booking[j].token
                        /\ booking'[j].releaseAt = booking[j].releaseAt
  <2>1. CASE booking' = booking
    BY <2>1 DEF ReservationsInv, RowsInv
  <2>2. CASE booking' = [booking EXCEPT ![i].arrived = TRUE]
    <3>0. booking \in [Ids -> Booking] /\ booking[i] \in Booking
      BY DEF ReservationsInv, RowsInv
    <3>1. booking \in [Ids -> Booking] /\ [booking[i] EXCEPT !.arrived = TRUE] \in Booking
      BY <3>0 DEF Booking
    <3>2. PICK b : b = [booking[i] EXCEPT !.arrived = TRUE]
      OBVIOUS
    <3>3. booking' = [booking EXCEPT ![i] = b] /\ b \in Booking
      BY <2>2, <3>1, <3>2
    <3>4. /\ b.res = booking[i].res /\ b.org = booking[i].org /\ b.token = booking[i].token
          /\ b.releaseAt = booking[i].releaseAt
      BY <3>1, <3>2 DEF Booking
    <3> QED BY <3>1, <3>3, <3>4
  <2> QED BY <2>1, <2>2
<1>2. RowsInv
  BY DEF ReservationsInv
<1>3. /\ RowsInv'
      /\ \A j \in Ids : Exists(j) => Status(j)' = IF j = i THEN s ELSE Status(j)
  BY <1>1, <1>2, SetStatusKeepsRows
<1>4. \A j \in Ids : Exists(j) /\ Status(j) \in Ended => Status(j)' \in Ended
  BY <1>3 DEF Statuses, Blocking, Ended
<1>5. \A j \in Ids : j # i => booking'[j] = booking[j]
  BY DEF ReservationsInv, RowsInv
<1>6. \A j \in Ids : Exists(j) /\ Status(j)' = "NO_SHOW" =>
        (Status(j) = "NO_SHOW" \/ Overdue(j)) /\ booking'[j].arrived = booking[j].arrived
  BY <1>3, <1>5
<1> QED BY <1>1, <1>3, <1>4, <1>6 DEF StatusStep

(* No step but an insertion does anything else to the reservations.        *)
LEMMA RowsStep ==
  ASSUME ReservationsInv, Next
  PROVE  /\ RowsInv'
         /\ \/ StatusStep
            \/ \E p \in Procs, new \in SUBSET Ids : op[p].kind = "checked" /\ Inserted(p, new)
<1>1. RowsInv
  BY DEF ReservationsInv
<1>2. CASE UNCHANGED <<booking, rows>>
  BY <1>1, <1>2, Quiet
<1>3. ASSUME NEW p \in Procs, Insert(p)
      PROVE  RowsInv' /\ (StatusStep \/ \E new \in SUBSET Ids : Inserted(p, new))
  <2>1. CASE Rollback(p)
    BY <1>1, <2>1, Quiet DEF Rollback
  <2>2. CASE \E new \in SUBSET Ids : Inserted(p, new)
    BY <1>3, <2>2, InsertedKeepsRows DEF Insert
  <2> QED BY <1>3, <2>1, <2>2, InsertCommitsOrNot
<1>4. ASSUME NEW p \in Procs, CancelSeries(p) PROVE RowsInv' /\ StatusStep
  <2>1. op[p].targets \in SUBSET Ids /\ \A i \in op[p].targets : Exists(i)
    BY <1>4, OpFields DEF CancelSeries, ReservationsInv, TargetsExist
  <2>2. rows' = StatusUpdated(op[p].targets, "CANCELLED") /\ booking' = booking
    BY <1>4 DEF CancelSeries, StatusUpdated
  <2>3. "CANCELLED" \in Statuses /\ "CANCELLED" \notin Blocking
    BY DEF Statuses, Blocking, Ended
  <2>4. booking' \in [Ids -> Booking] /\ \A i \in Ids : booking'[i].res = booking[i].res
    BY <1>1, <2>2 DEF RowsInv
  <2>5. /\ RowsInv'
        /\ \A i \in Ids : Exists(i) =>
              Status(i)' = IF i \in op[p].targets THEN "CANCELLED" ELSE Status(i)
    BY <1>1, <2>1, <2>2, <2>3, <2>4, StatusKeepsRows
  <2> QED BY <2>2, <2>5 DEF StatusStep, Ended
<1>5. ASSUME NEW i \in Ids, Change(i) PROVE RowsInv' /\ StatusStep
  <2>1. CASE CheckIn(i)
    <3>1. "CHECKED_IN" \in Statuses
      BY DEF Statuses, Blocking
    <3> QED BY <2>1, <3>1, ChangeKeepsRows DEF CheckIn, Blocking
  <2>2. CASE CheckOut(i)
    BY <2>2, ChangeKeepsRows DEF CheckOut, Statuses, Blocking, Ended
  <2>3. CASE Cancel(i)
    BY <2>3, ChangeKeepsRows DEF Cancel, Statuses, Blocking, Ended
  <2>4. CASE Approve(i)
    BY <2>4, ChangeKeepsRows DEF Approve, Statuses, Blocking, Ended
  <2>5. CASE Reject(i)
    BY <2>5, ChangeKeepsRows DEF Reject, Statuses, Blocking, Ended
  <2>6. CASE Move(i)
    <3>1. booking' = [booking EXCEPT ![i].moved = TRUE] /\ booking \in [Ids -> Booking]
      BY <2>6, <1>1 DEF Move, RowsInv
    <3>2. \A j \in Ids : /\ booking'[j].res = booking[j].res
                         /\ booking'[j].org = booking[j].org
                         /\ booking'[j].token = booking[j].token
                         /\ booking'[j].releaseAt = booking[j].releaseAt
      BY <3>1 DEF Booking
    <3>3. \A j \in Ids : booking'[j].arrived = booking[j].arrived
      BY <3>1 DEF Booking
    <3> QED BY <2>6, <3>2, <3>3, MoveKeepsRows DEF StatusStep
  <2> QED BY <1>5, <2>1, <2>2, <2>3, <2>4, <2>5, <2>6 DEF Change
<1>6. ASSUME NEW i \in Ids, MarkNoShow(i) PROVE RowsInv' /\ StatusStep
  <2>1. CASE Overdue(i)
    BY <1>6, <2>1, ChangeKeepsRows DEF MarkNoShow, Overdue, Statuses, Blocking, Ended
  <2>2. CASE ~Overdue(i)
    BY <1>1, <1>6, <2>2, Quiet DEF MarkNoShow
  <2> QED BY <2>1, <2>2
<1>7. ASSUME NEW p \in Procs,
             Begin(p) \/ CheckConsumed(p) \/ InsertHold(p) \/ ReleaseHold(p) \/ Abort(p)
      PROVE  UNCHANGED <<booking, rows>>
  BY <1>7 DEF Begin, CheckConsumed, InsertHold, ReleaseHold, Abort, Rollback, ConsumeHold,
              CheckCreate, CheckHold, ReadHold, ClassifySeries
<1>8. Scan \/ ScanFails \/ Tick => UNCHANGED <<booking, rows>>
  BY DEF Scan, ScanFails, Tick
<1>9. \A p \in Procs : Insert(p) => op[p].kind = "checked"
  BY DEF Insert
<1> QED BY <1>2, <1>3, <1>4, <1>5, <1>6, <1>7, <1>8, <1>9 DEF Next, Proceed

-----------------------------------------------------------------------------
(* Types of the clock, the holds, the transactions and the scanner.        *)
LEMMA GotoType ==
  ASSUME TypeOK, NEW p \in Procs, NEW o \in Op, Goto(p, o)
  PROVE  /\ op' \in [Procs -> Op] /\ op'[p] = o
         /\ \A q \in Procs : q # p => op'[q] = op[q]
BY DEF TypeOK, Goto

LEMMA IdleType == Idle \in Op /\ Idle.kind = "idle"
BY DEF Idle, Op

(* What the UPDATEs of a hold write is a hold: its lock, its status, or both.  *)
LEMMA HoldWrites ==
  ASSUME NEW x \in Hold, NEW lock \in Procs \cup {None},
         NEW status \in {"NONE", "ACTIVE", "CONSUMED", "RELEASED"}
  PROVE  /\ [x EXCEPT !.lock = lock] \in Hold
         /\ [x EXCEPT !.status = status] \in Hold
         /\ [x EXCEPT !.status = status, !.lock = lock] \in Hold
<1>1. [x EXCEPT !.lock = lock] \in Hold
  BY DEF Hold
<1>2. [x EXCEPT !.status = status] \in Hold
  BY DEF Hold
<1>3. [x EXCEPT !.status = status, !.lock = lock] \in Hold
  BY DEF Hold
<1> QED BY <1>1, <1>2, <1>3

LEMMA RollbackType ==
  ASSUME TypeOK, NEW p \in Procs, Rollback(p)
  PROVE  /\ hold' \in [HoldIds -> Hold] /\ op' \in [Procs -> Op]
         /\ now' = now /\ due' = due
<1>1. hold' \in [HoldIds -> Hold]
  <2>1. hold' = [h \in HoldIds |-> IF hold[h].lock = p
                                   THEN [hold[h] EXCEPT !.status = "ACTIVE", !.lock = None]
                                   ELSE hold[h]]
    BY DEF Rollback, Unlocked
  <2>2. ASSUME NEW h \in HoldIds
        PROVE  hold[h] \in Hold /\ [hold[h] EXCEPT !.status = "ACTIVE", !.lock = None] \in Hold
    <3>1. hold[h] \in Hold
      BY DEF TypeOK
    <3> QED BY <3>1, HoldWrites
  <2> QED BY <2>1, <2>2
<1>2. op' \in [Procs -> Op]
  BY GotoType, IdleType DEF Rollback
<1> QED BY <1>1, <1>2 DEF Rollback

LEMMA ConsumeType ==
  ASSUME ReservationsInv, NEW p \in Procs, ConsumeHold(p)
  PROVE  /\ hold' \in [HoldIds -> Hold] /\ op' \in [Procs -> Op]
<1>1. PICK h \in HoldIds, w \in Windows :
        /\ hold[h].status = "ACTIVE"
        /\ hold' = [hold EXCEPT ![h].status = "CONSUMED", ![h].lock = p]
        /\ Goto(p, [kind |-> "consumed", user |-> hold[h].user, res |-> hold[h].res,
                    windows |-> <<w>>, hold |-> h])
  BY DEF ConsumeHold
<1>2. hold[h].user \in Users /\ hold[h].res \in Resources
  BY <1>1 DEF ReservationsInv, HoldsInv, HoldsOwned
<1>3. <<w>> \in Seq(Windows)
  OBVIOUS
<1>4. h \in 0..MaxHolds
  BY DEF HoldIds
<1>5. [kind |-> "consumed", user |-> hold[h].user, res |-> hold[h].res,
       windows |-> <<w>>, hold |-> h] \in Op
  BY <1>2, <1>3, <1>4 DEF Op
<1>6. hold \in [HoldIds -> Hold] /\ TypeOK
  BY DEF ReservationsInv, TypeOK
<1>7. hold' \in [HoldIds -> Hold]
  <2>1. PICK f : f = [hold EXCEPT ![h].status = "CONSUMED"]
    OBVIOUS
  <2>2. hold[h] \in Hold /\ [hold[h] EXCEPT !.status = "CONSUMED"] \in Hold
    BY <1>6, HoldWrites
  <2>3. f \in [HoldIds -> Hold]
    BY <1>6, <2>1, <2>2
  <2>4. [f[h] EXCEPT !.lock = p] \in Hold
    BY <2>3, HoldWrites
  <2>5. hold' = [f EXCEPT ![h].lock = p]
    BY <1>1, <2>1
  <2> QED BY <2>3, <2>4, <2>5
<1> QED BY <1>1, <1>5, <1>6, <1>7, GotoType

LEMMA BeginType ==
  ASSUME TypeOK, NEW p \in Procs,
         CheckCreate(p) \/ CheckHold(p) \/ ReadHold(p) \/ ClassifySeries(p)
  PROVE  op' \in [Procs -> Op] /\ UNCHANGED <<now, hold, due>>
<1>1. CASE CheckCreate(p)
  <2>1. PICK u \in Users, r \in Resources, ws \in Series :
          Goto(p, [kind |-> "checked", user |-> u, res |-> r, windows |-> ws, hold |-> 0])
    BY <1>1 DEF CheckCreate
  <2>2. ws \in Seq(Windows) /\ 0 \in 0..MaxHolds
    BY ReservationsAssumption
  <2>3. [kind |-> "checked", user |-> u, res |-> r, windows |-> ws, hold |-> 0] \in Op
    BY <2>2 DEF Op
  <2> QED BY <1>1, <2>1, <2>3, GotoType DEF CheckCreate
<1>2. CASE CheckHold(p)
  <2>1. PICK u \in Users, r \in Resources, w \in Windows :
          Goto(p, [kind |-> "holding", user |-> u, res |-> r, window |-> w])
    BY <1>2 DEF CheckHold
  <2>2. [kind |-> "holding", user |-> u, res |-> r, window |-> w] \in Op
    BY DEF Op
  <2> QED BY <1>2, <2>1, <2>2, GotoType DEF CheckHold
<1>3. CASE ReadHold(p)
  <2>1. PICK h \in HoldIds : Goto(p, [kind |-> "releasing", hold |-> h])
    BY <1>3 DEF ReadHold
  <2>2. [kind |-> "releasing", hold |-> h] \in Op
    BY DEF Op
  <2> QED BY <1>3, <2>1, <2>2, GotoType DEF ReadHold
<1>4. CASE ClassifySeries(p)
  <2>1. PICK targets \in SUBSET Ids : Goto(p, [kind |-> "cancelling", targets |-> targets])
    BY <1>4 DEF ClassifySeries
  <2>2. [kind |-> "cancelling", targets |-> targets] \in Op
    BY DEF Op
  <2> QED BY <1>4, <2>1, <2>2, GotoType DEF ClassifySeries
<1> QED BY <1>1, <1>2, <1>3, <1>4

LEMMA InsertHoldCases ==
  ASSUME TypeOK, NEW p \in Procs, InsertHold(p)
  PROVE  /\ Goto(p, Idle) /\ UNCHANGED <<now, booking, rows, due>>
         /\ \/ UNCHANGED hold
            \/ \E h \in HoldIds :
                 /\ hold[h].status = "NONE"
                 /\ hold' = [hold EXCEPT ![h] =
                      [status |-> "ACTIVE", res |-> op[p].res, user |-> op[p].user,
                       start |-> op[p].window.start, end |-> op[p].window.end,
                       expires |-> now + Ttl, lock |-> None]]
BY DEF InsertHold

LEMMA InsertHoldType ==
  ASSUME TypeOK, NEW p \in Procs, InsertHold(p)
  PROVE  hold' \in [HoldIds -> Hold]
<1>1. hold \in [HoldIds -> Hold] /\ now \in Nat
  BY DEF TypeOK
<1>2. /\ op[p].user \in Users /\ op[p].res \in Resources
      /\ op[p].window.start \in Nat /\ op[p].window.end \in Nat
  BY OpFields, ReservationsAssumption DEF InsertHold
<1>3. now + Ttl \in Nat
  BY <1>1, ReservationsAssumption
<1>4. [status |-> "ACTIVE", res |-> op[p].res, user |-> op[p].user,
       start |-> op[p].window.start, end |-> op[p].window.end,
       expires |-> now + Ttl, lock |-> None] \in Hold
  BY <1>2, <1>3 DEF Hold
<1> QED BY <1>1, <1>4, InsertHoldCases

(* The types of everything but the reservations.                           *)
RestTyped ==
  now \in Nat /\ hold \in [HoldIds -> Hold] /\ op \in [Procs -> Op] /\ due \in SUBSET Ids

LEMMA TypeStep ==
  ASSUME ReservationsInv, Next
  PROVE  TypeOK'
<1>1. booking' \in [Ids -> Booking] /\ rows' \in [Ids -> [Resources -> Row]]
  BY RowsStep DEF RowsInv
<1>2. TypeOK /\ RestTyped
  BY DEF ReservationsInv, TypeOK, RestTyped
<1>3. ASSUME NEW p \in Procs, Rollback(p) PROVE RestTyped'
  BY <1>2, <1>3, RollbackType DEF RestTyped
<1>4. ASSUME NEW p \in Procs, Begin(p) PROVE RestTyped'
  <2>1. CASE ConsumeHold(p)
    BY <2>1, <1>2, ConsumeType DEF ConsumeHold, RestTyped
  <2>2. CASE ~ConsumeHold(p)
    BY <1>4, <2>2, <1>2, BeginType DEF Begin, RestTyped
  <2> QED BY <2>1, <2>2
<1>5. ASSUME NEW p \in Procs, Proceed(p) PROVE RestTyped'
  <2>1. CASE CheckConsumed(p)
    <3>1. [op[p] EXCEPT !.kind = "checked"] \in Op
      BY <2>1, <1>2, OpFields DEF CheckConsumed, Op
    <3>2. CASE /\ Goto(p, [op[p] EXCEPT !.kind = "checked"])
               /\ UNCHANGED <<now, booking, rows, hold, due>>
      BY <3>1, <3>2, <1>2, GotoType DEF RestTyped
    <3> QED BY <2>1, <3>2, <1>3 DEF CheckConsumed
  <2>2. CASE Insert(p)
    <3>1. ASSUME NEW new \in SUBSET Ids, Inserted(p, new) PROVE RestTyped'
      <4>1. hold' \in [HoldIds -> Hold]
        <5>1. \A h \in HoldIds : hold[h] \in Hold /\ [hold[h] EXCEPT !.lock = None] \in Hold
          BY <1>2, HoldWrites DEF RestTyped
        <5> QED BY <3>1, <5>1 DEF Inserted
      <4>2. op' \in [Procs -> Op]
        BY <3>1, <1>2, GotoType, IdleType DEF Inserted
      <4> QED BY <3>1, <4>1, <4>2, <1>2 DEF Inserted, RestTyped
    <3> QED BY <2>2, <3>1, <1>3, InsertCommitsOrNot
  <2>3. CASE InsertHold(p)
    <3>1. op' \in [Procs -> Op]
      BY <2>3, <1>2, GotoType, IdleType, InsertHoldCases
    <3> QED BY <2>3, <3>1, <1>2, InsertHoldCases, InsertHoldType DEF RestTyped
  <2>4. CASE ReleaseHold(p)
    <3>1. op' \in [Procs -> Op]
      BY <2>4, <1>2, GotoType, IdleType DEF ReleaseHold
    <3>2. op[p].hold \in HoldIds
      BY <2>4, <1>2, OpFields DEF ReleaseHold
    <3>3. [hold[op[p].hold] EXCEPT !.status = "RELEASED"] \in Hold
      BY <3>2, <1>2 DEF RestTyped, Hold
    <3>4. hold' = [hold EXCEPT ![op[p].hold] =
                     [hold[op[p].hold] EXCEPT !.status = "RELEASED"]]
      BY <2>4, <3>2, <1>2 DEF ReleaseHold, RestTyped
    <3>5. hold' \in [HoldIds -> Hold]
      BY <3>2, <3>3, <3>4, <1>2 DEF RestTyped
    <3> QED BY <2>4, <3>1, <3>5, <1>2 DEF ReleaseHold, RestTyped
  <2>5. CASE CancelSeries(p)
    <3>1. op' \in [Procs -> Op]
      BY <2>5, <1>2, GotoType, IdleType DEF CancelSeries
    <3> QED BY <2>5, <3>1, <1>2 DEF CancelSeries, RestTyped
  <2> QED BY <1>5, <2>1, <2>2, <2>3, <2>4, <2>5 DEF Proceed
<1>6. ASSUME NEW p \in Procs, Abort(p) PROVE RestTyped'
  BY <1>6, <1>3 DEF Abort
<1>7. ASSUME NEW i \in Ids, Change(i) PROVE RestTyped'
  BY <1>7, <1>2 DEF Change, CheckIn, CheckOut, Cancel, Approve, Reject, Move, RestTyped
<1>8. ASSUME NEW i \in Ids, MarkNoShow(i) PROVE RestTyped'
  BY <1>8, <1>2 DEF MarkNoShow, RestTyped
<1>9. ASSUME Scan \/ ScanFails PROVE RestTyped'
  <2>1. UNCHANGED <<now, hold, op>>
    BY <1>9 DEF Scan, ScanFails
  <2>2. due' \in SUBSET Ids
    BY <1>9 DEF Scan, ScanFails
  <2> QED BY <2>1, <2>2, <1>2 DEF RestTyped
<1>10. ASSUME Tick PROVE RestTyped'
  BY <1>10, <1>2 DEF Tick, RestTyped
<1>11. RestTyped'
  BY <1>4, <1>5, <1>6, <1>7, <1>8, <1>9, <1>10 DEF Next
<1>12. /\ now' \in Nat /\ hold' \in [HoldIds -> Hold]
       /\ op' \in [Procs -> Op] /\ due' \in SUBSET Ids
  BY <1>11 DEF RestTyped
<1> QED BY <1>1, <1>12 DEF TypeOK

-----------------------------------------------------------------------------
(* Who is marked absent was absent, and no later step changes that.        *)
LEMMA NoShowStep ==
  ASSUME ReservationsInv, Next
  PROVE  NoShowIsAbsent'
<1>1. now \in Nat /\ (now' = now \/ now' = now + 1)
  <2>1. now \in Nat
    BY DEF ReservationsInv, TypeOK
  <2>2. \A p \in Procs : Begin(p) \/ Abort(p) => now' = now
    BY DEF Begin, Abort, Rollback, ConsumeHold, CheckCreate, CheckHold, ReadHold,
           ClassifySeries
  <2>3. \A p \in Procs : Proceed(p) => now' = now
    <3> SUFFICES ASSUME NEW p \in Procs, Proceed(p) PROVE now' = now
      OBVIOUS
    <3>1. Insert(p) => now' = now
      BY InsertCommitsOrNot DEF Inserted, Rollback
    <3> QED BY <3>1 DEF Proceed, CheckConsumed, Rollback, InsertHold, ReleaseHold,
                            CancelSeries
  <2>4. \A i \in Ids : Change(i) \/ MarkNoShow(i) => now' = now
    BY DEF Change, CheckIn, CheckOut, Cancel, Approve, Reject, Move, MarkNoShow
  <2>5. Scan \/ ScanFails \/ Tick => now' = now \/ now' = now + 1
    BY DEF Scan, ScanFails, Tick
  <2> QED BY <2>1, <2>2, <2>3, <2>4, <2>5 DEF Next
<1>2. \A i \in Ids : booking[i].releaseAt \in Nat
  BY DEF ReservationsInv, RowsInv, Booking
<1>3. CASE StatusStep
  <2> SUFFICES ASSUME NEW i \in Ids, Exists(i)', Status(i)' = "NO_SHOW"
               PROVE  ~booking'[i].arrived /\ booking'[i].releaseAt <= now'
    BY DEF NoShowIsAbsent
  <2>1. Exists(i) /\ booking'[i].releaseAt = booking[i].releaseAt
    BY <1>3 DEF StatusStep, Exists
  <2>2. (Status(i) = "NO_SHOW" \/ Overdue(i)) /\ booking'[i].arrived = booking[i].arrived
    BY <1>3, <2>1 DEF StatusStep
  <2>3. ~booking[i].arrived /\ booking[i].releaseAt <= now
    BY <2>1, <2>2 DEF ReservationsInv, NoShowIsAbsent, Overdue
  <2> QED BY <1>1, <1>2, <2>1, <2>2, <2>3
<1>4. ASSUME NEW p \in Procs, NEW new \in SUBSET Ids,
               op[p].kind = "checked", Inserted(p, new)
      PROVE  NoShowIsAbsent'
  <2> SUFFICES ASSUME NEW i \in Ids, Exists(i)', Status(i)' = "NO_SHOW"
               PROVE  ~booking'[i].arrived /\ booking'[i].releaseAt <= now'
    BY DEF NoShowIsAbsent
  <2>1. i \notin new
    BY <1>4, InsertedKeepsRows
  <2>2. Status(i) = "NO_SHOW" /\ Exists(i) /\ booking'[i] = booking[i] /\ now' = now
    BY <1>4, <2>1, InsertedKeepsRows DEF Inserted
  <2> QED BY <2>2 DEF ReservationsInv, NoShowIsAbsent
<1> QED BY <1>3, <1>4, RowsStep

LEMMA GotoValue ==
  ASSUME TypeOK, NEW p \in Procs, NEW o, Goto(p, o)
  PROVE  op'[p] = o /\ \A q \in Procs : q # p => op'[q] = op[q]
BY DEF TypeOK, Goto

(* A reservation never ceases to exist, so what was classified still does. *)
LEMMA TargetsStep ==
  ASSUME ReservationsInv, Next
  PROVE  TargetsExist'
<1>1. \A i \in Ids : Exists(i) => Exists(i)'
  <2>1. CASE StatusStep
    BY <2>1 DEF StatusStep, Exists
  <2>2. ASSUME NEW p \in Procs, NEW new \in SUBSET Ids,
               op[p].kind = "checked", Inserted(p, new)
        PROVE  \A i \in Ids : Exists(i) => Exists(i)'
    BY <2>2 DEF Inserted, Exists
  <2> QED BY <2>1, <2>2, RowsStep
<1>2. TypeOK /\ TargetsExist
  BY DEF ReservationsInv
<1>3. ASSUME NEW p \in Procs, NEW o, Goto(p, o), o.kind # "cancelling",
             NEW q \in Procs, op'[q].kind = "cancelling"
      PROVE  op'[q] = op[q]
  BY <1>2, <1>3, GotoValue
<1>4. Idle.kind # "cancelling"
  BY DEF Idle
<1>5. ASSUME NEW q \in Procs, op'[q].kind = "cancelling", op'[q] # op[q]
      PROVE  ClassifySeries(q)
  <2>1. ASSUME NEW p \in Procs, Begin(p) PROVE ClassifySeries(q)
    <3>1. ~ConsumeHold(p) /\ ~CheckCreate(p) /\ ~CheckHold(p) /\ ~ReadHold(p)
      BY <1>3, <1>5 DEF ConsumeHold, CheckCreate, CheckHold, ReadHold
    <3>2. ClassifySeries(p)
      BY <2>1, <3>1 DEF Begin
    <3>3. \A r \in Procs : r # p => op'[r] = op[r]
      BY <3>2, <1>2, GotoValue DEF ClassifySeries
    <3> QED BY <1>5, <3>2, <3>3
  <2>2. ASSUME NEW p \in Procs, Rollback(p) PROVE FALSE
    BY <1>3, <1>4, <1>5, <2>2 DEF Rollback
  <2>3. ASSUME NEW p \in Procs, Proceed(p) PROVE FALSE
    <3>1. CASE Insert(p)
      BY <1>3, <1>4, <1>5, <2>2, <3>1, InsertCommitsOrNot DEF Inserted
    <3>2. CASE CheckConsumed(p)
      <4>1. [op[p] EXCEPT !.kind = "checked"].kind # "cancelling"
        BY <3>2, <1>2, OpFields DEF CheckConsumed
      <4> QED BY <1>3, <1>5, <2>2, <3>2, <4>1 DEF CheckConsumed
    <3>3. CASE InsertHold(p) \/ ReleaseHold(p) \/ CancelSeries(p)
      BY <1>3, <1>4, <1>5, <3>3 DEF InsertHold, ReleaseHold, CancelSeries
    <3> QED BY <2>3, <3>1, <3>2, <3>3 DEF Proceed
  <2>4. ASSUME NEW p \in Procs, Abort(p) PROVE FALSE
    BY <2>2, <2>4 DEF Abort
  <2>5. ASSUME NEW i \in Ids, Change(i) \/ MarkNoShow(i) PROVE op' = op
    BY <2>5 DEF Change, CheckIn, CheckOut, Cancel, Approve, Reject, Move, MarkNoShow
  <2>6. Scan \/ ScanFails \/ Tick => op' = op
    BY DEF Scan, ScanFails, Tick
  <2> QED BY <1>5, <2>1, <2>3, <2>4, <2>5, <2>6 DEF Next
<1>6. ASSUME NEW q \in Procs, ClassifySeries(q), op'[q].kind = "cancelling"
      PROVE  \A i \in op'[q].targets : Exists(i) /\ i \in Ids
  <2>1. PICK g \in Ids :
          Goto(q, [kind |-> "cancelling",
                   targets |-> {i \in Ids : /\ booking[i].group = g
                                            /\ now < Main(i).start /\ Blocks(i)}])
    BY <1>6 DEF ClassifySeries
  <2>2. op'[q].targets = {i \in Ids : /\ booking[i].group = g
                                      /\ now < Main(i).start /\ Blocks(i)}
    BY <1>2, <2>1, GotoValue
  <2> QED BY <2>2 DEF Blocks
<1>7. ASSUME NEW q \in Procs, op'[q].kind = "cancelling", NEW i \in op'[q].targets
      PROVE  Exists(i)'
  <2>1. CASE op'[q] = op[q]
    <3>1. op[q].targets \in SUBSET Ids
      BY <1>2, <1>7, <2>1, OpFields
    <3> QED BY <1>1, <1>2, <1>7, <2>1, <3>1 DEF TargetsExist
  <2>2. CASE op'[q] # op[q]
    BY <1>1, <1>5, <1>6, <1>7, <2>2
  <2> QED BY <2>1, <2>2
<1> QED BY <1>7 DEF TargetsExist

-----------------------------------------------------------------------------
LEMMA IdleHasNoLock ==
  ASSUME ReservationsInv, NEW p \in Procs, op[p].kind \notin {"consumed", "checked"}
  PROVE  \A h \in HoldIds : hold[h].lock # p
BY DEF ReservationsInv, HoldsInv, LocksOwned

BookingsKept ==
  \A i \in Ids : /\ booking'[i].res = booking[i].res /\ booking'[i].org = booking[i].org
                 /\ booking'[i].token = booking[i].token

(* The part of HoldsInv about reservations, when no hold changes owner, no *)
(* committed hold becomes ACTIVE or locked and none becomes CONSUMED.      *)
LEMMA TokensFrame ==
  ASSUME ReservationsInv, BookingsKept,
         \A h \in HoldIds :
            /\ hold[h].status # "NONE" =>
                 hold'[h].user = hold[h].user /\ hold'[h].res = hold[h].res
            /\ hold[h].status \in {"CONSUMED", "RELEASED"} /\ hold[h].lock = None =>
                 hold'[h].status \in {"CONSUMED", "RELEASED"} /\ hold'[h].lock = None
            /\ hold'[h].status = "CONSUMED" /\ hold'[h].lock = None =>
                 hold[h].status = "CONSUMED" /\ hold[h].lock = None
  PROVE  TokensSpent' /\ HoldServesOneBooking' /\ ConsumedHasBooking'
<1>1. \A i \in Ids : booking[i].token \in 0..MaxHolds
  BY DEF ReservationsInv, RowsInv, Booking
<1>2. \A i \in Ids : booking[i].token # 0 => booking[i].token \in HoldIds
  BY <1>1, ReservationsAssumption DEF HoldIds
<1>3. TokensSpent /\ HoldServesOneBooking /\ ConsumedHasBooking
  BY DEF ReservationsInv, HoldsInv
<1>4. TokensSpent'
  BY <1>2, <1>3 DEF TokensSpent, BookingsKept, Exists
<1>5. HoldServesOneBooking'
  <2> SUFFICES ASSUME NEW i \in Ids, booking'[i].token # 0
               PROVE  /\ hold'[booking'[i].token].user = booking'[i].org
                      /\ hold'[booking'[i].token].res = booking'[i].res
                      /\ \A j \in Ids : booking'[j].token = booking'[i].token => j = i
    BY DEF HoldServesOneBooking
  <2>1. booking'[i].token = booking[i].token /\ booking[i].token \in HoldIds
    BY <1>2 DEF BookingsKept
  <2>2. hold[booking[i].token].status # "NONE"
    BY <1>3, <2>1 DEF TokensSpent
  <2> QED BY <1>3, <2>1, <2>2 DEF HoldServesOneBooking, BookingsKept
<1>6. ConsumedHasBooking'
  BY <1>3 DEF ConsumedHasBooking, BookingsKept
<1> QED BY <1>4, <1>5, <1>6

(* A step that changes no hold, and whose transactions take and lose none. *)
Harmless(q) ==
  \/ op'[q] = op[q]
  \/ /\ op[q].kind \notin {"consumed", "checked"}
     /\ op'[q].kind \in {"consumed", "checked"} => op'[q].hold = 0
     /\ op'[q].kind = "releasing" => hold[op'[q].hold].status # "NONE"
  \/ /\ op[q].kind = "consumed" /\ op'[q].kind = "checked"
     /\ op'[q].user = op[q].user /\ op'[q].res = op[q].res
     /\ op'[q].windows = op[q].windows /\ op'[q].hold = op[q].hold

LEMMA HoldsFrame ==
  ASSUME ReservationsInv, BookingsKept, hold' = hold, \A q \in Procs : Harmless(q)
  PROVE  HoldsInv'
<1>1. TypeOK /\ HoldsOwned /\ ReleasesKnown /\ LocksOwned
  BY DEF ReservationsInv, HoldsInv
<1>4. HoldsOwned'
  BY <1>1 DEF HoldsOwned
<1>5. ReleasesKnown'
  <2> SUFFICES ASSUME NEW q \in Procs, op'[q].kind = "releasing"
               PROVE  hold[op'[q].hold].status # "NONE"
    BY DEF ReleasesKnown
  <2> QED BY <1>1 DEF ReleasesKnown, Harmless
<1>6. LocksOwned'
  <2>1. ASSUME NEW h \in HoldIds, NEW q \in Procs, hold[h].lock = q
        PROVE  /\ op'[q].kind \in {"consumed", "checked"} /\ op'[q].hold = h
               /\ op'[q].user = hold[h].user /\ op'[q].res = hold[h].res
               /\ hold[h].status = "CONSUMED"
    <3>1. /\ op[q].kind \in {"consumed", "checked"} /\ op[q].hold = h
          /\ op[q].user = hold[h].user /\ op[q].res = hold[h].res
          /\ hold[h].status = "CONSUMED"
      BY <1>1, <2>1 DEF LocksOwned
    <3> QED BY <3>1 DEF Harmless
  <2>2. ASSUME NEW q \in Procs, op'[q].kind \in {"consumed", "checked"}, op'[q].hold # 0
        PROVE  hold[op'[q].hold].lock = q /\ Len(op'[q].windows) = 1
    BY <1>1, <2>2 DEF LocksOwned, Harmless
  <2> QED BY <2>1, <2>2 DEF LocksOwned
<1>7. TokensSpent' /\ HoldServesOneBooking' /\ ConsumedHasBooking'
  BY TokensFrame
<1> QED BY <1>4, <1>5, <1>6, <1>7 DEF HoldsInv

(* consume_hold takes a hold that nobody else has.                         *)
LEMMA ConsumeKeepsHolds ==
  ASSUME ReservationsInv, NEW p \in Procs, ConsumeHold(p)
  PROVE  HoldsInv'
<1>1. PICK h \in HoldIds, w \in Windows :
        /\ hold[h].status = "ACTIVE" /\ hold[h].lock = None
        /\ hold' = [hold EXCEPT ![h].status = "CONSUMED", ![h].lock = p]
        /\ Goto(p, [kind |-> "consumed", user |-> hold[h].user, res |-> hold[h].res,
                    windows |-> <<w>>, hold |-> h])
  BY DEF ConsumeHold
<1>2. TypeOK /\ HoldsOwned /\ ReleasesKnown /\ LocksOwned /\ TokensSpent
  BY DEF ReservationsInv, HoldsInv
<1>3. hold \in [HoldIds -> Hold]
  BY <1>2 DEF TypeOK
<1>4. op[p].kind = "idle"
  BY DEF ConsumeHold, Idle
<1>5. /\ op'[p].kind = "consumed" /\ op'[p].user = hold[h].user /\ op'[p].res = hold[h].res
      /\ op'[p].windows = <<w>> /\ op'[p].hold = h
      /\ \A q \in Procs : q # p => op'[q] = op[q]
  BY <1>1, <1>2, GotoValue
<1>6. /\ hold'[h].status = "CONSUMED" /\ hold'[h].lock = p
      /\ hold'[h].user = hold[h].user /\ hold'[h].res = hold[h].res
      /\ \A g \in HoldIds : g # h => hold'[g] = hold[g]
  BY <1>1, <1>3 DEF Hold
<1>7. p # None
  BY ReservationsAssumption
<1>8. HoldsOwned'
  BY <1>1, <1>2, <1>6 DEF HoldsOwned
<1>9. ReleasesKnown'
  <2> SUFFICES ASSUME NEW q \in Procs, op'[q].kind = "releasing"
               PROVE  hold'[op'[q].hold].status # "NONE"
    BY DEF ReleasesKnown
  <2>1. q # p /\ op'[q] = op[q] /\ op[q].hold \in HoldIds
    BY <1>2, <1>5, OpFields
  <2> QED BY <1>2, <1>6, <2>1 DEF ReleasesKnown
<1>10. LocksOwned'
  <2>1. ASSUME NEW g \in HoldIds, NEW q \in Procs, hold'[g].lock = q
        PROVE  /\ op'[q].kind \in {"consumed", "checked"} /\ op'[q].hold = g
               /\ op'[q].user = hold'[g].user /\ op'[q].res = hold'[g].res
               /\ hold'[g].status = "CONSUMED"
    <3>1. CASE g = h
      BY <1>5, <1>6, <2>1, <3>1
    <3>2. CASE g # h
      <4>1. hold[g].lock = q /\ hold'[g] = hold[g]
        BY <1>6, <2>1, <3>2
      <4>2. q # p
        BY <1>4, <4>1, IdleHasNoLock
      <4> QED BY <1>2, <1>5, <4>1, <4>2 DEF LocksOwned
    <3> QED BY <3>1, <3>2
  <2>2. ASSUME NEW q \in Procs, op'[q].kind \in {"consumed", "checked"}, op'[q].hold # 0
        PROVE  hold'[op'[q].hold].lock = q /\ Len(op'[q].windows) = 1
    <3>1. CASE q = p
      BY <1>5, <1>6, <3>1
    <3>2. CASE q # p
      <4>1. op'[q] = op[q] /\ hold[op[q].hold].lock = q /\ Len(op[q].windows) = 1
        BY <1>2, <1>5, <2>2, <3>2 DEF LocksOwned
      <4>2. op[q].hold \in 0..MaxHolds
        BY <1>2, <2>2, <4>1, OpFields
      <4>3. op[q].hold \in HoldIds /\ op[q].hold # h
        BY <1>1, <2>2, <4>1, <4>2, ReservationsAssumption DEF HoldIds
      <4> QED BY <1>6, <4>1, <4>3
    <3> QED BY <3>1, <3>2
  <2> QED BY <2>1, <2>2 DEF LocksOwned
<1>11. TokensSpent' /\ HoldServesOneBooking' /\ ConsumedHasBooking'
  <2>1. BookingsKept
    BY DEF ConsumeHold, BookingsKept
  <2>2. \A g \in HoldIds :
            /\ hold[g].status # "NONE" =>
                 hold'[g].user = hold[g].user /\ hold'[g].res = hold[g].res
            /\ hold[g].status \in {"CONSUMED", "RELEASED"} /\ hold[g].lock = None =>
                 hold'[g].status \in {"CONSUMED", "RELEASED"} /\ hold'[g].lock = None
            /\ hold'[g].status = "CONSUMED" /\ hold'[g].lock = None =>
                 hold[g].status = "CONSUMED" /\ hold[g].lock = None
    BY <1>1, <1>6, <1>7
  <2> QED BY <2>1, <2>2, TokensFrame
<1> QED BY <1>8, <1>9, <1>10, <1>11 DEF HoldsInv

(* What a step of p leaves of HoldsInv if p ends without a lock: no other  *)
(* transaction's hold changes, and those p had are not locked any more.    *)
LEMMA EndKeepsHolds ==
  ASSUME ReservationsInv, NEW p \in Procs, Goto(p, Idle),
         \A h \in HoldIds :
            /\ hold[h].lock \in Procs \ {p} => hold'[h] = hold[h]
            /\ hold'[h].lock \in Procs => hold[h].lock = hold'[h].lock /\ hold[h].lock # p
            /\ hold[h].status # "NONE" => hold'[h].status # "NONE"
            /\ hold[h].status # "NONE" \/ hold'[h].status = "NONE" =>
                 hold'[h].user = hold[h].user /\ hold'[h].res = hold[h].res
            /\ hold[h].status = "NONE" /\ hold'[h].status # "NONE" =>
                 hold'[h].user \in Users /\ hold'[h].res \in Resources
  PROVE  HoldsOwned' /\ ReleasesKnown' /\ LocksOwned'
<1>1. TypeOK /\ HoldsOwned /\ ReleasesKnown /\ LocksOwned
  BY DEF ReservationsInv, HoldsInv
<1>2. op'[p].kind = "idle" /\ \A q \in Procs : q # p => op'[q] = op[q]
  BY <1>1, GotoValue DEF Idle
<1>3. HoldsOwned'
  BY <1>1 DEF HoldsOwned
<1>4. ReleasesKnown'
  <2> SUFFICES ASSUME NEW q \in Procs, op'[q].kind = "releasing"
               PROVE  hold'[op'[q].hold].status # "NONE"
    BY DEF ReleasesKnown
  <2>1. op'[q] = op[q] /\ op[q].kind = "releasing"
    BY <1>2
  <2>2. op[q].hold \in HoldIds
    BY <1>1, <2>1, OpFields
  <2> QED BY <1>1, <2>1, <2>2 DEF ReleasesKnown
<1>5. LocksOwned'
  <2>1. ASSUME NEW h \in HoldIds, NEW q \in Procs, hold'[h].lock = q
        PROVE  /\ op'[q].kind \in {"consumed", "checked"} /\ op'[q].hold = h
               /\ op'[q].user = hold'[h].user /\ op'[q].res = hold'[h].res
               /\ hold'[h].status = "CONSUMED"
    <3>1. hold[h].lock = q /\ q # p
      BY <2>1
    <3>2. hold'[h] = hold[h] /\ op'[q] = op[q]
      BY <1>2, <3>1
    <3> QED BY <1>1, <3>1, <3>2 DEF LocksOwned
  <2>2. ASSUME NEW q \in Procs, op'[q].kind \in {"consumed", "checked"}, op'[q].hold # 0
        PROVE  hold'[op'[q].hold].lock = q /\ Len(op'[q].windows) = 1
    <3>1. q # p /\ op'[q] = op[q]
      BY <1>2, <2>2
    <3>2. op[q].hold \in HoldIds
      BY <1>1, <2>2, <3>1, OpFields, ReservationsAssumption DEF HoldIds
    <3>3. hold[op[q].hold].lock = q /\ Len(op[q].windows) = 1
      BY <1>1, <2>2, <3>1 DEF LocksOwned
    <3>4. hold'[op[q].hold] = hold[op[q].hold]
      BY <3>1, <3>2, <3>3
    <3> QED BY <3>1, <3>3, <3>4
  <2> QED BY <2>1, <2>2 DEF LocksOwned
<1> QED BY <1>3, <1>4, <1>5

(* A transaction that is rolled back gives its hold back.                  *)
LEMMA RollbackKeepsHolds ==
  ASSUME ReservationsInv, NEW p \in Procs, Rollback(p)
  PROVE  HoldsInv'
<1>1. hold \in [HoldIds -> Hold] /\ p # None
  BY ReservationsAssumption DEF ReservationsInv, TypeOK
<1>2. ASSUME NEW h \in HoldIds, hold[h].lock # p PROVE hold'[h] = hold[h]
  BY <1>2 DEF Rollback, Unlocked
<1>3. ASSUME NEW h \in HoldIds, hold[h].lock = p
      PROVE  /\ hold'[h].status = "ACTIVE" /\ hold'[h].lock = None
             /\ hold'[h].user = hold[h].user /\ hold'[h].res = hold[h].res
             /\ hold[h].status = "CONSUMED"
  <2>1. hold'[h] = [hold[h] EXCEPT !.status = "ACTIVE", !.lock = None]
    BY <1>3 DEF Rollback, Unlocked
  <2>2. hold[h].status = "CONSUMED"
    BY <1>3 DEF ReservationsInv, HoldsInv, LocksOwned
  <2> QED BY <1>1, <2>1, <2>2 DEF Hold
<1>4. None \notin Procs
  BY ReservationsAssumption
<1>5. HoldsOwned' /\ ReleasesKnown' /\ LocksOwned'
  <2>1. Goto(p, Idle)
    BY DEF Rollback
  <2>2. \A h \in HoldIds :
            /\ hold[h].lock \in Procs \ {p} => hold'[h] = hold[h]
            /\ hold'[h].lock \in Procs => hold[h].lock = hold'[h].lock /\ hold[h].lock # p
            /\ hold[h].status # "NONE" => hold'[h].status # "NONE"
            /\ hold[h].status # "NONE" \/ hold'[h].status = "NONE" =>
                 hold'[h].user = hold[h].user /\ hold'[h].res = hold[h].res
            /\ hold[h].status = "NONE" /\ hold'[h].status # "NONE" =>
                 hold'[h].user \in Users /\ hold'[h].res \in Resources
    BY <1>2, <1>3, <1>4
  <2> QED BY <2>1, <2>2, EndKeepsHolds
<1>6. TokensSpent' /\ HoldServesOneBooking' /\ ConsumedHasBooking'
  <2>1. BookingsKept
    BY DEF Rollback, BookingsKept
  <2>2. \A h \in HoldIds :
            /\ hold[h].status # "NONE" =>
                 hold'[h].user = hold[h].user /\ hold'[h].res = hold[h].res
            /\ hold[h].status \in {"CONSUMED", "RELEASED"} /\ hold[h].lock = None =>
                 hold'[h].status \in {"CONSUMED", "RELEASED"} /\ hold'[h].lock = None
            /\ hold'[h].status = "CONSUMED" /\ hold'[h].lock = None =>
                 hold[h].status = "CONSUMED" /\ hold[h].lock = None
    BY <1>1, <1>2, <1>3
  <2> QED BY <2>1, <2>2, TokensFrame
<1> QED BY <1>5, <1>6 DEF HoldsInv

(* A hold that is inserted takes an unused slot of the table.              *)
LEMMA InsertHoldKeepsHolds ==
  ASSUME ReservationsInv, NEW p \in Procs, InsertHold(p)
  PROVE  HoldsInv'
<1>1. TypeOK /\ HoldsOwned /\ LocksOwned /\ TokensSpent
  BY DEF ReservationsInv, HoldsInv
<1>2. hold \in [HoldIds -> Hold] /\ None \notin Procs
  BY <1>1, ReservationsAssumption DEF TypeOK
<1>3. op[p].kind = "holding" /\ op[p].user \in Users /\ op[p].res \in Resources
  BY <1>1, OpFields DEF InsertHold
<1>4. \A h \in HoldIds : hold[h].lock # p
  BY <1>3, IdleHasNoLock
<1>5. Goto(p, Idle) /\ BookingsKept
  BY <1>1, InsertHoldCases DEF BookingsKept
<1>6. \A h \in HoldIds :
        \/ hold'[h] = hold[h]
        \/ /\ hold[h].status = "NONE" /\ hold[h].lock \notin Procs
           /\ hold'[h].status = "ACTIVE" /\ hold'[h].lock = None
           /\ hold'[h].user = op[p].user /\ hold'[h].res = op[p].res
  <2>1. CASE UNCHANGED hold
    BY <2>1
  <2>2. ASSUME NEW h \in HoldIds, hold[h].status = "NONE",
               hold' = [hold EXCEPT ![h] =
                  [status |-> "ACTIVE", res |-> op[p].res, user |-> op[p].user,
                   start |-> op[p].window.start, end |-> op[p].window.end,
                   expires |-> now + Ttl, lock |-> None]]
        PROVE  \A g \in HoldIds :
                 \/ hold'[g] = hold[g]
                 \/ /\ hold[g].status = "NONE" /\ hold[g].lock \notin Procs
                    /\ hold'[g].status = "ACTIVE" /\ hold'[g].lock = None
                    /\ hold'[g].user = op[p].user /\ hold'[g].res = op[p].res
    <3>1. hold[h].lock \notin Procs
      BY <1>1, <2>2 DEF LocksOwned
    <3>2. /\ hold'[h].status = "ACTIVE" /\ hold'[h].lock = None
          /\ hold'[h].user = op[p].user /\ hold'[h].res = op[p].res
      BY <1>2, <2>2
    <3>3. \A g \in HoldIds : g # h => hold'[g] = hold[g]
      BY <1>2, <2>2
    <3> QED BY <2>2, <3>1, <3>2, <3>3
  <2> QED BY <1>1, <2>1, <2>2, InsertHoldCases
<1>7. HoldsOwned' /\ ReleasesKnown' /\ LocksOwned'
  <2>1. \A h \in HoldIds :
            /\ hold[h].lock \in Procs \ {p} => hold'[h] = hold[h]
            /\ hold'[h].lock \in Procs => hold[h].lock = hold'[h].lock /\ hold[h].lock # p
            /\ hold[h].status # "NONE" => hold'[h].status # "NONE"
            /\ hold[h].status # "NONE" \/ hold'[h].status = "NONE" =>
                 hold'[h].user = hold[h].user /\ hold'[h].res = hold[h].res
            /\ hold[h].status = "NONE" /\ hold'[h].status # "NONE" =>
                 hold'[h].user \in Users /\ hold'[h].res \in Resources
    BY <1>2, <1>3, <1>4, <1>6
  <2> QED BY <1>5, <2>1, EndKeepsHolds
<1>8. TokensSpent' /\ HoldServesOneBooking' /\ ConsumedHasBooking'
  <2>1. \A h \in HoldIds :
            /\ hold[h].status # "NONE" =>
                 hold'[h].user = hold[h].user /\ hold'[h].res = hold[h].res
            /\ hold[h].status \in {"CONSUMED", "RELEASED"} /\ hold[h].lock = None =>
                 hold'[h].status \in {"CONSUMED", "RELEASED"} /\ hold'[h].lock = None
            /\ hold'[h].status = "CONSUMED" /\ hold'[h].lock = None =>
                 hold[h].status = "CONSUMED" /\ hold[h].lock = None
    BY <1>6
  <2> QED BY <1>5, <2>1, TokensFrame
<1> QED BY <1>7, <1>8 DEF HoldsInv

(* A release waits for the row lock, so it never hits an open transaction. *)
LEMMA ReleaseKeepsHolds ==
  ASSUME ReservationsInv, NEW p \in Procs, ReleaseHold(p)
  PROVE  HoldsInv'
<1> DEFINE k == op[p].hold
<1>1. TypeOK /\ ReleasesKnown
  BY DEF ReservationsInv, HoldsInv
<1>2. hold \in [HoldIds -> Hold] /\ None \notin Procs
  BY <1>1, ReservationsAssumption DEF TypeOK
<1>3. k \in HoldIds /\ hold[k].lock = None /\ hold[k].status # "NONE"
  BY <1>1, OpFields DEF ReleaseHold, ReleasesKnown
<1>4. \A h \in HoldIds : hold[h].lock # p
  BY IdleHasNoLock DEF ReleaseHold
<1>5. hold' = [hold EXCEPT ![k].status = "RELEASED"] /\ Goto(p, Idle) /\ BookingsKept
  BY DEF ReleaseHold, BookingsKept
<1>6. /\ hold'[k].status = "RELEASED" /\ hold'[k].lock = None
      /\ hold'[k].user = hold[k].user /\ hold'[k].res = hold[k].res
      /\ \A h \in HoldIds : h # k => hold'[h] = hold[h]
  BY <1>2, <1>3, <1>5 DEF Hold
<1> HIDE DEF k
<1>7. HoldsOwned' /\ ReleasesKnown' /\ LocksOwned'
  <2>1. \A h \in HoldIds :
            /\ hold[h].lock \in Procs \ {p} => hold'[h] = hold[h]
            /\ hold'[h].lock \in Procs => hold[h].lock = hold'[h].lock /\ hold[h].lock # p
            /\ hold[h].status # "NONE" => hold'[h].status # "NONE"
            /\ hold[h].status # "NONE" \/ hold'[h].status = "NONE" =>
                 hold'[h].user = hold[h].user /\ hold'[h].res = hold[h].res
            /\ hold[h].status = "NONE" /\ hold'[h].status # "NONE" =>
                 hold'[h].user \in Users /\ hold'[h].res \in Resources
    BY <1>2, <1>3, <1>4, <1>6
  <2> QED BY <1>5, <2>1, EndKeepsHolds
<1>8. TokensSpent' /\ HoldServesOneBooking' /\ ConsumedHasBooking'
  <2>1. \A h \in HoldIds :
            /\ hold[h].status # "NONE" =>
                 hold'[h].user = hold[h].user /\ hold'[h].res = hold[h].res
            /\ hold[h].status \in {"CONSUMED", "RELEASED"} /\ hold[h].lock = None =>
                 hold'[h].status \in {"CONSUMED", "RELEASED"} /\ hold'[h].lock = None
            /\ hold'[h].status = "CONSUMED" /\ hold'[h].lock = None =>
                 hold[h].status = "CONSUMED" /\ hold[h].lock = None
    BY <1>6
  <2> QED BY <1>5, <2>1, TokensFrame
<1> QED BY <1>7, <1>8 DEF HoldsInv

(* The commit of a creation: its hold stays CONSUMED, for this reservation.*)
LEMMA InsertedKeepsHolds ==
  ASSUME ReservationsInv, NEW p \in Procs, NEW new \in SUBSET Ids, Inserted(p, new),
         op[p].kind = "checked"
  PROVE  HoldsInv'
<1>1. TypeOK /\ LocksOwned /\ TokensSpent /\ HoldServesOneBooking /\ ConsumedHasBooking
  BY DEF ReservationsInv, HoldsInv
<1>2. hold \in [HoldIds -> Hold] /\ None \notin Procs
  BY <1>1, ReservationsAssumption DEF TypeOK
<1> DEFINE k == op[p].hold
<1>3. k \in 0..MaxHolds /\ (k # 0 => k \in HoldIds)
  BY <1>1, OpFields, ReservationsAssumption DEF HoldIds
<1>4. k # 0 => /\ hold[k].lock = p /\ hold[k].status = "CONSUMED"
               /\ hold[k].user = op[p].user /\ hold[k].res = op[p].res
               /\ \E i \in Ids : new = {i}
  BY <1>1, <1>3 DEF LocksOwned, Inserted
<1>5. \A h \in HoldIds : hold[h].lock = p => h = k
  BY <1>1 DEF LocksOwned
<1>6. ASSUME NEW h \in HoldIds, hold[h].lock # p PROVE hold'[h] = hold[h]
  BY <1>6 DEF Inserted
<1>7. ASSUME NEW h \in HoldIds, hold[h].lock = p
      PROVE  /\ hold'[h].status = hold[h].status /\ hold'[h].lock = None
             /\ hold'[h].user = hold[h].user /\ hold'[h].res = hold[h].res
             /\ hold[h].status = "CONSUMED"
  <2>1. hold'[h] = [hold[h] EXCEPT !.lock = None]
    BY <1>7 DEF Inserted
  <2>2. hold[h].status = "CONSUMED"
    BY <1>1, <1>7 DEF LocksOwned
  <2> QED BY <1>2, <2>1, <2>2 DEF Hold
<1>8. /\ \A i \in new : booking'[i].token = k /\ booking'[i].res = op[p].res
                        /\ booking'[i].org = op[p].user
      /\ \A i \in Ids \ new : booking'[i] = booking[i]
  BY DEF Inserted
<1>9. \A i \in Ids : booking[i].token # 0 => booking[i].token \in HoldIds
  BY ReservationsAssumption DEF ReservationsInv, RowsInv, Booking, HoldIds
<1>10. \A i \in Ids : k # 0 => booking[i].token # k
  BY <1>1, <1>2, <1>4 DEF TokensSpent
<1>11. Goto(p, Idle)
  BY DEF Inserted
<1> HIDE DEF k
<1>12. HoldsOwned' /\ ReleasesKnown' /\ LocksOwned'
  <2>1. \A h \in HoldIds :
            /\ hold[h].lock \in Procs \ {p} => hold'[h] = hold[h]
            /\ hold'[h].lock \in Procs => hold[h].lock = hold'[h].lock /\ hold[h].lock # p
            /\ hold[h].status # "NONE" => hold'[h].status # "NONE"
            /\ hold[h].status # "NONE" \/ hold'[h].status = "NONE" =>
                 hold'[h].user = hold[h].user /\ hold'[h].res = hold[h].res
            /\ hold[h].status = "NONE" /\ hold'[h].status # "NONE" =>
                 hold'[h].user \in Users /\ hold'[h].res \in Resources
    BY <1>2, <1>6, <1>7
  <2> QED BY <1>11, <2>1, EndKeepsHolds
<1>13. \A i \in Ids \ new : booking'[i].token # 0 =>
          hold'[booking'[i].token] = hold[booking[i].token]
            /\ booking[i].token \in HoldIds /\ booking'[i] = booking[i]
  <2> SUFFICES ASSUME NEW i \in Ids \ new, booking'[i].token # 0
               PROVE  hold'[booking'[i].token] = hold[booking[i].token]
                        /\ booking[i].token \in HoldIds /\ booking'[i] = booking[i]
    OBVIOUS
  <2>1. booking'[i] = booking[i] /\ booking[i].token \in HoldIds
    BY <1>8, <1>9
  <2>2. hold[booking[i].token].lock # p
    BY <1>1, <1>2, <2>1 DEF TokensSpent
  <2> QED BY <1>6, <2>1, <2>2
<1>14. TokensSpent'
  <2> SUFFICES ASSUME NEW i \in Ids, booking'[i].token # 0
               PROVE  /\ Exists(i)'
                      /\ hold'[booking'[i].token].status \in {"CONSUMED", "RELEASED"}
                      /\ hold'[booking'[i].token].lock = None
    BY DEF TokensSpent
  <2>1. CASE i \in new
    <3>1. Exists(i)'
      BY <1>1, <1>8, <2>1, OpFields, ReservationsAssumption DEF Exists
    <3> QED BY <1>3, <1>4, <1>7, <1>8, <2>1, <3>1
  <2>2. CASE i \notin new
    BY <1>1, <1>13, <2>2 DEF TokensSpent, Exists
  <2> QED BY <2>1, <2>2
<1>15. HoldServesOneBooking'
  <2> SUFFICES ASSUME NEW i \in Ids, booking'[i].token # 0
               PROVE  /\ hold'[booking'[i].token].user = booking'[i].org
                      /\ hold'[booking'[i].token].res = booking'[i].res
                      /\ \A j \in Ids : booking'[j].token = booking'[i].token => j = i
    BY DEF HoldServesOneBooking
  <2>1. CASE i \in new
    <3>1. booking'[i].token = k /\ k # 0 /\ k \in HoldIds
      BY <1>3, <1>8, <2>1
    <3>2. ASSUME NEW j \in Ids, booking'[j].token = k PROVE j = i
      <4>1. j \in new
        BY <1>8, <1>10, <3>1, <3>2
      <4> QED BY <1>4, <2>1, <3>1, <4>1
    <3> QED BY <1>4, <1>7, <1>8, <2>1, <3>1, <3>2
  <2>2. CASE i \notin new
    <3>1. hold'[booking'[i].token] = hold[booking[i].token] /\ booking'[i] = booking[i]
      BY <1>13, <2>2
    <3>2. ASSUME NEW j \in Ids, booking'[j].token = booking'[i].token PROVE j = i
      <4>1. j \notin new
        BY <1>8, <1>10, <3>1, <3>2
      <4> QED BY <1>1, <1>8, <3>1, <3>2, <4>1 DEF HoldServesOneBooking
    <3> QED BY <1>1, <3>1, <3>2 DEF HoldServesOneBooking
  <2> QED BY <2>1, <2>2
<1>16. ConsumedHasBooking'
  <2> SUFFICES ASSUME NEW h \in HoldIds, hold'[h].status = "CONSUMED", hold'[h].lock = None
               PROVE  \E i \in Ids : booking'[i].token = h
    BY DEF ConsumedHasBooking
  <2>1. CASE hold[h].lock = p
    <3>1. h = k /\ k # 0
      BY <1>5, <2>1, ReservationsAssumption DEF HoldIds
    <3> QED BY <1>4, <1>8, <3>1
  <2>2. CASE hold[h].lock # p
    <3>1. PICK i \in Ids : booking[i].token = h
      BY <1>1, <1>6, <2>2 DEF ConsumedHasBooking
    <3>2. h # 0
      BY ReservationsAssumption DEF HoldIds
    <3>3. i \notin new
      BY <1>1, <3>1, <3>2 DEF Inserted, TokensSpent
    <3> QED BY <1>8, <3>1, <3>3
  <2> QED BY <2>1, <2>2
<1> QED BY <1>12, <1>14, <1>15, <1>16 DEF HoldsInv

LEMMA HoldsStep ==
  ASSUME ReservationsInv, Next
  PROVE  HoldsInv'
<1>1. TypeOK
  BY DEF ReservationsInv
<1>2. ASSUME NEW p \in Procs, NEW o, Goto(p, o), UNCHANGED <<booking, hold>>,
             op[p].kind \notin {"consumed", "checked"},
             o.kind \in {"consumed", "checked"} => o.hold = 0,
             o.kind = "releasing" => hold[o.hold].status # "NONE"
      PROVE  HoldsInv'
  <2>1. op'[p] = o /\ \A q \in Procs : q # p => op'[q] = op[q]
    BY <1>1, <1>2, GotoValue
  <2>2. \A q \in Procs : Harmless(q)
    BY <1>2, <2>1 DEF Harmless
  <2>3. BookingsKept /\ hold' = hold
    BY <1>2 DEF BookingsKept
  <2> QED BY <2>2, <2>3, HoldsFrame
<1>3. Idle.kind = "idle"
  BY DEF Idle
<1>4. ASSUME NEW p \in Procs, Begin(p) PROVE HoldsInv'
  <2>1. CASE ConsumeHold(p)
    BY <2>1, ConsumeKeepsHolds
  <2>2. CASE CheckCreate(p)
    <3>1. PICK u \in Users, r \in Resources, ws \in Series :
            Goto(p, [kind |-> "checked", user |-> u, res |-> r, windows |-> ws, hold |-> 0])
      BY <2>2 DEF CheckCreate
    <3> QED BY <1>2, <1>3, <2>2, <3>1 DEF CheckCreate
  <2>3. CASE CheckHold(p)
    <3>1. PICK u \in Users, r \in Resources, w \in Windows :
            Goto(p, [kind |-> "holding", user |-> u, res |-> r, window |-> w])
      BY <2>3 DEF CheckHold
    <3> QED BY <1>2, <1>3, <2>3, <3>1 DEF CheckHold
  <2>4. CASE ReadHold(p)
    <3>1. PICK h \in HoldIds :
            Committed(h) = "ACTIVE" /\ Goto(p, [kind |-> "releasing", hold |-> h])
      BY <2>4 DEF ReadHold
    <3>2. hold[h].status # "NONE"
      <4>1. CASE hold[h].lock = None
        BY <3>1, <4>1 DEF Committed
      <4>2. CASE hold[h].lock # None
        <5>1. hold[h].lock \in Procs
          BY <1>1, <4>2 DEF TypeOK, Hold
        <5> QED BY <5>1 DEF ReservationsInv, HoldsInv, LocksOwned
      <4> QED BY <4>1, <4>2
    <3> QED BY <1>2, <1>3, <2>4, <3>1, <3>2 DEF ReadHold
  <2>5. CASE ClassifySeries(p)
    <3>1. PICK targets \in SUBSET Ids : Goto(p, [kind |-> "cancelling", targets |-> targets])
      BY <2>5 DEF ClassifySeries
    <3> QED BY <1>2, <1>3, <2>5, <3>1 DEF ClassifySeries
  <2> QED BY <1>4, <2>1, <2>2, <2>3, <2>4, <2>5 DEF Begin
<1>5. ASSUME NEW p \in Procs, Proceed(p) PROVE HoldsInv'
  <2>1. CASE CheckConsumed(p)
    <3>1. CASE Rollback(p)
      BY <3>1, RollbackKeepsHolds
    <3>2. CASE /\ Goto(p, [op[p] EXCEPT !.kind = "checked"])
               /\ UNCHANGED <<now, booking, rows, hold, due>>
      <4>1. /\ op'[p] = [op[p] EXCEPT !.kind = "checked"]
            /\ \A q \in Procs : q # p => op'[q] = op[q]
        BY <1>1, <3>2, GotoValue
      <4>2. /\ op[p].kind = "consumed" /\ op'[p].kind = "checked"
            /\ op'[p].user = op[p].user /\ op'[p].res = op[p].res
            /\ op'[p].windows = op[p].windows /\ op'[p].hold = op[p].hold
        BY <1>1, <2>1, <4>1, OpFields DEF CheckConsumed
      <4>3. \A q \in Procs : Harmless(q)
        BY <4>1, <4>2 DEF Harmless
      <4>4. BookingsKept /\ hold' = hold
        BY <3>2 DEF BookingsKept
      <4> QED BY <4>3, <4>4, HoldsFrame
    <3> QED BY <2>1, <3>1, <3>2 DEF CheckConsumed
  <2>2. CASE Insert(p)
    <3>1. op[p].kind = "checked"
      BY <2>2 DEF Insert
    <3> QED BY <2>2, <3>1, InsertCommitsOrNot, InsertedKeepsHolds, RollbackKeepsHolds
  <2>3. CASE InsertHold(p)
    BY <2>3, InsertHoldKeepsHolds
  <2>4. CASE ReleaseHold(p)
    BY <2>4, ReleaseKeepsHolds
  <2>5. CASE CancelSeries(p)
    BY <1>2, <1>3, <2>5 DEF CancelSeries
  <2> QED BY <1>5, <2>1, <2>2, <2>3, <2>4, <2>5 DEF Proceed
<1>6. ASSUME NEW p \in Procs, Abort(p) PROVE HoldsInv'
  BY <1>6, RollbackKeepsHolds DEF Abort
<1>7. ASSUME UNCHANGED <<hold, op>>, BookingsKept PROVE HoldsInv'
  <2>1. \A q \in Procs : Harmless(q)
    BY <1>7 DEF Harmless
  <2> QED BY <1>7, <2>1, HoldsFrame
<1>8. ASSUME NEW i \in Ids, Change(i) PROVE HoldsInv'
  <2>1. \/ booking' = booking
        \/ booking' = [booking EXCEPT ![i].arrived = TRUE]
        \/ booking' = [booking EXCEPT ![i].moved = TRUE]
    BY <1>8 DEF Change, CheckIn, CheckOut, Cancel, Approve, Reject, Move
  <2>2. booking \in [Ids -> Booking]
    BY <1>1 DEF TypeOK
  <2>3. BookingsKept
    BY <2>1, <2>2 DEF BookingsKept, Booking
  <2>4. UNCHANGED <<hold, op>>
    BY <1>8 DEF Change, CheckIn, CheckOut, Cancel, Approve, Reject, Move
  <2> QED BY <1>7, <2>3, <2>4
<1>9. ASSUME NEW i \in Ids, MarkNoShow(i) PROVE HoldsInv'
  BY <1>7, <1>9 DEF MarkNoShow, BookingsKept
<1>10. Scan \/ ScanFails \/ Tick => HoldsInv'
  BY <1>7 DEF Scan, ScanFails, Tick, BookingsKept
<1> QED BY <1>4, <1>5, <1>6, <1>8, <1>9, <1>10 DEF Next

-----------------------------------------------------------------------------
LEMMA InitHasInvariant == Init => ReservationsInv
<1> SUFFICES ASSUME Init PROVE ReservationsInv
  OBVIOUS
<1>1. NoRow \in Row
  BY DEF NoRow, Row
<1>2. NoBooking \in Booking
  BY ReservationsAssumption DEF NoBooking, Booking
<1>3. NoHold \in Hold
  BY DEF NoHold, Hold
<1>4. booking \in [Ids -> Booking] /\ rows \in [Ids -> [Resources -> Row]]
  BY <1>1, <1>2 DEF Init
<1>5. TypeOK
  BY <1>3, <1>4, IdleType DEF Init, TypeOK
<1>6. \A i \in Ids : ~Exists(i) /\ booking[i].token = 0
  BY DEF Init, Exists, NoBooking
<1>7. \A i \in Ids, r \in Resources : rows[i][r] = NoRow
  BY DEF Init
<1>8. RowsInv
  BY <1>4, <1>6, <1>7 DEF RowsInv, RowsExist, ShadowsFollow, Exclusive, NoRow, Blocking
<1>9. \A h \in HoldIds : hold[h].status = "NONE" /\ hold[h].lock = None
  BY DEF Init, NoHold
<1>10. \A p \in Procs : op[p].kind = "idle" /\ p # None
  BY ReservationsAssumption DEF Init, Idle
<1>11. HoldsInv
  BY <1>6, <1>9, <1>10 DEF HoldsInv, HoldsOwned, ReleasesKnown, LocksOwned, TokensSpent,
                           HoldServesOneBooking, ConsumedHasBooking
<1>12. TargetsExist /\ NoShowIsAbsent
  BY <1>6, <1>10 DEF TargetsExist, NoShowIsAbsent
<1> QED BY <1>5, <1>8, <1>11, <1>12 DEF ReservationsInv

LEMMA StutterKeepsInvariant == ReservationsInv /\ UNCHANGED vars => ReservationsInv'
<1> SUFFICES ASSUME ReservationsInv, UNCHANGED vars PROVE ReservationsInv'
  OBVIOUS
<1>1. UNCHANGED <<now, booking, rows, hold, op, due>>
  BY DEF vars
<1>2. TypeOK'
  BY <1>1 DEF ReservationsInv, TypeOK
<1>3. RowsInv'
  BY <1>1, Quiet DEF ReservationsInv
<1>4. HoldsInv'
  <2>1. BookingsKept /\ \A q \in Procs : Harmless(q)
    BY <1>1 DEF BookingsKept, Harmless
  <2> QED BY <1>1, <2>1, HoldsFrame
<1>5. TargetsExist' /\ NoShowIsAbsent'
  BY <1>1 DEF ReservationsInv, TargetsExist, NoShowIsAbsent, Exists, Status, Main
<1> QED BY <1>2, <1>3, <1>4, <1>5 DEF ReservationsInv

(* The inductive invariant: it holds at first and every step of a request, *)
(* of the scanner or of the clock preserves it.                            *)
THEOREM ReservationsInvariant == Spec => []ReservationsInv
<1>1. ReservationsInv /\ Next => ReservationsInv'
  <2> SUFFICES ASSUME ReservationsInv, Next PROVE ReservationsInv'
    OBVIOUS
  <2> QED BY RowsStep, TypeStep, NoShowStep, TargetsStep, HoldsStep DEF ReservationsInv
<1>2. ReservationsInv /\ [Next]_vars => ReservationsInv'
  BY <1>1, StutterKeepsInvariant
<1> QED BY InitHasInvariant, <1>2, PTL DEF Spec

(* The types of the tables, the open transactions and the scanner's list.  *)
THEOREM TypeCorrect == Spec => []TypeOK
<1>1. ReservationsInv => TypeOK
  BY DEF ReservationsInv
<1> QED BY <1>1, ReservationsInvariant, PTL

(* Every shadow row of a combined room has the status and the time range   *)
(* of its reservation, and there are no other rows.                        *)
THEOREM ShadowsAreSynced == Spec => []ShadowsFollow
<1>1. ReservationsInv => ShadowsFollow
  BY DEF ReservationsInv, RowsInv
<1> QED BY <1>1, ReservationsInvariant, PTL

(* The exclusion constraint is on the rows, and the rows follow the        *)
(* reservations.                                                           *)
LEMMA RoomsAreExclusive == ReservationsInv => RoomsExclusive
<1> SUFFICES ASSUME ReservationsInv, NEW i \in Ids, NEW j \in Ids, i # j,
                    Blocks(i), Blocks(j),
                    NEW r \in Rooms(booking[i].res) \cap Rooms(booking[j].res)
             PROVE  ~Overlap(Main(i), Main(j))
  BY DEF RoomsExclusive
<1>1. r \in Resources
  BY ReservationsAssumption DEF ReservationsInv, RowsInv, Blocks, Exists, Booking, Rooms
<1>2. rows[i][r] = Main(i) /\ rows[j][r] = Main(j)
  BY <1>1 DEF ReservationsInv, RowsInv, ShadowsFollow, Blocks
<1>3. rows[i][r].status \in Blocking /\ rows[j][r].status \in Blocking
  BY <1>2 DEF Blocks, Status
<1> QED BY <1>1, <1>2, <1>3 DEF ReservationsInv, RowsInv, Exclusive

(* No double booking, of rooms and of combined rooms.                      *)
THEOREM NoDoubleBooking == Spec => []RoomsExclusive
BY RoomsAreExclusive, ReservationsInvariant, PTL

(* Only who did not check in by the deadline is marked as a no-show.       *)
THEOREM AbsentOnly == Spec => []NoShowIsAbsent
<1>1. ReservationsInv => NoShowIsAbsent
  BY DEF ReservationsInv
<1> QED BY <1>1, ReservationsInvariant, PTL

(* Nobody loses a slot, neither to another reservation nor to the scanner. *)
THEOREM SlotsKept == Spec => []SlotsAreSafe
<1>1. RoomsExclusive /\ NoShowIsAbsent => SlotsAreSafe
  BY DEF SlotsAreSafe
<1> QED BY <1>1, NoDoubleBooking, AbsentOnly, PTL

(* A hold becomes one reservation at most, of its owner and its resource.  *)
THEOREM OneBooking == Spec => []HoldServesOneBooking
<1>1. ReservationsInv => HoldServesOneBooking
  BY DEF ReservationsInv, HoldsInv
<1> QED BY <1>1, ReservationsInvariant, PTL

(* A creation that fails after it consumed a hold gives the hold back.     *)
THEOREM FailedCreateKeepsHold == Spec => []ConsumedHasBooking
<1>1. ReservationsInv => ConsumedHasBooking
  BY DEF ReservationsInv, HoldsInv
<1> QED BY <1>1, ReservationsInvariant, PTL

(* However many requests present a token and fail, it is spent once.       *)
THEOREM HoldsAreSpentOnce == Spec => []HoldIsSpentOnce
<1>1. ReservationsInv => HoldIsSpentOnce
  BY DEF ReservationsInv, HoldsInv, HoldIsSpentOnce
<1> QED BY <1>1, ReservationsInvariant, PTL

(* No step brings the slot of an ended reservation back: every transition  *)
(* to a blocking status tests for one, and shadow rows have no other.      *)
THEOREM FreedSlots == Spec => FreedStaysFreed
<1> DEFINE Freed == \A i \in Ids : Exists(i) /\ Status(i) \in Ended => Status(i)' \in Ended
<1>1. ReservationsInv /\ [Next]_vars => [Freed]_vars
  <2> SUFFICES ASSUME ReservationsInv, Next PROVE Freed
    OBVIOUS
  <2>1. CASE StatusStep
    BY <2>1 DEF StatusStep
  <2>2. ASSUME NEW p \in Procs, NEW new \in SUBSET Ids,
               op[p].kind = "checked", Inserted(p, new)
        PROVE  Freed
    BY <2>2, InsertedKeepsRows DEF Inserted
  <2> QED BY <2>1, <2>2, RowsStep
<1> QED BY <1>1, ReservationsInvariant, PTL DEF Spec, FreedStaysFreed

-----------------------------------------------------------------------------
(* Refinement of RoomLedger.  A request books within the hold that it      *)
(* consumed: WindowInHold is inductive with ReservationsInv, because the   *)
(* range of a hold is written once.                                        *)
WindowInHold ==
  \A p \in Procs : op[p].kind \in {"consumed", "checked"} /\ op[p].hold # 0 =>
     Covers(hold[op[p].hold], op[p].windows[1])

(* What a step leaves alone, for all steps but a few.                      *)
LEMMA OtherSteps ==
  ASSUME [Next]_vars,
         \A p \in Procs : /\ ~ConsumeHold(p) /\ ~Rollback(p) /\ ~Insert(p)
                          /\ ~InsertHold(p) /\ ~ReleaseHold(p)
  PROVE  UNCHANGED hold
BY DEF Next, vars, Begin, Proceed, Abort, Change, CheckCreate, CheckHold, ReadHold,
       ClassifySeries, CheckConsumed, CancelSeries, CheckIn, CheckOut, Cancel, Approve,
       Reject, Move, MarkNoShow, Scan, ScanFails, Tick

(* Owner, resource and time range of a hold are written when it is         *)
(* inserted, and never again.                                              *)
LEMMA HoldsKeepRange ==
  ASSUME ReservationsInv, [Next]_vars, NEW h \in HoldIds, hold[h].status # "NONE"
  PROVE  /\ hold'[h].user = hold[h].user /\ hold'[h].res = hold[h].res
         /\ hold'[h].start = hold[h].start /\ hold'[h].end = hold[h].end
<1>1. TypeOK /\ hold \in [HoldIds -> Hold]
  BY DEF ReservationsInv, TypeOK
<1>2. ASSUME NEW p \in Procs, Rollback(p)
      PROVE  hold'[h] = hold[h] \/ hold'[h] = [hold[h] EXCEPT !.status = "ACTIVE", !.lock = None]
  BY <1>2 DEF Rollback, Unlocked
<1>3. ASSUME NEW p \in Procs, Insert(p), ~Rollback(p)
      PROVE  hold'[h] = hold[h] \/ hold'[h] = [hold[h] EXCEPT !.lock = None]
  BY <1>3, InsertCommitsOrNot DEF Inserted
<1>4. ASSUME NEW p \in Procs, ConsumeHold(p)
      PROVE  \/ hold'[h] = hold[h]
             \/ hold'[h] = [hold[h] EXCEPT !.status = "CONSUMED", !.lock = p]
  BY <1>1, <1>4 DEF ConsumeHold
<1>5. ASSUME NEW p \in Procs, InsertHold(p) PROVE hold'[h] = hold[h]
  BY <1>1, <1>5, InsertHoldCases
<1>6. ASSUME NEW p \in Procs, ReleaseHold(p)
      PROVE  hold'[h] = hold[h] \/ hold'[h] = [hold[h] EXCEPT !.status = "RELEASED"]
  BY <1>1, <1>6 DEF ReleaseHold
<1>7. \/ hold'[h] = hold[h]
      \/ \E p : hold'[h] = [hold[h] EXCEPT !.status = "CONSUMED", !.lock = p]
      \/ hold'[h] = [hold[h] EXCEPT !.status = "ACTIVE", !.lock = None]
      \/ hold'[h] = [hold[h] EXCEPT !.lock = None]
      \/ hold'[h] = [hold[h] EXCEPT !.status = "RELEASED"]
  BY <1>2, <1>3, <1>4, <1>5, <1>6, OtherSteps
<1>8. hold[h] \in Hold
  BY <1>1
<1> QED BY <1>7, <1>8 DEF Hold

(* How a transaction comes to hold a hold, or keeps it.                    *)
LEMMA HolderCases ==
  ASSUME TypeOK, ReservationsInv, [Next]_vars, NEW q \in Procs,
         op'[q].kind \in {"consumed", "checked"}, op'[q].hold # 0
  PROVE  \/ op'[q] = op[q]
         \/ ConsumeHold(q)
         \/ CheckConsumed(q) /\ op'[q] = [op[q] EXCEPT !.kind = "checked"]
<1>1. Idle.kind = "idle"
  BY DEF Idle
<1>2. ASSUME NEW p \in Procs, NEW o, Goto(p, o),
             o.kind \notin {"consumed", "checked"} \/ o.hold = 0
      PROVE  op'[q] = op[q]
  BY <1>2, GotoValue
<1>3. ASSUME NEW p \in Procs, Rollback(p) PROVE op'[q] = op[q]
  BY <1>1, <1>2, <1>3 DEF Rollback
<1>4. ASSUME NEW p \in Procs, ConsumeHold(p) PROVE op'[q] = op[q] \/ ConsumeHold(q)
  <2>1. p # q => op'[q] = op[q]
    BY <1>4, GotoValue DEF ConsumeHold
  <2> QED BY <1>4, <2>1
<1>5. ASSUME NEW p \in Procs, CheckConsumed(p)
      PROVE  \/ op'[q] = op[q]
             \/ CheckConsumed(q) /\ op'[q] = [op[q] EXCEPT !.kind = "checked"]
  <2>1. CASE Goto(p, [op[p] EXCEPT !.kind = "checked"])
    <3>1. /\ op'[p] = [op[p] EXCEPT !.kind = "checked"]
          /\ \A r \in Procs : r # p => op'[r] = op[r]
      BY <2>1, GotoValue
    <3> QED BY <1>5, <3>1
  <2> QED BY <1>3, <1>5, <2>1 DEF CheckConsumed
<1>6. ASSUME NEW p \in Procs, CheckCreate(p) PROVE op'[q] = op[q]
  <2>1. PICK u \in Users, r \in Resources, ws \in Series :
          Goto(p, [kind |-> "checked", user |-> u, res |-> r, windows |-> ws, hold |-> 0])
    BY <1>6 DEF CheckCreate
  <2> QED BY <1>2, <2>1
<1>7. ASSUME NEW p \in Procs, CheckHold(p) \/ ReadHold(p) \/ ClassifySeries(p)
      PROVE  op'[q] = op[q]
  BY <1>2, <1>7 DEF CheckHold, ReadHold, ClassifySeries
<1>8. ASSUME NEW p \in Procs, Insert(p) PROVE op'[q] = op[q]
  BY <1>1, <1>2, <1>3, <1>8, InsertCommitsOrNot DEF Inserted
<1>9. ASSUME NEW p \in Procs, InsertHold(p) \/ ReleaseHold(p) \/ CancelSeries(p)
      PROVE  op'[q] = op[q]
  BY <1>1, <1>2, <1>9 DEF InsertHold, ReleaseHold, CancelSeries
<1>10. ASSUME NEW i \in Ids, Change(i) \/ MarkNoShow(i) PROVE op' = op
  BY <1>10 DEF Change, CheckIn, CheckOut, Cancel, Approve, Reject, Move, MarkNoShow
<1>11. Scan \/ ScanFails \/ Tick \/ UNCHANGED vars => op' = op
  BY DEF Scan, ScanFails, Tick, vars
<1> QED
  BY <1>3, <1>4, <1>5, <1>6, <1>7, <1>8, <1>9, <1>10, <1>11
     DEF Next, Begin, Proceed, Abort

(* The window that was checked against the hold stays within it.           *)
LEMMA WindowStaysInHold ==
  ASSUME ReservationsInv, WindowInHold, [Next]_vars
  PROVE  WindowInHold'
<1>1. TypeOK /\ LocksOwned /\ hold \in [HoldIds -> Hold]
  BY DEF ReservationsInv, HoldsInv, TypeOK
<1> SUFFICES ASSUME NEW q \in Procs, op'[q].kind \in {"consumed", "checked"}, op'[q].hold # 0
             PROVE  Covers(hold'[op'[q].hold], op'[q].windows[1])
  BY DEF WindowInHold, Covers
<1>2. ASSUME op[q].kind \in {"consumed", "checked"}, op[q].hold # 0,
             op'[q].hold = op[q].hold, op'[q].windows = op[q].windows
      PROVE  Covers(hold'[op'[q].hold], op'[q].windows[1])
  <2>1. op[q].hold \in HoldIds
    BY <1>1, <1>2, OpFields, ReservationsAssumption DEF HoldIds
  <2>2. hold[op[q].hold].status # "NONE"
    BY <1>1, <1>2, <2>1 DEF LocksOwned
  <2>3. Covers(hold[op[q].hold], op[q].windows[1])
    BY <1>2 DEF WindowInHold
  <2> QED BY <1>2, <2>1, <2>2, <2>3, HoldsKeepRange DEF Covers
<1>3. CASE op'[q] = op[q]
  BY <1>2, <1>3
<1>4. CASE ConsumeHold(q)
  <2>1. PICK h \in HoldIds, w \in Windows :
          /\ Covers(hold[h], w)
          /\ hold' = [hold EXCEPT ![h].status = "CONSUMED", ![h].lock = q]
          /\ Goto(q, [kind |-> "consumed", user |-> hold[h].user, res |-> hold[h].res,
                      windows |-> <<w>>, hold |-> h])
    BY <1>4 DEF ConsumeHold
  <2>2. op'[q].hold = h /\ op'[q].windows[1] = w
    BY <1>1, <2>1, GotoValue
  <2>3. hold'[h].start = hold[h].start /\ hold'[h].end = hold[h].end
    BY <1>1, <2>1 DEF Hold
  <2> QED BY <2>1, <2>2, <2>3 DEF Covers
<1>5. CASE CheckConsumed(q) /\ op'[q] = [op[q] EXCEPT !.kind = "checked"]
  <2>1. op'[q].hold = op[q].hold /\ op'[q].windows = op[q].windows
    BY <1>1, <1>5, OpFields DEF CheckConsumed
  <2> QED BY <1>2, <1>5, <2>1 DEF CheckConsumed
<1> QED BY <1>1, <1>3, <1>4, <1>5, HolderCases

-----------------------------------------------------------------------------
(* What a slot and a ticket of the ledger look at: steps that leave it     *)
(* alone are stutters.                                                     *)
LEMMA SlotKept ==
  ASSUME NEW i \in Ids, Main(i)' = Main(i),
         booking'[i].res = booking[i].res, booking'[i].org = booking[i].org
  PROVE  SlotOf(i)' = SlotOf(i)
BY DEF SlotOf, TakenBy, Blocks, Status, Exists

LEMMA TicketKept ==
  ASSUME NEW h \in HoldIds,
         hold'[h].status = "NONE" <=> hold[h].status = "NONE",
         hold'[h].status = "RELEASED" <=> hold[h].status = "RELEASED",
         hold[h].status # "NONE" =>
            /\ hold'[h].user = hold[h].user /\ hold'[h].res = hold[h].res
            /\ hold'[h].start = hold[h].start /\ hold'[h].end = hold[h].end,
         Served(h)' <=> Served(h)
  PROVE  TicketOf(h)' = TicketOf(h)
BY DEF TicketOf, StateOf

LEMMA LedgerStutter ==
  ASSUME \A i \in Ids : SlotOf(i)' = SlotOf(i),
         \A h \in HoldIds : TicketOf(h)' = TicketOf(h)
  PROVE  UNCHANGED Ledger!vars
BY DEF Ledger!vars

(* A slot is taken while its reservation blocks, and the rooms are those   *)
(* of its resource.                                                        *)
LEMMA LedgerApart == RoomsExclusive => Ledger!Apart
<1> SUFFICES ASSUME RoomsExclusive, NEW i \in Ids, NEW j \in Ids, i # j,
                    SlotOf(i).state = "taken", SlotOf(j).state = "taken",
                    SlotOf(i).rooms \cap SlotOf(j).rooms # {}
             PROVE  ~Ledger!Overlap(SlotOf(i), SlotOf(j))
  BY DEF Ledger!Apart
<1>1. \A k \in {i, j} : Blocks(k) /\ SlotOf(k) = TakenBy(k)
  BY DEF SlotOf
<1>2. \A k \in {i, j} : /\ SlotOf(k).rooms = Rooms(booking[k].res)
                        /\ SlotOf(k).start = Main(k).start /\ SlotOf(k).end = Main(k).end
  BY <1>1 DEF TakenBy
<1>3. ~Overlap(Main(i), Main(j))
  BY <1>1, <1>2 DEF RoomsExclusive
<1> QED BY <1>2, <1>3 DEF Overlap, Ledger!Overlap

(* An UPDATE of the status of reservation i.                               *)
LEMMA StatusSlot ==
  ASSUME RowsInv, NEW i \in Ids, Exists(i), NEW s \in Statuses,
         rows'[i] = WithStatus(i, s),
         booking'[i].res = booking[i].res, booking'[i].org = booking[i].org
  PROVE  SlotOf(i)' = IF s \in Blocking THEN TakenBy(i) ELSE [state |-> "freed"]
<1>1. booking[i].res \in Resources
  BY DEF RowsInv, Booking, Exists
<1>2. Main(i) \in Row
  BY <1>1 DEF RowsInv, Main
<1>3. [Main(i) EXCEPT !.status = s] \in Row
  BY <1>2 DEF Row, Statuses
<1>4. Main(i)' = [Main(i) EXCEPT !.status = s]
  <2> DEFINE m == [Main(i) EXCEPT !.status = s]
  <2>1. m \in Row
    BY <1>3
  <2>2. rows'[i] = Synced(i, m)
    BY DEF WithStatus
  <2> HIDE DEF m
  <2>3. Synced(i, m)[booking[i].res] = m
    BY <2>1, SyncedMain
  <2>4. Main(i)' = m
    BY <2>2, <2>3 DEF Main
  <2> QED BY <2>4 DEF m
<1>5. Main(i)'.status = s /\ Main(i)'.start = Main(i).start /\ Main(i)'.end = Main(i).end
  BY <1>2, <1>4 DEF Row
<1>6. TakenBy(i)' = TakenBy(i)
  BY <1>5 DEF TakenBy
<1>7. Exists(i)' /\ (Blocks(i)' <=> s \in Blocking)
  BY <1>5 DEF Exists, Blocks, Status
<1> QED BY <1>6, <1>7 DEF SlotOf

(* A status that does not block gives the slots back that were taken.      *)
LEMMA FreedLedger ==
  ASSUME RowsInv, NEW S \in SUBSET Ids, NEW s \in Ended, \A i \in S : Exists(i),
         rows' = StatusUpdated(S, s), UNCHANGED <<booking, hold>>
  PROVE  Ledger!Next
<1> DEFINE N == {i \in S : Blocks(i)}
<1>1. s \in Statuses /\ s \notin Blocking
  BY DEF Statuses, Ended, Blocking
<1>2. ASSUME NEW i \in S PROVE SlotOf(i)' = [state |-> "freed"]
  <2>1. rows'[i] = WithStatus(i, s)
    BY DEF StatusUpdated
  <2> QED BY <1>1, <2>1, StatusSlot
<1>3. ASSUME NEW i \in Ids \ S PROVE SlotOf(i)' = SlotOf(i)
  <2>1. rows'[i] = rows[i]
    BY DEF StatusUpdated
  <2>2. Main(i)' = Main(i)
    BY <2>1 DEF Main
  <2> QED BY <2>2, SlotKept
<1>4. \A i \in S : ~Blocks(i) => SlotOf(i) = [state |-> "freed"]
  BY DEF SlotOf
<1>5. \A i \in N : SlotOf(i).state = "taken"
  BY DEF SlotOf, TakenBy, Blocks
<1>6. \A i \in Ids : SlotOf(i)' = IF i \in N THEN [state |-> "freed"] ELSE SlotOf(i)
  BY <1>2, <1>3, <1>4
<1>7. \A h \in HoldIds : TicketOf(h)' = TicketOf(h)
  <2>1. \A h \in HoldIds : Served(h)' <=> Served(h)
    BY DEF Served
  <2> QED BY <2>1, TicketKept
<1>8. N \in SUBSET Ids
  OBVIOUS
<1> HIDE DEF N
<1>9. Ledger!GiveBack(N)
  BY <1>5, <1>6, <1>7, <1>8 DEF Ledger!GiveBack, Ledger!Freed
<1> QED BY <1>8, <1>9 DEF Ledger!Next

(* A status that blocks, of a reservation that blocked before, is not seen *)
(* in the ledger.                                                          *)
LEMMA BlockingLedger ==
  ASSUME RowsInv, NEW i \in Ids, Blocks(i), NEW s \in Blocking, SetStatus(i, s),
         booking' = booking \/ booking' = [booking EXCEPT ![i].arrived = TRUE],
         hold' = hold
  PROVE  UNCHANGED Ledger!vars
<1>1. \A j \in Ids : /\ booking'[j].res = booking[j].res /\ booking'[j].org = booking[j].org
                     /\ booking'[j].token = booking[j].token
  BY DEF RowsInv, Booking
<1>2. s \in Statuses /\ Exists(i)
  BY DEF Statuses, Blocks
<1>3. SlotOf(i)' = TakenBy(i) /\ SlotOf(i) = TakenBy(i)
  <2>1. rows'[i] = WithStatus(i, s)
    BY DEF SetStatus, RowsInv
  <2>2. SlotOf(i)' = TakenBy(i)
    BY <1>1, <1>2, <2>1, StatusSlot
  <2> QED BY <1>2, <2>2 DEF SlotOf
<1>4. ASSUME NEW j \in Ids, j # i PROVE SlotOf(j)' = SlotOf(j)
  <2>1. rows'[j] = rows[j]
    BY <1>4 DEF SetStatus, RowsInv
  <2>2. Main(j)' = Main(j)
    BY <1>1, <2>1 DEF Main
  <2> QED BY <1>1, <2>2, SlotKept
<1>5. \A h \in HoldIds : TicketOf(h)' = TicketOf(h)
  <2>1. \A h \in HoldIds : Served(h)' <=> Served(h)
    BY <1>1 DEF Served
  <2> QED BY <2>1, TicketKept
<1> QED BY <1>3, <1>4, <1>5, LedgerStutter

(* A reservation that is moved while it blocks moves its slot.             *)
LEMMA MoveLedger ==
  ASSUME ReservationsInv, NEW i \in Ids, Move(i), Ledger!Apart'
  PROVE  Ledger!Next \/ UNCHANGED Ledger!vars
<1>1. RowsInv /\ booking \in [Ids -> Booking] /\ rows \in [Ids -> [Resources -> Row]]
  BY DEF ReservationsInv, RowsInv
<1>2. PICK w \in Windows :
        rows' = [rows EXCEPT ![i] = Synced(i, [Main(i) EXCEPT !.start = w.start, !.end = w.end])]
  BY DEF Move
<1>3. /\ Exists(i) /\ hold' = hold
      /\ \A j \in Ids : /\ booking'[j].res = booking[j].res /\ booking'[j].org = booking[j].org
                        /\ booking'[j].token = booking[j].token
  BY <1>1 DEF Move, Booking
<1>4. booking[i].res \in Resources /\ Main(i) \in Row
  BY <1>1, <1>3 DEF Exists, Booking, Main
<1>5. w.start \in Nat /\ w.end \in Nat
  BY ReservationsAssumption
<1>6. [Main(i) EXCEPT !.start = w.start, !.end = w.end] \in Row
  BY <1>4, <1>5 DEF Row
<1>7. Main(i)' = [Main(i) EXCEPT !.start = w.start, !.end = w.end]
  <2>1. rows'[i] = Synced(i, [Main(i) EXCEPT !.start = w.start, !.end = w.end])
    BY <1>1, <1>2
  <2> DEFINE m == [Main(i) EXCEPT !.start = w.start, !.end = w.end]
  <2>2. m \in Row
    BY <1>6
  <2>3. rows'[i] = Synced(i, m)
    BY <2>1
  <2> HIDE DEF m
  <2>4. Synced(i, m)[booking[i].res] = m
    BY <1>1, <1>3, <2>2, SyncedMain
  <2>5. Main(i)' = m
    BY <1>3, <2>3, <2>4 DEF Main
  <2> QED BY <2>5 DEF m
<1>8. Main(i)'.status = Status(i) /\ Main(i)'.start = w.start /\ Main(i)'.end = w.end
  BY <1>4, <1>7 DEF Row, Status
<1>9. Exists(i)' /\ (Blocks(i)' <=> Blocks(i))
  BY <1>3, <1>8 DEF Exists, Blocks, Status
<1>10. ASSUME NEW j \in Ids, j # i PROVE SlotOf(j)' = SlotOf(j)
  <2>1. rows'[j] = rows[j]
    BY <1>1, <1>2, <1>10
  <2>2. Main(j)' = Main(j)
    BY <1>3, <2>1 DEF Main
  <2> QED BY <1>3, <2>2, SlotKept
<1>11. \A h \in HoldIds : TicketOf(h)' = TicketOf(h)
  <2>1. \A h \in HoldIds : Served(h)' <=> Served(h)
    BY <1>3 DEF Served
  <2> QED BY <1>3, <2>1, TicketKept
<1>12. CASE Blocks(i)
  <2>1. SlotOf(i) = TakenBy(i) /\ SlotOf(i)' = TakenBy(i)'
    BY <1>3, <1>9, <1>12 DEF SlotOf
  <2>2. TakenBy(i)' = [TakenBy(i) EXCEPT !.start = w.start, !.end = w.end]
    <3>1. TakenBy(i)' = [state |-> "taken", user |-> booking[i].org,
                         rooms |-> Rooms(booking[i].res), start |-> w.start, end |-> w.end]
      BY <1>3, <1>8 DEF TakenBy
    <3> DEFINE R(s, e) == [state |-> "taken", user |-> booking[i].org,
                           rooms |-> Rooms(booking[i].res), start |-> s, end |-> e]
    <3>2. TakenBy(i) = R(Main(i).start, Main(i).end)
      BY DEF TakenBy
    <3>3. [TakenBy(i) EXCEPT !.start = w.start] = R(w.start, Main(i).end)
      BY <3>2
    <3>4. [TakenBy(i) EXCEPT !.start = w.start, !.end = w.end]
            = [[TakenBy(i) EXCEPT !.start = w.start] EXCEPT !.end = w.end]
      OBVIOUS
    <3>5. [R(w.start, Main(i).end) EXCEPT !.end = w.end] = R(w.start, w.end)
      OBVIOUS
    <3> QED BY <3>1, <3>3, <3>4, <3>5
  <2>3. TakenBy(i).state = "taken"
    BY DEF TakenBy
  <2>4. Ledger!Move(i, w)
    BY <1>10, <1>11, <2>1, <2>2, <2>3 DEF Ledger!Move
  <2> QED BY <2>4 DEF Ledger!Next
<1>13. CASE ~Blocks(i)
  <2>1. SlotOf(i)' = SlotOf(i)
    BY <1>3, <1>9, <1>13 DEF SlotOf
  <2> QED BY <1>10, <1>11, <2>1, LedgerStutter
<1> QED BY <1>12, <1>13

(* The slots of the reservations that an INSERT adds.                      *)
LEMMA InsertedSlot ==
  ASSUME ReservationsInv, NEW p \in Procs, op[p].kind = "checked",
         NEW new \in SUBSET Ids, Inserted(p, new), NEW i \in new, NEW w \in Windows,
         rows'[i] = Expanded(op[p].res, w)
  PROVE  /\ SlotOf(i) = [state |-> "none"]
         /\ SlotOf(i)' = [state |-> "taken", user |-> op[p].user, rooms |-> Rooms(op[p].res),
                          start |-> w.start, end |-> w.end]
<1>1. op[p].res \in Resources /\ op[p].res # None
  BY OpFields, ReservationsAssumption DEF ReservationsInv
<1>2. ~Exists(i) /\ booking'[i].res = op[p].res /\ booking'[i].org = op[p].user
  BY DEF Inserted
<1>3. Main(i)' = Expanded(op[p].res, w)[op[p].res]
  BY <1>2 DEF Main
<1>4. /\ Main(i)'.status \in {"PENDING_APPROVAL", "CONFIRMED"}
      /\ Main(i)'.start = w.start /\ Main(i)'.end = w.end
  BY <1>1, <1>3 DEF Expanded, Rooms
<1>5. Exists(i)' /\ Blocks(i)'
  BY <1>1, <1>2, <1>4 DEF Exists, Blocks, Status, Blocking
<1>6. SlotOf(i)' = TakenBy(i)'
  BY <1>5 DEF SlotOf
<1> QED BY <1>2, <1>4, <1>6 DEF SlotOf, TakenBy

(* An INSERT that commits books the slots of a request, and spends the     *)
(* ticket it consumed in the same step.                                    *)
LEMMA InsertedLedger ==
  ASSUME ReservationsInv, WindowInHold, NEW p \in Procs, op[p].kind = "checked",
         NEW new \in SUBSET Ids, Inserted(p, new), Ledger!Apart'
  PROVE  Ledger!Next
<1>1. /\ TypeOK /\ LocksOwned /\ TokensSpent /\ HoldsOwned
      /\ hold \in [HoldIds -> Hold] /\ None \notin Procs
  BY ReservationsAssumption DEF ReservationsInv, HoldsInv, TypeOK
<1>2. /\ op[p].user \in Users /\ op[p].res \in Resources
      /\ op[p].windows \in Seq(Windows) /\ op[p].hold \in 0..MaxHolds
  BY <1>1, OpFields
<1>3. \A i \in new : \E w \in Windows : rows'[i] = Expanded(op[p].res, w)
  BY DEF Inserted
<1>4. /\ \A i \in new : booking'[i].token = op[p].hold /\ ~Exists(i)
      /\ \A i \in Ids \ new : booking'[i] = booking[i] /\ rows'[i] = rows[i]
      /\ hold' = [h \in HoldIds |-> IF hold[h].lock = p THEN [hold[h] EXCEPT !.lock = None]
                                                         ELSE hold[h]]
  BY DEF Inserted
<1>5. ASSUME NEW i \in Ids \ new PROVE SlotOf(i)' = SlotOf(i)
  <2>1. Main(i)' = Main(i)
    BY <1>4 DEF Main
  <2> QED BY <1>4, <2>1, SlotKept
<1>6. \A h \in HoldIds :
        /\ hold'[h].status = hold[h].status
        /\ hold'[h].user = hold[h].user /\ hold'[h].res = hold[h].res
        /\ hold'[h].start = hold[h].start /\ hold'[h].end = hold[h].end
  BY <1>1, <1>4 DEF Hold
<1>7. \A i \in new : booking[i].token = 0
  BY <1>1, <1>4 DEF TokensSpent
<1>8. ASSUME NEW h \in HoldIds, h # op[p].hold PROVE TicketOf(h)' = TicketOf(h)
  <2>1. h # 0
    BY ReservationsAssumption DEF HoldIds
  <2>2. Served(h)' <=> Served(h)
    BY <1>4, <1>7, <1>8, <2>1 DEF Served
  <2> QED BY <1>6, <2>2, TicketKept
<1>9. CASE op[p].hold = 0
  <2> DEFINE w == [i \in new |-> CHOOSE v \in Windows : rows'[i] = Expanded(op[p].res, v)]
  <2>1. \A i \in new : w[i] \in Windows /\ rows'[i] = Expanded(op[p].res, w[i])
    BY <1>3
  <2>2. w \in [new -> Windows]
    BY <2>1
  <2> HIDE DEF w
  <2>3. \A i \in new :
          /\ SlotOf(i) = [state |-> "none"]
          /\ SlotOf(i)' = [state |-> "taken", user |-> op[p].user, rooms |-> Rooms(op[p].res),
                           start |-> w[i].start, end |-> w[i].end]
    BY <2>1, InsertedSlot
  <2>4. \A h \in HoldIds : TicketOf(h)' = TicketOf(h)
    BY <1>8, <1>9, ReservationsAssumption DEF HoldIds
  <2>5. Ledger!Book(new, op[p].user, op[p].res, w)
    BY <1>2, <1>5, <2>3, <2>4
       DEF Ledger!Book, Ledger!Take, Ledger!NoSlot, Ledger!Taken
  <2> QED BY <1>2, <2>2, <2>5 DEF Ledger!Next
<1>10. CASE op[p].hold # 0
  <2> DEFINE w == op[p].windows[1]
  <2>1. PICK k \in HoldIds : k = op[p].hold
    BY <1>2, <1>10, ReservationsAssumption DEF HoldIds
  <2>2. /\ hold[k].lock = p /\ Len(op[p].windows) = 1 /\ hold[k].status = "CONSUMED"
        /\ hold[k].user = op[p].user /\ hold[k].res = op[p].res
    BY <1>1, <1>10, <2>1 DEF LocksOwned
  <2>3. PICK i \in Ids : new = {i}
    BY <2>2 DEF Inserted
  <2>4. w \in Windows /\ rows'[i] = Expanded(op[p].res, w)
    BY <1>2, <2>2, <2>3 DEF Inserted
  <2>5. /\ SlotOf(i) = [state |-> "none"]
        /\ SlotOf(i)' = [state |-> "taken", user |-> op[p].user, rooms |-> Rooms(op[p].res),
                         start |-> w.start, end |-> w.end]
    BY <2>3, <2>4, InsertedSlot
  <2>6. ~Served(k) /\ Served(k)'
    <3>1. ~Served(k)
      BY <1>1, <1>10, <2>1, <2>2 DEF Served, TokensSpent
    <3>2. Served(k)'
      BY <1>4, <2>1, <2>3 DEF Served
    <3> QED BY <3>1, <3>2
  <2> DEFINE T(st) == [state |-> st, user |-> op[p].user, res |-> op[p].res,
                       start |-> hold[k].start, end |-> hold[k].end]
  <2>7. TicketOf(k) = T("live")
    BY <2>2, <2>6 DEF TicketOf, StateOf
  <2>8. TicketOf(k)' = T("spent")
    BY <1>6, <2>1, <2>2, <2>6 DEF TicketOf, StateOf
  <2>9. hold[k].start <= w.start /\ w.end <= hold[k].end
    BY <1>10, <2>1 DEF WindowInHold, Covers
  <2> HIDE DEF w
  <2>10. \A j \in Ids : j # i => SlotOf(j)' = SlotOf(j)
    BY <1>5, <2>3
  <2>11. \A h \in HoldIds : h # k => TicketOf(h)' = TicketOf(h)
    BY <1>8, <2>1
  <2>12. Ledger!Take({i}, op[p].user, op[p].res, [j \in {i} |-> w])
    BY <1>2, <2>3, <2>5, <2>10 DEF Ledger!Take, Ledger!NoSlot, Ledger!Taken
  <2>13. [h \in HoldIds |-> TicketOf(h)]'
           = [[h \in HoldIds |-> TicketOf(h)] EXCEPT ![k].state = "spent"]
    BY <2>1, <2>7, <2>8, <2>11
  <2>14. Ledger!BookHeld(k, i, w)
    BY <2>1, <2>7, <2>9, <2>12, <2>13 DEF Ledger!BookHeld, Ledger!Within
  <2> QED BY <2>1, <2>4, <2>14 DEF Ledger!Next
<1> QED BY <1>9, <1>10

(* A hold is inserted: a ticket that no live ticket overlaps.  A rival that *)
(* is neither ACTIVE nor locked is RELEASED or has its reservation.         *)
LEMMA InsertHoldLedger ==
  ASSUME ReservationsInv, NEW p \in Procs, InsertHold(p)
  PROVE  Ledger!Next \/ UNCHANGED Ledger!vars
<1>1. TypeOK /\ hold \in [HoldIds -> Hold] /\ ConsumedHasBooking /\ TokensSpent
  BY DEF ReservationsInv, HoldsInv, TypeOK
<1>2. op[p].user \in Users /\ op[p].res \in Resources /\ op[p].window \in Windows
  BY <1>1, OpFields DEF InsertHold
<1>3. UNCHANGED <<booking, rows>>
  BY DEF InsertHold
<1>4. \A i \in Ids : SlotOf(i)' = SlotOf(i)
  BY <1>3, SlotKept DEF Main
<1>5. \A h \in HoldIds : Served(h)' <=> Served(h)
  BY <1>3 DEF Served
<1>6. CASE hold' = hold
  BY <1>4, <1>5, <1>6, TicketKept, LedgerStutter
<1>7. CASE hold' # hold
  <2>1. \A h \in HoldIds :
          hold[h].res = op[p].res /\ Overlap(hold[h], op[p].window) =>
            hold[h].lock = None /\ hold[h].status # "ACTIVE"
    BY <1>7 DEF InsertHold
  <2>2. PICK h \in HoldIds :
          /\ hold[h].status = "NONE"
          /\ hold' = [hold EXCEPT ![h] =
               [status |-> "ACTIVE", res |-> op[p].res, user |-> op[p].user,
                start |-> op[p].window.start, end |-> op[p].window.end,
                expires |-> now + Ttl, lock |-> None]]
    BY <1>1, <1>7, InsertHoldCases
  <2>3. ASSUME NEW g \in HoldIds, g # h PROVE TicketOf(g)' = TicketOf(g)
    <3>1. hold'[g] = hold[g]
      BY <1>1, <2>2, <2>3
    <3> QED BY <1>5, <3>1, TicketKept
  <2>4. TicketOf(h) = [state |-> "none"]
    BY <2>2 DEF TicketOf
  <2>5. ~Served(h)'
    <3>1. h # 0
      BY ReservationsAssumption DEF HoldIds
    <3>2. ~Served(h)
      BY <1>1, <2>2, <3>1 DEF Served, TokensSpent
    <3> QED BY <1>5, <3>2
  <2>6. /\ hold'[h].status = "ACTIVE" /\ hold'[h].user = op[p].user /\ hold'[h].res = op[p].res
        /\ hold'[h].start = op[p].window.start /\ hold'[h].end = op[p].window.end
    BY <1>1, <2>2
  <2>7. TicketOf(h)' = [state |-> "live", user |-> op[p].user, res |-> op[p].res,
                        start |-> op[p].window.start, end |-> op[p].window.end]
    BY <2>5, <2>6 DEF TicketOf, StateOf
  <2>8. ASSUME NEW g \in HoldIds, TicketOf(g).state = "live", TicketOf(g).res = op[p].res
        PROVE  ~Ledger!Overlap(TicketOf(g), op[p].window)
    <3>1. hold[g].status # "NONE" /\ hold[g].status # "RELEASED" /\ ~Served(g)
      BY <2>8 DEF TicketOf, StateOf
    <3>2. /\ TicketOf(g).start = hold[g].start /\ TicketOf(g).end = hold[g].end
          /\ hold[g].res = op[p].res
      BY <2>8, <3>1 DEF TicketOf
    <3>3. hold[g].status \in {"ACTIVE", "CONSUMED"}
      BY <1>1, <3>1 DEF Hold
    <3>4. ~Overlap(hold[g], op[p].window)
      BY <1>1, <2>1, <3>1, <3>2, <3>3 DEF ConsumedHasBooking, Served
    <3> QED BY <3>2, <3>4 DEF Overlap, Ledger!Overlap
  <2>9. Ledger!Grant(h, op[p].user, op[p].res, op[p].window)
    BY <1>4, <2>3, <2>4, <2>7, <2>8 DEF Ledger!Grant, Ledger!Live, Ledger!NoTicket
  <2> QED BY <1>2, <2>9 DEF Ledger!Next
<1> QED BY <1>6, <1>7

(* The late UPDATE of a release drops a live ticket; on one that is spent  *)
(* or dropped already it is a stutter.                                     *)
LEMMA ReleaseLedger ==
  ASSUME ReservationsInv, NEW p \in Procs, ReleaseHold(p)
  PROVE  Ledger!Next \/ UNCHANGED Ledger!vars
<1>1. TypeOK /\ hold \in [HoldIds -> Hold]
  BY DEF ReservationsInv, TypeOK
<1>2. PICK h \in HoldIds : h = op[p].hold
  BY <1>1, OpFields DEF ReleaseHold
<1>3. /\ hold[h].status # "NONE" /\ hold' = [hold EXCEPT ![h].status = "RELEASED"]
      /\ UNCHANGED <<booking, rows>>
  BY <1>2 DEF ReleaseHold, ReservationsInv, HoldsInv, ReleasesKnown
<1>4. \A i \in Ids : SlotOf(i)' = SlotOf(i)
  BY <1>3, SlotKept DEF Main
<1>5. \A g \in HoldIds : Served(g)' <=> Served(g)
  BY <1>3 DEF Served
<1>6. ASSUME NEW g \in HoldIds, g # h PROVE TicketOf(g)' = TicketOf(g)
  <2>1. hold'[g] = hold[g]
    BY <1>1, <1>3, <1>6
  <2> QED BY <1>5, <2>1, TicketKept
<1>7. /\ hold'[h].status = "RELEASED"
      /\ hold'[h].user = hold[h].user /\ hold'[h].res = hold[h].res
      /\ hold'[h].start = hold[h].start /\ hold'[h].end = hold[h].end
  BY <1>1, <1>3 DEF Hold
<1> DEFINE T(st) == [state |-> st, user |-> hold[h].user, res |-> hold[h].res,
                     start |-> hold[h].start, end |-> hold[h].end]
<1>8. TicketOf(h) = T(StateOf(h))
  BY <1>3 DEF TicketOf
<1>9. TicketOf(h)' = IF Served(h) THEN T("spent") ELSE T("dropped")
  BY <1>5, <1>7 DEF TicketOf, StateOf
<1>10. CASE Served(h) \/ hold[h].status = "RELEASED"
  <2>1. TicketOf(h)' = TicketOf(h)
    BY <1>8, <1>9, <1>10 DEF StateOf
  <2> QED BY <1>4, <1>6, <2>1, LedgerStutter
<1>11. CASE ~Served(h) /\ hold[h].status # "RELEASED"
  <2>1. TicketOf(h) = T("live") /\ TicketOf(h)' = T("dropped")
    BY <1>8, <1>9, <1>11 DEF StateOf
  <2>2. [g \in HoldIds |-> TicketOf(g)]'
          = [[g \in HoldIds |-> TicketOf(g)] EXCEPT ![h].state = "dropped"]
    <3>1. TicketOf(h) = T("live")
      BY <2>1
    <3>2. TicketOf(h)' = T("dropped")
      BY <2>1
    <3> QED BY <1>2, <1>6, <3>1, <3>2
  <2>3. Ledger!Drop(h)
    BY <1>4, <2>1, <2>2 DEF Ledger!Drop
  <2> QED BY <2>3 DEF Ledger!Next
<1> QED BY <1>10, <1>11

(* A hold that is consumed is not spent before its reservation is          *)
(* committed, and a rollback gives it back: neither is seen in the ledger. *)
LEMMA UnseenSteps ==
  ASSUME ReservationsInv, [Next]_vars, UNCHANGED <<booking, rows>>,
         NEW p \in Procs, UNCHANGED hold \/ Rollback(p) \/ ConsumeHold(p)
  PROVE  UNCHANGED Ledger!vars
<1>1. hold \in [HoldIds -> Hold] /\ None # p
  BY ReservationsAssumption DEF ReservationsInv, TypeOK
<1>2. ASSUME NEW h \in HoldIds
      PROVE  /\ hold'[h].status = "NONE" <=> hold[h].status = "NONE"
             /\ hold'[h].status = "RELEASED" <=> hold[h].status = "RELEASED"
  <2>1. CASE UNCHANGED hold
    BY <2>1
  <2>2. CASE Rollback(p)
    <3>1. hold[h].lock = p => hold[h].status = "CONSUMED"
      BY DEF ReservationsInv, HoldsInv, LocksOwned
    <3>2. hold'[h] = IF hold[h].lock = p
                     THEN [hold[h] EXCEPT !.status = "ACTIVE", !.lock = None] ELSE hold[h]
      BY <2>2 DEF Rollback, Unlocked
    <3>3. hold[h] \in Hold
      BY <1>1
    <3>4. CASE hold[h].lock = p
      <4>1. hold'[h] = [hold[h] EXCEPT !.status = "ACTIVE", !.lock = None]
        BY <3>2, <3>4
      <4>2. hold'[h].status = "ACTIVE"
        BY <3>3, <4>1 DEF Hold
      <4> QED BY <3>1, <3>4, <4>2
    <3>5. CASE hold[h].lock # p
      BY <3>2, <3>5
    <3> QED BY <3>4, <3>5
  <2>3. CASE ConsumeHold(p)
    <3>1. PICK k \in HoldIds :
            /\ hold[k].status = "ACTIVE"
            /\ hold' = [hold EXCEPT ![k].status = "CONSUMED", ![k].lock = p]
      BY <2>3 DEF ConsumeHold
    <3>2. hold'[h] = IF h = k THEN [hold[h] EXCEPT !.status = "CONSUMED", !.lock = p] ELSE hold[h]
      BY <1>1, <3>1
    <3>3. hold[h] \in Hold
      BY <1>1
    <3>4. CASE h = k
      <4>1. hold'[h] = [hold[h] EXCEPT !.status = "CONSUMED", !.lock = p]
        BY <3>2, <3>4
      <4>2. hold'[h].status = "CONSUMED"
        BY <3>3, <4>1 DEF Hold
      <4> QED BY <3>1, <3>4, <4>2
    <3>5. CASE h # k
      BY <3>2, <3>5
    <3> QED BY <3>4, <3>5
  <2> QED BY <2>1, <2>2, <2>3
<1>3. \A i \in Ids : SlotOf(i)' = SlotOf(i)
  BY SlotKept DEF Main
<1>4. \A h \in HoldIds : TicketOf(h)' = TicketOf(h)
  <2>1. \A h \in HoldIds : Served(h)' <=> Served(h)
    BY DEF Served
  <2> QED BY <1>2, <2>1, HoldsKeepRange, TicketKept
<1> QED BY <1>3, <1>4, LedgerStutter

(* At first the ledger is empty.                                           *)
LEMMA InitLedger == Init => Ledger!Init
<1> SUFFICES ASSUME Init PROVE Ledger!Init
  OBVIOUS
<1>1. \A i \in Ids : SlotOf(i) = [state |-> "none"]
  BY DEF Init, SlotOf, Exists, NoBooking
<1>2. \A h \in HoldIds : TicketOf(h) = [state |-> "none"]
  BY DEF Init, TicketOf, NoHold
<1> QED BY <1>1, <1>2 DEF Ledger!Init, Ledger!NoSlot, Ledger!NoTicket

(* Every step of the reservations is a step of the ledger or a stutter.    *)
LEMMA NextLedger ==
  ASSUME ReservationsInv, WindowInHold, [Next]_vars, Ledger!Apart'
  PROVE  [Ledger!Next]_(Ledger!vars)
<1>1. RowsInv /\ TypeOK /\ TargetsExist
  BY DEF ReservationsInv, RowsInv
<1>2. ASSUME NEW p \in Procs, UNCHANGED <<booking, rows>>,
             UNCHANGED hold \/ Rollback(p) \/ ConsumeHold(p)
      PROVE  UNCHANGED Ledger!vars
  BY <1>2, UnseenSteps
<1>3. ASSUME NEW p \in Procs, Begin(p) \/ CheckConsumed(p) \/ Abort(p)
      PROVE  UNCHANGED Ledger!vars
  BY <1>2, <1>3 DEF Begin, CheckConsumed, Abort, Rollback, ConsumeHold, CheckCreate,
                    CheckHold, ReadHold, ClassifySeries
<1>4. ASSUME NEW p \in Procs, Insert(p) PROVE Ledger!Next \/ UNCHANGED Ledger!vars
  <2>1. CASE Rollback(p)
    BY <1>2, <2>1 DEF Rollback
  <2>2. ASSUME NEW new \in SUBSET Ids, Inserted(p, new) PROVE Ledger!Next
    BY <1>4, <2>2, InsertedLedger DEF Insert
  <2> QED BY <1>4, <2>1, <2>2, InsertCommitsOrNot
<1>5. ASSUME NEW p \in Procs, CancelSeries(p) PROVE Ledger!Next
  <2>1. op[p].targets \in SUBSET Ids /\ \A i \in op[p].targets : Exists(i)
    BY <1>1, <1>5, OpFields DEF CancelSeries, TargetsExist
  <2>2. rows' = StatusUpdated(op[p].targets, "CANCELLED") /\ UNCHANGED <<booking, hold>>
    BY <1>5 DEF CancelSeries, StatusUpdated
  <2> QED BY <1>1, <2>1, <2>2, FreedLedger DEF Ended
<1>6. ASSUME NEW i \in Ids, NEW s \in Ended, Exists(i), SetStatus(i, s),
             UNCHANGED <<booking, hold>>
      PROVE  Ledger!Next
  <2>1. rows' = StatusUpdated({i}, s)
    BY <1>1, <1>6 DEF StatusUpdated, SetStatus, RowsInv
  <2> QED BY <1>1, <1>6, <2>1, FreedLedger
<1>7. ASSUME NEW i \in Ids, Change(i) PROVE Ledger!Next \/ UNCHANGED Ledger!vars
  <2>1. CASE CheckIn(i)
    BY <1>1, <2>1, BlockingLedger DEF CheckIn, Blocks, Blocking
  <2>2. CASE Approve(i)
    BY <1>1, <2>2, BlockingLedger DEF Approve, Blocks, Blocking
  <2>3. CASE CheckOut(i) \/ Cancel(i) \/ Reject(i)
    BY <1>6, <2>3 DEF CheckOut, Cancel, Reject, Ended
  <2>4. CASE Move(i)
    BY <2>4, MoveLedger
  <2> QED BY <1>7, <2>1, <2>2, <2>3, <2>4 DEF Change
<1>8. ASSUME UNCHANGED <<booking, rows, hold>> PROVE UNCHANGED Ledger!vars
  <2>1. \A i \in Ids : SlotOf(i)' = SlotOf(i)
    BY <1>8, SlotKept DEF Main
  <2>2. \A h \in HoldIds : TicketOf(h)' = TicketOf(h)
    BY <1>8, TicketKept DEF Served
  <2> QED BY <2>1, <2>2, LedgerStutter
<1>9. ASSUME NEW i \in Ids, MarkNoShow(i) PROVE Ledger!Next \/ UNCHANGED Ledger!vars
  <2>1. CASE Overdue(i)
    BY <1>6, <1>9, <2>1 DEF MarkNoShow, Overdue, Ended
  <2>2. CASE ~Overdue(i)
    BY <1>8, <1>9, <2>2 DEF MarkNoShow
  <2> QED BY <2>1, <2>2
<1>10. Scan \/ ScanFails \/ Tick \/ UNCHANGED vars => UNCHANGED Ledger!vars
  BY <1>8 DEF Scan, ScanFails, Tick, vars
<1>11. ASSUME NEW p \in Procs, InsertHold(p) \/ ReleaseHold(p)
       PROVE  Ledger!Next \/ UNCHANGED Ledger!vars
  BY <1>11, InsertHoldLedger, ReleaseLedger
<1> QED
  BY <1>3, <1>4, <1>5, <1>7, <1>9, <1>10, <1>11 DEF Next, Proceed

(* Rows and shadow rows, locks, snapshots, rollbacks and the scanner keep  *)
(* the ledger: all rooms of a booking or none, a series as a whole, a hold *)
(* spent in the step that books, within what it was given for, and no slot *)
(* that was given back taken again.                                        *)
THEOREM ReservationsImplementLedger == Spec => ImplementsLedger
<1>1. Init => WindowInHold
  BY DEF Init, WindowInHold, Idle
<1>2. ReservationsInv /\ WindowInHold /\ [Next]_vars => WindowInHold'
  BY WindowStaysInHold
<1>3. Spec => []WindowInHold
  BY <1>1, <1>2, ReservationsInvariant, PTL DEF Spec
<1>4. ReservationsInv => Ledger!Apart
  BY RoomsAreExclusive, LedgerApart
<1>5. ReservationsInv /\ WindowInHold /\ [Next]_vars /\ Ledger!Apart'
        => [Ledger!Next]_(Ledger!vars)
  BY NextLedger
<1> QED
  BY <1>3, <1>4, <1>5, InitLedger, ReservationsInvariant, PTL
     DEF Spec, ImplementsLedger, Ledger!Spec
=============================================================================
