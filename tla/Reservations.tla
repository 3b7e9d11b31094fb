----------------------------- MODULE Reservations -----------------------------
(***************************************************************************)
(* fms-reservation: two-phase booking (hold, then reservation), combined   *)
(* rooms, approval, check-in, cancellation of one booking or of a series,  *)
(* rescheduling, and the no-show scanner.  API requests run concurrently   *)
(* in READ COMMITTED transactions: a statement reads committed rows, waits *)
(* for the row locks it needs, and an exclusion constraint refuses a row   *)
(* that overlaps a committed one.                                          *)
(***************************************************************************)
EXTENDS Naturals, Sequences, FiniteSets

CONSTANTS
  Users,         \* organizers
  Resources,     \* bookable resources of one tenant, each of capacity 1
  Children,      \* Children[r]: the rooms that the combined room r is made of
  NeedsApproval, \* resources with requires_approval
  ReleaseAfter,  \* ReleaseAfter[r]: auto_release_minutes, 0 without check-in
  Windows,       \* time ranges [start, end) a client may ask for
  Series,        \* expanded recurrence rules: sequences of windows
  Procs,         \* server tasks, each serving one request at a time
  None,          \* no resource, no user, no task
  Ttl,           \* lifetime of a hold
  MaxBookings,   \* bound: reservations that are ever inserted
  MaxHolds,      \* bound: holds that are ever inserted
  MaxMoves,      \* bound: reservations that are rescheduled
  MaxTime        \* bound: the clock stops here

ASSUME ReservationsAssumption ==
  /\ None \notin Users \cup Resources \cup Procs
  /\ Children \in [Resources -> SUBSET Resources]
  /\ \A r \in Resources : r \notin Children[r] /\ \A c \in Children[r] : Children[c] = {}
  /\ ReleaseAfter \in [Resources -> Nat]
  /\ Windows \subseteq [start : Nat \ {0}, end : Nat]
  /\ \A w \in Windows : w.start < w.end
  /\ Series \subseteq Seq(Windows)
  /\ Ttl \in Nat /\ MaxBookings \in Nat /\ MaxHolds \in Nat 
  /\ MaxMoves \in Nat /\ MaxTime \in Nat

Ids == 1..MaxBookings
HoldIds == 1..MaxHolds

VARIABLES
  now,      \* clock_timestamp()
  booking,  \* booking[i]: the columns of reservation i that its shadows do not share
  rows,     \* rows[i][r]: the row of reservation i on resource r, main or shadow
  hold,     \* hold[h]: a row of reservation_holds
  op,       \* op[p]: the open transaction of task p
  due       \* what the no-show scanner has yet to mark in this round

vars == <<now, booking, rows, hold, op, due>>

-----------------------------------------------------------------------------
Blocking == {"PENDING_APPROVAL", "CONFIRMED", "CHECKED_IN"}
Ended == {"COMPLETED", "CANCELLED", "REJECTED", "NO_SHOW"}

Row == [status : Blocking \cup Ended \cup {"NONE"}, start : Nat, end : Nat]
NoRow == [status |-> "NONE", start |-> 0, end |-> 0]

Booking == [res : Resources \cup {None}, org : Users \cup {None},
            group : 0..MaxBookings, token : 0..MaxHolds,
            releaseAt : Nat, arrived : BOOLEAN, moved : BOOLEAN]
NoBooking == [res |-> None, org |-> None, group |-> 0, token |-> 0,
              releaseAt |-> 0, arrived |-> FALSE, moved |-> FALSE]

Hold == [status : {"NONE", "ACTIVE", "CONSUMED", "RELEASED"},
         res : Resources \cup {None}, user : Users \cup {None},
         start : Nat, end : Nat, expires : Nat,
         lock : Procs \cup {None}]  \* the task whose UPDATE is not committed
NoHold == [status |-> "NONE", res |-> None, user |-> None,
           start |-> 0, end |-> 0, expires |-> 0, lock |-> None]

Idle == [kind |-> "idle"]
Op == {Idle}
  \cup [kind : {"consumed", "checked"}, user : Users, res : Resources,
        windows : Seq(Windows), hold : 0..MaxHolds]
  \cup [kind : {"holding"}, user : Users, res : Resources, window : Windows]
  \cup [kind : {"releasing"}, hold : HoldIds]
  \cup [kind : {"cancelling"}, targets : SUBSET Ids]

TypeOK ==
  /\ now \in Nat
  /\ booking \in [Ids -> Booking]
  /\ rows \in [Ids -> [Resources -> Row]]
  /\ hold \in [HoldIds -> Hold]
  /\ op \in [Procs -> Op]
  /\ due \in SUBSET Ids

Init ==
  /\ now = 1
  /\ booking = [i \in Ids |-> NoBooking]
  /\ rows = [i \in Ids |-> [r \in Resources |-> NoRow]]
  /\ hold = [h \in HoldIds |-> NoHold]
  /\ op = [p \in Procs |-> Idle]
  /\ due = {}

-----------------------------------------------------------------------------
Exists(i) == booking[i].res # None
Main(i) == rows[i][booking[i].res]
Status(i) == Main(i).status
Blocks(i) == Exists(i) /\ Status(i) \in Blocking

(* The rooms that a reservation of r occupies.                             *)
Rooms(r) == {r} \cup Children[r]

Overlap(v, w) == v.start < w.end /\ w.start < v.end
Covers(v, w) == v.start <= w.start /\ w.end <= v.end

(* excl_reservations_no_overlap on the table contents rs.                  *)
Exclusive(rs) ==
  \A i, j \in Ids : i # j => \A r \in Resources :
     rs[i][r].status \in Blocking /\ rs[j][r].status \in Blocking
       => ~Overlap(rs[i][r], rs[j][r])

(* Mutant: the trigger fires on UPDATE OF status only.                     *)
SyncedStatus(i, main) ==
  [r \in Resources |->
     IF r = booking[i].res THEN main
     ELSE IF rows[i][r].status # "NONE"
     THEN [rows[i][r] EXCEPT !.status = main.status]
     ELSE rows[i][r]]

(* The rows of reservation i after an UPDATE of its main row and           *)
(* trg_sync_composition_shadows.                                           *)
Synced(i, main) ==
  [r \in Resources |->
     IF r = booking[i].res \/ rows[i][r].status # "NONE" THEN main ELSE rows[i][r]]

WithStatus(i, s) == Synced(i, [Main(i) EXCEPT !.status = s])
SetStatus(i, s) == rows' = [rows EXCEPT ![i] = WithStatus(i, s)]

(* What other transactions see of h: an uncommitted consume_hold is not    *)
(* visible to them.                                                        *)
Committed(h) == IF hold[h].lock # None THEN "ACTIVE" ELSE hold[h].status

(* Another user's live hold stands in the way of u; holds are looked up by *)
(* the resource itself, not by its parts.                                  *)
HeldByOther(u, r, w) ==
  \E h \in HoldIds :
     /\ Committed(h) = "ACTIVE" /\ hold[h].res = r /\ hold[h].user # u
     /\ hold[h].expires > now /\ Overlap(hold[h], w)

(* fms.check_resource_availability, without the rules on duration and      *)
(* booking window, blackouts and assigned desks.                           *)
Available(u, r, w) ==
  /\ now <= w.start
  /\ \A i \in Ids : \A x \in Rooms(r) :
        rows[i][x].status \in Blocking => ~Overlap(rows[i][x], w)
  /\ ~HeldByOther(u, r, w)

Goto(p, o) == op' = [op EXCEPT ![p] = o]

Unlocked(p) ==
  [h \in HoldIds |-> IF hold[h].lock = p
                     THEN [hold[h] EXCEPT !.status = "ACTIVE", !.lock = None]
                     ELSE hold[h]]

(* Mutant: an early return keeps the connection with its transaction open. *)
RollbackKeepingLock(p) ==
  /\ Goto(p, Idle)
  /\ UNCHANGED <<now, booking, rows, hold, due>>

(* The transaction of p is rolled back: its hold is ACTIVE again.          *)
Rollback(p) ==
  /\ Goto(p, Idle)
  /\ hold' = Unlocked(p)
  /\ UNCHANGED <<now, booking, rows, due>>

-----------------------------------------------------------------------------
(* POST /reservations                                                      *)

(* Mutant: SELECT the hold, check it, then UPDATE by id.                   *)
ConsumeAnyHold(p) ==
  /\ op[p] = Idle
  /\ \E h \in HoldIds, w \in Windows :
       /\ hold[h].status \in {"ACTIVE", "CONSUMED"} /\ hold[h].lock = None
       /\ hold[h].expires > now /\ Covers(hold[h], w)
       /\ hold' = [hold EXCEPT ![h].status = "CONSUMED", ![h].lock = p]
       /\ Goto(p, [kind |-> "consumed", user |-> hold[h].user, res |-> hold[h].res,
                   windows |-> <<w>>, hold |-> h])
  /\ UNCHANGED <<now, booking, rows, due>>

(* Plausible bug: a hold serves any window of its resource.                      *)
ConsumeAnyWindow(p) ==
  /\ op[p] = Idle
  /\ \E h \in HoldIds, w \in Windows :
       /\ hold[h].status = "ACTIVE" /\ hold[h].lock = None /\ hold[h].expires > now
       /\ hold' = [hold EXCEPT ![h].status = "CONSUMED", ![h].lock = p]
       /\ Goto(p, [kind |-> "consumed", user |-> hold[h].user, res |-> hold[h].res,
                   windows |-> <<w>>, hold |-> h])
  /\ UNCHANGED <<now, booking, rows, due>>

(* consume_hold for the owner of the hold.  A second consumer waits for    *)
(* the row lock and re-evaluates the condition.                            *)
ConsumeHold(p) ==
  /\ op[p] = Idle
  /\ \E h \in HoldIds, w \in Windows :
       /\ hold[h].status = "ACTIVE" /\ hold[h].lock = None
       /\ hold[h].expires > now /\ Covers(hold[h], w)
       /\ hold' = [hold EXCEPT ![h].status = "CONSUMED", ![h].lock = p]
       /\ Goto(p, [kind |-> "consumed", user |-> hold[h].user, res |-> hold[h].res,
                   windows |-> <<w>>, hold |-> h])
  /\ UNCHANGED <<now, booking, rows, due>>

(* check_all after a hold was consumed.                                    *)
CheckConsumed(p) ==
  /\ op[p].kind = "consumed"
  /\ IF \A k \in DOMAIN op[p].windows : Available(op[p].user, op[p].res, op[p].windows[k])
     THEN /\ Goto(p, [op[p] EXCEPT !.kind = "checked"])
          /\ UNCHANGED <<now, booking, rows, hold, due>>
     ELSE Rollback(p)

(* The bounded table can take len more reservations.                       *)
Room(len) ==
  \E n \in 0..MaxBookings : (\A i \in Ids : Exists(i) <=> i <= n) /\ n + len <= MaxBookings

(* check_all of a request without a hold, a single booking or a series.    *)
(* Bound: it starts only while the table has room for it.                  *)
CheckCreate(p) ==
  /\ op[p] = Idle
  /\ \E u \in Users, r \in Resources, ws \in Series :
       /\ \A k \in DOMAIN ws : Available(u, r, ws[k])
       /\ Room(Len(ws))
       /\ Goto(p, [kind |-> "checked", user |-> u, res |-> r, windows |-> ws, hold |-> 0])
  /\ UNCHANGED <<now, booking, rows, hold, due>>

(* Plausible bug: no shadow rows are inserted.                                *)
MainRowOnly(r, w) ==
  [x \in Resources |->
     IF x = r
     THEN [status |-> IF r \in NeedsApproval THEN "PENDING_APPROVAL" ELSE "CONFIRMED",
           start |-> w.start, end |-> w.end]
     ELSE NoRow]

(* repo::create for one occurrence, and trg_expand_composition_shadows.    *)
Expanded(r, w) ==
  [x \in Resources |->
     IF x \in Rooms(r)
     THEN [status |-> IF r \in NeedsApproval THEN "PENDING_APPROVAL" ELSE "CONFIRMED",
           start |-> w.start, end |-> w.end]
     ELSE NoRow]

NewBooking(o, w, group) ==
  [res |-> o.res, org |-> o.user, group |-> group, token |-> o.hold,
   releaseAt |-> IF ReleaseAfter[o.res] = 0 THEN 0 ELSE w.start + ReleaseAfter[o.res],
   arrived |-> FALSE, moved |-> FALSE]

(* The INSERTs of all occurrences and the commit; the exclusion constraint *)
(* refuses them all or none.                                               *)
Insert(p) ==
  /\ op[p].kind = "checked"
  /\ \E n \in 0..MaxBookings :
       /\ \A i \in Ids : Exists(i) <=> i <= n
       /\ LET o == op[p]
              len == Len(o.windows)
              new == (n + 1)..(n + len)
              inserted == [i \in Ids |-> IF i \in new
                                         THEN Expanded(o.res, o.windows[i - n])
                                         ELSE rows[i]]
          IN IF n + len <= MaxBookings /\ Exclusive(inserted)
             THEN /\ rows' = inserted
                  /\ booking' = [i \in Ids |->
                       IF i \in new
                       THEN NewBooking(o, o.windows[i - n], IF len = 1 THEN 0 ELSE n + 1)
                       ELSE booking[i]]
                  /\ hold' = [h \in HoldIds |-> IF hold[h].lock = p
                                                THEN [hold[h] EXCEPT !.lock = None]
                                                ELSE hold[h]]
                  /\ Goto(p, Idle)
                  /\ UNCHANGED <<now, due>>
             ELSE Rollback(p)

(* The client goes away, a statement fails, a deadlock is broken.          *)
Abort(p) == op[p].kind \in {"consumed", "checked"} /\ Rollback(p)

-----------------------------------------------------------------------------
(* POST /reservations/holds                                                *)

(* Bound: a request for a hold starts only while the table has room.       *)
CheckHold(p) ==
  /\ op[p] = Idle
  /\ \E h \in HoldIds : hold[h].status = "NONE"
  /\ \E u \in Users, r \in Resources, w \in Windows :
       /\ Available(u, r, w)
       /\ Goto(p, [kind |-> "holding", user |-> u, res |-> r, window |-> w])
  /\ UNCHANGED <<now, booking, rows, hold, due>>

(* create_hold.  excl_reservation_holds_overlap waits for a conflicting    *)
(* row that is being changed and refuses the hold if one stays ACTIVE,     *)
(* expired or not.                                                         *)
InsertHold(p) ==
  /\ op[p].kind = "holding"
  /\ LET o == op[p]
         rivals == {h \in HoldIds : hold[h].res = o.res /\ Overlap(hold[h], o.window)}
     IN /\ \A h \in rivals : hold[h].lock = None
        /\ IF \A h \in rivals : hold[h].status # "ACTIVE"
           THEN \/ \E h \in HoldIds :
                     /\ hold[h].status = "NONE"
                     /\ \A k \in 1..(h - 1) : hold[k].status # "NONE"
                     /\ hold' = [hold EXCEPT ![h] =
                          [status |-> "ACTIVE", res |-> o.res, user |-> o.user,
                           start |-> o.window.start, end |-> o.window.end,
                           expires |-> now + Ttl, lock |-> None]]
                \/ /\ \A h \in HoldIds : hold[h].status # "NONE"
                   /\ UNCHANGED hold
           ELSE UNCHANGED hold
  /\ Goto(p, Idle)
  /\ UNCHANGED <<now, booking, rows, due>>

(* DELETE /reservations/holds/{token} by its owner: the snapshot of the    *)
(* one statement is taken ...                                              *)
ReadHold(p) ==
  /\ op[p] = Idle
  /\ \E h \in HoldIds :
       /\ Committed(h) = "ACTIVE"
       /\ Goto(p, [kind |-> "releasing", hold |-> h])
  /\ UNCHANGED <<now, booking, rows, hold, due>>

(* Mutant: the release writes a status that the model of the table has not.*)
ReleaseAsExpired(p) ==
  /\ op[p].kind = "releasing"
  /\ hold[op[p].hold].lock = None
  /\ hold' = [hold EXCEPT ![op[p].hold].status = "EXPIRED"]
  /\ Goto(p, Idle)
  /\ UNCHANGED <<now, booking, rows, due>>

(* ... and its UPDATE, which waits for the row.  The status it tests is    *)
(* that of the CTE row, which is not read again.                           *)
ReleaseHold(p) ==
  /\ op[p].kind = "releasing"
  /\ hold[op[p].hold].lock = None
  /\ hold' = [hold EXCEPT ![op[p].hold].status = "RELEASED"]
  /\ Goto(p, Idle)
  /\ UNCHANGED <<now, booking, rows, due>>

-----------------------------------------------------------------------------
(* One conditional UPDATE each.                                            *)

CheckIn(i) ==
  /\ Exists(i) /\ Status(i) = "CONFIRMED"
  /\ SetStatus(i, "CHECKED_IN")
  /\ booking' = [booking EXCEPT ![i].arrived = TRUE]
  /\ UNCHANGED <<now, hold, op, due>>

CheckOut(i) ==
  /\ Exists(i) /\ Status(i) = "CHECKED_IN"
  /\ SetStatus(i, "COMPLETED")
  /\ UNCHANGED <<now, booking, hold, op, due>>

Cancel(i) ==
  /\ Exists(i) /\ Status(i) \notin Ended
  /\ SetStatus(i, "CANCELLED")
  /\ UNCHANGED <<now, booking, hold, op, due>>

Approve(i) ==
  /\ Exists(i) /\ Status(i) = "PENDING_APPROVAL"
  /\ SetStatus(i, "CONFIRMED")
  /\ UNCHANGED <<now, booking, hold, op, due>>

Reject(i) ==
  /\ Exists(i) /\ Status(i) = "PENDING_APPROVAL"
  /\ SetStatus(i, "REJECTED")
  /\ UNCHANGED <<now, booking, hold, op, due>>

(* PATCH with a new time range and the current version in If-Match.  There *)
(* is no availability check and no test of the status; the exclusion       *)
(* constraint refuses an overlap.  auto_release_at stays as it is.         *)
(* Bound: a reservation is moved once, and MaxMoves of them in all.        *)
Move(i) ==
  /\ Exists(i) /\ ~booking[i].moved
  /\ Cardinality({j \in Ids : booking[j].moved}) < MaxMoves
  /\ \E w \in Windows :
       /\ rows' = [rows EXCEPT ![i] =
            Synced(i, [Main(i) EXCEPT !.start = w.start, !.end = w.end])]
       /\ Exclusive(rows')
  /\ booking' = [booking EXCEPT ![i].moved = TRUE]
  /\ UNCHANGED <<now, hold, op, due>>

-----------------------------------------------------------------------------
(* DELETE /reservation-series/{group}: the snapshot of the one statement   *)
(* classifies the members ...                                              *)
ClassifySeries(p) ==
  /\ op[p] = Idle
  /\ \E g \in Ids :
       LET targets == {i \in Ids : booking[i].group = g /\ now < Main(i).start /\ Blocks(i)}
       IN targets # {} /\ Goto(p, [kind |-> "cancelling", targets |-> targets])
  /\ UNCHANGED <<now, booking, rows, hold, due>>

(* ... and its UPDATE goes by that classification.                         *)
CancelSeries(p) ==
  /\ op[p].kind = "cancelling"
  /\ rows' = [i \in Ids |-> IF i \in op[p].targets THEN WithStatus(i, "CANCELLED")
                                                   ELSE rows[i]]
  /\ Goto(p, Idle)
  /\ UNCHANGED <<now, booking, hold, due>>

-----------------------------------------------------------------------------
(* NoShowScanner                                                           *)

Overdue(i) ==
  /\ Exists(i) /\ Status(i) = "CONFIRMED" /\ ~booking[i].arrived
  /\ booking[i].releaseAt # 0 /\ booking[i].releaseAt <= now

(* Mutant: the scanner connects as fms_app; row security hides all rows.   *)
ScanAsApp == due = {} /\ UNCHANGED vars

Scan ==
  /\ due = {}
  /\ due' = {i \in Ids : Overdue(i)}
  /\ due' # {}
  /\ UNCHANGED <<now, booking, rows, hold, op>>

(* mark_no_show repeats the condition of the scan.                         *)
MarkNoShow(i) ==
  /\ i \in due
  /\ due' = due \ {i}
  /\ IF Overdue(i) THEN SetStatus(i, "NO_SHOW") ELSE UNCHANGED rows
  /\ UNCHANGED <<now, booking, hold, op>>

(* The database is not reachable: the round ends, the next one starts over.*)
ScanFails ==
  /\ due # {}
  /\ due' = {}
  /\ UNCHANGED <<now, booking, rows, hold, op>>

Tick ==
  /\ now < MaxTime
  /\ now' = now + 1
  /\ UNCHANGED <<booking, rows, hold, op, due>>

-----------------------------------------------------------------------------
Begin(p) ==
  ConsumeHold(p) \/ CheckCreate(p) \/ CheckHold(p) \/ ReadHold(p) \/ ClassifySeries(p)
Proceed(p) ==
  CheckConsumed(p) \/ Insert(p) \/ InsertHold(p) \/ ReleaseHold(p) \/ CancelSeries(p)
Change(i) == CheckIn(i) \/ CheckOut(i) \/ Cancel(i) \/ Approve(i) \/ Reject(i) \/ Move(i)

Next ==
  \/ \E p \in Procs : Begin(p) \/ Proceed(p) \/ Abort(p)
  \/ \E i \in Ids : Change(i) \/ MarkNoShow(i)
  \/ Scan \/ ScanFails \/ Tick

Spec == Init /\ [][Next]_vars

(* Lock waits are queued, so a task that waits for a row gets it in the    *)
(* end; the scanner loop goes on, and it is not cut off in every round.    *)
Fairness ==
  /\ \A p \in Procs : SF_vars(Proceed(p))
  /\ WF_vars(Scan)
  /\ \A i \in Ids : SF_vars(MarkNoShow(i))

FairSpec == Spec /\ Fairness

-----------------------------------------------------------------------------
(* Two reservations that occupy a common room never overlap, whether they  *)
(* are of that room, of a combined room that contains it, or of two such,  *)
(* and whatever was approved, moved or cancelled since.                    *)
RoomsExclusive ==
  \A i, j \in Ids :
     i # j /\ Blocks(i) /\ Blocks(j)
           /\ Rooms(booking[i].res) \cap Rooms(booking[j].res) # {}
       => ~Overlap(Main(i), Main(j))

(* A reservation has one row on each of its rooms and on no other, and all *)
(* have the status and the time range of the main row.                     *)
ShadowsFollow ==
  \A i \in Ids : \A r \in Resources :
     rows[i][r] = IF Exists(i) /\ r \in Rooms(booking[i].res) THEN Main(i) ELSE NoRow

(* A reservation that gave its slot back never blocks it again: neither a  *)
(* late approval nor a step on a stale reading brings it back.             *)
FreedStaysFreed ==
  [][\A i \in Ids : Exists(i) /\ Status(i) \in Ended => Status(i)' \in Ended]_vars

(* Who checked in, even while the scanner was at work, is no no-show.      *)
NoShowIsAbsent ==
  \A i \in Ids : Exists(i) /\ Status(i) = "NO_SHOW" =>
     ~booking[i].arrived /\ booking[i].releaseAt <= now

(* Nobody loses a slot: neither to another reservation nor to a scanner    *)
(* that works from an older reading.                                       *)
SlotsAreSafe == RoomsExclusive /\ NoShowIsAbsent

(* A hold is turned into one reservation at most, of its owner and of its  *)
(* resource, however many requests present its token at once.              *)
HoldServesOneBooking ==
  \A i \in Ids : booking[i].token # 0 =>
     /\ hold[booking[i].token].user = booking[i].org
     /\ hold[booking[i].token].res = booking[i].res
     /\ \A j \in Ids : booking[j].token = booking[i].token => j = i

(* A hold is used up only by a reservation that exists: a creation that    *)
(* failed gave it back.                                                    *)
ConsumedHasBooking ==
  \A h \in HoldIds : hold[h].status = "CONSUMED" /\ hold[h].lock = None =>
     \E i \in Ids : booking[i].token = h

(* A hold is spent once: on one reservation of its owner, and on none that *)
(* was not made.                                                           *)
HoldIsSpentOnce == HoldServesOneBooking /\ ConsumedHasBooking

(* A reservation that is overdue does not keep its slot.                   *)
OverdueIsReleased == \A i \in Ids : Overdue(i) ~> ~Overdue(i)

(* No request waits for ever on the row locks of others.                   *)
RequestsReturn == \A p \in Procs : op[p] # Idle ~> op[p] = Idle

(* Once a hold has become a reservation it is CONSUMED for good, and a     *)
(* release of it is refused.                                               *)
UsedHoldStaysConsumed ==
  \A i \in Ids : booking[i].token # 0 => hold[booking[i].token].status = "CONSUMED"

-----------------------------------------------------------------------------
(* Reservations implement the ledger of RoomLedger: an existing reservation is   *)
(* a slot, taken while it blocks; a hold is a ticket, spent once a committed     *)
(* reservation has it, whatever a late release writes into its status.         *)
TakenBy(i) ==
  [state |-> "taken", user |-> booking[i].org, rooms |-> Rooms(booking[i].res),
   start |-> Main(i).start, end |-> Main(i).end]
SlotOf(i) ==
  IF ~Exists(i) THEN [state |-> "none"]
  ELSE IF Blocks(i) THEN TakenBy(i)
  ELSE [state |-> "freed"]

Served(h) == \E i \in Ids : booking[i].token = h
StateOf(h) ==
  IF Served(h) THEN "spent" ELSE IF hold[h].status = "RELEASED" THEN "dropped" ELSE "live"
TicketOf(h) ==
  IF hold[h].status = "NONE" THEN [state |-> "none"]
  ELSE [state |-> StateOf(h), user |-> hold[h].user, res |-> hold[h].res,
        start |-> hold[h].start, end |-> hold[h].end]

Ledger == INSTANCE RoomLedger WITH
            RoomsOf <- [r \in Resources |-> Rooms(r)],
            slot <- [i \in Ids |-> SlotOf(i)],
            ticket <- [h \in HoldIds |-> TicketOf(h)]

ImplementsLedger == Ledger!Spec
=============================================================================
