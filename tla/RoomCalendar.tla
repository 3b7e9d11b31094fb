------------------------------- MODULE RoomCalendar -------------------------------
(***************************************************************************)
(* When a room is taken: what GET availability shows, what a booking is       *)
(* checked against, and what a manager is told who closes it.  All three read   *)
(* without locks; only bookings among themselves meet a constraint.  Settings   *)
(* and equipment of a room are changed beside them.                          *)
(*                                                                         *)
(* Every caller makes one request and may undo or move what it has written.    *)
(* The life of a booking and of a hold is in Reservations.                    *)
(***************************************************************************)
EXTENDS Naturals, FiniteSets

CONSTANTS
  Callers,     \* each is a user with one request
  Asks,        \* bound: Asks[c]: the kinds of which that request may be
  Rooms,
  PartsOf,     \* PartsOf[r]: the rooms that r combines
  Capacity,    \* Capacity[r]: of bookable_resources
  Everywhere,  \* a closure without a room: of the whole facility
  ListLimit,   \* rows that the list of a closure has at most
  LastSlot,    \* bound: instants of the day
  Equipment,
  MaxSettings  \* bound: PATCHes of rooms

ASSUME CalendarAssumption ==
  /\ \A r \in Rooms : PartsOf[r] \subseteq Rooms \ {r} /\ Capacity[r] \in Nat \ {0}
  /\ IsFiniteSet(Callers) /\ IsFiniteSet(Rooms) /\ ListLimit \in Nat \ {0}
  /\ Everywhere \notin Rooms /\ LastSlot \in Nat \ {0} /\ MaxSettings \in Nat

VARIABLES
  room,        \* room[r]: its settings and its equipment
  open,        \* open[c]: the open request of a caller
  entry,       \* entry[c]: what its request has written
  patched      \* how many of MaxSettings have been made

roomVars == <<room, open, entry, patched>>

Slots == 1..LastSlot
Spans == {s \in [from : Slots, to : Slots] : s.from <= s.to}
(* before: history, the callers who had written when a request read;          *)
(* told: the rows of bookings that the answer to a closure lists.              *)
Requests ==
  [kind : {"booking", "hold", "lapsed", "closure"}, place : Rooms \cup {Everywhere},
   from : Slots, to : Slots, told : SUBSET (Callers \X Rooms), before : SUBSET Callers, moved : BOOLEAN]
EquipmentPuts ==
  [kind : {"list"}, place : Rooms, wants : SUBSET Equipment, saw : SUBSET (Equipment \X Callers),
   before : SUBSET Callers]
Idle == [kind |-> "idle"]
Undone == [kind |-> "undone"]

RoomTypeOK ==
  /\ \A r \in Rooms : /\ room[r].bookable \in BOOLEAN /\ room[r].shortest \in Slots
                      /\ room[r].longest \in Slots /\ room[r].shortest <= room[r].longest
                      /\ room[r].with \subseteq Equipment \X Callers
  /\ \A c \in Callers : /\ open[c] \in {Idle} \cup Requests \cup EquipmentPuts
                        /\ entry[c] \in {Idle, Undone} \cup Requests \cup EquipmentPuts
  /\ patched \in 0..MaxSettings

RoomInit ==
  /\ room = [r \in Rooms |->
       [bookable |-> TRUE, shortest |-> 1, longest |-> LastSlot, with |-> {}]]
  /\ open = [c \in Callers |-> Idle] /\ entry \in [Callers -> {Idle, Undone}]
  /\ patched \in 0..MaxSettings

-----------------------------------------------------------------------------
(* What is committed, as a statement sees it                                  *)
WrittenAs(kinds) == {c \in Callers : entry[c].kind \in kinds}
Meet(x, y) == x.from <= y.to /\ y.from <= x.to
WithParts(r) == {r} \cup PartsOf[r]

(* A booking of a combined room has shadow rows, one for each part.             *)
Taken(r, x) == {c \in WrittenAs({"booking"}) : r \in WithParts(entry[c].place) /\ Meet(entry[c], x)}
Closed(r, x) == {c \in WrittenAs({"closure"}) : entry[c].place \in {r, Everywhere} /\ Meet(entry[c], x)}
Held(r, x) == {c \in WrittenAs({"hold"}) : entry[c].place = r /\ Meet(entry[c], x)}

(* fms.check_resource_availability, by which a booking and a hold are judged:    *)
(* closures and holds of the room itself, bookings also of its parts.           *)
Passes(c, x) ==
  LET set == room[x.place] IN
  /\ set.bookable /\ x.to - x.from + 1 \in set.shortest..set.longest
  /\ Closed(x.place, x) = {}
  /\ Cardinality({e \in Callers \X WithParts(x.place) : e[1] \in Taken(e[2], x)}) < Capacity[x.place]
  /\ Held(x.place, x) \subseteq {c}

(* excl_reservations_no_overlap, for the row and its shadows; a hold's          *)
(* constraint knows nothing of its expiry.                                    *)
Fits(c, x) == \A r \in WithParts(x.place) : Taken(r, x) \subseteq {c}
HoldFits(x) ==
  \A d \in WrittenAs({"hold", "lapsed"}) : entry[d].place # x.place \/ ~Meet(entry[d], x)

(* Plausible bug: the shadow rows are left out.                               *)
OwnConflicts(x) ==
  {row \in Callers \X Rooms :
     /\ entry[row[1]].kind = "booking" /\ row[2] = entry[row[1]].place
     /\ x.place \in {Everywhere, row[2]} /\ Meet(entry[row[1]], x)}

(* The rows of bookings that a closure would meet, shadow rows among them.       *)
Conflicts(x) ==
  {row \in Callers \X Rooms :
     /\ entry[row[1]].kind = "booking" /\ row[2] \in WithParts(entry[row[1]].place)
     /\ x.place \in {Everywhere, row[2]} /\ Meet(entry[row[1]], x)}

(* What SELECT .. ORDER BY start_at LIMIT answers of them.                       *)
Listings(x) ==
  LET rows == Conflicts(x) IN
  IF Cardinality(rows) <= ListLimit THEN {rows}
  ELSE {first \in SUBSET rows :
          /\ Cardinality(first) = ListLimit
          /\ \A row \in first, other \in rows \ first : entry[row[1]].from <= entry[other[1]].from}

(* GET availability: the blocks of a bookable room, and the slots between them.  *)
Busy(r, x) == Taken(r, x) \cup Held(r, x) \cup Closed(r, x)
Slot(n) == [from |-> n, to |-> n]
Offered(r) == {n \in Slots : room[r].bookable /\ Busy(r, Slot(n)) = {}}

-----------------------------------------------------------------------------
Unused(c) == open[c] = Idle /\ entry[c] = Idle
Begin(c, x) == open' = [open EXCEPT ![c] = x] /\ UNCHANGED <<room, entry, patched>>
Answer(c) == open' = [open EXCEPT ![c] = Idle] /\ UNCHANGED <<room, patched>>
Asking(kind, place, span) ==
  [kind |-> kind, place |-> place, from |-> span.from, to |-> span.to, told |-> {},
   before |-> Callers \ WrittenAs({"idle"}), moved |-> FALSE]

(* POST /reservations, POST /reservations/holds: judged first, written later.    *)
BeginBooking(c) ==
  \E kind \in {"booking", "hold"} \cap Asks[c], r \in Rooms, span \in Spans :
    LET x == Asking(kind, r, span) IN Unused(c) /\ Passes(c, x) /\ Begin(c, x)
FinishBooking(c) ==
  /\ open[c].kind \in {"booking", "hold"}
  /\ Answer(c)
  /\ entry' = IF IF open[c].kind = "booking" THEN Fits(c, open[c]) ELSE HoldFits(open[c])
            THEN [entry EXCEPT ![c] = open[c]] ELSE entry

(* POST /resource-blackouts: with conflicts only if they are acknowledged, and    *)
(* then they are listed in the answer.  No booking is cancelled.               *)
BeginClosure(c) ==
  \E place \in Rooms \cup {Everywhere}, span \in Spans, acknowledged \in BOOLEAN :
    LET x == Asking("closure", place, span) IN
    /\ "closure" \in Asks[c] /\ Unused(c)
    /\ \E listing \in Listings(x) :
         (listing # {} => acknowledged) /\ Begin(c, [x EXCEPT !.told = listing])
FinishClosure(c) ==
  open[c].kind = "closure" /\ Answer(c) /\ entry' = [entry EXCEPT ![c] = open[c]]

(* PUT amenities: DELETE takes the rows it sees, INSERT meets those it did not.   *)
BeginList(c) ==
  \E r \in Rooms, wants \in SUBSET Equipment :
    /\ "list" \in Asks[c] /\ Unused(c)
    /\ Begin(c, [kind |-> "list", place |-> r, wants |-> wants, saw |-> room[r].with,
                 before |-> Callers \ WrittenAs({"idle"})])
FinishList(c) ==
  LET q == open[c]
      left == room[q.place].with \ q.saw IN
  /\ q.kind = "list"
  /\ open' = [open EXCEPT ![c] = Idle] /\ UNCHANGED patched
  /\ IF \E e \in left : e[1] \in q.wants THEN UNCHANGED <<room, entry>>
     ELSE /\ room' = [room EXCEPT ![q.place].with = left \cup (q.wants \X {c})]
          /\ entry' = [entry EXCEPT ![c] = q]

Lose(c) == open[c] # Idle /\ Answer(c) /\ UNCHANGED entry

-----------------------------------------------------------------------------
Rewrite(c, new) == entry' = [entry EXCEPT ![c] = new] /\ UNCHANGED <<room, open, patched>>

(* PATCH /reservations: another time, against the constraint only.             *)
Move(c) ==
  \E span \in Spans :
    LET new == [entry[c] EXCEPT !.from = span.from, !.to = span.to, !.moved = TRUE] IN
    entry[c].kind = "booking" /\ Fits(c, new) /\ Rewrite(c, new)

(* A booking is cancelled, a hold released; or the hold's time is over.          *)
Undo(c) == entry[c].kind \in {"booking", "hold", "lapsed"} /\ Rewrite(c, Undone)
Lapse(c) == entry[c].kind = "hold" /\ Rewrite(c, [entry[c] EXCEPT !.kind = "lapsed"])

(* Plausible bug: the two lengths are not compared.                            *)
PatchRoomAnyhow(r) ==
  /\ patched < MaxSettings /\ patched' = patched + 1
  /\ \E b \in BOOLEAN, short, long \in Slots :
       room' = [room EXCEPT ![r].bookable = b, ![r].shortest = short, ![r].longest = long]
  /\ UNCHANGED <<open, entry>>

(* PATCH /bookable-resources: fields by coalesce, each in its range; the row must  *)
(* pass ck_bookable_duration.                                                 *)
PatchRoom(r) ==
  /\ patched < MaxSettings /\ patched' = patched + 1
  /\ \E b \in BOOLEAN, short, long \in Slots :
       /\ short <= long
       /\ room' = [room EXCEPT ![r].bookable = b, ![r].shortest = short, ![r].longest = long]
  /\ UNCHANGED <<open, entry>>

RoomNext ==
  \/ \E c \in Callers :
       \/ BeginBooking(c) \/ FinishBooking(c) \/ BeginClosure(c) \/ FinishClosure(c)
       \/ BeginList(c) \/ FinishList(c) \/ Lose(c) \/ Move(c) \/ Undo(c) \/ Lapse(c)
  \/ \E r \in Rooms : PatchRoom(r)

RoomSpec == RoomInit /\ [][RoomNext]_roomVars

-----------------------------------------------------------------------------
Shuts(k, b) ==
  /\ Meet(entry[b], entry[k])
  /\ entry[k].place \in {Everywhere, entry[b].place} \cup PartsOf[entry[b].place]
Crossed(c, d) == c \notin entry[d].before /\ d \notin entry[c].before

(* The list of a closure ended before a booking: it was full, and what is still    *)
(* where it was then begins no later.                                           *)
Told(x, b) == \E r \in Rooms : <<b, r>> \in x.told
OffTheList(x, b) ==
  /\ Cardinality(x.told) = ListLimit
  /\ \A row \in x.told :
       entry[row[1]].kind = "booking" /\ ~entry[row[1]].moved =>
         entry[row[1]].from <= entry[b].from

(* A closed room with a live booking: the manager was told of it, or of as many      *)
(* others as the list has, none of which begins later.  Excepted are requests that   *)
(* crossed, bookings that were moved there, and closures of a part before the        *)
(* combined room was booked.                                                  *)
NoSilentClosure ==
  \A b \in WrittenAs({"booking"}), k \in WrittenAs({"closure"}) :
    Shuts(k, b) =>
      \/ Told(entry[k], b) \/ OffTheList(entry[k], b)
      \/ entry[b].moved
      \/ Crossed(b, k)
      \/ k \in entry[b].before /\ entry[k].place \in PartsOf[entry[b].place]

(* What the calendar offers of a single room a booking gets, within the rules    *)
(* that the calendar shows.                                                   *)
OffersAreAccepted ==
  \A r \in Rooms : \A n \in Offered(r), c \in Callers :
    LET x == Asking("booking", r, Slot(n)) IN
    PartsOf[r] = {} /\ 1 \in room[r].shortest..room[r].longest => Passes(c, x) /\ Fits(c, x)

(* The equipment of a room is one caller's list, unless two PUTs crossed.         *)
EquipmentIsOneList ==
  \A r \in Rooms : \A e, f \in room[r].with : e[2] = f[2] \/ Crossed(e[2], f[2])

(* What a room's calendar says, what it is closed for and what it is equipped with.  *)
CalendarIsSound == NoSilentClosure /\ OffersAreAccepted /\ EquipmentIsOneList

(* Violated: no closure is made without telling of a booking it meets            *)
(* (blackouts.rs:227).                                                       *)
ClosuresAreTold ==
  \A b \in WrittenAs({"booking"}), k \in WrittenAs({"closure"}) :
    Shuts(k, b) /\ ~entry[b].moved => Told(entry[k], b) \/ k \in entry[b].before

(* Violated: nobody books what is closed, as a part or by moving a booking.       *)
ClosedIsClosed ==
  \A b \in WrittenAs({"booking"}), k \in WrittenAs({"closure"}) :
    Shuts(k, b) => k \notin entry[b].before /\ ~entry[b].moved

(* Violated: what the calendar offers of a combined room a booking gets.          *)
OffersOfAll ==
  \A r \in Rooms, c \in Callers : \A n \in Offered(r) :
    1 \in room[r].shortest..room[r].longest => Passes(c, Asking("booking", r, Slot(n)))

(* Violated: PUT replaces the whole list (comment in tail.rs:579).             *)
ListIsReplaced == \A r \in Rooms : \A e, f \in room[r].with : e[2] = f[2]
=============================================================================
