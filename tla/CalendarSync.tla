------------------------------ MODULE CalendarSync ------------------------------
(***************************************************************************)
(* fms-calendar: one room and its external calendar.  The push handler, run  *)
(* by the outbox relay, creates and deletes external events for reservations *)
(* made here; the watchdog pulls what changed since its delta token and      *)
(* mirrors events that were made there.  External calls are made inside      *)
(* database transactions that may still be lost; a reservation's row is read *)
(* without a lock; active reservations of one slot exclude each other.       *)
(***************************************************************************)
EXTENDS Naturals, FiniteSets

CONSTANTS
  Own,         \* reservations made here
  Natives,     \* events that people make in the external calendar
  Slots,       \* times, one per reservation
  Pushers,     \* relay tasks that deliver reservation events
  Pullers,     \* processes that run the watchdog
  MaxFaults,   \* bound: failing calls and dying processes
  MaxEdits     \* bound: changes by people, here and there

Bookings == Own \cup Natives
Copies == Own \X (1..(MaxFaults + 1))  \* events created for reservations
Original(x) == <<x, 0>>                \* a native event's id
Originals == {Original(x) : x \in Natives}
Entries == Originals \cup Copies
NoEntry == <<"NONE", 0>>

ASSUME CalendarAssumption ==
  /\ MaxFaults \in Nat /\ MaxEdits \in Nat
  /\ Own \cap Natives = {} /\ "NONE" \notin Bookings

VARIABLES
  booking,    \* booking[b]: state, slot and external_event_id of a reservation
  entry,      \* entry[i]: an event of the external calendar and when it last changed
  deltaToken,  \* delta_token: the change up to which events were fetched
  conflicts,  \* calendar_sync_conflicts: <<reservation, external event>>
  outbox,     \* outbox[r]: reservation events the relay has still to deliver
  delayed,    \* reservations whose confirmed event failed and waits for its retry
  push,       \* push[w]: the open transaction of the push handler
  pull,       \* pull[w]: the open transaction of the watchdog
  faults, edits

calVars == <<booking, entry, deltaToken, conflicts, outbox, delayed, push, pull, faults, edits>>

Quiet == [step |-> "idle", of |-> "NONE", kind |-> "NONE", ext |-> NoEntry, slot |-> 0]
Off == [step |-> "off", page |-> <<>>, next |-> 0, todo |-> {}, mine |-> <<>>,
        notes |-> {}, at |-> NoEntry]

CalTypeOK ==
  /\ booking \in [Bookings -> [state : {"none", "active", "ended"}, slot : Slots \cup {0},
                               ext : Entries \cup {NoEntry}]]
  /\ entry \in [Entries -> [state : {"none", "live", "gone"}, slot : Slots \cup {0}, rev : Nat]]
  /\ deltaToken \in Nat
  /\ conflicts \subseteq Bookings \X Entries
  /\ outbox \in [Own -> SUBSET {"confirmed", "cancelled"}]
  /\ delayed \subseteq Own
  /\ \A w \in Pushers : push[w].step \in {"idle", "read", "called", "saved"}
  /\ \A w \in Pullers :
       /\ pull[w].step \in {"off", "on", "collided"}
       /\ pull[w].todo \subseteq DOMAIN pull[w].page
       /\ DOMAIN pull[w].mine \subseteq Bookings
  /\ faults \in 0..MaxFaults /\ edits \in 0..MaxEdits

CalInit ==
  /\ booking = [b \in Bookings |-> [state |-> "none", slot |-> 0, ext |-> NoEntry]]
  /\ entry = [i \in Entries |-> [state |-> "none", slot |-> 0, rev |-> 0]]
  /\ deltaToken = 0 /\ conflicts = {} /\ delayed = {}
  /\ outbox = [r \in Own |-> {}]
  /\ push = [w \in Pushers |-> Quiet]
  /\ pull = [w \in Pullers |-> Off]
  /\ faults = 0 /\ edits = 0

Fault == faults < MaxFaults /\ faults' = faults + 1
Edit == edits < MaxEdits /\ edits' = edits + 1

-----------------------------------------------------------------------------
(* Reservations made here                                                     *)

Written(w, b) == b \in DOMAIN pull[w].mine
Untouched(b) == \A w \in Pullers : ~Written(w, b)
Claims(w, s) == \E b \in DOMAIN pull[w].mine : pull[w].mine[b].state = "active"
                                             /\ pull[w].mine[b].slot = s
(* excl_reservations_no_overlap; an uncommitted row is waited for.             *)
FreeSlot(s) ==
  /\ \A b \in Bookings : ~(booking[b].state = "active" /\ booking[b].slot = s)
  /\ \A w \in Pullers : ~Claims(w, s)

Book(r, s) ==
  /\ booking[r].state = "none" /\ FreeSlot(s)
  /\ booking' = [booking EXCEPT ![r].state = "active", ![r].slot = s]
  /\ outbox' = [outbox EXCEPT ![r] = {"confirmed"}]
  /\ UNCHANGED <<entry, deltaToken, conflicts, delayed, push, pull, faults, edits>>

(* Cancelling emits reservation.cancelled, rescheduling emits nothing.          *)
CancelBooking(r) ==
  /\ booking[r].state = "active" /\ Untouched(r)
  /\ booking' = [booking EXCEPT ![r].state = "ended"]
  /\ outbox' = [outbox EXCEPT ![r] = @ \cup {"cancelled"}]
  /\ UNCHANGED <<entry, deltaToken, conflicts, delayed, push, pull, faults, edits>>

Reschedule(r, s) ==
  /\ booking[r].state = "active" /\ Untouched(r) /\ FreeSlot(s)
  /\ booking' = [booking EXCEPT ![r].slot = s]
  /\ Edit
  /\ UNCHANGED <<entry, deltaToken, conflicts, outbox, delayed, push, pull, faults>>

-----------------------------------------------------------------------------
(* The external calendar                                                       *)

Clock == CHOOSE n \in {entry[i].rev : i \in Entries} : \A i \in Entries : entry[i].rev <= n
Changed(i, state, slot) ==
  entry' = [entry EXCEPT ![i] = [state |-> state, slot |-> slot, rev |-> Clock + 1]]

CreateThere(x, s) ==
  /\ entry[Original(x)].state = "none"
  /\ Changed(Original(x), "live", s) /\ Edit
  /\ UNCHANGED <<booking, deltaToken, conflicts, outbox, delayed, push, pull, faults>>

MoveThere(i, s) ==
  /\ entry[i].state = "live" /\ entry[i].slot # s
  /\ Changed(i, "live", s) /\ Edit
  /\ UNCHANGED <<booking, deltaToken, conflicts, outbox, delayed, push, pull, faults>>

DeleteThere(i) ==
  /\ entry[i].state = "live"
  /\ Changed(i, "gone", 0) /\ Edit
  /\ UNCHANGED <<booking, deltaToken, conflicts, outbox, delayed, push, pull, faults>>

-----------------------------------------------------------------------------
(* CalendarPushHandler::handle_inner                                           *)

Busy(k, r) == \E w \in Pushers : push[w].step # "idle" /\ push[w].of = r /\ push[w].kind = k

(* Events of one reservation come in order, unless the first one is waiting     *)
(* for a retry or another relay task is busy with it.                          *)
ReadBooking(w, k, r) ==
  /\ push[w] = Quiet /\ k \in outbox[r] /\ ~Busy(k, r)
  /\ k = "cancelled" /\ "confirmed" \in outbox[r] => r \in delayed \/ Busy("confirmed", r)
  /\ push' = [push EXCEPT ![w] = [step |-> "read", of |-> r, kind |-> k,
                                  ext |-> booking[r].ext, slot |-> booking[r].slot]]
  /\ UNCHANGED <<booking, entry, deltaToken, conflicts, outbox, delayed, pull, faults, edits>>

NewCopy(r) == CHOOSE c \in Copies : c[1] = r /\ entry[c].state = "none"
  /\ \A d \in Copies : d[1] = r /\ entry[d].state = "none" => c[2] <= d[2]

(* Plausible bug: external_event_id is not looked at.                           *)
CreateEventAgain(w) ==
  /\ push[w].step = "read" /\ push[w].kind = "confirmed"
  /\ \E c \in Copies : c[1] = push[w].of /\ entry[c].state = "none"
  /\ LET c == NewCopy(push[w].of) IN
       /\ Changed(c, "live", push[w].slot)
       /\ push' = [push EXCEPT ![w].step = "called", ![w].ext = c]
  /\ UNCHANGED <<booking, deltaToken, conflicts, outbox, delayed, pull, faults, edits>>
(* create_event for a reservation that has no external event yet                *)
CreateEvent(w) ==
  /\ push[w].step = "read" /\ push[w].kind = "confirmed" /\ push[w].ext = NoEntry
  /\ LET c == NewCopy(push[w].of) IN
       /\ Changed(c, "live", push[w].slot)
       /\ push' = [push EXCEPT ![w].step = "called", ![w].ext = c]
  /\ UNCHANGED <<booking, deltaToken, conflicts, outbox, delayed, pull, faults, edits>>

(* cancel_event; an event that is gone already is answered with an error        *)
CancelEvent(w) ==
  /\ push[w].step = "read" /\ push[w].kind = "cancelled" /\ push[w].ext # NoEntry
  /\ entry[push[w].ext].state = "live"
  /\ Changed(push[w].ext, "gone", 0)
  /\ push' = [push EXCEPT ![w].step = "called"]
  /\ UNCHANGED <<booking, deltaToken, conflicts, outbox, delayed, pull, faults, edits>>

NothingToDo(w) ==
  /\ push[w].step = "read"
  /\ (push[w].kind = "confirmed") = (push[w].ext # NoEntry)
  /\ push' = [push EXCEPT ![w].step = "saved"]
  /\ UNCHANGED <<booking, entry, deltaToken, conflicts, outbox, delayed, pull, faults, edits>>

SaveEventId(w) ==
  /\ push[w].step = "called" /\ Untouched(push[w].of)
  /\ booking' = IF push[w].kind = "confirmed"
                THEN [booking EXCEPT ![push[w].of].ext = push[w].ext] ELSE booking
  /\ push' = [push EXCEPT ![w].step = "saved"]
  /\ UNCHANGED <<entry, deltaToken, conflicts, outbox, delayed, pull, faults, edits>>

Published(w) ==
  /\ push[w].step = "saved"
  /\ outbox' = [outbox EXCEPT ![push[w].of] = @ \ {push[w].kind}]
  /\ delayed' = IF push[w].kind = "confirmed" THEN delayed \ {push[w].of} ELSE delayed
  /\ push' = [push EXCEPT ![w] = Quiet]
  /\ UNCHANGED <<booking, entry, deltaToken, conflicts, pull, faults, edits>>

(* The call or the commit fails and the event is retried later, or the process   *)
(* dies and the event is where it was; what was done there stays.              *)
PushFails(w) ==
  /\ push[w].step \in {"read", "called"}
  /\ delayed' = IF push[w].kind = "confirmed" THEN delayed \cup {push[w].of} ELSE delayed
  /\ push' = [push EXCEPT ![w] = Quiet]
  /\ Fault
  /\ UNCHANGED <<booking, entry, deltaToken, conflicts, outbox, pull, edits>>
PushDies(w) ==
  /\ push[w].step # "idle"
  /\ push' = [push EXCEPT ![w] = Quiet]
  /\ Fault
  /\ UNCHANGED <<booking, entry, deltaToken, conflicts, outbox, delayed, pull, edits>>

-----------------------------------------------------------------------------
(* CalendarSyncWatchdog::sync_one                                              *)

(* Plausible bug: deleted events are filtered out of the delta.                 *)
FetchLive(w) ==
  /\ pull[w].step = "off"
  /\ LET news == {i \in Entries : entry[i].rev > deltaToken /\ entry[i].state = "live"} IN
       /\ news # {}
       /\ pull' = [pull EXCEPT ![w] = [Off EXCEPT !.step = "on", !.todo = news, !.next = Clock,
                                       !.page = [i \in news |-> entry[i]]]]
  /\ UNCHANGED <<booking, entry, deltaToken, conflicts, outbox, delayed, push, faults, edits>>
Fetch(w) ==
  /\ pull[w].step = "off"
  /\ LET news == {i \in Entries : entry[i].rev > deltaToken} IN
       /\ news # {}  \* a round that finds nothing changes nothing
       /\ pull' = [pull EXCEPT ![w] = [Off EXCEPT !.step = "on", !.todo = news, !.next = Clock,
                                       !.page = [i \in news |-> entry[i]]]]
  /\ UNCHANGED <<booking, entry, deltaToken, conflicts, outbox, delayed, push, faults, edits>>

(* What the transaction sees: committed rows and its own.                       *)
View(w, b) == IF Written(w, b) THEN pull[w].mine[b] ELSE booking[b]
Blockers(w, s) == {b \in Bookings : View(w, b).state = "active" /\ View(w, b).slot = s}
Go(w, i) == pull' = [pull EXCEPT ![w].todo = @ \ {i}]
Write(w, i, b, r) ==
  pull' = [pull EXCEPT ![w].todo = @ \ {i},
             ![w].mine = [c \in DOMAIN @ \cup {b} |-> IF c = b THEN r ELSE @[c]]]
ReportConflict(w, i, b) ==
  pull' = [pull EXCEPT ![w].todo = @ \ {i}, ![w].notes = @ \cup {<<b, i>>},
                       ![w].step = "on", ![w].at = NoEntry]
CalRest == UNCHANGED <<booking, entry, deltaToken, conflicts, outbox, delayed, push, faults, edits>>

Pending(w, i) == pull[w].step = "on" /\ i \in pull[w].todo
Seen(w, i) == pull[w].page[i]

(* An event with our tag that still exists: compare, report, change nothing.     *)
Echo(w, i) ==
  /\ Pending(w, i) /\ i \in Copies /\ Seen(w, i).state = "live"
  /\ IF Seen(w, i).slot = View(w, i[1]).slot THEN Go(w, i) ELSE ReportConflict(w, i, i[1])
  /\ CalRest

(* A deleted event comes with its id only, without our tag: the row that has      *)
(* this external_event_id is cancelled.                                         *)
Mirror(w, i) == {b \in Bookings : View(w, b).ext = i}
Deleted(w, i) ==
  /\ Pending(w, i) /\ Seen(w, i).state = "gone"
  /\ \/ /\ \A b \in Mirror(w, i) : View(w, b).state # "active"
        /\ Go(w, i)
     \/ \E b \in Mirror(w, i) :
        /\ View(w, b).state = "active" /\ \A v \in Pullers \ {w} : ~Written(v, b)
        /\ Write(w, i, b, [View(w, b) EXCEPT !.state = "ended"])
  /\ CalRest

(* Moved: the row is updated, and an overlap fails the whole transaction.         *)
Lives(w, x) == Pending(w, Original(x)) /\ Seen(w, Original(x)).state = "live"
SlotOf(w, x) == Seen(w, Original(x)).slot
NoWait(w, x) == \A v \in Pullers \ {w} : ~Written(v, x) /\ ~Claims(v, SlotOf(w, x))
Moved(w, x) ==
  /\ Lives(w, x) /\ View(w, x).state # "none" /\ NoWait(w, x)
  /\ IF View(w, x).state = "active" /\ Blockers(w, SlotOf(w, x)) \ {x} # {}
     THEN pull' = [pull EXCEPT ![w] = Off]
     ELSE Write(w, Original(x), x, [View(w, x) EXCEPT !.slot = SlotOf(w, x)])
  /\ CalRest

(* New: insert a row under a savepoint; an overlap is looked into by a second      *)
(* statement.                                                                   *)
Import(w, x) ==
  /\ Lives(w, x) /\ View(w, x).state = "none" /\ NoWait(w, x)
  /\ IF Blockers(w, SlotOf(w, x)) = {}
     THEN Write(w, Original(x), x,
                [state |-> "active", slot |-> SlotOf(w, x), ext |-> Original(x)])
     ELSE pull' = [pull EXCEPT ![w].step = "collided", ![w].at = Original(x)]
  /\ CalRest

Attribute(w) ==
  /\ pull[w].step = "collided"
  /\ LET i == pull[w].at
         found == Blockers(w, Seen(w, i).slot)
     IN \/ \E b \in found : ReportConflict(w, i, b)
        \/ /\ found = {}
           /\ pull' = [pull EXCEPT ![w].todo = @ \ {i}, ![w].step = "on", ![w].at = NoEntry]
  /\ CalRest

CommitPull(w) ==
  /\ pull[w].step = "on" /\ pull[w].todo = {}
  /\ booking' = [b \in Bookings |-> View(w, b)]
  /\ outbox' = [r \in Own |-> IF View(w, r).state = "ended" /\ booking[r].state = "active"
                              THEN outbox[r] \cup {"cancelled"} ELSE outbox[r]]
  /\ conflicts' = conflicts \cup pull[w].notes
  /\ deltaToken' = pull[w].next
  /\ pull' = [pull EXCEPT ![w] = Off]
  /\ UNCHANGED <<entry, delayed, push, faults, edits>>

PullDies(w) ==
  /\ pull[w].step # "off"
  /\ pull' = [pull EXCEPT ![w] = Off]
  /\ Fault
  /\ UNCHANGED <<booking, entry, deltaToken, conflicts, outbox, delayed, push, edits>>

-----------------------------------------------------------------------------
PushStep(w) == CreateEvent(w) \/ CancelEvent(w) \/ NothingToDo(w) \/ SaveEventId(w) \/ Published(w)
PullStep(w) ==
  \/ Fetch(w) \/ Attribute(w) \/ CommitPull(w)
  \/ \E i \in Entries : Echo(w, i) \/ Deleted(w, i)
  \/ \E x \in Natives : Moved(w, x) \/ Import(w, x)

CalNext ==
  \/ \E r \in Own, s \in Slots : Book(r, s) \/ Reschedule(r, s)
  \/ \E r \in Own : CancelBooking(r)
  \/ \E x \in Natives, s \in Slots : CreateThere(x, s)
  \/ \E i \in Entries, s \in Slots : MoveThere(i, s)
  \/ \E i \in Entries : DeleteThere(i)
  \/ \E w \in Pushers, r \in Own : \E k \in outbox[r] : ReadBooking(w, k, r)
  \/ \E w \in Pushers : PushStep(w) \/ PushFails(w) \/ PushDies(w)
  \/ \E w \in Pullers : PullStep(w) \/ PullDies(w)

CalSpec == CalInit /\ [][CalNext]_calVars
CalFairness == \A w \in Pullers : WF_calVars(PullStep(w))
CalFairSpec == CalSpec /\ CalFairness

-----------------------------------------------------------------------------
(* Once a reservation knows its external event, delivering its confirmation again   *)
(* creates no other.                                                              *)
Known(r) == {c \in Copies : c[1] = r /\ entry[c].state # "none"}
ReplayCreatesNothing ==
  [][\A r \in Own : booking[r].ext # NoEntry => Known(r)' = Known(r)]_calVars

(* Without a fault a cancelled reservation leaves nothing in the external          *)
(* calendar once its events have been delivered.                                 *)
Ghost(r) ==
  /\ booking[r].state = "ended" /\ outbox[r] = {}
  /\ \E c \in Copies : c[1] = r /\ entry[c].state = "live"
GhostNeedsFault == (\E r \in Own : Ghost(r)) => faults > 0

(* Once the token has passed a deletion, the mirrored reservation no longer        *)
(* blocks the room, although rounds die half way and people go on editing.        *)
Gone(x) == entry[Original(x)].state = "gone"
DeletionSticks ==
  \A x \in Natives : Gone(x) /\ entry[Original(x)].rev <= deltaToken
                       => booking[x].state # "active"

(* Neither side keeps what the other has ended.                                   *)
EndsAgree == GhostNeedsFault /\ DeletionSticks

(* What began or ended on one side did so once, and on the other side too.         *)
CalendarsAgree == []EndsAgree /\ ReplayCreatesNothing

(* A deletion there frees the room here, unless an event that was moved onto a      *)
(* taken slot fails every round.                                                 *)
Jammed ==
  \E x \in Natives, b \in Bookings :
    /\ x # b /\ booking[x].state = "active" /\ booking[b].state = "active"
    /\ entry[Original(x)].state = "live"
    /\ entry[Original(x)].slot = booking[b].slot
DeletionFreesRoom ==
  \A x \in Natives : Gone(x) ~> booking[x].state # "active" \/ Jammed

(* Violated: "our own events that somebody moved or deleted there are reported,      *)
(* never written over the reservation here".                                      *)
OwnIsNeverOverwritten ==
  [][pull' # pull => \A r \in Own : booking'[r].state = booking[r].state]_calVars

(* What the token has passed is mirrored or reported.                              *)
NothingIsForgotten ==
  \A x \in Natives :
    LET e == entry[Original(x)] IN e.state = "live" /\ e.rev <= deltaToken =>
      \/ booking[x].state = "active" /\ booking[x].slot = e.slot
      \/ \E b \in Bookings : <<b, Original(x)>> \in conflicts
=============================================================================
