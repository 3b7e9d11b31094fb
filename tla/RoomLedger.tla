------------------------------ MODULE RoomLedger ------------------------------
(***************************************************************************)
(* What booking a room promises, without rows and shadow rows, transactions, *)
(* locks, snapshots or a scanner: a ledger of slots and of the tickets (holds) *)
(* that were given out for them.  A slot is taken when every room of it is     *)
(* free, all slots of a series or none; a ticket is spent in the very step      *)
(* that takes its owner's slot, within what it was given for; a slot that was    *)
(* given back is never taken again.  Module Reservations implements this.     *)
(***************************************************************************)
EXTENDS Naturals

CONSTANTS Ids,        \* slots
          HoldIds,    \* tickets
          Users, Resources,
          RoomsOf,    \* RoomsOf[r]: the rooms that r takes
          Windows     \* time ranges

VARIABLES slot,   \* slot[i]: not there, taken by whom, where and when, or given back
          ticket  \* ticket[h]: not there, or live, spent or dropped, and what for

vars == <<slot, ticket>>

NoSlot == [state |-> "none"]
Freed == [state |-> "freed"]
Taken(u, r, w) ==
  [state |-> "taken", user |-> u, rooms |-> RoomsOf[r], start |-> w.start, end |-> w.end]

NoTicket == [state |-> "none"]
Live(u, r, w) == [state |-> "live", user |-> u, res |-> r, start |-> w.start, end |-> w.end]

Overlap(v, w) == v.start < w.end /\ w.start < v.end
Within(v, w) == w.start <= v.start /\ v.end <= w.end

(* No two taken slots have a room and a moment in common.                    *)
Apart ==
  \A i, j \in Ids :
    /\ i # j /\ slot[i].state = "taken" /\ slot[j].state = "taken"
    /\ slot[i].rooms \cap slot[j].rooms # {}
    => ~Overlap(slot[i], slot[j])

Init == slot = [i \in Ids |-> NoSlot] /\ ticket = [h \in HoldIds |-> NoTicket]

(* Tickets of one resource that are live never overlap.                       *)
Grant(h, u, r, w) ==
  /\ ticket[h] = NoTicket
  /\ \A k \in HoldIds :
       ticket[k].state = "live" /\ ticket[k].res = r => ~Overlap(ticket[k], w)
  /\ ticket' = [ticket EXCEPT ![h] = Live(u, r, w)]
  /\ UNCHANGED slot

Drop(h) ==
  /\ ticket[h].state = "live"
  /\ ticket' = [ticket EXCEPT ![h].state = "dropped"]
  /\ UNCHANGED slot

Take(N, u, r, w) ==
  /\ \A i \in N : slot[i] = NoSlot
  /\ slot' = [i \in Ids |-> IF i \in N THEN Taken(u, r, w[i]) ELSE slot[i]]
  /\ Apart'

Book(N, u, r, w) == Take(N, u, r, w) /\ UNCHANGED ticket

BookHeld(h, i, w) ==
  /\ ticket[h].state = "live" /\ Within(w, ticket[h])
  /\ Take({i}, ticket[h].user, ticket[h].res, [j \in {i} |-> w])
  /\ ticket' = [ticket EXCEPT ![h].state = "spent"]

Move(i, w) ==
  /\ slot[i].state = "taken"
  /\ slot' = [slot EXCEPT ![i].start = w.start, ![i].end = w.end]
  /\ Apart'
  /\ UNCHANGED ticket

GiveBack(N) ==
  /\ \A i \in N : slot[i].state = "taken"
  /\ slot' = [i \in Ids |-> IF i \in N THEN Freed ELSE slot[i]]
  /\ UNCHANGED ticket

Next ==
  \/ \E h \in HoldIds :
       \/ Drop(h)
       \/ \E u \in Users, r \in Resources, w \in Windows : Grant(h, u, r, w)
       \/ \E i \in Ids, w \in Windows : BookHeld(h, i, w)
  \/ \E N \in SUBSET Ids :
       \/ GiveBack(N)
       \/ \E u \in Users, r \in Resources, w \in [N -> Windows] : Book(N, u, r, w)
  \/ \E i \in Ids, w \in Windows : Move(i, w)

Spec == Init /\ [][Next]_vars
=============================================================================
