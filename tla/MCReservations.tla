---------------------------- MODULE MCReservations ----------------------------
(* Instances of Reservations for TLC.                                        *)
EXTENDS Reservations

Window(s, e) == [start |-> s, end |-> e]
TwoSlots == {Window(1, 2), Window(2, 3)}
SinglesAndPair == {<<w>> : w \in TwoSlots} \cup {<<Window(1, 2), Window(2, 3)>>}
ShortAndLong == {Window(1, 2), Window(1, 3)}
Singles == {<<w>> : w \in ShortAndLong}

(* Two combined rooms that share room "B".                                   *)
CombinedRooms == {"AB", "BC", "B"}
CombinedChildren == [AB |-> {"B"}, BC |-> {"B"}, B |-> {}]
CombinedRelease == [AB |-> 1, BC |-> 0, B |-> 1]

OneRoom == {"B"}
OneRoomChildren == [B |-> {}]
OneRoomRelease == [B |-> 0]
=============================================================================
