SPECIFICATION FairSpec
CONSTANTS
  Users = {"ann"}
  Resources <- CombinedRooms
  Children <- CombinedChildren
  NeedsApproval = {"AB"}
  ReleaseAfter <- CombinedRelease
  Windows <- TwoSlots
  Series <- SinglesAndPair
  Procs = {"p", "q"}
  None = None
  Ttl = 1
  MaxBookings = 2
  MaxHolds = 0
  MaxMoves = 1
  MaxTime = 2
INVARIANTS
  SlotsAreSafe
PROPERTIES
  ImplementsLedger
  OverdueIsReleased
CHECK_DEADLOCK FALSE
