SPECIFICATION Spec
CONSTANTS
  Users = {"ann", "bob"}
  Resources <- OneRoom
  Children <- OneRoomChildren
  NeedsApproval = {}
  ReleaseAfter <- OneRoomRelease
  Windows <- ShortAndLong
  Series <- Singles
  Procs = {"p", "q"}
  None = None
  Ttl = 1
  MaxBookings = 2
  MaxHolds = 1
  MaxMoves = 0
  MaxTime = 2
INVARIANTS
  UsedHoldStaysConsumed
CHECK_DEADLOCK FALSE
