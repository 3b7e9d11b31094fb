SPECIFICATION FairSpec
CONSTANTS
  w1 = w1
  w2 = w2
  b1 = b1
  None = None
  Never = Never
  Sweeper = Sweeper
  Orders = {w1, w2}
  ServiceOrders = {w2}
  Measured = {w1, w2}
  ResponseTime = 0
  ResolutionTime = 1
  WarnTime = 1
  Requested <- Mixed
  Bulks = {b1}
  BulkActions = {"COMPLETE"}
  BulkLists <- InOrder
  MaxTime = 2
  MaxAborts = 1
INVARIANTS
  VerdictsHold
PROPERTIES
  StepsAreLawful
  OverdueIsMarked
CHECK_DEADLOCK FALSE
