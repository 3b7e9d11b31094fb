SPECIFICATION FairSpec
CONSTANTS
  Rows <- TwoRows
  SubOf <- AllForOne2
  Subs = {"s1"}
  Workers = {"w1", "w2"}
  BatchSize = 2
  MaxAttempts = 2
  MaxFailures = 2
  MaxAborts = 1
  MaxUpserts = 2
  NoWorker = NoWorker
INVARIANTS
  BooksAreTrue
PROPERTIES
  EventuallySettled
CHECK_DEADLOCK FALSE
