SPECIFICATION Spec
CONSTANTS
  Plans <- TwoPlans
  Assets = {1, 2}
  Targets <- TwoTargets
  Rules <- TwoRules
  FirstRule <- AllWeekly
  Lead = 0
  Batch = 1
  Scanners = {"s"}
  Requests = {"r"}
  Relays = {"q"}
  Broken = {}
  Events <- OneEvent
  EventPlans <- EventOfBoth
  EventAt <- EventOnFirst
  NoEvent = NoEvent
  MaxUpsets = 1
  PmMaxTime = 2
  ReadingTypes = {"CUMULATIVE", "DELTA", "GAUGE"}
  Rollover = 0
  Threshold = 2
  MaxValue = 2
  MaxAt = 2
  Posters = {"a"}
  Gateways = {"b"}
  MaxReadings = 3
  Exports = {"m"}
  Exporters = {"w", "v"}
  MaxAttempts = 4
  MaxMishaps = 3
  Alerts = {"i"}
  Recipients = {"ann", "bob"}
  Channels = {"IN_APP", "EMAIL", "WEBHOOK", "SMS"}
  Dispatchers = {"c", "d"}
  MailBatch = 2
  MailAttempts = 2
  MaxLosses = 1
  Points <- TwoPoints
  AssetOf <- OneAsset
  AutoOrder = {"p"}
  Feeds = {"f", "g"}
  Operators = {"o"}
  Window = 2
  Hush = 1
  Batches <- BothOrders
  MaxUsed = 3
  AlarmMaxTime = 1
  Loops <- ThreeLoops
  PoolSize = 2
  MaxWork = 1
  MaxPanics = 1
INVARIANTS
  InstantsAreServedOnce
  CurrentIsLatest
  TypesOK
  RoundsAreClean
PROPERTIES
  ExportsAreHonest
  AlarmsAreSound
  WorkGoesOn
CHECK_DEADLOCK FALSE
