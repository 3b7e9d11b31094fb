SPECIFICATION Spec
CONSTANTS
  MaxTokens = 3
  MaxLogins = 1
  Ttl = 1
  Leeway = 1
  Servers = {"s", "t"}
  States = {"q"}
  SsoTtl = 1
  TokMaxTime = 2
  People = {1}
  DirGroups = {"a", "b"}
  DirRoles = {"r", "d"}
  Mappable <- ThreeMappings
  Rank <- ByPriority
  Watchdogs = {"dog"}
  Admins = {"adm"}
  Withheld <- WatchdogMayNot
  Clients = {"c"}
  MaxChanges = 2
  Own = {"o"}
  Natives = {"u"}
  Slots = {1, 2}
  Pushers = {"g"}
  Pullers = {"h"}
  MaxFaults = 1
  MaxEdits = 2
INVARIANTS
  RevocationHolds
  TypesOK
PROPERTIES
  SyncIsSound
  CalendarsAgree
  SyncsArrive
CHECK_DEADLOCK FALSE
