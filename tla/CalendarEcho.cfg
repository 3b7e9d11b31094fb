SPECIFICATION Spec
CONSTANTS
  MaxTokens = 1
  MaxLogins = 1
  Ttl = 1
  Leeway = 1
  Servers = {"s", "t"}
  States = {"q"}
  SsoTtl = 1
  TokMaxTime = 0
  People = {1}
  DirGroups = {"a", "b"}
  DirRoles = {"r", "d"}
  Mappable <- ThreeMappings
  Rank <- ByPriority
  Watchdogs = {"dog"}
  Admins = {"adm"}
  Withheld <- WatchdogMayNot
  Clients = {"c"}
  MaxChanges = 0
  Own = {"o"}
  Natives = {"u"}
  Slots = {1, 2}
  Pushers = {"g"}
  Pullers = {"h"}
  MaxFaults = 0
  MaxEdits = 1
PROPERTIES
  OwnIsNeverOverwritten
CHECK_DEADLOCK FALSE
