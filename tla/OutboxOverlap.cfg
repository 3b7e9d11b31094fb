SPECIFICATION EventsSpec
CONSTANTS
  Events <- TwoEvents
  TypeOf <- OneOfEach
  ShardOf <- JobsShards
  Handled <- JobsShards
  BatchSize = 1
  MaxAttempts = 2
  MaxAborts = 0
  Types <- MCTypes
  Kinds <- MCKinds
  Relays <- ThreeRelays
  KindOf <- MCKindOfThree
  Requests <- FourRequests
  UserOf <- MCUserOf
  KeyOf <- MCKeyOf
  BodyOf <- MCBodyOf
  Users = {"ann", "bob"}
  Keys = {"k"}
  Bodies = {"b1", "b2"}
  NoRequest = NoRequest
  MaxCrashes = 1
  MaxLost = 1
  MaxChanges = 2
  MaxExpiries = 1
INVARIANTS
  AllConsumersServed
CHECK_DEADLOCK FALSE
