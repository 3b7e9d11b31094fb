SPECIFICATION DeliverySpec
CONSTANTS
  Events <- ThreeEvents
  TypeOf <- MixedEvents
  ShardOf <- WiderShards
  Handled <- JobsShards
  BatchSize = 2
  MaxAttempts = 2
  MaxAborts = 1
  Types <- MCTypes
  Kinds <- MCKinds
  Relays <- FourRelays
  KindOf <- MCKindOfFour
  Requests <- FourRequests
  UserOf <- MCUserOf
  KeyOf <- MCKeyOf
  BodyOf <- MCBodyOf
  Users = {"ann", "bob"}
  Keys = {"k"}
  Bodies = {"b1", "b2"}
  NoRequest = NoRequest
  MaxCrashes = 1
  MaxLost = 1
  MaxChanges = 1
  MaxExpiries = 1
INVARIANTS
  DeliveryIsSound
  KeysAreHonoured
PROPERTIES
  EventuallySettled
  ImplementsDelivery
  ImplementsPromise
  AnsweredUnlessExpired
CHECK_DEADLOCK FALSE
