SPECIFICATION ServicesSpec
CONSTANTS
  TaskA = TaskA
  TaskB = TaskB
  First = First
  Second = Second
  Third = Third
  Id1 = Id1
  Id2 = Id2
  Id3 = Id3
  Listed = {1, 2, 3}
  Contents <- ThreeContents
  Requested = {0, 2, 9}
  MaxPage = 2
  MaxEdits = 1
  Docs = {1, 2}
  Editors = {TaskA, TaskB}
  MaxTries = 3
  Callers = {TaskA, TaskB, First, Second, Third}
  Asks <- RequestsOf
  Rooms = {"a", "ab"}
  PartsOf <- Combined
  Capacity <- Seats
  Everywhere = Everywhere
  ListLimit = 1
  LastSlot = 2
  Equipment = {"x", "y"}
  MaxSettings = 1
  Facilities = {"f", "g"}
  TenantWide = TenantWide
  KeyNames = {1, 2}
  AnyKey = AnyKey
  Regular <- FirstDay
  Offices = {TaskA, TaskB}
  Users = {"admin", "manager"}
  Permit <- Rights
  Scope <- Reach
  Forms <- FourForms
  Changes <- EightChanges
  Lines = {1, 2}
  MaxFiled = 3
  Assets = {"pump", "fan", "lift"}
  RelationTypes = {"FEEDS"}
  LinkTasks = {TaskA, TaskB}
  MaxDepth = 1
  MaxLinks = 4
  AssetIds = {Id1, Id2}
  NoAsset = NoAsset
  Categories = {"ups", "projector"}
  AllCategories = "all"
  Definitions <- TwoDefinitions
  AssetForms <- FourBodies
  AssetChanges <- ThreePatches
  AssetFiles <- TwoImports
  OpenOrders = {1}
  RegisterTasks = {TaskA, TaskB}
  MaxHandled = 3
  FileKeys = {Id1, Id2, Id3}
  Owners = {"asset", "order"}
  FileTasks = {TaskA, TaskB}
  MaxServed = 4
  Sites = {"f", "g"}
  Nodes = {1, 2, 3, 4, 5}
  Codes = {"a", "b", "c", "d", "e"}
  NewCodes = {"e"}
  Roots <- ThreeRoots
  TreeTasks = {TaskA, TaskB}
  Files <- TwoFiles
  MaxAsked = 3
  UserNames = {"a", "b"}
  Externals = {"e"}
  MaxAccounts = 2
  Clerks = {TaskA, TaskB}
  MaxCalls = 3
  Types = {"OIDC", "LDAP", "SAML2", "LOCAL"}
  Patches <- SixPatches
  Admins = {TaskA, TaskB}
  MaxOrders = 3
  Identifiers = {"Ann", "ann", "bob"}
  KeyOf <- Folded
  MaxFailures = 2
  LoginWindow = 2
  Logins = {TaskA, TaskB}
  LoginTime = 4
  MaxLogins = 7
  Jobs = {1}
  Shelves = {"x", "y", "z"}
  PartOn <- ShelfParts
  Stocked <- FirstStock
  Uses <- ThreeUses
  Crew = {TaskA, TaskB}
  MaxSent = 3
SYMMETRY Tasks
INVARIANTS
  WalksAreExact
  EditsAreKept
  CalendarIsSound
  CyclesCross
  AssetsAreSound
  TypesOK
  TreesAreSound
  IdentityIsSound
  TenantTypesOK
  ExecutionIsTrue
PROPERTIES
  SettingsAreSound
CHECK_DEADLOCK FALSE
