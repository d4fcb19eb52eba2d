CONSTANTS
  Parts = {"driver", "one", "two", "map", "options", "pragmas"}
  c1 = c1
  c2 = c2
  Idle = Idle
  MaxLen = 4
  MaxInputs = 2
  Commands <- MCCommands
  CanFill = FALSE
  MaxOptions = 3
  MaxEvents = 4
  Id <- MCId
  Info <- MCInfo
  Option <- AllOptions
  NonNull = "nonnull"
  Format = "format"
  Fallthrough = "implicit-fallthrough"
  Uninitialized = "uninitialized"
  Required = {"mem-leak", "uninitialized"}
  FlowWarning = {"uninitialized"}
SPECIFICATION MCSpec
INVARIANTS
  LinkIsComplete
  NoStageLeftBehind
  FirstFailureIsTheStatus
  SuccessMeansBuilt
  FixedCopiesWhole
  EditsAccounted
  LocationsExact
  
  FloorsHold
  AnalysisNotSkipped
PROPERTIES
  Finishes
CHECK_DEADLOCK FALSE
