CONSTANTS
  Parts = {"driver"}
  c1 = c1
  c2 = c2
  Idle = Idle
  MaxLen = 0
  MaxInputs = 2
  Commands <- MCCommands
  CanFill = TRUE
  MaxOptions = 0
  MaxEvents = 0
  Id <- MCId
  Info <- MCInfo
  Option <- AllOptions
  NonNull = "nonnull"
  Format = "format"
  Fallthrough = "implicit-fallthrough"
  Uninitialized = "uninitialized"
  Required = {"mem-leak", "uninitialized"}
  FlowWarning = {"uninitialized"}
SPECIFICATION MCSpec
INVARIANT SuccessMeansBuilt
CHECK_DEADLOCK FALSE
