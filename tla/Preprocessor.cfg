CONSTANTS
  Parts = {"engine", "guard", "search", "macros"}
  NCond = 5
  NIncl = 3
  NGuard = 5
  BareDirectives = FALSE
  MaxLen = 4
  Letters = {"f", "g", "x", "(", ")", ","}
  Name <- MCName
  Main = "main"
  Ino <- MCIno
  Absent = {"gone"}
  Macro <- MCMacro
  Contents <- MCContents
  MaxDepth = 3
  FastPath = TRUE
SPECIFICATION MCSpec
INVARIANTS
  ConditionalsExact
  
  SearchExact
  ExpansionExact
PROPERTIES
  Terminates
CHECK_DEADLOCK FALSE
