SPECIFICATION Spec
CONSTANTS
  MaxEvents = 4
  MaxJumps = 40
  FixpointCap = 10
  Levels = {"O0", "O1", "O2", "Os", "O3"}
  ArithOps = {"+", "-", "*", "/", "%", "&", "|", "^", "<<", ">>", "==", "<"}
  ArithConstants = {1, 2}
  Parts = {"programs", "walks"}
  FullCountdown = FALSE
INVARIANTS PipelineSettles TripCountExact
PROPERTY PassesRefine
CHECK_DEADLOCK FALSE
