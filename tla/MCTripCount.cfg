SPECIFICATION Spec
CONSTANTS
  MaxEvents = 4
  MaxJumps = 40
  FixpointCap = 10
  Levels = {"O3"}
  ArithOps = {"+", "-", "*", "/", "%", "&", "|", "^", "<<", ">>", "==", "<"}
  ArithConstants = {1, 2}
  Parts = {"walks"}
  FullCountdown = TRUE
INVARIANT TripCountExact
CHECK_DEADLOCK FALSE
