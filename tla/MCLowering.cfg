SPECIFICATION Spec
CONSTANTS
  MaxEvents = 4
  MaxJumps = 40
  Types = {"bool", "char", "uchar", "int", "uint", "long", "ulong"}
  Operators = {"+", "-", "*", "/", "%", "&", "<<", ">>", "==", "<"}
  Reversed = FALSE
INVARIANTS LoweringRefines
CHECK_DEADLOCK FALSE
