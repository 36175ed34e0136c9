CONSTANTS
  Shift = 5
  LongBits = 12
  SignedChar = TRUE
  Junk = {0}
  Targets <- LongLines
SPECIFICATION Spec
INVARIANT LinesAreTheTargets
CHECK_DEADLOCK FALSE
