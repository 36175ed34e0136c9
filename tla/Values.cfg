CONSTANTS
  Shift = 5
  LongBits = 12
  SignedChar = TRUE
  Junk = {0, 7}
  Targets <- AllTargets
SPECIFICATION Spec
INVARIANT TextsAreTrue
 
INVARIANT FramesAreTheTargets
INVARIANT StatusIsTheTargets
CHECK_DEADLOCK FALSE
