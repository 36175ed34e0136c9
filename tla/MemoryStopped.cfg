CONSTANTS
  x = x
  y = y
  Unmapped = Unmapped
  None = None
  Addr <- Seven
  d_vmaps <- SevenMaps
  Lengths = {1, 2}
  CACHE_CAPACITY = 2
  Val = {x, y}
  Platforms <- Linux
  TargetRuns = FALSE
SPECIFICATION Spec
CHECK_DEADLOCK FALSE
INVARIANT TypeOK
INVARIANT CacheWellFormed
INVARIANT EvictionIsDefined
INVARIANT MostRecentlyUsedStay
INVARIANT AnswersAreCurrent
