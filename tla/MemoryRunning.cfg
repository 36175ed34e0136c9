CONSTANTS
  x = x
  y = y
  Unmapped = Unmapped
  None = None
  Addr <- Three
  d_vmaps <- ThreeMaps
  Lengths = {1, 3}
  CACHE_CAPACITY = 2
  Val = {x, y}
  Platforms <- AnyLinux
  TargetRuns = TRUE
SPECIFICATION FairSpec
CHECK_DEADLOCK FALSE
PROPERTY ImplementsRemoteMemory
PROPERTY EveryCallEnds
