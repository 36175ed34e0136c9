CONSTANTS
  main = main
  sub = sub
  inner = inner
  t1 = t1
  NoState = NoState
  None = None
  TState <- Three
  TidOf <- OnOneThread
  Main = {main}
  Orders <- OneOrder
  Modes = {"off", "last", "python"}
  Versions = {310, 311, 312}
  MaxDepth = 8
  MaxLost = 1
  MaxIdle = 1
  MaxUnreadable = 1
SPECIFICATION Spec
CHECK_DEADLOCK FALSE
INVARIANT TypeOK
INVARIANT NeverRunsOut
INVARIANT EveryFrameOnce
INVARIANT MergedIsCallOrder
