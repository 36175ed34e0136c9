CONSTANTS
  main = main
  sub = sub
  inner = inner
  t1 = t1
  NoState = NoState
  None = None
  TState <- Three
  TidOf <- OnOneThread
  Main = {main}
  Orders <- OneOrder
  Modes = {"python"}
  Versions = {312}
  MaxDepth = 4
  MaxLost = 0
  MaxIdle = 0
  MaxUnreadable = 0
SPECIFICATION Spec
CHECK_DEADLOCK FALSE
INVARIANT FullStacksMerge
