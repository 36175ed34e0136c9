CONSTANTS
  t1 = t1
  t2 = t2
  u1 = u1
  u2 = u2
  u3 = u3
  NoTracer = NoTracer
  Pid = u1
  Tids <- ThreeTids
  Tracers <- TwoTracers
  Denied = {}
  Interrupted = {t2}
  Faults = {"main_exits", "killed"}
SPECIFICATION Spec
CHECK_DEADLOCK FALSE
INVARIANT IInv
INVARIANT LetsEverythingGo
INVARIANT NothingRunsWhileHeld
INVARIANT ContinuesExecution
