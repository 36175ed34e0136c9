CONSTANTS
  t1 = t1
  t2 = t2
  u1 = u1
  u2 = u2
  u3 = u3
  NoTracer = NoTracer
  Pid = u1
  Tids <- ThreeTids
  Tracers <- OneTracer
  Denied = {}
  Interrupted = {}
  Faults = {"signal"}
SPECIFICATION Spec
CHECK_DEADLOCK FALSE
INVARIANT ContinuesExecution
