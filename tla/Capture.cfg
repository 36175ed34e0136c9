CONSTANTS
  t1 = t1
  u1 = u1
  u2 = u2
  u3 = u3
  NoTracer = NoTracer
  None = None
  Pid = u1
  Tids <- ThreeTids
  Tracers <- OneTracer
  Denied = {}
  Interrupted = {t1}
  Faults = {"listing", "killed", "signal"}
  Requests <- SomeRequests
SPECIFICATION CaptureSpec
CHECK_DEADLOCK FALSE
INVARIANT CaptureTypeOK
INVARIANT AttachedAreRecorded
INVARIANT ReportIsTheProcess
INVARIANT ThrowHasCause
PROPERTY CaptureEnds
