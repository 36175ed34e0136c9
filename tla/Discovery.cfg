CONSTANTS
  sub = sub
  main = main
  Null = Null
  Interpreter = {sub, main}
  Versions = {306, 312, 313, 314}
  FreeThreaded = {314}
  Lists <- OneOrTwo
  AnonymousMaps <- TwoMaps
  Contents <- FewContents
  Width <- EightBytes
  TableName <- Names
  TableOf <- FewTables
  StaticTable <- SaneTable
  Reported = {"fits", "too far"}
  Copies <- FewCopies
  Requests <- FewRequests
  Hints = {{"bss"}, {"name"}}
  Unreadable <- AtMostOne
SPECIFICATION Spec
CHECK_DEADLOCK FALSE
INVARIANT TypeOK
INVARIANT VersionIsTheTargets
INVARIANT OffsetsAreComplete
 
INVARIANT OnlyInterpretersAreFound
INVARIANT FailuresStayInTheirMethod
INVARIANT ReportIsComplete
INVARIANT ErrorHasCause
