CONSTANTS
  sub = sub
  main = main
  Null = Null
  Interpreter = {sub, main}
  Versions = {312}
  FreeThreaded = {}
  Lists <- OneOrTwo
  AnonymousMaps <- TwoMaps
  Contents <- FewContents
  Width <- EightBytes
  TableName <- Names
  TableOf <- FewTables
  StaticTable <- SaneTable
  Reported = {"fits", "too far"}
  Copies <- FewCopies
  Requests <- Exhaustive
  Hints = {{"bss"}, {"name"}}
  Unreadable <- AtMostOne
SPECIFICATION Spec
CHECK_DEADLOCK FALSE
INVARIANT SearchRunsOutOfChunks
