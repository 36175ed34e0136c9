CONSTANTS
  NoPath = NoPath
  Null = Null
  Unset = Unset
  Script = Script
  LibpythonName <- Libpython
  Garbage <- GarbagePath
  Image <- Images
  Cases <- FewCases
  Unnamed = {"SIGRTMIN+1"}
  MaxRead = 2
SPECIFICATION Spec
CHECK_DEADLOCK FALSE
INVARIANT TypeOK
INVARIANT AnswersAreTheCrashs
INVARIANT RefusedIsUnknown
 
 
 
 
 
