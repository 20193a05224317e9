CONSTANTS
  BrDevCnt = 1
  Numbers <- MCNumbers
  Garbage <- MCGarbage
  MaxOptions = 3
  MaxLines = 2
  MaxFiles = 2
SPECIFICATION FairSpec
CHECK_DEADLOCK FALSE
INVARIANTS
  TypeOK
  CallAsTyped
  UndefinedCauses
  OnlyLastLineLoads
  IInv
PROPERTIES
  LoadReturns
  LoadProgress
