CONSTANTS
  Boots <- MCBoots
  ArraySize = 25
  Garbage <- MCGarbage
  MaxObjects = 256
  ShellLines <- MCShellLines
  FileLines <- MCFileLines
  MaxFileLines = 2
SPECIFICATION FairSpec
CHECK_DEADLOCK FALSE
INVARIANTS
  FlowAsTyped
  FieldsInOrder
  CrashCauses
  ShellCauses
  IInv
PROPERTIES
  EofEnds
  EofProgress
