CONSTANTS
  Boots <- MCBoots
  ArraySize = 25
  Garbage <- MCGarbage
  MaxObjects = 256
  ShellLines <- MCShellLines
  FileLines <- MCFileLines
  MaxFileLines = 2
SPECIFICATION Spec
CHECK_DEADLOCK FALSE
INVARIANT OnlyFullLines
