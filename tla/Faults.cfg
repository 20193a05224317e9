CONSTANTS
  MaxPid = 4
  NComm = 1
  NCli = 1
  NSwitch = 2
  NProto = 1
  HasHalt = {0}
  MaxStarts = 2
  MaxConns = 1
  Faults = {"socket", "accept", "crash", "signal"}
SPECIFICATION Spec
CHECK_DEADLOCK FALSE
INVARIANTS
  QuitReachesMain
  KillTargets
  IInv
  OnePortOwner
PROPERTIES
  HaltsInOrder
