CONSTANTS
  MaxPid = 5
  NComm = 1
  NCli = 1
  NSwitch = 2
  NProto = 3
  HasHalt = {0, 1}
  MaxStarts = 1
  MaxConns = 2
  Faults = {"fork", "crash"}
SPECIFICATION FairSpec
CHECK_DEADLOCK FALSE
INVARIANTS
  OnlyServersRemain
PROPERTIES
  ShutsDownInOrder
  QuitEnds
  QuitClears
  MainForward
