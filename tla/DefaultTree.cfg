CONSTANTS
  MaxPid = 4
  NComm = 1
  NCli = 1
  NSwitch = 2
  NProto = 3
  HasHalt = {0}
  MaxStarts = 1
  MaxConns = 0
  Faults = {}
SPECIFICATION Spec
CHECK_DEADLOCK FALSE
INVARIANT AllSubsystemsHalted
