CONSTANTS
  MaxPid = 4
  NComm = 1
  NCli = 1
  NSwitch = 1
  NProto = 2
  HasHalt = {0}
  MaxStarts = 1
  MaxConns = 1
  Faults = {}
SPECIFICATION Spec
CHECK_DEADLOCK FALSE
INVARIANT MessagingHaltedFirst
