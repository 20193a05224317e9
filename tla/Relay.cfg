CONSTANT Boots <- MCBoots
SPECIFICATION FairSpec
CHECK_DEADLOCK FALSE
INVARIANTS
  InStep
  ReplyInBuffer
  NoMutualWait
  RelayedOnce
  IInv
PROPERTIES
  ClientServed
  HandlerLeaves
  InExchange
  ScriptProgress
