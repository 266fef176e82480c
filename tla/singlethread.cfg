SPECIFICATION Spec
CONSTANTS
  RxCap = 1
  TxCap = 1
  WaitingPoll = TRUE
  MaxSockets = 2
  MaxLo = 1
  MaxUnits = 1
  MaxFrames = 2
INVARIANTS
  OneOwner
  FlushedBeforeWaiting
  WaitsForCause
PROPERTIES
  WaitEnds
CHECK_DEADLOCK FALSE
