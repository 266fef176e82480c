SPECIFICATION Spec
CONSTANTS
  t1 = t1
  RxCap = 1
  TxCap = 1
  Threads = {t1, t2}
  Streams = {s1}
  NotifyCap = 1
  WaitingPoll = TRUE
  OptChoices <- MCOptChoices
SYMMETRY Symmetry
INVARIANT NoLostWakeup
PROPERTY OnlyShutdownStrandsWaiter
CHECK_DEADLOCK FALSE
