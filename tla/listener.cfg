SPECIFICATION LoopSpec
CONSTANTS
  Threads = {t1, t2}
  SocketBacklog = 2
  MaxLo = 1
  Modes = {TRUE, FALSE}
  NoThread = NoThread
  RxCap = 1
  TxCap = 1
INVARIANT ListenerConsistent
PROPERTIES ConnectionNotDropped  PollingAcceptTakes
CHECK_DEADLOCK FALSE
