SPECIFICATION Spec
CONSTANTS
  Threads = {t1, t2}
  Senders <- MCSenders
  ConnectAddrs <- MCConnectAddrs
  QueueCap = 2
  Exclusive = TRUE
  NotConnected = NotConnected
  r1 = r1
  r2 = r2
  w1 = w1
  w2 = w2
  s1 = s1
  s2 = s2
  Readers = {r1, r2}
  Setters = {w1, w2}
  Streams = {s1, s2}
  StreamOf <- OneReaderPerStream
  NoThread = NoThread
INVARIANTS
  
  NonblockingNeverBlocks
  NoLockCycle

  
  
CHECK_DEADLOCK FALSE
