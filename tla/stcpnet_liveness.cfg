SPECIFICATION FairSpec
CONSTANTS
  t1 = t1
  RxCap = 1
  TxCap = 1
  Threads = {t1, t2}
  Streams = {s1}
  NotifyCap = 1
  WaitingPoll = TRUE
  OptChoices <- DefaultOnly
CHECK_DEADLOCK FALSE
PROPERTIES AnnouncedOutputIsSent PeerEndsCall
