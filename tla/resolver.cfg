SPECIFICATION Spec
CONSTANTS
  Servers = 2
  Attempts = 2
  Timeout = 2
  NDots = 1
  Search <- MCSearch
  MaxDots = 1
  IdMod = 4
  FirstId = 2
  MaxMessages = 2
INVARIANTS AllServersAsked AttemptTimeBounded
PROPERTIES AnswerIsOurs 
CHECK_DEADLOCK FALSE
