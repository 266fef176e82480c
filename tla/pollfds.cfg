SPECIFICATION FdSpec
CONSTANTS
  Objs = {o1, o2}
  Fds = {f1, f2}
  MaxQueued = 2
  DropsUnregistered = FALSE
INVARIANT FdAccounting
PROPERTY PolledConnectionNoticed
CHECK_DEADLOCK FALSE
