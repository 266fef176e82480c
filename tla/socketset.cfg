SPECIFICATION Spec
CONSTANTS
  MaxSockets = 4
  Objs = {o1, o2, o3}
  SocketBacklog = 2
  MaxLeaks = 1
SYMMETRY Symmetry
CONSTRAINT BoundedLeaks
INVARIANTS RefsCountOwners HandlesAreLive BacklogKept
CHECK_DEADLOCK FALSE
