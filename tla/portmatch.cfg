SPECIFICATION MCSpec
CONSTANTS
  p1 = p1
  p2 = p2
  Procs = {p1, p2}
  None = None
  HostLinks <- MCHostLinks
  RouteLink <- MCRouteLink
  Macs = {"m1", "m2", "g"}
  GroupMacs = {"g"}
  Confs <- MCConfs
  Ports = {1, 2}
  KernelPorts = {2}
  SockAddrs <- MCSockAddrs
  Protos = {"Tcp", "Udp"}
  Remotes = {"r"}
  MaxCalls = 2
  MaxInterrupts = 1
INVARIANTS
  AnswersMatch
  KernelPortsOwned
  NothingLeftBehind
  LinksStay
PROPERTY
  OwnershipImplemented
SYMMETRY Symmetry
CHECK_DEADLOCK FALSE
