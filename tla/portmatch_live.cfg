SPECIFICATION LiveSpec
CONSTANTS
  p1 = p1
  p2 = p2
  Procs = {p1, p2}
  None = None
  HostLinks <- MCHostLinks
  RouteLink <- MCRouteLink
  Macs = {"m1", "m2", "g"}
  GroupMacs = {"g"}
  Confs <- LiveConfs
  Ports = {1, 2}
  KernelPorts = {}
  SockAddrs <- LiveSockAddrs
  Protos = {"Tcp"}
  Remotes = {"r"}
  MaxCalls = 2
  MaxInterrupts = 1
PROPERTIES
  BindReturns
  ConnectGetsPort
  PortsComeBack
CHECK_DEADLOCK FALSE
