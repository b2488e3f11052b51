SPECIFICATION Spec
CONSTANTS
  t1 = t1
  t2 = t2
  app1 = app1
  internal = internal
  Threads <- TwoThreads
  Ports <- InternalPorts
  PortOf <- TwoInternal
  InternalPort = internal
  IndexSpace = 4
  RoomLimit = 4
  LeafTypes = {3}
  Calls = {"create", "close"}
  MaxCalls = 3
  MaxRequests = 4
INVARIANTS
  OrderedCleanup
