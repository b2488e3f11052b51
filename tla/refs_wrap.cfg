SPECIFICATION Spec
CONSTANTS
  t1 = t1
  t2 = t2
  app1 = app1
  internal = internal
  Threads <- TwoThreads
  Ports <- InternalPorts
  PortOf <- TwoInternal
  InternalPort = internal
  IndexSpace = 3
  RoomLimit = 2
  LeafTypes = {3}
  Calls = {"create", "close"}
  MaxCalls = 4
  MaxRequests = 6
INVARIANTS
  MapsAgree
  ReusedAfterALoop
  InsertionsEnd
SYMMETRY SwapThreads
