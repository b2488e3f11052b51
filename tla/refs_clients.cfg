SPECIFICATION FairSpec
CONSTANTS
  t1 = t1
  t2 = t2
  app1 = app1
  internal = internal
  Threads <- TwoThreads
  Ports <- MixedPorts
  PortOf <- Mixed
  InternalPort = internal
  IndexSpace = 4
  RoomLimit = 4
  LeafTypes = {3}
  Calls = {"create", "close", "clean", "drop", "use"}
  MaxCalls = 3
  MaxRequests = 5
INVARIANTS
  NoDangling
  RetainCountsExact
  CallersOwnClient
  NothingLeftBehind
PROPERTIES
  DescendantsFollow
