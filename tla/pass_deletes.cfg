SPECIFICATION Spec
CONSTANTS
  t1 = t1
  t2 = t2
  old = old
  new_ = new_
  home = home
  spare = spare
  Threads <- TwoThreads
  Pids <- TwoPids
  LocalPaths <- NoPaths
  Modes <- ProxyOnly
  MaxRefs = 2
  MaxRequests = 3
  MaxDeaths = 1
PROPERTIES
  OthersKeepTheirs
