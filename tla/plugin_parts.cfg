SPECIFICATION PluginsSpec
CONSTANTS
  t1 = t1
  t2 = t2
  old = old
  new_ = new_
  home = home
  spare = spare
  Threads <- TwoThreads
  AuthThreads <- TwoThreads
  Handlers <- TwoThreads
  Pids <- TwoPids
  LocalPaths <- TwoPaths
  Modes <- BothModes
  MaxRefs = 4
  MaxRequests = 5
  MaxDeaths = 1
  Passwords = {short, long}
  Short = {short}
  Weak = {long}
  MaxFailed = 2
  Mixes <- FiveMixes
  None = none
  Foreign = foreign
  Marker = marker
  n1 = n1
  n2 = n2
  NodeRefs <- TwoNodes
  RecordRefs = {21}
  ContextSpace = 3
  MaxObjects = 4
  MaxCalls = 4
  MaxChanges = 1
INVARIANTS
  RetainCountsExact
  CountIsSessions
  OneLocalPath
  DisabledForACause
  VerifierKept
  KeptWhileNeeded
  ContextsFollowReferences
SYMMETRY AllAlike
CHECK_DEADLOCK FALSE
