SPECIFICATION DaemonSpec
CONSTANTS
  Plugins = {"LDAPv3"}
  Callers = {"c1", "c2"}
  Admin = "admin"
  MaxAttempts = 2
  MaxLazy = 1
  MaxCalls = 2
  MaxChanges = 1
  Names <- FiveNames
  Registrars <- TwoRegistrars
  Loads <- TwoLoads
  Mask <- NamesKinds
  FixedKinds <- OneFixed
  FixedNames <- OnlySearch
  Watched <- TwoWatched
  Sizes = {58, 105}
  kMaxFWTableItems = 2
  kMaxFWTables = 2
  MaxFills = 2
  MaxRefs = 3
  gMaxEndpoints = 3
  kMaxRefNum = 3
  kWord = 8
  MaxMade = 3
  MaxBegun = 6
  Threads <- TwoThreads
  OpenKinds <- ThreeKinds
INVARIANTS
  OneInstanceEach
  StateAgreed
  Advertised
  BuffersComeBack
  RightEnd
  HeldForSomebody
PROPERTIES
  Answered
  IsNodeSet
CHECK_DEADLOCK FALSE
