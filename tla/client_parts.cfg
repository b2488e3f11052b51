SPECIFICATION ClientsSpec
CONSTANTS
  Threads = {"t1", "t2"}
  Paths = {"default", "other", "absent"}
  Missing = {"absent"}
  CountSpace = 8
  MaxOpens = 3
  MaxPlain = 1
  MaxExits = 1
  Lists = {"x", "y"}
  Delimiter = "/"
  MaxNodes = 3
INVARIANTS
  CountIsExact
  NeverStopsUnderAClient
  PartsAgree
  RequestsSettled
  OutcomesAreTrue
  NothingStranded
  ListsAreSequences
PROPERTIES
  UnusedDaemonExits
  NoneStranded
  ContextKept
  CallsEnd
CHECK_DEADLOCK FALSE
