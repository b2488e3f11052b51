SPECIFICATION PartsSpec
CONSTANTS
  client = client
  Clients <- OneClient
  Records <- Users
  Lookups <- UserLookups
  MaxItems = 3
  MaxLookups = 3
  Names = {"mac"}
  MaxAsked = 2
  MaxChanged = 1
INVARIANTS
  HashedIsListedBefore
  ListIsWhole
  RetainCountsExact
  Unambiguous
PROPERTIES
  AuthorityStays
  MembershipsAnswered
CHECK_DEADLOCK FALSE
