SPECIFICATION Spec
CONSTANTS
  client = client
  Clients <- OneClient
  Records <- Principals
  Lookups <- PrincipalLookups
  MaxItems = 3
  MaxLookups = 2
INVARIANTS
  HashedIsListed
CHECK_DEADLOCK FALSE
