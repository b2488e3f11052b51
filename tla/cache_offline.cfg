SPECIFICATION Spec
CONSTANTS
  client = client
  Clients <- OneClient
  Records <- Users
  Lookups <- UserLookups
  MaxItems = 3
  MaxLookups = 3
PROPERTIES
  OfflineStays
CHECK_DEADLOCK FALSE
