SPECIFICATION FairSpec
CONSTANTS
  Loads <- ClientCalls
  MaxCalls = 2
  Closers = {}
  MaxConnections = 1
  MaxToServer = 1
  MaxToClient = 1
PROPERTIES
  CallsSettle
CHECK_DEADLOCK FALSE
