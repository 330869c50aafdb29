SPECIFICATION FairSpec
CONSTANTS
  Worlds = {"first", "second"}
  FirstWorld = "first"
  Sockets = {1, 2}
  StartFrame <- FarApart
  Scenarios <- Mixed
INVARIANTS
  ReceiptMeansDelivered
  ResourcesAccounted
  LossIsToldTruly
  EachConnectionRebuilt
PROPERTIES
  ConnectionsSettle
CHECK_DEADLOCK FALSE
