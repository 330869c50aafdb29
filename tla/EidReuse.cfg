CONSTANTS
  MinId = 1
  MaxId = 4
  WordSize = 2
  HistoryFrames = 2
  Requested = {0}
SPECIFICATION Spec
INVARIANTS
  PoolInv
  RemovalLeftHistory
