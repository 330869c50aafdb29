SPECIFICATION Spec
CONSTANTS
  Eids = {1}
  Types = {t1}
  HistoryFrames = 2
  StartFrame = 0
  MaxLength = 2
  MaxHeldDiffs = 1
  MaxFrame = 5
INVARIANTS
  ClientFollows
PROPERTIES
  RefinesAckProtocol
CHECK_DEADLOCK FALSE
