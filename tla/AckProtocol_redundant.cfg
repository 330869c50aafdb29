SPECIFICATION MCSpec
CONSTANTS
  HistoryFrames = 3
  RedundancyFrames = 2
  KeepAliveFrames = 2
  KeepAliveGated = TRUE
  StartFrame = 2
  MaxFrame = 6
  Nothing = Nothing
  Gravity <- MCGravity
  Tolerance = 1
  MaxAge = 3
  Kicks <- MCKicks
  Stories <- MCStories
  MaxFrames = 4
  Unit = 16
  Blend = 2
  Snap = 4
  Advances <- MCAdvances
  Deltas <- MCDeltas
INVARIANTS
  TypeOK
  NoProtocolError
  NoDeltaSpansBaseline
  AckIsHeld
  UnackedContentIsWatched
  PosesStayTrue
PROPERTIES
  CorrectionsFade
CHECK_DEADLOCK FALSE
