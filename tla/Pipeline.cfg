SPECIFICATION MCSpec
CONSTANTS
  Entities = {"x", "y"}
  Components = {"a", "b"}
  SystemNames = {"view", "writer", "late", "minute"}
  NoSystem = "no system"
  FrameClock = "frame"
  Sources = {"interval", "slow", "frames2"}
  Absent = Absent
  MaxBacklog = 8
  Order <- MCOrder
  Registered <- MCRegistered
  Requires <- MCRequires
  Watches <- MCWatches
  Arrivals <- MCArrivals
  Removals <- MCRemovals
  Hears <- MCHears
  Ignores <- MCIgnores
  Cadence <- MCCadence
  Every <- MCEvery
  Upstream <- MCUpstream
  Scenes <- MCScenes
INVARIANTS
  HeardAgrees
  NoWriteIsLost
  NoEcho
  ClocksAgree
  ResultsHold
PROPERTIES
  ExitsSeeWhatWas
