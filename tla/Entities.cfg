SPECIFICATION MCSpec
CONSTANTS
  Everyone = {"a", "b", "c"}
  Keys = {"c"}
  Relations = {"ChildOf", "Owns", "Likes"}
  Exclusive = {"ChildOf", "Owns"}
  Traversable = {"ChildOf"}
  OwnedTarget = {"Owns"}
  DeleteSources = {"ChildOf"}
  ChildOf = "ChildOf"
  MaxHooks = 1
  Restrained = TRUE
  Scenes <- Everything
  Plain <- MCPlain
  Links <- MCLinks
  Single = {"childOf"}
  Owning = {"childOf"}
  Custom = {"carries"}
  Opaque = Opaque
  Anything = Anything
  Nobody = Nobody
  Trips <- MCTrips
INVARIANTS
  GraphAgrees
  CascadeComplete
  PendingReadsHold
  TransfersHold
CHECK_DEADLOCK FALSE
