SPECIFICATION StreamSpec
CONSTANTS
  Eids = {1}
  Types = {t1}
  BareEntities = TRUE
  MaxLength = 3
  MaxHeldDiffs = 2
  MaxFrame = 5
INVARIANTS
  StreamFollowed
PROPERTIES
  NeverGoesBack
CHECK_DEADLOCK FALSE
