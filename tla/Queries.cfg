SPECIFICATION Spec
CONSTANTS
  e1 = e1
  e2 = e2
  a = a
  b = b
  both = both
  either = either
  lacking = lacking
  qa = qa
  qboth = qboth
  qeither = qeither
  qlacking = qlacking
  universe = universe
  Idle = Idle
INVARIANTS
  KeysAreSound
  MembersAgree
CHECK_DEADLOCK FALSE
