SPECIFICATION Spec
CONSTANTS
  App = {a1}
  Printer = {p1, p2}
  Nobody = Nobody
  MaxFlips = 3
  OpenMayFail = TRUE
CHECK_DEADLOCK FALSE
INVARIANT TypeOK
INVARIANT SmHeldOnlyInside
INVARIANT LockOrder
