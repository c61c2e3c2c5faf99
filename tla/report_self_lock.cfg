SPECIFICATION FairSpec
CONSTANTS
  App = {a1}
  Printer = {p1}
  Nobody = Nobody
  MaxFlips = 2
  OpenMayFail = FALSE
CHECK_DEADLOCK FALSE
PROPERTY SizeDetailReturns
