SPECIFICATION FairSpec
CONSTANTS
  App = {a1, a2}
  Printer = {p1}
  Nobody = Nobody
  MaxFlips = 2
  OpenMayFail = FALSE
CHECK_DEADLOCK FALSE
PROPERTY IteratorsValid
PROPERTY MallocReturns
PROPERTY PrintingContinues
