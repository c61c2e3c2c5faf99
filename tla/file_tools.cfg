SPECIFICATION Spec
CONSTANTS
  Files <- SmallFiles
  FirstArgs <- Intervals
  AgainArgs <- Later
  HeadSize = 1
  Word32 = 8
  MaxLen = 3
INVARIANT TypeOK
INVARIANT CutIsTheInterval
INVARIANT RecutIsTheInterval
INVARIANT DescribedAsCut
INVARIANT DescribedSizes
CHECK_DEADLOCK FALSE
