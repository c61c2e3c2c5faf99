SPECIFICATION Spec
CONSTANTS
  ip1 = ip1  ip2 = ip2  pid1 = pid1  pid2 = pid2
  Src <- Sources
  N = 4
  MaxSent = 6
  MaxLen = 2
  InFlight = 3
  CapSeq = {1, 3}
  Window = 3
  Hole = 2
  EarlyMax = 2
  MaxTicks = 2
INVARIANT TypeOK
INVARIANT OutputOnce
INVARIANT FilesInOrder
INVARIANT NothingDropped
INVARIANT OneSourcePerFile
