SPECIFICATION Spec
CONSTANTS
  c1 = c1  c2 = c2  pid1 = pid1  pid2 = pid2
  Conn = {c1, c2}
  Pid <- TwoPids
  Streams <- SomeStreams
  Ports = {"linux", "windows"}
  CapSeq = {1, 2}
  HeadLen = 2
  RecLen = 3
  BufLen = 6
  Window = 3
  Hole = 2
  MaxTicks = 1
INVARIANT TypeOK
INVARIANT NothingLost
INVARIANT StandaloneStream
PROPERTY EndFlushes
CHECK_DEADLOCK FALSE
