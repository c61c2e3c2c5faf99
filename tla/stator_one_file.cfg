SPECIFICATION Spec
CONSTANTS
  heap = heap  pages = pages  s1 = s1  wide = wide
  Addr = {heap, pages}
  Stack = {s1, wide}
  Wide = {wide}
  Record <- MatchedRecords
  MaxLen = 4
  FileNum = 1
  PageSize = 4
  Page = 4
  Word = 256
CHECK_DEADLOCK FALSE
INVARIANT TypeOK
INVARIANT InUseIsLive
INVARIANT PeakIsTheProfile
INVARIANT EveryFileCounted
INVARIANT LinesAddUp
INVARIANT SignalPrintsFirstPass
