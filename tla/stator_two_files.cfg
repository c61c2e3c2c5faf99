SPECIFICATION Spec
CONSTANTS
  heap = heap  pages = pages  s1 = s1  wide = wide
  Addr = {heap, pages}
  Stack = {s1, wide}
  Wide = {wide}
  Record <- HeapRecords
  MaxLen = 2
  FileNum = 2
  PageSize = 4
  Page = 4
  Word = 256
CHECK_DEADLOCK FALSE
INVARIANT EveryFileCounted
