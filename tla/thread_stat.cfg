SPECIFICATION FairSpec
CONSTANTS
  Thread = {t1, t2}
  Reporter = Reporter
  NoThread = NoThread
  Addr = {a1, a2}
  Null = Null
  Size = {1}
  PrintMallocs = FALSE
CHECK_DEADLOCK FALSE
INVARIANT TypeOK
INVARIANT ReportedSizeIsLive
INVARIANT InsertedIsReported
PROPERTY HookReturns
