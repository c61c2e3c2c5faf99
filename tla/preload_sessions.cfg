SPECIFICATION Spec
CONSTANTS
  t1 = t1  t2 = t2  a1 = a1  a2 = a2
  Thread = {t1, t2}
  NoThread = NoThread
  Addr = {a1, a2}
  Size = {1}
  FirstParam <- On
  Edits <- Sessions
  Garbage = {2}
SYMMETRY Symmetric
INVARIANT TypeOK
INVARIANT ExactAttribution
INVARIANT NoMissedLeak
