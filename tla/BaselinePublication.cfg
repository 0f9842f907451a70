SPECIFICATION Spec
CONSTANTS
  Procs = {p1, p2}
  Tokens = {t1, t2, t3}
  NoToken = NoToken
  NoFile = NoFile
  NoProc = NoProc
  Versions = {v1, v2}
  FirstVersion = v1
  NoVersion = NoVersion
  NoTree = NoTree
  MaxStarts = 3
  MaxCrashes = 2
  ExitsInWindow = FALSE
CHECK_DEADLOCK FALSE
INVARIANT LockSafe
INVARIANT BaselineWhole
PROPERTY RefinesRegister
PROPERTY EveryCommandEnds
