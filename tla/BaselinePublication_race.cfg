SPECIFICATION Spec
CONSTANTS
  Procs = {p1, p2, p3}
  Tokens = {t1, t2, t3}
  NoToken = NoToken
  NoFile = NoFile
  NoProc = NoProc
  Versions = {v1}
  FirstVersion = v1
  NoVersion = NoVersion
  NoTree = NoTree
  MaxStarts = 4
  MaxCrashes = 0
  \* The whole of the code: a process may end between the two system calls.
  ExitsInWindow = TRUE
CHECK_DEADLOCK FALSE
INVARIANT OneProcessHolds
