CONSTANTS
  k1 = k1
  k2 = k2
  p1 = p1
  p2 = p2
  KThreads = {k1}
  Procs = {p1}
  KFrames = 4
  UFrames = 4
  KPages = 4
  UPages = 4
  Width = 2
  DirSize = 2
  MaxCnt = 2
  None = None
  Groups = {{k1, p1}}
SPECIFICATION Spec
INVARIANTS NoSharedFrame
CHECK_DEADLOCK FALSE
