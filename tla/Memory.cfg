CONSTANTS
  k1 = k1
  k2 = k2
  p1 = p1
  p2 = p2
  KThreads = {k1, k2}
  Procs = {p1, p2}
  KFrames = 4
  UFrames = 4
  KPages = 6
  UPages = 4
  Width = 2
  DirSize = 2
  MaxCnt = 3
  None = None
  Groups = {{k1, k2}, {p1, p2}}
SPECIFICATION Spec
INVARIANTS NoSharedFrame BitsMatchUse PanicsOnlyWhenFull FirstFit
CHECK_DEADLOCK FALSE
