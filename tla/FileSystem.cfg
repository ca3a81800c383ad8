CONSTANTS
  p1 = p1
  p2 = p2
  a = a
  b = b
  Procs = {p1, p2}
  Names = {a, b}
  Dots = {".."}
  Inodes = 3
  Slots = 2
  Fds = 1
  MaxDepth = 2
  MaxCount = 2
  MaxOpen = 3
  Programs <- MCPrograms
SPECIFICATION Spec
SYMMETRY Alike
INVARIANTS Tree CwdLeadsBack OpenStaysInMemory GoneOnlyIfLeft CountsExactButForLeft
CHECK_DEADLOCK FALSE
