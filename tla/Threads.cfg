CONSTANTS
  idle_t = idle_t
  main_t = main_t
  a = a
  b = b
  p = p
  q = q
  pl = pl
  con = con
  null = null
  nosema = nosema
  Threads <- MCThreads
  Idle = idle_t
  Main = main_t
  Priority <- MCPriority
  StartOrder <- MCStart
  Locks = {pl, con}
  Semas = {}
  NoThread = null
  NoSema = nosema
  Procs = {p, q}
  Creators = {main_t}
  pid_lock = pl
  Console = con
  Programs <- MCPrograms
SPECIFICATION FairSpec
INVARIANTS ListsSpelled PlacedOnce
PROPERTIES CreationEnds
