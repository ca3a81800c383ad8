CONSTANTS
  idle_t = idle_t
  main_t = main_t
  a = a
  b = b
  null = null
  nosema = nosema
  l1 = l1
  Threads <- MCThreads
  Idle = idle_t
  Main = main_t
  Priority <- MCPriority
  StartOrder <- MCStart
  Locks = {l1}
  Semas = {}
  NoThread = null
  NoSema = nosema
  MaxNest = 2
SPECIFICATION FairSpec
INVARIANTS NoPanic MutualExclusion IInv
PROPERTIES ReadyRuns ImplementsMutex
