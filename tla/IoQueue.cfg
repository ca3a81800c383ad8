CONSTANTS
  idle_t = idle_t
  main_t = main_t
  c = c
  d = d
  ioq = ioq
  null = null
  nosema = nosema
  Threads <- MCThreads
  Idle = idle_t
  Main = main_t
  Priority <- MCPriority
  StartOrder <- MCStart
  Locks = {ioq}
  Semas = {}
  NoThread = null
  NoSema = nosema
  Ioq = ioq
  Users <- MCUsers
  bufsize = 3
SPECIFICATION FairSpec
INVARIANTS NoPanic FirstInFirstOut
PROPERTY EveryCharTaken
