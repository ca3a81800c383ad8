CONSTANTS
  idle_t = idle_t
  main_t = main_t
  a = a
  b = b
  ch = ch
  dd = dd
  null = null
  nosema = nosema
  Threads <- MCThreads
  Idle = idle_t
  Main = main_t
  Priority <- MCPriority
  StartOrder <- MCStart
  Locks = {ch}
  Semas = {dd}
  NoThread = null
  NoSema = nosema
  Channel = ch
  disk_done = dd
  Disks = {0, 1}
  max_lba = 3
  SecMax = 2
  TimeLimit = 2
  IrqOpen = TRUE
  Requests <- MCRequests
  Clients = {a, b}
SPECIFICATION FairSpec
INVARIANTS PanicsOnlyWhenSlow CallDone DoneIsExpected
PROPERTIES NoCommandWhileBusy HolderFinishes
CHECK_DEADLOCK FALSE
