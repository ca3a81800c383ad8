CONSTANTS
  SECTOR_SIZE = 2
  MAX_FILES_PER_PART = 8
  InodeSize = 1
  Channels = 1
  Primary = 4
  Logical = 8
  Disks <- MCDisks
  PowerFails = FALSE
  NoFs = NoFs
SPECIFICATION Spec
INVARIANTS LayoutFits EveryPartitionReady
