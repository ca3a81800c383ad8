CONSTANTS
  fa = fa
  fb = fb
  n1 = n1
  n2 = n2
  n3 = n3
  n4 = n4
  Files = {fa, fb, n1, n2, n3, n4}
  BLOCK_SIZE = 3
  Direct = 3
  Indirect = 1
  NBlocks = 16
  IdxMod = 32
  MaxWrite = 4
  MaxSize = 10
  Junk = Junk
  dot = dot
  dotdot = dotdot
  Free = Junk
  PerSec = 3
  NInodes = 8
  SectorUnits = 5
  BitsPerSector = 32
  Cuts = {"write", "release"}
  Counts = {2, 4}
  MaxSince = 1
  Uses <- MCUses
SPECIFICATION VolumeSpec
INVARIANTS NothingLost DiskAgrees Durable NothingShared HoldsLive
SYMMETRY Alike
