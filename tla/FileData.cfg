CONSTANTS
  fa = fa
  fb = fb
  Files = {fa, fb}
  BLOCK_SIZE = 2
  Direct = 2
  Indirect = 2
  NBlocks = 9
  IdxMod = 16
  MaxWrite = 3
  MaxSize = 5
  Junk = Junk
SPECIFICATION Spec
INVARIANTS ContentsKept ReadsBackInBlock BlocksApart
SYMMETRY Alike
