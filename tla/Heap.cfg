CONSTANTS
  PG_SIZE = 16
  Header = 3
  MinBlock = 4
  DESC_INT = 2
  NPages = 3
  Sizes = {0, 3, 8, 9, 14}
SPECIFICATION Spec
INVARIANTS PiecesDisjoint CountsFree EmptyArenasReturned
CHECK_DEADLOCK FALSE
