CONSTANTS
  Keys <- MCKeys
  MaxBytes = 3
  BothSides = FALSE
SPECIFICATION Spec
INVARIANTS TypesAsWanted StatusFollowsKeys
