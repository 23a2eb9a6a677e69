SPECIFICATION FairSpec
CONSTANTS
  M = 2
  N = 3
  Slices = 3
  Swizzle = 4
  Slots = 3
  MaxGrids = 2
INVARIANTS TypeOK SumsInOrder
PROPERTY Termination
