SPECIFICATION Spec
CONSTANTS
  HashBits = 4
  P = 1
  Handle = {a, b}
  MaxIds = 3
  Linear <- MCLinear
SYMMETRY HandleSymmetry
INVARIANTS RegistersAreMaximalRanks EmptyCountsZero
