SPECIFICATION Spec
CONSTANTS
  N = 2
  Old = 1
  Walk <- MCWalkTwo
  Group <- MCGroup
  Id = {1}
  Counted <- MCCounted
  Calls = 2
  MaxEnds = 1
  Job <- MCJobOne
INVARIANTS
  TransparentGrowth
CHECK_DEADLOCK FALSE
