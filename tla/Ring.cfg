SPECIFICATION Spec
CONSTANTS
  Node = {n1, n2, n3}
  NoNode = NoNode
  VNodes = 2
  Points = 6
  MaxPoints = 6
SYMMETRY NodeSymmetry
CONSTRAINT NoGhosts
INVARIANTS
  TypeOK
  ResolveIsClosest
  RingIsItsMembers
PROPERTIES
  GrowthMovesOnlyToNewcomer
  RemovalMovesOnlyItsGroups
CHECK_DEADLOCK FALSE
