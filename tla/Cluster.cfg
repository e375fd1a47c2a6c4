SPECIFICATION FairSpec
CONSTANTS
  N = 3
  Old = 2
  Walk <- MCWalk
  Group <- MCGroup
  Id = {1, 2}
  Counted <- MCCounted
  Calls = 2
  Job <- MCJob
  MaxEnds = 2
INVARIANTS
  TypeOK
  NoForwardingLoop
  StoredOnlyAtOwners
  AckedIsHeld
  MonotoneReads
PROPERTIES
  DrainEnds
CHECK_DEADLOCK FALSE
