SPECIFICATION Spec
CONSTANTS
  Id <- MCId
  Reg <- MCReg
  MaxRho <- MCMaxRho
  Precision = 1
  Idx <- MCIdx
  Rho <- MCRho
  g1 = g1
  g2 = g2
  Group = {g1, g2}
  MaxGroups = 1
  NameRank <- MCNameRank
  CardinalityOf <- MCEstimate
  Cut = Cut
  Op = {o1, o2, o3}
  NoOp = NoOp
  Command <- MCCommand
  SaveMayFail = TRUE
SYMMETRY OpSymmetry
INVARIANTS
  TypeOK
  AckedIsPersisted
  ReadIsOneMoment
  CapKeepsLargest
PROPERTIES
  SavesNeverGoBack
  ImplementsShard
