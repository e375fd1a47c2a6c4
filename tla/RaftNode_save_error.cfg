SPECIFICATION Spec
CONSTANTS
  Id <- MCId
  Reg <- MCReg
  MaxRho <- MCMaxRho
  Precision = 1
  Idx <- MCIdx
  Rho <- MCRho
  Group = {g1}
  Call = {c1, c2}
  ConfEntry = ConfEntry
  NoOpEntry = NoOpEntry
  ProposeCap = 1
  SnapshotThreshold = 2
  PageLimit = 0
  SaveMayFail = TRUE
  HostMayCrash = FALSE
INVARIANTS
  AppliedIsPersisted
