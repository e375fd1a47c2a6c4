SPECIFICATION Spec
CONSTANTS
  Id <- MCId
  Reg <- MCReg
  MaxRho <- MCMaxRho
  Precision = 1
  Idx <- MCIdx
  Rho <- MCRho
  Group = {g1}
  Call = {c1, c2}
  ConfEntry = ConfEntry
  NoOpEntry = NoOpEntry
  ProposeCap = 1
  SnapshotThreshold = 1
  PageLimit = 1
  SaveMayFail = FALSE
  HostMayCrash = FALSE
PROPERTIES
  SnapshotKeepsNewEntries
