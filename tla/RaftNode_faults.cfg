SPECIFICATION Spec
CONSTANTS
  Id <- MCIdPair
  Reg <- MCReg
  MaxRho <- MCMaxRho
  Precision = 1
  Idx <- MCIdx
  Rho <- MCRho
  Group = {g1}
  Call = {c1, c2, c3}
  ConfEntry = ConfEntry
  NoOpEntry = NoOpEntry
  ProposeCap = 1
  SnapshotThreshold = 1
  PageLimit = 1
  SaveMayFail = TRUE
  HostMayCrash = TRUE
SYMMETRY CallSymmetry
INVARIANTS
  StoreHasNoPhantom
  StoreWithinEngine
  EngineIsLogPrefix
  SnapshotIsLogPrefix
  SnapshotIndexGrows
