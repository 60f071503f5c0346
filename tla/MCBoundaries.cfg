CONSTANTS
  NRoot <- ThreeD
  RootLevel = 1
  MaxLevel = 3
  Periodic <- Wrap3
  RefInterval = 1
  CheckEvery = 1
  NRanks = 2
  MaxPerRank = 33
  Points <- Points3
  Criteria <- PointFlags
  Regions <- Regions3
  Cells = 4
  Ghost = 2
SPECIFICATION Spec
INVARIANTS Balanced NeverFatal NeighborsAreMutual FluxesAgree GhostZonesAreFilled
PROPERTIES CoarsensWhenAsked RestartKeepsMesh
