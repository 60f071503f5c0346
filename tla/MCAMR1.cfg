CONSTANTS
  NRoot <- OneD
  RootLevel = 1
  MaxLevel = 3
  Periodic <- Open1
  RefInterval = 2
  CheckEvery = 1
  NRanks = 1
  MaxPerRank = 8
  Points <- Points1
  Criteria <- AnyFlags
  Regions <- NoRegions
SPECIFICATION Spec
INVARIANTS MapsAgree AgesFollowBlocks
PROPERTIES MergesOnlyOldBlocks
