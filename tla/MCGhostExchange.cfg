CONSTANTS
  Ranks <- MCRanks
  Blocks <- MCBlocks
  Meshes <- MCMeshes
  NStages = 2
  MaxCycles = 2
SPECIFICATION FairSpec
INVARIANTS GhostsAreOfThisStage SendBufferFree PeersWithinOneStage
PROPERTIES AbstractSpec EveryStageCompletes
CHECK_DEADLOCK FALSE
