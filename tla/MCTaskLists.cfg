CONSTANTS
  Id <- MCId
  Lists <- MCLists
  MaxRounds = 2
SPECIFICATION FairSpec
INVARIANTS DependenciesCompleteFirst ReturnsOnlyWhenDone
  PlainUpdateUsesCorrectedFluxes FieldUpdateUsesReceivedEMF SendsCarryWholeUpdate
  PrimitivesUseFilledGhosts SolversUseOneMetric SweepsUseReceivedGhosts
PROPERTIES AbstractSpec EveryExecutionReturns
CHECK_DEADLOCK FALSE
