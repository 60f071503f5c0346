CONSTANTS
  Id <- MCId
  Lists <- ForcedStages
  MaxRounds = 2
SPECIFICATION Spec
INVARIANTS UpdateUsesCorrectedFluxes
CHECK_DEADLOCK FALSE
