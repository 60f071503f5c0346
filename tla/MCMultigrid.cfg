CONSTANTS
  Config <- MCConfig
  NBlk = 3
  MaxRef = 2
  MaxIter = 2
SPECIFICATION Spec
INVARIANTS LevelsAgree AscentUsesThisDescent ReadsCurrentData
