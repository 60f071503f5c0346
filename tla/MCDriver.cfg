CONSTANTS
  NRanks = 2
  Blocks <- MCBlocks
  TLim = 10
  NLim = 20
  WallTime = TRUE
  CflStep <- MCCflStep
  EventCycles = {1}
  MaxJobs = 2
SPECIFICATION FairSpec
INVARIANTS RanksStopTogether OutputsOnSchedule
PROPERTIES RewritesAgree EveryJobEnds
CHECK_DEADLOCK FALSE
