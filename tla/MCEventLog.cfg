CONSTANTS
  NRanks = 2
  Blocks <- LogBlocks
  TLim = 14
  NLim = 20
  WallTime = FALSE
  CflStep <- MCCflStep
  EventCycles = {1}
  MaxJobs = 1
SPECIFICATION Spec
INVARIANTS EventsSummedByAllRanks
CHECK_DEADLOCK FALSE
