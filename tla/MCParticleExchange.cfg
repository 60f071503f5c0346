CONSTANTS
  Owner <- MCOwner
  NRanks = 3
  Counts <- MCCounts
  SendListPart = 1
  MaxCycles = 1
SPECIFICATION FairSpec
INVARIANTS ArraysHoldOwnParticles NoParticleLostOrDoubled
PROPERTIES EveryExchangeCompletes
CHECK_DEADLOCK FALSE
