CONSTANTS
  NRanks = 3
  nleaf = 2
  Plans <- Plans3
SPECIFICATION Spec
INVARIANTS EveryBlockHasItsData SendsMatchReceives
PROPERTY EveryRankFinishes
CHECK_DEADLOCK FALSE
