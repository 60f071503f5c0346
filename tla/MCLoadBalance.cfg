CONSTANTS
  Inputs <- MCEnough
SPECIFICATION Spec
INVARIANTS ListsAgree EvenLoad
CHECK_DEADLOCK FALSE
