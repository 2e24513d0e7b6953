SPECIFICATION SeedSpec
CONSTANTS
  Node <- MCNode
  GraphSet <- SeedGraphs
INVARIANTS ShippedIsMade InsufficientHolds InputsSettled Concludes
CHECK_DEADLOCK FALSE
