SPECIFICATION Spec
CONSTANTS
  NumQubits = 4
  NumSlots = 4
  Edges <- Paw
  Distance <- PawDistance
  None = None
  PartialRegions = TRUE
  MaxOps = 3
CHECK_DEADLOCK FALSE
INVARIANT OperandsCarryTheirQubit
