SPECIFICATION Spec
CONSTANTS
  NumQubits = 5
  NumSlots = 4
  Edges <- Paw
  Distance <- PawDistance
  None = None
  PartialRegions = FALSE
  MaxOps = 4
CHECK_DEADLOCK FALSE
INVARIANTS
  LayoutIsABijection
  OperandsCarryTheirQubit
  RoutedOnEdges
  LayoutIsTheDevice
  RefusesOnlyPartlyFilled
PROPERTIES
  RoutingEnds
