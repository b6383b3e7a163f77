SPECIFICATION Spec
CONSTANTS
  None = None
  Sources <- MCSources
  MaxRounds = 3
  MaxGates = 4
  MaxConjugate = 2
  AnyBranch = FALSE
INVARIANTS
  MeaningKept
  FixpointReached
PROPERTIES
  NeverDearer
  KeepsEmittable
CHECK_DEADLOCK FALSE
