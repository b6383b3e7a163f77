SPECIFICATION Spec
CONSTANTS
  None = None
  Sources <- MCSources
  MaxRounds = 3
  MaxGates = 4
  MaxConjugate = 2
  AnyBranch = TRUE
INVARIANTS
  MeaningKept
CHECK_DEADLOCK FALSE
