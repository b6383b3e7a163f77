SPECIFICATION Spec
CONSTANTS
  Names = {q, r}
  None = None
  q = q
  r = r
  Reexecuted = {}
  MaxArms = 2
  MaxNodes = 5
  MaxBindings = 3
SYMMETRY NameSymmetry
CHECK_DEADLOCK FALSE
INVARIANTS
  SpentExactlyOnce
  DeltaIsTheRest
  RejectsOnlyMisuse
