SPECIFICATION Spec
CONSTANTS
  NoAtom = NoAtom
  Atoms = {a1, a2}
  MaxEvents = 4
  MaxCycle = 1
CHECK_DEADLOCK FALSE
INVARIANTS
  
  RefusesIllegalOrForgotten
