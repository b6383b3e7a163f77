SPECIFICATION Spec
CONSTANTS
  Atoms <- Three
  Sites <- Grid
  Traps <- FourTraps
  X <- GridX
  Y <- GridY
  Start <- StartThree
  RydbergSites <- Grid
  Slm = Slm
  NoAtom = NoAtom
  Reach = 10
  Spacing = 12
  Separation = 2
  MaxLayers = 2
CHECK_DEADLOCK FALSE
INVARIANTS
  HoldersMatchSites
  BindingsMatchTraps
  NobodyTradesPlaces
