SPECIFICATION MCSpec
CONSTANTS
  Atoms = {0, 1, 2, 3, 4, 5, 6, 7}
  Sites <- MCSites
  None = None
  Start <- MCStart
  Close <- MCClose
  X <- MCX
  Y <- MCY
  MinSep = 2
  Pairs <- MCPairs
  ReadoutSites <- MCReadout
  MaxLayers = 3
  MaxGates = 3
  MaxRounds = 1
  MaxGiven = 3
INVARIANTS
  AsapIsIdentity
  DependenciesHold
  ProgramOrderKept
  OperationsFindTheirAtoms
  LayoutIsTheReplay
  RoundsStayApart
  IsolationKept
  CriticalPathIsLongestChain
PROPERTY DeferralEnds
