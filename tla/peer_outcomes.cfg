SPECIFICATION FairSpec
CONSTANTS
  N = 5
  W = 2
  Depth = 3
  LeafValue <- MCLeaf
  Combine <- MCPair
  TreeValue <- MCTree
  Options <- Outcomes
  Async = FALSE
  MaxRequests = 1
  DRIVER = DRIVER
  None = None
INVARIANTS
  WitnessOfTheTree
PROPERTIES
  ImplementsReduction
  ErrorSurfaces
