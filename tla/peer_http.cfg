SPECIFICATION Spec
CONSTANTS
  N = 3
  W = 2
  Depth = 2
  LeafValue <- MCLeaf
  Combine <- MCPair
  TreeValue <- MCTree
  Options <- Posting
  Async = TRUE
  MaxRequests = 1
  DRIVER = DRIVER
  None = None
INVARIANTS
  NoLeafTwice
  NothingLost
  WitnessOfTheTree
  RootOnlyAtWorker0
PROPERTIES
  StepsImplementReduction
CHECK_DEADLOCK FALSE
