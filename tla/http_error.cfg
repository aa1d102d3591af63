SPECIFICATION FairSpec
CONSTANTS
  N = 3
  W = 2
  Depth = 2
  LeafValue <- MCLeaf
  Combine <- MCPair
  TreeValue <- MCTree
  Options <- Raising
  Async = TRUE
  MaxRequests = 0
  DRIVER = DRIVER
  None = None
PROPERTIES
  ErrorSurfaces
CHECK_DEADLOCK FALSE
