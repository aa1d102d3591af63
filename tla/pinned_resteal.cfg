SPECIFICATION Spec
CONSTANTS
  N = 6
  W = 3
  Depth = 3
  LeafValue <- MCLeaf
  Combine <- MCPair
  TreeValue <- MCTree
  Options <- StealingPinned
  Async = FALSE
  MaxRequests = 2
  DRIVER = DRIVER
  None = None
INVARIANTS
  NothingLost
CHECK_DEADLOCK FALSE
