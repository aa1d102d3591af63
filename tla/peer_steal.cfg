SPECIFICATION Spec
CONSTANTS
  N = 5
  W = 3
  Depth = 3
  LeafValue <- MCLeaf
  Combine <- MCPair
  TreeValue <- MCTree
  Options <- Overlays
  Async = FALSE
  MaxRequests = 1
  DRIVER = DRIVER
  None = None
INVARIANTS
  TypeOK
  ValuesAreTrue
  NoLeafTwice
  NothingLost
  RootIsTreeValue
  NoSiblingsParked
  StealsBalance
  NothingLeftBehind
