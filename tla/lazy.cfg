SPECIFICATION FairSpec
CONSTANTS
  N = 23
  Depth = 5
  LeafValue <- MCLeaf
  Combine <- MCPair
  TreeValue <- MCTree
  RaiseSets <- MCRaiseSets
  Ahead = 3
  None = None
INVARIANTS
  TypeOK
  FrontierIsSmall
  HoldsEveryLeafOnce
PROPERTIES
  ImplementsReduction
