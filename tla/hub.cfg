SPECIFICATION FairSpec
CONSTANTS
  N = 5
  Depth = 3
  LeafValue <- MCLeaf
  Combine <- MCPair
  TreeValue <- MCTree
  RaiseSets <- MCRaiseSets
  None = None
INVARIANTS
  TypeOK
  NoReadyPairWaits
  PooledHoldsNoOperand
PROPERTIES
  ImplementsReduction
  ErrorSurfaces
