SPECIFICATION FairSpec
CONSTANTS
  Workers = {w1, w2}
  Processes = {p, q, r}
  Cap = 2
  MaxRounds = 2
  NLeaves = 2
  Raising = {p}
  Usages <- Agreeing
  MaxRuns = 5
  None = None
INVARIANTS
  TypeOK
  PrimedMeansCached
  LeafFindsProcess
  OkTookEveryLeaf
PROPERTIES
  RunsEnd
CHECK_DEADLOCK FALSE
