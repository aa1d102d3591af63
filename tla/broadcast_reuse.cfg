SPECIFICATION Spec
CONSTANTS
  Workers = {w1, w2}
  Processes = {p, q, r}
  Cap = 2
  MaxRounds = 2
  NLeaves = 2
  Raising = {}
  Usages <- Evicting
  MaxRuns = 5
  None = None
INVARIANTS
  PrimedMeansCached
CHECK_DEADLOCK FALSE
