SPECIFICATION FairSpec
CONSTANTS
  W = 2
  MaxAsks = 1
  MaxRuns = 3
  Options <- Sessions
  None = None
INVARIANTS
  TypeOK
  AnswerIsThisRuns
  CleanRunLeavesOnlySteals
PROPERTIES
  RunsEnd
CHECK_DEADLOCK FALSE
