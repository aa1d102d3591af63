SPECIFICATION Spec
CONSTANTS
  W = 2
  MaxAsks = 1
  MaxRuns = 2
  Options <- KeptAfterARaise
  None = None
INVARIANTS
  AnswerAlwaysThisRuns
CHECK_DEADLOCK FALSE
