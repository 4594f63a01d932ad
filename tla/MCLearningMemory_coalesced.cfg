SPECIFICATION Spec
CONSTANTS
  keyed = keyed
  judged = judged
  Results = {keyed, judged}
  ByAI = {}
  JobIds = {1, 2}
  MaxAttempts = 1
  MaxTime = 2
INVARIANTS
  DrainedMeansCounted
CHECK_DEADLOCK FALSE
