SPECIFICATION Spec
CONSTANTS
  keyed = keyed
  judged = judged
  Results = {keyed}
  ByAI = {}
  JobIds = {1}
  MaxAttempts = 1
  MaxTime = 2
INVARIANTS
  ReviewsForgetTheReset
CHECK_DEADLOCK FALSE
