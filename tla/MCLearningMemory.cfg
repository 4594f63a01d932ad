SPECIFICATION Spec
CONSTANTS
  keyed = keyed
  judged = judged
  Results = {keyed, judged}
  ByAI = {judged}
  JobIds = {1, 2}
  MaxAttempts = 2
  MaxTime = 3
INVARIANTS
  TypeOK
  StatsCountTheirDue
  MemoryForgetsTheReset
CHECK_DEADLOCK FALSE
