SPECIFICATION FairSpec
CONSTANTS
  s1 = s1
  s2 = s2
  w1 = w1
  a = a
  JobIds = {1, 2}
  Kinds = {"rebuild", "analyze", "unknown"}
  Handled = {"rebuild", "analyze"}
  RebuildKind = "rebuild"
  Subjects = {a}
  Slots = {s1, s2}
  Workers = {w1}
  WorkerOf <- SharedWorkerId
  MaxAttempts = 2
INVARIANTS
  TypeOK
  OneOwner
  RetryBudget
PROPERTIES
  WritesFollowAttempts
  EndIsFinal
  ImplementsContract
  EveryJobEndsUnlessBlocked
CHECK_DEADLOCK FALSE
