SPECIFICATION FairSpec
CONSTANTS
  s1 = s1
  s2 = s2
  w1 = w1
  a = a
  JobIds = {1, 2}
  Kinds = {"rebuild", "analyze"}
  Handled = {"rebuild","analyze"}
  RebuildKind = "rebuild"
  Subjects = {a}
  Slots = {s1, s2}
  Workers = {w1}
  WorkerOf <- SharedWorkerId
  MaxAttempts = 2
PROPERTIES
  ExpiredIsRecovered
CHECK_DEADLOCK FALSE
