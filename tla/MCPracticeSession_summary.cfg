SPECIFICATION PageSpec
CONSTANTS
  p = p
  i1 = i1
  i2 = i2
  right = right
  wrong = wrong
  Sessions = {p}
  Review = {}
  Items = {i1}
  AnswerKind <- Open
  Values = {right}
  RightValue = right
  JobIds = {1}
  MaxAttempts = 2
PROPERTIES
  KnownResultsKept
CHECK_DEADLOCK FALSE
