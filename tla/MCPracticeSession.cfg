SPECIFICATION FairPageSpec
CONSTANTS
  p = p
  i1 = i1
  i2 = i2
  right = right
  wrong = wrong
  Sessions = {p}
  Review = {}
  Items = {i1, i2}
  AnswerKind <- KeyedAndShort
  Values = {right, wrong}
  RightValue = right
  JobIds = {1, 2}
  MaxAttempts = 2
INVARIANTS
  TypeOK
  GradedAsSubmitted
  GradingIsDriven
  ShownIsFinal
PROPERTIES
  VerdictsStand
  SessionsFinish
CHECK_DEADLOCK FALSE
