SPECIFICATION FairSpec
CONSTANTS
  a = a
  b = b
  s1 = s1
  s2 = s2
  k1 = k1
  k2 = k2
  Accounts = {a, b}
  Sessions = {s1, s2}
  Keys = {k1, k2}
  Requested = 2
  Budget = 2
  DailyLimit = 1
  MaxCalls = 2
  MaxAttempts = 2
  MaxDay = 1
INVARIANTS
  TypeOK
  LimitsHold
  NoQuestionTwice
  BankIsSound
PROPERTIES
  GenerationEnds
CHECK_DEADLOCK FALSE
