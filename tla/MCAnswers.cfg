SPECIFICATION Spec
CONSTANTS
  a = a
  b = b
  foreign = foreign
  word = word
  other = other
  item = item
  Items = {item}
  Answers = {a, b}
  MaxPages = 2
  MaxEdits = 3
  MaxFailures = 1
  Options = {a, b}
  Lists <- ShortLists
  Words = {word, other}
  Acceptable <- ShortAcceptable
  First = 1
  Confirmed <- Growing
  AI <- GrowingAI
  Sources = {"confirmed", "ai"}
  Versions = {1, 2}
  MaxTime = 17
INVARIANTS
  TypeOK
  UnsavedIsKept
  PageTellsTheTruth
  NoDraftComesBack
  GradesAsSpecified
  StageTakesTime
  AnswerCountsOnce
PROPERTIES
  EditsAreSaved
CHECK_DEADLOCK FALSE
