CONSTANTS
  Functions = {f}
  Objects = {a, b}
  Args = {1, 2}
  Calls <- MixedCalls
  Limits = {0, 2}
  Timed = TRUE
  NoName = NoName
  Nothing = Nothing
SPECIFICATION FairSpec
INVARIANTS
  KeptRight
  AnswersKeptApart
PROPERTIES
  CallsEnd
