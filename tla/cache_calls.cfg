\* With -continue: both are violated.
CONSTANTS
  Functions = {f}
  Objects = {a, b, c}
  Args = {1}
  Calls <- TwoObjectCalls
  Limits = {1}
  Timed = TRUE
  NoName = NoName
  Nothing = Nothing
SPECIFICATION Spec
INVARIANTS
  ReadyForEval
  OwnObjects
