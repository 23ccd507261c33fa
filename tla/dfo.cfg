CONSTANTS
  Lower = 0
  Upper = 6
  Values = {0, 1, 2}
  NaN = NaN
  Start = 4
  Side = 3
  XTol = 2
  One = 2
  MaxIters = 2
  MaxFevals = 13
  Calls <- MCCalls
SPECIFICATION Spec
INVARIANTS
  InsideBounds
PROPERTIES
  StepsImprove
  Terminates
CHECK_DEADLOCK FALSE
