CONSTANTS
  N = 3
  Problems <- MCProblems
SPECIFICATION Spec
INVARIANTS
  IneliminableKept
CHECK_DEADLOCK FALSE
