CONSTANTS
  N = 3
  Problems <- MCProblems
SPECIFICATION Spec
INVARIANTS
  MatchingSound
  BlockLowerTriangular
  ReducedClosed
  DependenciesExact
CHECK_DEADLOCK FALSE
