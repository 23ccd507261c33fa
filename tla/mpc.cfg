SPECIFICATION Spec
CONSTANTS
  MaxCalls = 7
  EquationScaling = TRUE
  MaxSamples = 6
  MaxSets = 2
  Horizon = 3
  NCp = 2
  NEval = 3
  ElementCounts = {3, 4, 6}
  Guesses = {"shift", "trajectory", "prev", "none"}
  ResultModes = {"collocation_points", "mesh_points", "element_interpolation"}
  Steps = 3
  ChangesAt = {1}
INVARIANTS
  SolvesAsAsked
  OptimumTold
  InputForNow
  GuessAligned
  ErrorOfThisStep
CHECK_DEADLOCK FALSE
