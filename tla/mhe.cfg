CONSTANTS
  States <- MCStates
  Algebraics <- MCAlgebraics
  RealInputs <- MCRealInputs
  Alias <- MCAlias
  Horizon = 2
  Options <- MCOptions
  InputLists <- MCInputLists
  MeasLists <- MCMeasLists
  GuessLists <- MCGuessLists
  StartInputs <- MCStartInputs
  StartParameters <- MCStartParameters
  CovLists <- MCCovLists
  MaxSteps = 6
  MaxChanges = 2
SPECIFICATION Spec
INVARIANTS
  DataInPlace
  ArrivalCost
  SameWeights
PROPERTIES
  LinearizesFresh
CHECK_DEADLOCK FALSE
