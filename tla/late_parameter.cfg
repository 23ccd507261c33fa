CONSTANTS
  MaxTime = 0
  MaxIter = 2
  Disc = {0}
SPECIFICATION ImporterSpec
PROPERTY DependentsReevaluated
