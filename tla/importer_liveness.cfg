CONSTANTS
  MaxTime = 1
  MaxIter = 3
  Disc = {0}
SPECIFICATION LiveSpec
PROPERTY EventEnds
