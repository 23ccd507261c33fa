SPECIFICATION ScalSpec
CONSTANTS
  Problems <- MCBlocked
  Shapes <- MCShapes
  NewModes <- MCModes
  MaxUpdates = 1
INVARIANTS
  BlockingRight
CHECK_DEADLOCK FALSE
