SPECIFICATION ScalSpec
CONSTANTS
  Problems <- MCGauss
  Shapes <- MCShapes
  NewModes <- MCModes
  MaxUpdates = 1
INVARIANTS
  AllRescaled
CHECK_DEADLOCK FALSE
