SPECIFICATION ScalSpec
CONSTANTS
  Problems <- MCProblems
  Shapes <- MCShapes
  NewModes <- MCModes
  MaxUpdates = 1
INVARIANTS
  PlacedRight
  OriginsRight
  RescaledInside
  ShiftMoves
  ScalesRight
CHECK_DEADLOCK FALSE
