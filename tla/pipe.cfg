CONSTANTS
  InitialCapacity = 2
  Length = 2
  MaxX = 1
  MaxSamples = 5
  Values = {0, 1}
  NoEvent = FALSE
SPECIFICATION Spec
INVARIANTS
  PipeSound
PROPERTIES
  InflowTaken
CHECK_DEADLOCK FALSE
