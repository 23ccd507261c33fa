CONSTANTS
  InitialCapacity = 2
  MaxTime = 3
  MaxDelay = 2
  Values = {0, 1}
  FixedKinds = {TRUE}
  NoEventKinds = {FALSE}
  AlwaysActive = FALSE
SPECIFICATION Spec
PROPERTIES
  PositionPresent
