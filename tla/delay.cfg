CONSTANTS
  InitialCapacity = 2
  MaxTime = 3
  MaxDelay = 2
  Values = {0, 1}
  FixedKinds = {TRUE, FALSE}
  NoEventKinds = {TRUE, FALSE}
  AlwaysActive = TRUE
SPECIFICATION Spec
INVARIANTS
  HistorySound
  NextEventAsked
PROPERTIES
  ImplementsDelayLine
