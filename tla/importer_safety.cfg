CONSTANTS
  MaxTime = 1
  MaxIter = 3
  Disc = {0, 1}
SPECIFICATION ImporterSpec
INVARIANTS
  TypeOK
  FreshUnlessMarked
  EventFlagsConsistent
  HysteresisWhileIntegrating
  RestoreNeutral
  StateChangeReported
  NextEventTimeTold
PROPERTY FlowsAndJumps
