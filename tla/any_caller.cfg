\* EpsilonReset is violated; without it the invariants hold.
CONSTANTS
  MaxTime = 0
  MaxIter = 2
  Disc = {0}
SPECIFICATION Spec
CONSTRAINT Bounded
INVARIANTS
  TypeOK
  FreshUnlessMarked
PROPERTIES
  EpsilonReset
