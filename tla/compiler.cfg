SPECIFICATION Spec
CONSTANTS
  Outcomes <- MCOutcomes
  PipeSize = 3
  ChunkSize = 4
  MaxCalls = 2
INVARIANTS
  ToldRight
PROPERTIES
  CompileReturns
CHECK_DEADLOCK FALSE
