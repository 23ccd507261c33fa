SPECIFICATION Spec
CONSTANTS
  Outcomes <- MCOutcomes
  PipeSize = 3
  ChunkSize = 4
  MaxCalls = 2
INVARIANTS
  EndsWithStream
CHECK_DEADLOCK FALSE
