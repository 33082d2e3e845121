SPECIFICATION Spec
CONSTANTS
  Undefined = Undefined
  Callers = {"response_reader"}
  ChunkSize = 1
  MaxBytes = 2
  MaxChunk = 1
  MaxNext = 4
  MaxContinuous = 0
INVARIANT FinishReturns
CHECK_DEADLOCK FALSE
