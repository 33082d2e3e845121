SPECIFICATION Spec
CONSTANTS
  Undefined = Undefined
  Callers = {"awaiting"}
  ChunkSize = 1
  MaxBytes = 4
  MaxChunk = 1
  MaxNext = 5
  MaxContinuous = 0
PROPERTY PushResolvedByNext
CHECK_DEADLOCK FALSE
