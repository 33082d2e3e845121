SPECIFICATION Spec
CONSTANTS
  Undefined = Undefined
  Callers = {"late_text"}
  ChunkSize = 1
  MaxBytes = 4
  MaxChunk = 2
  MaxNext = 1
  MaxContinuous = 1
INVARIANT CallbackGetsAll
CHECK_DEADLOCK FALSE
