SPECIFICATION Spec
CONSTANTS
  Undefined = Undefined
  Callers = {"repeater", "writer", "enqueuer", "message_reader", "request_text", "response_text", "chunk_reader"}
  ChunkSize = 2
  MaxBytes = 5
  MaxChunk = 2
  MaxNext = 4
  MaxContinuous = 2
INVARIANTS
  NothingLost
  DeliveredInOrder
  ReaderServed
  CallbackGetsAll
PROPERTY StreamSpec
CHECK_DEADLOCK FALSE
