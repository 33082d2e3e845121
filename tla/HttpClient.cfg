SPECIFICATION Spec
CONSTANTS
  Undefined = undefined
  Kinds = {"none", "text", "iterator", "async"}
  MaxValues = 2
  MaxChunks = 2
  MaxWrites = 3
INVARIANTS
  Settled
  BodyInOrder
  ReturnsWhole
  LoopFollows
CHECK_DEADLOCK FALSE
