SPECIFICATION IteratorSpec
CONSTANTS
  Undefined = Undefined
  Values = {v1, v2}
  MaxReads = 4
INVARIANTS
  PromisesInOrder
  StoppedLeavesNoReader
  NoValueAfterEnd
PROPERTY IteratorStreamSpec
