SPECIFICATION FairSpec
CONSTANTS
  Methods = {"GET", "POST"}
  Handlers = {"sync", "async", "generator", "async_generator"}
  Outcomes = {"data", "last", "end", "throw", "nothing"}
  Results = {"response", "bodyless", "other", "throw"}
  MaxMade = 4
INVARIANTS
  WaitsForItsPromises
  NeverStuck
  WireInOrder
  FinalIsLast
PROPERTY Answered
CHECK_DEADLOCK FALSE
