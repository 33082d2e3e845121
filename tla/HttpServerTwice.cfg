SPECIFICATION Spec
CONSTANTS
  Methods = {"POST"}
  Handlers = {"async"}
  Outcomes = {"data", "last", "end", "throw"}
  Results = {"response"}
  MaxMade = 4
INVARIANT NoPromiseAtATurn
CHECK_DEADLOCK FALSE
