SPECIFICATION Spec
CONSTANTS
  NoConn = none
  Conns = {c1, c2}
  Methods = {"invoke", "delete"}
  MaxCalls = 3
  Prompt = TRUE
INVARIANTS
  OwnAnswer
  OwnObject
  ListsOpen
PROPERTIES
  Answered
CHECK_DEADLOCK FALSE
