SPECIFICATION Spec
CONSTANTS
  Protocols = {"http", "https", "ws", "x"}
  Ports = {"80", "8080"}
  Methods = {"GET", "POST"}
  MaxSets = 2
INVARIANT TextSaysAll
INVARIANT ServedAsAsked
PROPERTY OnlyItsPart
CHECK_DEADLOCK FALSE
