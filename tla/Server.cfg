SPECIFICATION Spec
CONSTANTS
  Names <- MCNames
  Paths <- MCPaths
  Patterns <- MCPatterns
  Origins = {"function", "file"}
  Methods = {"GET", "POST"}
  MaxSetup = 3
  MaxListens = 2
  MaxMounts = 2
  MaxHandlers = 2
INVARIANTS
  TimerOnce
  HandlersInOrder
  GateHolds
  MostSpecific
CHECK_DEADLOCK FALSE
