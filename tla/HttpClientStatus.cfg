SPECIFICATION Spec
CONSTANTS
  Undefined = undefined
  Kinds = {"none"}
  MaxValues = 1
  MaxChunks = 1
  MaxWrites = 1
INVARIANT StatusIsTheServers
CHECK_DEADLOCK FALSE
