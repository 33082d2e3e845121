SPECIFICATION Spec
CONSTANTS
  Names = {"a", "b", "c"}
  Digits = {"1", "2"}
  MaxHeaders = 2
  MaxOps = 3
  Room = 7
INVARIANT AgreesWithList
CHECK_DEADLOCK FALSE
