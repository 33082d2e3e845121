SPECIFICATION Spec
CONSTANTS
  Sides = {"client"}
  MaxSends = 1
  MaxMessages = 1
  MaxParts = 2
INVARIANT ClientClosedOnce
CHECK_DEADLOCK FALSE
