SPECIFICATION Spec
CONSTANTS
  Sides = {"server", "client"}
  MaxSends = 3
  MaxMessages = 2
  MaxParts = 3
INVARIANTS
  SentInOrder
  ResolvedWhenWritten
  NeverStuck
  NoDanglingSocket
  MessagesWhole
  ServerClosedOnce
  CloseIsTold
  PromiseSettled
CHECK_DEADLOCK FALSE
