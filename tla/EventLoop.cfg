SPECIFICATION Spec
CONSTANTS
  Wsis = {w1, w2}
  Fds = {f1, f2}
  None = none
  MaxWraps = 1
INVARIANTS
  HandlersFollow
  SocketsKept
CHECK_DEADLOCK FALSE
