\* One reader asking for RunState again before the first status value
\* arrives: each call adds another setter to the status callbacks.
CONSTANTS
  Readers = {r1}
  Waiters = {}
  MaxWaits = 0
  ReadNodes = {"RunState"}
  Paths <- MCPaths
  Values <- MCValues
  MaxFrames = 1
  MaxReads = 2
  UserCallback = UserCallback
  Reentrant = FALSE
  NoHolder = NoHolder
  None = None
SPECIFICATION Spec
INVARIANT AtMostOneSubscription
CHECK_DEADLOCK FALSE
