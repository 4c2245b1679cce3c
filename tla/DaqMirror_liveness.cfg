\* Readers asking only for nodes that have a callback entry: every read returns.
CONSTANTS
  Readers = {r1, r2}
  Waiters = {w1}
  MaxWaits = 2
  ReadNodes = {"RunState"}
  Paths <- MCPaths
  Values <- MCValues
  MaxFrames = 1
  MaxReads = 3
  UserCallback = UserCallback
  Reentrant = FALSE
  NoHolder = NoHolder
  None = None
SPECIFICATION Spec
PROPERTY ReadCompletes
CHECK_DEADLOCK FALSE
