\* An application status callback that calls addStatusCallback(): the
\* polling thread blocks on its own _cbLock, and a subscribing read with it.
CONSTANTS
  Readers = {r1, r2}
  Waiters = {w1}
  MaxWaits = 2
  ReadNodes = {"RunState"}
  Paths <- MCPaths
  Values <- MCValues
  MaxFrames = 1
  MaxReads = 3
  UserCallback = UserCallback
  Reentrant = TRUE
  NoHolder = NoHolder
  None = None
SPECIFICATION Spec
PROPERTY ReadCompletes
CHECK_DEADLOCK FALSE
