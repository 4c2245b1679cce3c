\* A reader may ask for a node without a callback entry: does every read return?
CONSTANTS
  Readers = {r1, r2}
  Waiters = {}
  MaxWaits = 0
  ReadNodes = {"RunState", "Temp"}
  Paths <- MCPaths
  Values <- MCValues
  MaxFrames = 1
  MaxReads = 3
  UserCallback = UserCallback
  Reentrant = FALSE
  NoHolder = NoHolder
  None = None
SPECIFICATION Spec
PROPERTY ReadCompletes
CHECK_DEADLOCK FALSE
