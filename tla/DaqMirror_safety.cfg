\* Two readers, one of whom may ask for a node without a callback entry.
CONSTANTS
  Readers = {r1, r2}
  Waiters = {}
  MaxWaits = 0
  ReadNodes = {"RunState", "Temp"}
  Paths <- MCPaths
  Values <- MCValues
  MaxFrames = 2
  MaxReads = 3
  UserCallback = UserCallback
  Reentrant = FALSE
  NoHolder = NoHolder
  None = None
SYMMETRY Sym
SPECIFICATION Spec
INVARIANT TypeOK
INVARIANT SubscribedValueCurrent
CHECK_DEADLOCK FALSE
