\* The status table: the server writes, the client polls; no resets.
CONSTANTS
  Ids <- MCIds2
  Values <- MCValues
  Retention = 1
  None = None
  Writers = {"server"}
  Pollers = {"client"}
  MaxRestarts = 1
  Resets = {}
  MaxWrites = 3
  MaxTime = 3
SPECIFICATION Spec
INVARIANT TypeOK
PROPERTY PollDeliversAll
PROPERTY WriteReachesPoller
CHECK_DEADLOCK FALSE
