\* The status table again, with the server's clearEntries.
CONSTANTS
  Ids <- MCIds
  Values <- MCValues
  Retention = 1
  None = None
  Writers = {"server"}
  Pollers = {"client"}
  MaxRestarts = 0
  Resets = {"clearEntries"}
  MaxWrites = 3
  MaxTime = 3
SPECIFICATION Spec
PROPERTY PollDeliversAll
CHECK_DEADLOCK FALSE
