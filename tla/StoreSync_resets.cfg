\* Both roles write and poll the configuration table, with replace into,
\* clearEntries and delOldEntries.
CONSTANTS
  Ids <- MCIds
  Values <- MCValues
  Retention = 1
  None = None
  Writers = {"client", "server"}
  Pollers = {"client", "server"}
  MaxRestarts = 0
  Resets = {"addEntry", "clearEntries", "delOldEntries"}
  MaxWrites = 3
  MaxTime = 3
SPECIFICATION Spec
INVARIANT NoDuplicateDispatch
CHECK_DEADLOCK FALSE
