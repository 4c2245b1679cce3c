\* The status table again, with delOldEntries and add*Entry re-creating a
\* row that pollers have cached.
CONSTANTS
  Ids <- MCIds
  Values <- MCValues
  Retention = 1
  None = None
  Writers = {"server"}
  Pollers = {"client"}
  MaxRestarts = 0
  Resets = {"addEntry", "delOldEntries"}
  MaxWrites = 3
  MaxTime = 3
SPECIFICATION Spec
PROPERTY PollDeliversAll
CHECK_DEADLOCK FALSE
