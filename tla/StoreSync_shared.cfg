\* Both roles write and poll the configuration table, without resets: a
\* poller's own write lands in the value column before it polls.
CONSTANTS
  Ids <- MCIds2
  Values <- MCValues
  Retention = 1
  None = None
  Writers = {"client", "server"}
  Pollers = {"client", "server"}
  MaxRestarts = 0
  Resets = {}
  MaxWrites = 3
  MaxTime = 3
SPECIFICATION Spec
PROPERTY PollDeliversAll
CHECK_DEADLOCK FALSE
