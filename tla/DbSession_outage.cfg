\* The server may go down for longer than connect() retries.
CONSTANTS
  Apps = {a1, a2}
  Poller = Poller
  Ops <- MCOps
  MaxTries = 5
  MaxCalls = 3
  Outages = TRUE
  NoHolder = NoHolder
SPECIFICATION Spec
INVARIANT DbLockHeldByCall
\* the polling thread ends after pollDisable() and the callers' calls are bounded
CHECK_DEADLOCK FALSE
