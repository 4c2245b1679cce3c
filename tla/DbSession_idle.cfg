\* Two application threads and the polling thread; the server closes idle
\* connections but stays up.
CONSTANTS
  Apps = {a1, a2}
  Poller = Poller
  Ops <- MCOps
  MaxTries = 5
  MaxCalls = 3
  Outages = FALSE
  NoHolder = NoHolder
SPECIFICATION Spec
INVARIANT TypeOK
INVARIANT DbLockHeldByCall
PROPERTY CallsReturn
PROPERTY PollStops
\* the polling thread ends after pollDisable() and the callers' calls are bounded
CHECK_DEADLOCK FALSE
