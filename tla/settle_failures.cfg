SPECIFICATION FairSpec
CONSTANTS
  Contracts = {c1, c2}
  Pollers = {p1}
  Worker = worker
  None = none
  MaxOrders = 1
  SaverRuns = TRUE
  LockTimesOut = TRUE
  PersistFailures = 1
  WatchTimesOut = FALSE
CHECK_DEADLOCK FALSE
INVARIANT SettledIsApplied
PROPERTY LockIsReleased
