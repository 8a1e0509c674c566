SPECIFICATION Spec
CONSTANTS
  Contracts = {c1, c2}
  Pollers = {p1}
  Worker = worker
  None = none
  MaxOrders = 1
  SaverRuns = TRUE
  LockTimesOut = FALSE
  PersistFailures = 0
  WatchTimesOut = FALSE
CHECK_DEADLOCK FALSE
INVARIANT BookedExactlyOnce
