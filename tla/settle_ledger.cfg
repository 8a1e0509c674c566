SPECIFICATION FairSpec
CONSTANTS
  Contracts = {c1, c2, c3}
  Pollers = {p1}
  Worker = worker
  None = none
  MaxOrders = 1
  SaverRuns = FALSE
  LockTimesOut = FALSE
  PersistFailures = 0
  WatchTimesOut = TRUE
CHECK_DEADLOCK FALSE
INVARIANT BookedExactlyOnce
PROPERTY ImplementsLedger
