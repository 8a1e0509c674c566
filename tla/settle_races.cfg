SPECIFICATION FairSpec
CONSTANTS
  Contracts = {c1, c2}
  Pollers = {p1, p2}
  Worker = worker
  None = none
  MaxOrders = 2
  SaverRuns = TRUE
  LockTimesOut = FALSE
  PersistFailures = 0
  WatchTimesOut = TRUE
CHECK_DEADLOCK FALSE
INVARIANT SettlementInv
INVARIANT AppliedAtMostOnce
INVARIANT NoSettlementLost
PROPERTY CycleMissesOnlyPopped
PROPERTY EventuallySettled
