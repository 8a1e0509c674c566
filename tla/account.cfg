SPECIFICATION AccountSpec
CONSTANTS
  i1 = i1
  i2 = i2
  a1 = a1
  a2 = a2
  Instances = {i1, i2}
  Attempts = {a1, a2, a3}
  InstanceOf <- MCInstanceOf
  None = none
  MaxCandle = 2
  MaxCrashes = 1
  AcksLost = {a1}
  BuysAbandoned = {a2}
  RedisDown = {a1}
  Engines = {i1, i2}
  Orders <- MCOrders
  Hold = 1
  NoOrder = none
  MaxEngineRestarts = 1
  MaxContracts = 3
  MaxOrders = 2
  MaxSessions = 1
  InitialBanks = {9990, 10000}
  TargetRate = 15
  SmallAccount = 10000
  SmallTarget = 1000
  Rates = {70, 87}
  PayoutEstimate = 85
  StakeMin = 100
  Downgrades = {0, 7}
  DustMax = 2500
  Results = {c1, c2, p1}
  Past = {p1}
  NoResult = none
  MaxOutages = 1
  Sample = 2
  MaxPurchases = 3
  BatchLimit = 2
  MaxFaults = 2
  Symbols = {m1, m2}
  Promoted = m1
  LastCandle = 2
  MaxFallback = 3
  MaxRequests = 4
  MaxLosses = 1
CHECK_DEADLOCK FALSE
INVARIANT ReservationSurvives
INVARIANT OneBuyPerCandle
INVARIANT NothingLeftReserved
INVARIANT LostAckIsGuarded
INVARIANT ShareIsExclusive
INVARIANT SettledReleases
INVARIANT LossesAreCarried
INVARIANT ResultsSurvive
INVARIANT LedgerAgrees
INVARIANT BalanceCountsOnce
INVARIANT DecidedOnBrokerResults
INVARIANT RowsAreWritten
INVARIANT CompletePilotIsJudged
INVARIANT AnswersAreDelivered
INVARIANT BoughtAsPublished
INVARIANT OneReversalPerLoss
PROPERTY ReleaseKeepsOthers
PROPERTY StrikeMeetsTarget
