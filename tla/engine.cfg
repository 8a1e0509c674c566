SPECIFICATION EngineSpec
CONSTANTS
  MainLoop = mainloop
  Watchdog = watchdog
  Sockets = {s1, s2, s3}
  None = none
  MaxFaults = 1
  Contracts = {c1, f1}
  Foreign = {f1}
  NoItem = none
  Consumers = {"worker", "main", "post"}
  MaxDrops = 1
  MaxRestarts = 1
  DropsWhileConfirming = FALSE
  MaxOpen = 2
CHECK_DEADLOCK FALSE
INVARIANT SingleFlight
INVARIANT CurrentIsHeard
INVARIANT NoSocketForgotten
INVARIANT OneItemPerContract
INVARIANT NoSettlementLost
INVARIANT EnqueuedIsQueued
INVARIANT SlotIsExclusive
INVARIANT NoSlotLeak
INVARIANT OneOrderAtATime
PROPERTY PeersItemsStay
PROPERTY StreamReconnects
PROPERTY QueueSettles
PROPERTY SlotDecides
