SPECIFICATION QueueSpec
CONSTANTS
  Contracts = {c1, f1}
  Foreign = {f1}
  NoItem = none
  Consumers = {"worker", "main"}
  MaxDrops = 2
  MaxRestarts = 0
  DropsWhileConfirming = TRUE
CHECK_DEADLOCK FALSE
PROPERTY Reconnects
