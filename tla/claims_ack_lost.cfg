SPECIFICATION Spec
CONSTANTS
  i1 = i1
  i2 = i2
  a1 = a1
  a2 = a2
  Instances = {i1, i2}
  Attempts = {a1, a2, a3}
  InstanceOf <- MCInstanceOf
  None = none
  MaxCandle = 1
  MaxCrashes = 0
  AcksLost = {a1, a2, a3}
  BuysAbandoned = {}
  RedisDown = {}
CHECK_DEADLOCK FALSE
PROPERTY AmbiguousIsNotBoughtAgain
