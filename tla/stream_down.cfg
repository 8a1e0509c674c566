SPECIFICATION FairSpec
CONSTANTS
  MainLoop = mainloop
  Watchdog = watchdog
  Sockets = {s1, s2, s3}
  None = none
  MaxFaults = 1
CHECK_DEADLOCK FALSE
PROPERTY ConnectionRestored
