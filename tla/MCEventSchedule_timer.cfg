SPECIFICATION Spec
CONSTANTS
  Events = {e1, e2, e3, e4, e5}
  None = None
  DAY = 4
  IMPORTTMPFS_TIMEOUT = 1
  POWERUPDELAY = 0
  Lists <- DailyLists
  MaxTime = 12
  MaxReloads = 2
INVARIANTS
  TimerForNextEvent
CHECK_DEADLOCK FALSE
