SPECIFICATION FairSpec
CONSTANTS
  Pids = {1, 2}
  NoPid = 0
  Intervals = {10}
  Schedules <- NoSchedule
  External = {}
  MaxTicks = 3
  MaxSignals = 2
PROPERTIES
  TicksServed
CHECK_DEADLOCK FALSE
