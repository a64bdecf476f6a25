SPECIFICATION FairSpec
CONSTANTS
  Pids = {1, 2}
  NoPid = 0
  Intervals = {10, 20}
  Schedules <- NoSchedule
  External = {"HUP", "USR1", "USR2", "TERM"}
  MaxTicks = 2
  MaxSignals = 2
PROPERTIES
  WorkerReaped SignalsObeyed
CHECK_DEADLOCK FALSE
