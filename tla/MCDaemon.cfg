SPECIFICATION Spec
CONSTANTS
  Pids = {p1, p2}
  NoPid = NoPid
  Intervals = {10, 20}
  Schedules <- SomeSchedules
  External = {"HUP", "USR1", "USR2", "TERM", "CHLD"}
  MaxTicks = 3
  MaxSignals = 2
INVARIANTS
  TypeOK StaleOnlyAfterSignal WorkerTracked WorkerWatched KillIsSafe ZombieAnnounced
CHECK_DEADLOCK FALSE
SYMMETRY PidSymmetry
