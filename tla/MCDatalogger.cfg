SPECIFICATION FairSpec
INVARIANTS
  TypeOK AsleepOnlyAfterEvent RowAccounted
PROPERTIES
  KillIsSafe WorkerEnds
CHECK_DEADLOCK FALSE
