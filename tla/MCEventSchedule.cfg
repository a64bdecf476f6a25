SPECIFICATION FairSpec
CONSTANTS
  Events = {e1, e2, e3, e4, e5, e6, e7, e8}
  None = None
  DAY = 4
  IMPORTTMPFS_TIMEOUT = 1
  POWERUPDELAY = 2
  Lists <- AllLists
  MaxTime = 12
  MaxReloads = 3
INVARIANTS
  TypeOK ScheduleFollowsList DailyOnTime
PROPERTIES
  ExecutedInOrder ImportTimeoutsKept PumpEnds
CHECK_DEADLOCK FALSE
