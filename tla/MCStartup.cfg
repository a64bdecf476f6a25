SPECIFICATION FairSpec
CONSTANTS
  Invocations = {d1, d2}
  None = None
  Failed = Failed
INVARIANTS
  TypeOK ReportAccurate PidFileNamesDaemon TwoNeedUnlink
PROPERTIES
  ParentAnswers
CHECK_DEADLOCK FALSE
