SPECIFICATION Spec
CONSTANTS
  Absent = Absent
  Samples = 2
  Tests <- MCTests
  MaxMounts = 2
INVARIANTS
  TypeOK RightIdentity CreatedComplete
PROPERTIES
  RowsKept
CHECK_DEADLOCK FALSE
