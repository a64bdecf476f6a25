SPECIFICATION Spec
CONSTANTS
  Events = {e1, e2, e3, e4, e5}
  Times = {1, 2, 3}
  None = None
  SIZE_INCREMENT = 2
  GROWTH = 1
  Slack = {0, 1}
INVARIANTS
  TypeOK LoopInvariant RootIsEarliest SlotsInBounds
PROPERTIES
  ImplementsQueue
SYMMETRY EventSymmetry
