SPECIFICATION Spec
CONSTANTS
  Letters = {"a"}
  MaxLength = 6
  Null = Null
  Garbage = Garbage
INVARIANTS
  TypeOK InBounds MatchesRules ListSurvives
CHECK_DEADLOCK FALSE
