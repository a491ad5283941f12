SPECIFICATION Spec
CONSTANTS
  Runs = {r1, r2}
  MaxEvents = 2
INVARIANTS
  TypeOK
  OneTool
  RecordIsTrue
PROPERTIES
  OutcomeIsFinal
  WatchSettles
CHECK_DEADLOCK FALSE
