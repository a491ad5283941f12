SPECIFICATION Spec
CONSTANTS
  Units = {u1}
  MaxActive = 2
  HistoryLimit = 2
  MaxJobs = 3
  MaxEvents = 3
  u1 = u1
CHECK_DEADLOCK FALSE
INVARIANTS
  CapHolds
  Exclusive
  Bookkeeping
  HistoryHolds
PROPERTIES
  OutcomeIsFinal
