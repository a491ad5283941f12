SPECIFICATION Spec
CONSTANTS
  Launchers = {m1}
  MaxJobs = 2
  Local = TRUE
INVARIANTS
  StopHoldsTheSpark
CHECK_DEADLOCK FALSE
