SPECIFICATION FairSpec
CONSTANTS
  Launchers = {m1}
  MaxJobs = 2
  Local = FALSE
INVARIANTS
  OneJobAtATime
  StopHoldsTheSpark
  CompletedIsOver
PROPERTIES
  OutcomeIsFinal
  JobsEnd
CHECK_DEADLOCK FALSE
