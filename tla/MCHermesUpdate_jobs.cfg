SPECIFICATION FairSpec
CONSTANTS
  MaxMonitors = 2
  MaxRelease = 2
  MaxChecks = 1
  MaxJobs = 2
INVARIANTS
  RunningIsTheJob
PROPERTIES
  JobsEnd
