SPECIFICATION FairSpec
CONSTANTS
  Units = {u1}
  Offline = offline
  For <- ForOf
  MinClear = 1
  MinSeverity <- AnyAndCritical
  ForOffline = 1
  ForMetric = 2
  Rules = {thermal}
  Repeat = 2
  Heartbeat = 2
  MaxAge = 3
  DiskFails = FALSE
  MaxRestarts = 1
INVARIANTS
  TypeOK
PROPERTIES
  NotOnABlip
  NothingRepeated
  ResolvedFollowsFiring
  LastingIsReported
