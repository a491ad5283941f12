SPECIFICATION Spec
CONSTANTS
  Units = {u1}
  Offline = offline
  For <- ForOf
  MinClear = 1
  MinSeverity <- AnyAndCritical
  ForOffline = 0
  ForMetric = 0
  Rules = {offline, thermal}
  Repeat = 0
  Heartbeat = 1
  MaxAge = 1
  DiskFails = TRUE
  MaxRestarts = 0
INVARIANTS
  SavedIsCurrent
