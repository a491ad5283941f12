SPECIFICATION Spec
CONSTANTS
  h1 = h1
  h2 = h2
  NoData = NoData
  Hosts <- MCHosts
  Domains = {"network", "residentModels"}
  Configs <- ProbeConfigs
  LIVENESS_BACKOFF <- FlatBackoff
  LIVENESS_AUTH_ATTEMPTS = 1
  LIVENESS_AUTH_IDLE = 1
  ONLINE_GRACE = 0
  HostStates = {"up"}
  MaxGen = 3
  MaxPending = 1
INVARIANTS
  DisabledShowsNothing
PROPERTIES
  MacIsOfThisUnit
