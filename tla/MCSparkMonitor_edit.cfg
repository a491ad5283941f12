SPECIFICATION Spec
CONSTANTS
  h1 = h1
  h2 = h2
  NoData = NoData
  Hosts <- MCHosts
  Domains = {"gpu"}
  Configs <- EditConfigs
  LIVENESS_BACKOFF <- ShortBackoff
  LIVENESS_AUTH_ATTEMPTS = 2
  LIVENESS_AUTH_IDLE = 2
  ONLINE_GRACE = 1
  HostStates = {"up", "denied"}
  MaxGen = 2
  MaxPending = 2
INVARIANTS
  TypeOK
  OneCallPerDomain
  ServedIsOwn
PROPERTIES
  NoForeignReading
