SPECIFICATION FairSpec
CONSTANTS
  h1 = h1
  h2 = h2
  NoData = NoData
  Hosts <- OneHost
  Domains = {"storage"}
  Configs <- OneConfig
  LIVENESS_BACKOFF <- ShortBackoff
  LIVENESS_AUTH_ATTEMPTS = 2
  LIVENESS_AUTH_IDLE = 3
  ONLINE_GRACE = 1
  HostStates = {"up", "down", "denied"}
  MaxGen = 2
  MaxPending = 2
PROPERTIES
  RecoversWhenReachable
  UnreachableIsCleared
