SPECIFICATION Spec
CONSTANTS
  h1 = h1
  h2 = h2
  p1 = p1
  p2 = p2
  Ids = {u1}
  Hosts = {h1, h2}
  Ports = {p1, p2}
  Unit <- MCUnits
  NoUnit = NoUnit
  None = None
  Down = Down
  MaxFaults = 2
INVARIANTS
  Consistent
  SecretsOfOwnHost
PROPERTIES
  LoadKeepsSecrets
  IsAtomic
