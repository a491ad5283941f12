SPECIFICATION Spec
CONSTANTS
  Ids = {u1}
  Dashboard = Dashboard
  Kinds = {"status", "metrics"}
  MaxInFlight = 2
  MaxEvents = 3
INVARIANTS
  TypeOK
  CacheIsTrue
  OwedIsRemembered
PROPERTIES
  Settles
CHECK_DEADLOCK FALSE
