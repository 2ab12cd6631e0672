SPECIFICATION FairSpec
CONSTANTS
  Tunnels = {t1}
  Clients = {c1, c2}
  Goroutines = {g1, g2}
  Stoppers = {j1}
  None = None
  Intersects <- AllIntersect
INVARIANTS TypeOK TrackedServiceStays
PROPERTIES RunningIsTracked DeletedServiceGoes
CHECK_DEADLOCK FALSE
