SPECIFICATION CleanSpec
CONSTANTS
  Tunnels = {t1, t2}
  Clients = {c1, c2}
  Goroutines = {g1, g2}
  Stoppers = {j1}
  None = None
  Intersects <- AllIntersect
SYMMETRY Symmetry
INVARIANTS IntersectingStopped
CHECK_DEADLOCK FALSE
