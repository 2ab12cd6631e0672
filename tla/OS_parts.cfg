SPECIFICATION FairSpec
CONSTANTS
  M = 3
  MaxLines = 4
  MaxWriters = 2
  MaxSaves = 1
  Lists <- SomeLists
  Ours <- OurVersion
  Admins = {"c1"}
  Updates = {"u1", "u2"}
  Cap = 2
  MaxNotes = 1
  Sessions = {"s1", "s2"}
  Callers = {"c1", "c2"}
  Pipes = {"p1", "p2"}
  None = "none"
INVARIANTS TypeOK InstallsNewer AliveIsServed LogInOrder
PROPERTIES LogFollowed UpdateComes SessionsGoOn PipesServe
CHECK_DEADLOCK FALSE
