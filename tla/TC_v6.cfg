SPECIFICATION Spec
CONSTANTS
  Tunnels = {t1}
  None = None
  Inputs = {{"v4all"}, {"v4all", "v6all"}}
  Disturbances = {}
  MaxInputs = 3
INVARIANT IPv6Kept
CHECK_DEADLOCK FALSE
