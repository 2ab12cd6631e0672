SPECIFICATION ProxySpec
CONSTANTS
  Tunnels = {t1}
  Nics = {n1}
  d1 = d1
  d2 = d2
  a = a
  b = b
  Domains = {d1, d2}
  IPs = {a, b}
  RuleSets <- WhitelistOnly
  ModeInputs <- StrictRelaxed
  FileInputs <- StrictWhitelist
  LoopbackInputs = {FALSE}
  None = None
  Faults <- LossFaults
  Queries = {q1, q2}
  Resolves <- Shared
SYMMETRY Symmetry
INVARIANTS StrictFailsClosed
CHECK_DEADLOCK FALSE
