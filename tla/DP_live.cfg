SPECIFICATION FairProxySpec
CONSTANTS
  Tunnels = {t1}
  Nics = {n1}
  d1 = d1
  d2 = d2
  a = a
  b = b
  Domains = {d1, d2}
  IPs = {a, b}
  RuleSets <- BlockRuleSets
  ModeInputs <- StrictRelaxed
  FileInputs <- StrictBlock
  LoopbackInputs = {FALSE}
  None = None
  Faults <- CrashFaults
  Queries = {q1}
  Resolves <- Shared
INVARIANTS ProxyTypeOK RouteErrorsDecideReply
PROPERTIES EveryQueryEnds ManagerSpec
CHECK_DEADLOCK FALSE
