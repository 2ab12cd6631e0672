SPECIFICATION FairSpec
CONSTANTS
  Tunnels = {t1, t2}
  Nics = {n1}
  d1 = d1
  Domains = {d1}
  IPs = {a}
  RuleSets <- TwoRuleSets
  ModeInputs <- AllModes
  FileInputs <- WhitelistFile
  LoopbackInputs = {TRUE, FALSE}
  None = None
  Faults <- QuietFaults
INVARIANTS TypeOK RoutesOnBooks RedirectionKept ActiveIsStarted SettingsHold
PROPERTIES TunnelsLetGo
CHECK_DEADLOCK FALSE
