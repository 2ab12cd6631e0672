SPECIFICATION Spec
CONSTANTS
  Tunnels = {t1, t2}
  Nics = {n1}
  d1 = d1
  Domains = {d1}
  IPs = {a}
  RuleSets <- TwoRuleSets
  ModeInputs <- OnOff
  FileInputs <- FirstStart
  LoopbackInputs = {TRUE}
  None = None
  Faults <- NoFaults
SYMMETRY Symmetry
INVARIANTS RulesApply
CHECK_DEADLOCK FALSE
