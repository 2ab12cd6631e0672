SPECIFICATION FairSpec
CONSTANTS
  Others = {"view", "dialog", "syntax", "address", "page", "queries"}
  Keys = {"k1", "k2", "k3"}
  ZeroKey = "zero"
  Data = {"d1", "d2"}
  MaxPeers = 2
  NoText = ""
  Tunnels = {"t1", "t2"}
  None = None
  Inputs <- SomeLists
  Disturbances = {"fileFails", "saveFails"}
  MaxInputs = 4
  MaxPort = 5
  RuleSets <- SomeRules
  Faults = {"psFails", "saveFails", "crash"}
  MaxViewInputs = 2
  MaxPosts = 1
  PrivateKeys = {"k1"}
  NoKey = ""
  OtherIP = OtherIP
  Taken = {"a", "b"}
  OwnName = "a"
  FreeName = "c"
  Values = {"v1", "v2"}
  MaxCalls = 3
  MaxPageInputs = 2
  MaxLogged = 4
  MaxLogInputs = 4
INVARIANTS TypeOK PeersShown TextsRead TableOffComesBack ConfigsFollow ListedPortsOnly SettingsOfTheActive
PROPERTIES ViewMirrors TickMeansBlocked RoutingPageFollows PageMirrors
CHECK_DEADLOCK FALSE
