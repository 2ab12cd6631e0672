SPECIFICATION FairSpec
CONSTANTS
  Capacity <- Doubled
  N = 2
  Files <- OneImport
  MaxInputs = 2
  None = None
INVARIANT TypeOK
PROPERTY ListsMirror
CHECK_DEADLOCK FALSE
