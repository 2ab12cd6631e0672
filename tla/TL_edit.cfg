SPECIFICATION Spec
CONSTANTS
  Capacity <- Doubled
  N = 3
  Files = {}
  MaxInputs = 2
  None = None
PROPERTY EditsSelected
CHECK_DEADLOCK FALSE
