SPECIFICATION Spec
CONSTANTS
  MaxEvents = 2
  MaxEpochs = 2
  MaxConns = 2
  MaxSends = 1
  MaxOpens = 0
  Capacity = 2
  OpenAtStart = TRUE
  None = None
PROPERTY
  SkippedAppendIsShown
CHECK_DEADLOCK FALSE
