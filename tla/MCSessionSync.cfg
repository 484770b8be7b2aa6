SPECIFICATION Spec
CONSTANTS
  MaxEvents = 2
  MaxEpochs = 2
  MaxConns = 3
  MaxSends = 1
  MaxOpens = 1
  Capacity = 1
  OpenAtStart = TRUE
  None = None
INVARIANTS
  TypeOK
  NothingMissed
  NoDoubledUserRow
CHECK_DEADLOCK FALSE
