SPECIFICATION Spec
CONSTANTS
  Requests = {r1}
  r1 = r1
  Questions = 1
  Answers = {x1}
  x1 = x1
  History = 1
  ParkMax = 2
  MaxConns = 2
  MaxOpens = 1
INVARIANTS
  TypeOK
  AppAgrees
  PendingIsShown
  ResolvedIsAnswered
CHECK_DEADLOCK FALSE
