SPECIFICATION Spec
CONSTANTS
  Requests = {r1}
  r1 = r1
  Questions = 1
  Answers = {}
  History = 1
  ParkMax = 9
  MaxConns = 2
  MaxOpens = 1
INVARIANT
  EmittedIsOnTranscript
CHECK_DEADLOCK FALSE
