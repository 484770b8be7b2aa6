SPECIFICATION FairSpec
CONSTANTS
  Calls = {q1}
  q1 = q1
  MaxEvents = 2
  EventCap = 1
INVARIANTS
  TypeOK
  NoForgottenEntry
  FirstSubscriberMissesNothing
PROPERTIES
  FirstCloserWins
  InFlightCallsFailAtOnce
  DeadReaderEndsClosed
  EveryCallSettles
CHECK_DEADLOCK FALSE
