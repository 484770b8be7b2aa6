CONSTANTS
  c1 = c1  c2 = c2  k1 = k1  k2 = k2  t1 = t1  t2 = t2
  Conns = {c1, c2}
  Tickets = {k1, k2}
  Turns = {t1, t2}
  None = None
  Absent = Absent
  MaxSid = 1
  TurnLength = 1
  DropAfter = 2
  MaxRequests = 3
SPECIFICATION FairSpec
INVARIANTS TypeOK RunningHasATurn ReplayFillsTheGap
PROPERTIES ImplementsLog RunningEnds
CHECK_DEADLOCK FALSE
