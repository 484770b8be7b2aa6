CONSTANTS
  o1 = o1  o2 = o2  r1 = r1  p1 = p1  p2 = p2
  Opens = {o1, o2}
  Runs = {r1}
  Profiles = {p1, p2}
  None = None
  MAX_ALIAS_HOPS = 1
  MaxChats = 2
  MaxConns = 2
  MaxRebuilds = 1
SPECIFICATION FairSpec
INVARIANTS TypeOK TwinsTakeABlindList LabelIsOwner
PROPERTIES LadderEnds
CHECK_DEADLOCK FALSE
