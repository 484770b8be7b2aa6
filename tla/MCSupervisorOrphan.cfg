SPECIFICATION Spec
CONSTANTS
  Tasks = {t1}
  Sups = {s1, s2}
  Conns = {c1, c2, c3}
  Sinks = {k1, k2}
  NoConn = NoConn
  NoSink = NoSink
  t1 = t1
  s1 = s1
  s2 = s2
  c1 = c1
  c2 = c2
  c3 = c3
  k1 = k1
  k2 = k2
INVARIANT
  ConnectedMeansSupervised
