SPECIFICATION SettleSpec
CONSTANTS
  h1 = h1
  h2 = h2
  c1 = c1
  p1 = p1
  a1 = a1
  a2 = a2
  w1 = w1
  w2 = w2
  r1 = r1
  Hosts = {h1, h2}
  Components = {c1}
  Providers = {p1}
  Anns = {a1}
  Counts = {1}
  Workers = {w1, w2}
  Reapers = {r1}
  NoHost = NoHost
  Absent = Absent
  MaxDeliver = 2
  MaxEvents = 2
  MaxFaults = 1
SYMMETRY MCSymmetry
CHECK_DEADLOCK FALSE
CONSTRAINT OneKind
INVARIANTS
  HostsSettle
  ComponentsSettle
  ProvidersSettle
