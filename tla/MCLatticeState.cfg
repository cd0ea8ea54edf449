SPECIFICATION Spec
CONSTANTS
  h1 = h1
  h2 = h2
  c1 = c1
  p1 = p1
  a1 = a1
  a2 = a2
  w1 = w1
  w2 = w2
  Hosts = {h1, h2}
  Components = {c1}
  Providers = {p1}
  Anns = {a1}
  Counts = {1, 2}
  Workers = {w1}
  Reapers = {}
  NoHost = NoHost
  Absent = Absent
  MaxDeliver = 2
  MaxEvents = 5
  MaxFaults = 2
SYMMETRY MCSymmetry
CHECK_DEADLOCK FALSE
INVARIANTS
  TypeOK
  HostsAgree
  ComponentsAgree
  ProvidersAgree
  HostOutlivesContents
  
