SPECIFICATION Spec
CONSTANTS
  m1 = m1
  other = other
  c1 = c1
  p1 = p1
  p2 = p2
  k = k
  t = t
  x = x
  y = y
  s = s
  i1 = i1
  i2 = i2
  v1 = v1
  v2 = v2
  v3 = v3
  pol = pol
  a = a
  b = b
  w1 = w1
  w2 = w2
  f = f
  g = g
  None = None
  BadNames = {}
  BadLabels = {}
  Latest = Latest
  IdOf <- MCIdOf
  Elsewhere <- MCElsewhere
  Candidates <- AllCandidates
  Deployable <- MCDeployable
  Providers = {p1, p2}
  MaxDeliver = 3
  MaxEvents = 2
  MaxBacklog = 0
  MaxScales = 1
  MaxChanges = 2
  MaxFaults = 1
CHECK_DEADLOCK FALSE
INVARIANTS
  TypeOK
  StoredConverts
  
  StoredConfigsAgree
  ElsewhereIsKept
PROPERTIES
  ConfigsSettle
  LinksSettle
