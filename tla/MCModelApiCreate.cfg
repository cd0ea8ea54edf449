SPECIFICATION Spec
CONSTANTS
  m1 = m1
  m2 = m2
  v1 = v1
  v2 = v2
  c1 = c1
  s1 = s1
  s2 = s2
  Servers = {s1, s2}
  Models = {m1, m2}
  Versions = {v1, v2}
  NoVersion = NoVersion
  Settled = Settled
  Ids = {c1}
  IdsOf <- MCIdsOf
  SharedApp <- MCSharedApp
  Needs <- MCNeeds
  MaxTries = 2
  MaxRequests = 4
  MaxFaults = 0
CHECK_DEADLOCK FALSE
PROPERTY NeverOverwritten
