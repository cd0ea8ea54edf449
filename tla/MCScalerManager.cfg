SPECIFICATION Spec
CONSTANTS
  i1 = i1
  i2 = i2
  m1 = m1
  v1 = v1
  v2 = v2
  a = a
  b = b
  c = c
  None = None
  Instances = {i1, i2}
  Manifests = {m1}
  Versions = {v1, v2}
  Ids <- MCIds
  Upgrades <- MCUpgrades
  First = v1
  MaxDeliver = 2
  MaxChanges = 2
  MaxFaults = 1
CONSTRAINT MCConstraint
CHECK_DEADLOCK FALSE
INVARIANTS
  TypeOK
  ScalersAgree
  NothingLeft
PROPERTY Settles
