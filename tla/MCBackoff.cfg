SPECIFICATION Spec
CONSTANTS
  i1 = i1
  i2 = i2
  u1 = u1
  u2 = u2
  Instances = {i1, i2}
  Units = {u1}
  MaxInbox = 1
  MaxFaults <- Faults
INVARIANTS
  TypeOK
  NoRepeat
PROPERTY Converges
