SPECIFICATION Spec
CONSTANTS
  h1 = h1
  h2 = h2
  s1 = s1
  s2 = s2
  d1 = d1
  east = east
  west = west
  Default = Default
  Others = Others
  NoOne = NoOne
  NoConfig = NoConfig
  Hosts = {h1, h2}
  Names = {Default, east, west}
  Configs <- MCConfigs
  Upgrades <- MCUpgrades
  Beginnings <- MCBeginnings
  MaxSent = 1
  MaxFaults = 2
INVARIANTS
  TypeOK
  CleansUp
  NoOvershoot
PROPERTY Settles
