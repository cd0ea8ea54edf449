SPECIFICATION Spec
CONSTANTS
  h1 = h1
  h2 = h2
  east = east
  west = west
  Default = Default
  NoName = NoName
  NoConfig = NoConfig
  every = every
  Hosts = {h1, h2}
  Names = {Default, east, west, every}
  Configs <- MCConfigs
  Upgrades <- MCUpgrades
  MaxFaults = 2
INVARIANTS
  TypeOK
  SpreadAddsUp
  PlanIsExact
  NoOvershoot
  CleansUp
PROPERTY Settles
