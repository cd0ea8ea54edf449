--------------------------- MODULE MCSpreadScaler ---------------------------
EXTENDS SpreadScaler

CONSTANTS h1, h2, east, west, every

Spread(n, w, H) == [name |-> n, weight |-> w, hosts |-> H]
Config(k, s) == [kind |-> "spread", instances |-> k, spreads |-> s]
Daemon(k, H) ==
  [kind |-> "daemon", instances |-> k, spreads |-> <<Spread(every, 100, H)>>]

Anywhere(k) == Config(k, <<>>)
Split(k, v, w) == Config(k, <<Spread(east, v, {h1}), Spread(west, w, {h2})>>)

Pinned(k, h) == Config(k, <<Spread(east, 100, {h})>>)

Splits == {Split(3, 1, 1), Split(2, 1, 3)}
Moving == {Pinned(2, h1), Pinned(1, h2)}

Daemons == {Daemon(1, {h1, h2}), Daemon(2, {h1})}

MCConfigs == {Anywhere(2), Anywhere(3)} \cup Splits \cup Moving \cup Daemons
MCUpgrades ==
  {<<Anywhere(2), Anywhere(3)>>, <<Anywhere(2), NoConfig>>, <<NoConfig, Anywhere(2)>>}
    \cup (Splits \X Splits) \cup (Moving \X Moving) \cup (Daemons \X Daemons)
    \cup {<<Pinned(2, h1), Daemon(2, {h1})>>, <<Daemon(1, {h1, h2}), Anywhere(2)>>,
          <<Daemon(1, {h1, h2}), NoConfig>>}
=============================================================================
