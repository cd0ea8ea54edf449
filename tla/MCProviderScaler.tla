-------------------------- MODULE MCProviderScaler ---------------------------
EXTENDS ProviderScaler

CONSTANTS h1, h2, s1, d1, s2, east, west

Spread(n, w, H) == [name |-> n, weight |-> w, hosts |-> H]
Config(kind, id, k, s) == [kind |-> kind, id |-> id, instances |-> k, spreads |-> s]

Anywhere(k) == Config("spread", s1, k, <<>>)
Anew(k) == Config("spread", s2, k, <<>>)    \* with another configuration
Split == Config("spread", s1, 2, <<Spread(east, 1, {h1}), Spread(west, 1, {h2})>>)
Pinned(h) == Config("spread", s1, 1, <<Spread(east, 100, {h})>>)
Daemon(H) == Config("daemon", d1, 1, <<Spread(east, 100, H)>>)

MCConfigs == {Anywhere(1), Anywhere(2), Anew(1), Split, Pinned(h1), Pinned(h2),
              Daemon({h1}), Daemon({h1, h2})}

MCUpgrades ==
  {<<Anywhere(1), Anew(1)>>, <<Pinned(h1), Pinned(h2)>>, <<Split, Anywhere(1)>>,
   <<Daemon({h1, h2}), Anywhere(1)>>, <<Anywhere(1), NoConfig>>, <<Anywhere(2), Anywhere(1)>>,
   <<Daemon({h1}), Daemon({h1, h2})>>, <<NoConfig, Anywhere(1)>>, <<Daemon({h1}), NoConfig>>}

MCBeginnings ==
  {<<c, {}>> : c \in MCConfigs \ {Anew(1), Pinned(h2)}}
  \cup {<<c, {h2}>> : c \in {Anywhere(1), Split, Daemon({h1, h2})}}
=============================================================================
