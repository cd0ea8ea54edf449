---------------------------- MODULE SpreadScaler ----------------------------
(***************************************************************************)
(* The scalers of components as a control loop, the spread scaler          *)
(* (crates/wadm/src/scaler/spreadscaler/mod.rs) and the daemon scaler      *)
(* (crates/wadm/src/scaler/daemonscaler/mod.rs): they look at the stored   *)
(* state of the lattice and compute scale commands, the hosts carry them   *)
(* out, and their events and heartbeats change the store.  One scaler of   *)
(* one component, in the wrapper that lets it rest while it still waits    *)
(* for events of its last commands (scaler/mod.rs).                        *)
(*                                                                         *)
(* A config is a manifest's trait: its kind, a number of instances and a   *)
(* list of spreads.  A spread's name stands for the annotations that its   *)
(* scaler puts on what it starts, the id of the scaler among them: scalers *)
(* of different kinds have different ids.  A host runs the component under *)
(* one spread's annotations at a time; the store may remember several.     *)
(* The code walks over hash maps in an order that differs each time:       *)
(* wherever the order matters the model takes every outcome.               *)
(***************************************************************************)
EXTENDS Spreads

CONSTANTS
  NoName,     \* in a command: no spread's annotations
  NoConfig,   \* the manifest is not deployed
  Configs,    \* those of the manifests that can be deployed
  Upgrades,   \* pairs of configs: which may replace which
  MaxFaults   \* bound: hosts that die, waits that end too early, manifests
              \* that are deployed again or undeployed

ASSUME SpreadScalerAssumption ==
  /\ Configs \subseteq [kind : {"spread", "daemon"}, instances : Nat, spreads : SpreadLists]
  /\ \A c \in Configs : IsConfig(c)
  /\ NoName \notin Names /\ NoConfig \notin Configs
  /\ MaxFaults \in Nat

VARIABLES
  config,     \* of the deployed manifest, or NoConfig
  up,         \* hosts that are running
  placed,     \* what a host runs: how many instances under which spread
  store,      \* [known, listed, seen]: the host records, those that list the
              \* component, and the instances stored per host and spread
  expected,   \* commands whose events the wrapper waits for
  sent,       \* the command stream, in order
  told,       \* the ComponentScaled events on their way to wadm, in order
  status,     \* of the scaler, as last published
  faults

vars == <<config, up, placed, store, expected, sent, told, status, faults>>

Command(h, n, k) == [host |-> h, spread |-> n, count |-> k]
-----------------------------------------------------------------------------
(* Reconciliation, on a stored state s.                                    *)
Seen(s, n) == [h \in Hosts |-> s.seen[h][n]]

Current(s, n) == SumFunction(Seen(s, n))

RemoveIneligible(c, s) ==
  {Command(h, NoName, 0) : h \in s.listed \ Matched(c)}

(* Too few: the first host that comes up is told the spread's full number. *)
Starts(s, spread, k) == {{Command(h, spread.name, k)} : h \in Eligible(s, spread)}

(* Too many: the hosts are emptied one after the other until enough is     *)
(* stopped, and every host that runs some gets a command.  gone are the    *)
(* hosts that come before the last one that has to stop something.         *)
Stops(s, n, k) ==
  LET runs == {h \in Hosts : s.seen[h][n] > 0}
      On(S) == SumFunctionOnSet(Seen(s, n), S)
      excess == On(runs) - k
      Kept(gone, last, h) ==
        IF h \in gone THEN 0
        ELSE s.seen[h][n] - (IF h = last THEN excess - On(gone) ELSE 0)
  IN  {{Command(h, n, Kept(o[1], o[2], h)) : h \in runs} :
         o \in {o \in (SUBSET runs) \X runs :
                  /\ o[2] \notin o[1]
                  /\ On(o[1]) <= excess
                  /\ excess <= On(o[1] \cup {o[2]})}}

Moves(c, s, i) ==
  LET spread == Spreads(c)[i]
      k == ComputeSpread(c)[i]
      now == Current(s, spread.name)
  IN  CASE Eligible(s, spread) = {} \/ now = k -> {{}}
        [] now < k -> Starts(s, spread, k)
        [] OTHER -> Stops(s, spread.name, k)

Candidates(c, s) ==
  LET I == DOMAIN Spreads(c)
      M == [i \in I |-> Moves(c, s, i)]
  IN  {UNION {f[i] : i \in I} : f \in {f \in [I -> UNION {M[i] : i \in I}] :
                                         \A i \in I : f[i] \in M[i]}}

NoConflict(c, s, cmds) == FALSE    \* mutant: conflicts are not looked for

(* A spread's hosts would not have its number together: per host the       *)
(* highest command, or what the spreads with a host have there now.        *)
Conflict(c, s, cmds) ==
  LET sp == Spreads(c)
      served == {sp[i].name : i \in {i \in DOMAIN sp : Eligible(s, sp[i]) # {}}}
      Projected(h) ==
        LET counts == {cmd.count : cmd \in {cmd \in cmds : cmd.host = h}}
        IN  IF counts # {} THEN Max(counts)
            ELSE SumFunction([n \in served |-> s.seen[h][n]])
  IN  \E i \in DOMAIN sp : SumFunction([h \in Eligible(s, sp[i]) |-> Projected(h)]) # ComputeSpread(c)[i]

Result(c, s, cmds) ==
  LET unserved == {i \in DOMAIN Spreads(c) : Eligible(s, Spreads(c)[i]) = {}}
  IN  [commands |-> cmds,
       status |-> IF unserved # {} THEN "failed"
                  ELSE IF cmds = {} THEN "deployed" ELSE "reconciling"]

SpreadOutcomes(c, s) ==
  {IF Conflict(c, s, cmds) THEN [commands |-> {}, status |-> "failed"]
   ELSE Result(c, s, cmds) : cmds \in Candidates(c, s)}

(* The daemon scaler: every host of a spread is to have the whole number.  *)
DaemonOutcome(c, s) ==
  Result(c, s, UNION {LET spread == Spreads(c)[i]
                      IN  {Command(h, spread.name, c.instances) : h \in
                             {h \in Eligible(s, spread) : s.seen[h][spread.name] # c.instances}} :
                        i \in DOMAIN Spreads(c)})

Reconciled(c, s) ==
  CASE RemoveIneligible(c, s) # {} ->
         {[commands |-> RemoveIneligible(c, s), status |-> "reconciling"]}
    [] RemoveIneligible(c, s) = {} /\ c.kind = "spread" -> SpreadOutcomes(c, s)
    [] RemoveIneligible(c, s) = {} /\ c.kind = "daemon" -> {DaemonOutcome(c, s)}

CleanupKeeps(c, s) == Reconciled(c, s)    \* mutant: with the instances of the config

(* What a scaler that is no longer wanted has to command.                  *)
Cleanup(c, s) == Reconciled([c EXCEPT !.instances = 0], s)
-----------------------------------------------------------------------------
NothingSeen == [n \in Names |-> 0]

Init ==
  /\ config \in Configs
  /\ up = Hosts
  /\ placed = [h \in Hosts |-> [spread |-> Default, count |-> 0]]
  /\ store = [known |-> {}, listed |-> {}, seen |-> [h \in Hosts |-> NothingSeen]]
  /\ expected = {}
  /\ sent = <<>>
  /\ told = <<>>
  /\ status = "reconciling"
  /\ faults = 0

Fault ==
  /\ faults < MaxFaults
  /\ faults' = faults + 1

Publish(c, s) ==
  status' \in IF c = NoConfig THEN {"undeployed"} ELSE {o.status : o \in Reconciled(c, s)}

ReactAtOnce(c, s, waiting) ==    \* mutant: it does not wait
  /\ IF c # NoConfig
     THEN \E o \in Reconciled(c, s) :
            /\ expected' = waiting \cup o.commands
            /\ sent' = sent \o SetToSeq(o.commands)
     ELSE expected' = waiting /\ UNCHANGED sent
  /\ Publish(c, s)

(* The scaler handles an event that concerns it: it does nothing while it  *)
(* waits.  Its status is computed by a reconciliation of its own.          *)
React(c, s, waiting) ==
  /\ IF waiting = {} /\ c # NoConfig
     THEN \E o \in Reconciled(c, s) :
            /\ expected' = o.commands
            /\ sent' = sent \o SetToSeq(o.commands)
     ELSE expected' = waiting /\ UNCHANGED sent
  /\ Publish(c, s)

Ignore(c, s) ==
  /\ Publish(c, s)
  /\ UNCHANGED <<expected, sent>>
-----------------------------------------------------------------------------
(* The hosts.                                                              *)
Execute ==
  LET cmd == Head(sent)
  IN  /\ sent # <<>>
      /\ sent' = Tail(sent)
      /\ IF cmd.host \in up
         THEN /\ placed' = [placed EXCEPT ![cmd.host] =
                    [spread |-> IF cmd.count = 0 THEN Default ELSE cmd.spread,
                     count |-> cmd.count]]
              /\ told' = Append(told, cmd)
         ELSE UNCHANGED <<placed, told>>
      /\ UNCHANGED <<config, up, store, expected, status, faults>>

HostDies(h) ==
  /\ h \in up
  /\ Fault
  /\ up' = up \ {h}
  /\ placed' = [placed EXCEPT ![h] = [spread |-> Default, count |-> 0]]
  /\ UNCHANGED <<config, store, expected, sent, told, status>>

HostStarts(h) ==
  /\ h \notin up
  /\ up' = up \cup {h}
  /\ UNCHANGED <<config, placed, store, expected, sent, told, status, faults>>
-----------------------------------------------------------------------------
(* What wadm does with what it hears.                                      *)
AfterScaledAnywhere(s, cmd) ==    \* mutant: a host without a record is listed
  [s EXCEPT !.listed = IF cmd.count = 0 THEN @ \ {cmd.host} ELSE @ \cup {cmd.host},
            !.seen[cmd.host] = IF cmd.spread = NoName THEN @
                               ELSE [@ EXCEPT ![cmd.spread] = cmd.count]]

AfterScaled(s, cmd) ==
  LET h == cmd.host
      listed == IF cmd.count = 0 THEN s.listed \ {h}
                ELSE s.listed \cup ({h} \cap s.known)
  IN  [s EXCEPT !.listed = listed,
                !.seen[h] = IF cmd.spread = NoName THEN @
                            ELSE [@ EXCEPT ![cmd.spread] = cmd.count]]

SameAnnotations(cmd, e) == cmd.host = e.host /\ cmd.spread = e.spread

ComponentScaled ==
  LET cmd == Head(told)
      s == AfterScaled(store, cmd)
      awaited == {e \in expected : SameAnnotations(cmd, e)}
  IN  /\ told # <<>>
      /\ told' = Tail(told)
      /\ store' = s
      /\ IF awaited # {}
         THEN /\ expected' = expected \ awaited
              /\ Publish(config, s)
              /\ UNCHANGED sent
         ELSE React(config, s, expected)
      /\ UNCHANGED <<config, up, placed, faults>>

(* A host's heartbeat comes after what it told before.  The stored         *)
(* instances of the host are replaced by the one it reports if they        *)
(* differ.  (The number of annotation sets on the host is compared         *)
(* with the number of hosts.)                                              *)
AfterHeartbeat(s, h, now) ==
  LET Stored(g) == {n \in Names : s.seen[g][n] > 0}
      same == /\ s.seen[h][now.spread] = now.count
              /\ Cardinality(Stored(h)) = Cardinality({g \in Hosts : Stored(g) # {}})
  IN  [known |-> s.known \cup {h},
       listed |-> IF now.count > 0 THEN s.listed \cup {h} ELSE s.listed \ {h},
       seen |-> IF now.count = 0 \/ same THEN s.seen
                ELSE [s.seen EXCEPT ![h] = [NothingSeen EXCEPT ![now.spread] = now.count]]]

HostHeartbeat(h) ==
  LET s == AfterHeartbeat(store, h, placed[h])
  IN  /\ h \in up
      /\ \A cmd \in ToSet(told) : cmd.host # h
      /\ store' = s
      /\ IF config # NoConfig /\ h \in Matched(config) THEN React(config, s, expected) ELSE Ignore(config, s)
      /\ UNCHANGED <<config, up, placed, told, faults>>

ReapHostsOnly ==    \* mutant: the instances of a dead host stay
  /\ store' = [store EXCEPT !.known = @ \cap up, !.listed = @ \cap up]
  /\ UNCHANGED <<config, up, placed, expected, sent, told, status, faults>>

(* The reaper forgets a silent host, and instances on hosts that do not    *)
(* list the component.                                                     *)
Reap ==
  LET known == store.known \cap up
      listed == store.listed \cap up
  IN  /\ store' = [known |-> known, listed |-> listed,
                   seen |-> [h \in Hosts |-> IF h \in listed THEN store.seen[h]
                                             ELSE NothingSeen]]
      /\ UNCHANGED <<config, up, placed, expected, sent, told, status, faults>>

(* The wrapper stops waiting after 5 seconds: too early, if the host is    *)
(* slow and its answer is still to come.                                   *)
UnderWay == ToSet(sent) \cup ToSet(told)

StopWaiting ==
  /\ expected # {}
  /\ expected \cap UnderWay = {}
  /\ expected' = {}
  /\ UNCHANGED <<config, up, placed, store, sent, told, status, faults>>

StopTooEarly ==
  /\ expected \cap UnderWay # {}
  /\ Fault
  /\ expected' = {}
  /\ UNCHANGED <<config, up, placed, store, sent, told, status>>

(* A new version of the manifest.  Neither instances nor spreads are part  *)
(* of a scaler's id: an old scaler of the same kind is dropped without any *)
(* cleanup, and the new one starts with nothing to wait for.  The commands *)
(* that clean up after one of another kind come after those of the new.    *)
Outdated(c) == config # NoConfig /\ config.kind # c.kind

Deploy(c) ==
  /\ <<config, c>> \in Upgrades
  /\ Fault
  /\ config' = c
  /\ \E o \in Reconciled(c, store),
        old \in IF Outdated(c) THEN Cleanup(config, store) ELSE {[commands |-> {}]} :
       /\ expected' = o.commands
       /\ sent' = sent \o SetToSeq(o.commands) \o SetToSeq(old.commands)
  /\ Publish(c, store)
  /\ UNCHANGED <<up, placed, store, told>>

Undeploy ==
  /\ config # NoConfig
  /\ <<config, NoConfig>> \in Upgrades
  /\ Fault
  /\ config' = NoConfig
  /\ \E old \in Cleanup(config, store) : sent' = sent \o SetToSeq(old.commands)
  /\ expected' = {}
  /\ status' = "undeployed"
  /\ UNCHANGED <<up, placed, store, told>>

Next ==
  \/ ComponentScaled \/ Execute \/ Reap \/ StopWaiting \/ StopTooEarly \/ Undeploy
  \/ \E h \in Hosts : HostHeartbeat(h) \/ HostDies(h) \/ HostStarts(h)
  \/ \E c \in Configs : Deploy(c)

(* Messages arrive, hosts are restarted and send heartbeats, the reaper    *)
(* ticks and the timer runs.  Hash maps are walked in an order that is     *)
(* random each time: the scaler does not for ever pick the one host that   *)
(* makes it give up.                                                       *)
Fairness ==
  /\ SF_vars(\E h \in Hosts : HostHeartbeat(h) /\ sent' # sent)
  /\ WF_vars(ComponentScaled) /\ WF_vars(Execute) /\ WF_vars(Reap)
  /\ WF_vars(StopWaiting)
  /\ \A h \in Hosts : WF_vars(HostHeartbeat(h)) /\ WF_vars(HostStarts(h))

Spec == Init /\ [][Next]_vars /\ Fairness
-----------------------------------------------------------------------------
(* Everything has its type, and a host that lists the component is known.  *)
AnyCommand == [host : Hosts, spread : Names \cup {NoName}, count : Nat]

TypeOK ==
  /\ config \in Configs \cup {NoConfig}
  /\ up \in SUBSET Hosts
  /\ placed \in [Hosts -> [spread : Names, count : Nat]]
  /\ store \in [known : SUBSET Hosts, listed : SUBSET Hosts, seen : [Hosts -> [Names -> Nat]]]
  /\ store.listed \subseteq store.known
  /\ expected \in SUBSET AnyCommand
  /\ sent \in Seq(AnyCommand)
  /\ told \in Seq(AnyCommand)
  /\ status \in {"reconciling", "deployed", "failed", "undeployed"}
  /\ faults \in 0 .. MaxFaults

(* The spreads' numbers add up to the instances of the config; none is a   *)
(* whole one below its share by weight, or more than one above it.         *)
SpreadAddsUp == config # NoConfig => AddsUp(config)

(* What the scaler commands, done to the state it looked at, gives every   *)
(* spread its number, however old that state is: unless instances of a     *)
(* spread are on hosts that are no longer the spread's, or its hosts are   *)
(* not known.  A daemon's number is for every host of the spread.          *)
Applied(s, cmds, h, n) ==
  LET new == {cmd \in cmds : cmd.host = h /\ cmd.spread = n}
  IN  IF new = {} THEN s.seen[h][n] ELSE (CHOOSE cmd \in new : TRUE).count

Exact(c, i, f) ==    \* f[h] instances on each host h are right for spread i
  IF c.kind = "spread" THEN SumFunction(f) = ComputeSpread(c)[i]
  ELSE \A h \in DOMAIN f : f[h] = c.instances

InPlace(s, spread) ==
  /\ Eligible(s, spread) # {}
  /\ \A h \in Hosts : s.seen[h][spread.name] > 0 => h \in Eligible(s, spread)

AllInPlace ==
  config # NoConfig /\ \A i \in DOMAIN Spreads(config) : InPlace(store, Spreads(config)[i])

PlanIsExact ==
  AllInPlace =>
    \A o \in Reconciled(config, store), i \in DOMAIN Spreads(config) :
      \/ o.commands \subseteq RemoveIneligible(config, store)
      \/ LET spread == Spreads(config)[i]
         IN  Exact(config, i, [h \in Eligible(store, spread) |->
                                    Applied(store, o.commands, h, spread.name)])

(* A scaler that is not wanted any more gets rid of all it has started, if *)
(* nothing is on its way: unless an instance is on a host that is no       *)
(* longer eligible, which is all that is removed then.                     *)
Running(h, n) == IF placed[h].spread = n THEN placed[h].count ELSE 0

Known == \A h \in Hosts, n \in Names : store.seen[h][n] = Running(h, n)

CleansUp ==
  AllInPlace /\ Known /\ RemoveIneligible(config, store) = {} =>
    \A o \in Cleanup(config, store), i \in DOMAIN Spreads(config), h \in Hosts :
      LET n == Spreads(config)[i].name
      IN  Running(h, n) > 0 => Command(h, n, 0) \in o.commands

(* While nothing goes wrong there are never too many instances.            *)
NoOvershoot ==
  faults = 0 => \A i \in DOMAIN Spreads(config) :
    LET on == [h \in Hosts |-> Running(h, Spreads(config)[i].name)]
    IN  IF config.kind = "spread" THEN SumFunction(on) <= ComputeSpread(config)[i]
        ELSE \A h \in Hosts : on[h] <= config.instances

(* In the end every spread has its instances, and keeps them.              *)
AsConfigured ==
  config = NoConfig \/ \A i \in DOMAIN Spreads(config) :
    Exact(config, i, [h \in Spreads(config)[i].hosts |->
                        Running(h, Spreads(config)[i].name)])

Settles == <>[](AsConfigured /\ status \in {"deployed", "undeployed"})
=============================================================================
