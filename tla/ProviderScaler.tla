--------------------------- MODULE ProviderScaler ----------------------------
(***************************************************************************)
(* The scalers of providers as a control loop: the spread scaler           *)
(* (crates/wadm/src/scaler/spreadscaler/provider.rs) and the daemon scaler *)
(* (crates/wadm/src/scaler/daemonscaler/provider.rs).                      *)
(*                                                                         *)
(* A host runs a provider at most once, for the one who started it: a      *)
(* spread of some scaler, or Others (another manifest, or a person), whose *)
(* annotations it has.  A spread counts a provider on its hosts whoever    *)
(* started it, but a scaler of the spread kind stops only its own.  The    *)
(* wrapper (scaler/mod.rs) waits for the events of start commands; a stop  *)
(* has no event it would wait for.                                         *)
(***************************************************************************)
EXTENDS Spreads

CONSTANTS
  Others,     \* whoever starts the provider besides this manifest
  NoOne,      \* the provider does not run on a host
  NoConfig,   \* the manifest is not deployed
  Configs,    \* those of the manifests that can be deployed
  Upgrades,   \* pairs of configs: which may replace which
  Beginnings, \* pairs: the first config, and the hosts on which Others
              \* run the provider already
  MaxSent,    \* bound: the commands on their way when a heartbeat comes
  MaxFaults   \* bound: hosts that die, starts that fail, waits that end too
              \* early, commands delivered twice, manifests changed

VARIABLES
  config,     \* of the deployed manifest, or NoConfig
  up,         \* hosts that are running
  placed,     \* for whom a host runs the provider
  store,      \* [known, listed, runs]: the host records, for whom they list
              \* the provider, and the hosts in the provider's record
  expected,   \* start commands whose events the wrapper waits for
  failing,    \* the wrapper backs off after a failed start
  sent,       \* the command stream, in order
  told,       \* the events on their way to wadm, in order
  status,     \* of the scaler, as last published
  faults

wadm == <<config, store, expected, failing, status>>
vars == <<wadm, up, placed, sent, told, faults>>

Ids == {c.id : c \in Configs}
Owners == (Ids \X Names) \cup {Others}
Owner(c, i) == <<c.id, Spreads(c)[i].name>>
Own(c) == {Owner(c, i) : i \in DOMAIN Spreads(c)}
OfId(id) == {id} \X Names

ASSUME ProviderScalerAssumption ==
  /\ Configs \subseteq [kind : {"spread", "daemon"}, id : Ids, instances : Nat, spreads : SpreadLists]
  /\ \A c \in Configs : IsConfig(c)
  /\ NoConfig \notin Configs /\ NoOne \notin Owners
  /\ Beginnings \subseteq Configs \X SUBSET Hosts
  /\ MaxFaults \in Nat

Start(h, owner) == [type |-> "start", host |-> h, owner |-> owner]
Stop(h) == [type |-> "stop", host |-> h, owner |-> NoOne]

Commands == {Start(h, o) : h \in Hosts, o \in Owners} \cup {Stop(h) : h \in Hosts}

Event(type, h, owner) == [type |-> type, host |-> h, owner |-> owner]
Events == {Event(t, h, o) : t \in {"started", "stopped", "failed"},
                            h \in Hosts, o \in Owners}
-----------------------------------------------------------------------------
(* Reconciliation, on a stored state s.                                    *)
RemoveIneligible(c, s) ==
  {Stop(h) : h \in {h \in s.known \ Matched(c) : s.listed[h] \in OfId(c.id)}}

Running(c, s, i) == {h \in Eligible(s, Spreads(c)[i]) : s.listed[h] # NoOne}

RunningForSpread(c, s, i) == {h \in Running(c, s, i) : s.listed[h] = Owner(c, i)}

Taken(S, n) == kSubset(Min({Cardinality(S), n}), S)

(* Others count twice: as running, and once more.                          *)
Missing(c, s, i) ==
  LET others == Running(c, s, i) \ RunningForSpread(c, s, i)
  IN  Max({0, ComputeSpread(c)[i] - Cardinality(Running(c, s, i)) - Cardinality(others)})

TooMany(c, s, i) == Max({0, Cardinality(Running(c, s, i)) - ComputeSpread(c)[i]})

SpreadMoves(c, s, i) ==
  LET idle == Eligible(s, Spreads(c)[i]) \ Running(c, s, i)
  IN  IF TooMany(c, s, i) > 0
      THEN {{Stop(h) : h \in T} : T \in Taken(RunningForSpread(c, s, i), TooMany(c, s, i))}
      ELSE {{Start(h, Owner(c, i)) : h \in T} : T \in Taken(idle, Missing(c, s, i))}

(* Every host of the spread is to run it; with no instances, those that    *)
(* run it are to stop it, and the others are to start it all the same.     *)
DaemonMoves(c, s, i) ==
  LET all == Eligible(s, Spreads(c)[i])
      stops == IF c.instances = 0 THEN {Stop(h) : h \in Running(c, s, i)} ELSE {}
  IN  {stops \cup {Start(h, Owner(c, i)) : h \in all \ Running(c, s, i)}}

Moves(c, s, i) == IF c.kind = "spread" THEN SpreadMoves(c, s, i) ELSE DaemonMoves(c, s, i)

Unserved(c, s, i) ==
  LET hosts == Eligible(s, Spreads(c)[i])
  IN  IF c.kind = "spread"
      THEN Cardinality(hosts \ Running(c, s, i)) < Missing(c, s, i)
      ELSE hosts = {}

Candidates(c, s) ==    \* one of its moves for each spread
  LET I == DOMAIN Spreads(c)
      M == [i \in I |-> Moves(c, s, i)]
  IN  {UNION {f[i] : i \in I} : f \in {f \in [I -> UNION {M[i] : i \in I}] :
                                         \A i \in I : f[i] \in M[i]}}

Result(c, s, cmds) ==
  [commands |-> cmds,
   status |-> CASE \E i \in DOMAIN Spreads(c) : Unserved(c, s, i) -> "failed"
                [] (\A i \in DOMAIN Spreads(c) : ~Unserved(c, s, i)) /\ cmds = {} -> "deployed"
                [] OTHER -> "reconciling"]

Reconciled(c, s) ==
  IF RemoveIneligible(c, s) # {}
  THEN {[commands |-> RemoveIneligible(c, s), status |-> "reconciling"]}
  ELSE {Result(c, s, cmds) : cmds \in Candidates(c, s)}

CleanupOne(c, s) == Reconciled([c EXCEPT !.instances = 1], s)    \* mutant: one stays

(* What a scaler that is no longer wanted has to command.                  *)
Cleanup(c, s) == Reconciled([c EXCEPT !.instances = 0], s)
-----------------------------------------------------------------------------
Init ==
  /\ up = Hosts
  /\ \E b \in Beginnings :
       /\ config = b[1]
       /\ placed = [h \in Hosts |-> IF h \in b[2] THEN Others ELSE NoOne]
  /\ store = [known |-> {}, listed |-> [h \in Hosts |-> NoOne], runs |-> {}]
  /\ expected = {}
  /\ failing = FALSE
  /\ sent = <<>>
  /\ told = <<>>
  /\ status = "reconciling"
  /\ faults = 0

Fault ==
  /\ faults < MaxFaults
  /\ faults' = faults + 1

(* The status is computed by a reconciliation of its own: what a health    *)
(* check makes of it does not last.  The wrapper's failure comes first.    *)
Publish(c, s) ==
  status' \in CASE c = NoConfig -> {"undeployed"}
                [] c # NoConfig /\ failing' -> {"failed"}
                [] OTHER -> {o.status : o \in Reconciled(c, s)}

NoneOf(cmds) == {}    \* mutant: the wrapper waits for nothing

StartsOf(cmds) == {cmd \in cmds : cmd.type = "start"}

(* The scaler handles an event that concerns it, on the state s, unless    *)
(* the wrapper waits or backs off.                                         *)
React(s) ==
  /\ IF config # NoConfig /\ expected = {} /\ ~failing
     THEN \E o \in Reconciled(config, s) :
            /\ expected' = StartsOf(o.commands)
            /\ sent' = sent \o SetToSeq(o.commands)
     ELSE UNCHANGED <<expected, sent>>
  /\ UNCHANGED failing
  /\ Publish(config, s)

Ignore(s) ==
  /\ UNCHANGED <<expected, failing, sent>>
  /\ Publish(config, s)

(* An event that the wrapper waits for, and nothing else is done with it.  *)
Awaited(e) ==
  {cmd \in expected : /\ cmd.host = e.host
                      /\ e.type = "failed" \/ (e.type = "started" /\ cmd.owner = e.owner)}

RemoveEvent(s, e) ==
  /\ expected' = expected \ Awaited(e)
  /\ failing' = (failing \/ e.type = "failed")
  /\ UNCHANGED sent
  /\ Publish(config, s)
-----------------------------------------------------------------------------
(* The hosts (external).  A provider that runs is not started again.       *)
Carry(cmd) ==
  LET h == cmd.host
  IN  CASE cmd.type = "start" /\ placed[h] = NoOne ->
             /\ placed' = [placed EXCEPT ![h] = cmd.owner]
             /\ told' = Append(told, Event("started", h, cmd.owner))
        [] cmd.type = "start" /\ placed[h] # NoOne ->
             /\ told' = Append(told, Event("failed", h, cmd.owner))
             /\ UNCHANGED placed
        [] cmd.type = "stop" /\ placed[h] # NoOne ->
             /\ placed' = [placed EXCEPT ![h] = NoOne]
             /\ told' = Append(told, Event("stopped", h, placed[h]))
        [] OTHER -> UNCHANGED <<placed, told>>

Execute ==
  /\ sent # <<>>
  /\ sent' = Tail(sent)
  /\ IF Head(sent).host \in up THEN Carry(Head(sent)) ELSE UNCHANGED <<placed, told>>
  /\ UNCHANGED <<wadm, up, faults>>

(* The command is delivered again: its acknowledgement came too late.      *)
ExecuteTwice ==
  /\ sent # <<>>
  /\ Head(sent).host \in up
  /\ Fault
  /\ Carry(Head(sent))
  /\ UNCHANGED <<wadm, up, sent>>

StartFails ==
  LET cmd == Head(sent)
  IN  /\ sent # <<>>
      /\ cmd.type = "start" /\ cmd.host \in up
      /\ Fault
      /\ sent' = Tail(sent)
      /\ told' = Append(told, Event("failed", cmd.host, cmd.owner))
      /\ UNCHANGED <<wadm, up, placed>>

HostDies(h) ==
  /\ h \in up
  /\ Fault
  /\ up' = up \ {h}
  /\ placed' = [placed EXCEPT ![h] = NoOne]
  /\ UNCHANGED <<wadm, sent, told>>

(* A host that is started again is another host: its name is one that      *)
(* nobody remembers.                                                       *)
HostStarts(h) ==
  /\ h \notin up \cup store.known \cup store.runs
  /\ \A cmd \in ToSet(sent) : cmd.host # h
  /\ \A e \in ToSet(told) : e.host # h
  /\ up' = up \cup {h}
  /\ UNCHANGED <<wadm, placed, sent, told, faults>>

-----------------------------------------------------------------------------
(* What wadm does with what it hears.  The host's list is left alone if    *)
(* the provider's record has the host already.                             *)
AfterStartedAnywhere(s, e) ==    \* mutant: a host that has no record lists it
  [s EXCEPT !.runs = @ \cup {e.host},
            !.listed[e.host] = IF e.host \in s.runs THEN @ ELSE e.owner]

AfterStarted(s, e) ==
  [s EXCEPT !.runs = @ \cup {e.host},
            !.listed[e.host] = IF e.host \in s.known \ s.runs THEN e.owner ELSE @]

AfterStopped(s, e) ==
  [s EXCEPT !.runs = @ \ {e.host}, !.listed[e.host] = NoOne]

AfterEvent(s, e) ==
  CASE e.type = "started" -> AfterStarted(s, e)
    [] e.type = "stopped" -> AfterStopped(s, e)
    [] OTHER -> s

(* Only the manifest in its annotations hears of a provider that started;  *)
(* a failure to start that is not awaited is nothing to the scaler.        *)
ProviderEvent ==
  LET e == Head(told)
      s == AfterEvent(store, e)
  IN  /\ told # <<>>
      /\ told' = Tail(told)
      /\ store' = s
      /\ IF Awaited(e) # {} THEN RemoveEvent(s, e)
         ELSE IF e.type = "stopped" \/ (e.type = "started" /\ e.owner # Others)
         THEN React(s)
         ELSE Ignore(s)
      /\ UNCHANGED <<config, up, placed, faults>>

(* A host's heartbeat comes after what it told before.                     *)
AfterHeartbeat(s, h) ==
  [known |-> s.known \cup {h},
   listed |-> [s.listed EXCEPT ![h] = placed[h]],
   runs |-> IF placed[h] = NoOne THEN s.runs ELSE s.runs \cup {h}]

HostHeartbeat(h) ==
  LET s == AfterHeartbeat(store, h)
  IN  /\ h \in up
      /\ \A e \in ToSet(told) : e.host # h
      /\ Len(sent) <= MaxSent
      /\ store' = s
      /\ IF config # NoConfig /\ h \in Matched(config) THEN React(s) ELSE Ignore(s)
      /\ UNCHANGED <<config, up, placed, told, faults>>

ReapProviders ==    \* mutant: the hosts' records stay
  /\ store' = [store EXCEPT !.runs = @ \cap store.known \cap up]
  /\ UNCHANGED <<config, up, placed, expected, failing, sent, told, status, faults>>

(* The reaper forgets a silent host, and the provider on it.               *)
Reap ==
  /\ store' = [known |-> store.known \cap up,
               listed |-> [h \in Hosts |-> IF h \in up THEN store.listed[h] ELSE NoOne],
               runs |-> store.runs \cap store.known \cap up]
  /\ UNCHANGED <<config, up, placed, expected, failing, sent, told, status, faults>>

(* The wrapper stops waiting after 60 seconds, too early if the answer is  *)
(* still to come, and backing off after 5.                                 *)
UnderWay == {cmd \in expected : \/ cmd \in ToSet(sent)
                                \/ \E e \in ToSet(told) : cmd \in Awaited(e)}

StopWaiting ==
  /\ expected # {}
  /\ UnderWay = {}
  /\ expected' = {}
  /\ UNCHANGED <<config, store, failing, status, up, placed, sent, told, faults>>

StopTooEarly ==
  /\ UnderWay # {}
  /\ Fault
  /\ expected' = {}
  /\ UNCHANGED <<config, store, failing, status, up, placed, sent, told>>

StopBackingOff ==
  /\ failing
  /\ failing' = FALSE
  /\ UNCHANGED <<config, store, expected, status, up, placed, sent, told, faults>>
-----------------------------------------------------------------------------
(* A new version of the manifest.  The kind and the configuration of the   *)
(* provider make a scaler's id, not its instances and spreads: a scaler    *)
(* whose id stays is replaced without any cleanup, the cleanup of another  *)
(* comes after the commands of the new one.                                *)
Deploy(c) ==
  /\ <<config, c>> \in Upgrades
  /\ Fault
  /\ config' = c
  /\ failing' = FALSE
  /\ \E o \in Reconciled(c, store),
        old \in IF config # NoConfig /\ config.id # c.id THEN Cleanup(config, store)
                ELSE {[commands |-> {}]} :
       /\ expected' = StartsOf(o.commands)
       /\ sent' = sent \o SetToSeq(o.commands) \o SetToSeq(old.commands)
  /\ Publish(c, store)
  /\ UNCHANGED <<up, placed, store, told>>

Undeploy ==
  /\ config # NoConfig /\ <<config, NoConfig>> \in Upgrades
  /\ Fault
  /\ config' = NoConfig
  /\ \E old \in Cleanup(config, store) : sent' = sent \o SetToSeq(old.commands)
  /\ expected' = {}
  /\ failing' = FALSE
  /\ status' = "undeployed"
  /\ UNCHANGED <<up, placed, store, told>>

Next ==
  \/ Execute \/ ExecuteTwice \/ StartFails
  \/ ProviderEvent \/ Reap \/ StopWaiting \/ StopTooEarly \/ StopBackingOff \/ Undeploy
  \/ \E h \in Hosts : HostHeartbeat(h) \/ HostDies(h) \/ HostStarts(h)
  \/ \E c \in Configs : Deploy(c)

(* Messages arrive, hosts are restarted and send heartbeats, the reaper    *)
(* ticks and the timers run.                                               *)
Fairness ==
  /\ WF_vars(Execute) /\ WF_vars(ProviderEvent) /\ WF_vars(Reap)
  /\ WF_vars(StopWaiting) /\ WF_vars(StopBackingOff)
  /\ \A h \in Hosts : WF_vars(HostHeartbeat(h)) /\ WF_vars(HostStarts(h))

Spec == Init /\ [][Next]_vars /\ Fairness
-----------------------------------------------------------------------------
(* Everything has its type, and a host without a record lists nothing.     *)
TypeOK ==
  /\ config \in Configs \cup {NoConfig}
  /\ up \in SUBSET Hosts
  /\ placed \in [Hosts -> Owners \cup {NoOne}]
  /\ store \in [known : SUBSET Hosts, listed : [Hosts -> Owners \cup {NoOne}],
                runs : SUBSET Hosts]
  /\ \A h \in Hosts : store.listed[h] # NoOne => h \in store.known
  /\ expected \in SUBSET StartsOf(Commands)
  /\ failing \in BOOLEAN
  /\ sent \in Seq(Commands)
  /\ told \in Seq(Events)
  /\ status \in {"reconciling", "deployed", "failed", "undeployed"}
  /\ faults \in 0 .. MaxFaults

(* Nothing is on its way, and what is stored is what the hosts run.        *)
Calm ==
  /\ sent = <<>> /\ told = <<>>
  /\ store.known = up
  /\ \A h \in Hosts : store.listed[h] = placed[h]

(* Every provider that runs for a spread is on one of its hosts.           *)
InPlace ==
  \A i \in DOMAIN Spreads(config), h \in Hosts :
    placed[h] = Owner(config, i) => h \in Spreads(config)[i].hosts

(* A spread scaler that is not wanted any more gets rid of all that it     *)
(* runs, and does nothing else, unless some runs on a host that is not its *)
(* spread's any more: if the host is another spread's, nobody stops it.    *)
CleansUp ==
  Calm /\ config # NoConfig /\ config.kind = "spread" /\ InPlace
    /\ RemoveIneligible(config, store) = {} =>
    \A o \in Cleanup(config, store) :
      o.commands = {Stop(h) : h \in {h \in Hosts : placed[h] \in Own(config)}}

(* While nothing goes wrong, a spread has never more providers than asked  *)
(* for.                                                                    *)
On(i) == {h \in Spreads(config)[i].hosts : placed[h] # NoOne}

NoOvershoot ==
  faults = 0 /\ config.kind = "spread" => \A i \in DOMAIN Spreads(config) :
    Cardinality({h \in On(i) : placed[h] # Others}) <= ComputeSpread(config)[i]

(* In the end every spread has its providers and keeps them, and the       *)
(* manifest is reported as deployed.                                       *)
Enough(i) ==
  IF config.kind = "spread"
  THEN \/ Cardinality(On(i)) = ComputeSpread(config)[i]
       \/ /\ Cardinality(On(i)) > ComputeSpread(config)[i]
          /\ \A h \in On(i) : placed[h] # Owner(config, i)
  ELSE On(i) = Spreads(config)[i].hosts

Settles ==
  <>[](/\ config # NoConfig => \A i \in DOMAIN Spreads(config) : Enough(i)
       /\ status = IF config = NoConfig THEN "undeployed" ELSE "deployed")
=============================================================================
