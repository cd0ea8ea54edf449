--------------------------- MODULE LatticeSettle ----------------------------
(***************************************************************************)
(* The state of a lattice under everything that may happen to it: several  *)
(* wadm instances handle events at the same time, hosts and instances      *)
(* crash, acknowledgements come too late, messages are given up, and the   *)
(* reaper (crates/wadm/src/storage/reaper.rs) works beside the handlers.   *)
(*                                                                         *)
(* Nothing can be said of the store in the middle of that.  What makes     *)
(* wadm correct is that the store settles: once the hosts have been quiet  *)
(* for one round of heartbeats and one tick of the reaper, it agrees with  *)
(* them again.  phase tells how far that quiet time has come.              *)
(***************************************************************************)
EXTENDS LatticeState

VARIABLES
  phase,     \* "busy", "heartbeats", "aged", "reaping", "settled"
  fresh      \* hosts that have sent their heartbeat in the quiet round

settleVars == <<vars, phase, fresh>>

(* The hosts may have been running for long when the first wadm starts.    *)
SettleInit ==
  /\ power \in [Hosts -> {"new", "up"}]
  /\ runs \in [Hosts -> [Components -> Loads \cup {Absent}]]
  /\ health \in [Hosts -> [Providers -> {"running", Absent}]]
  /\ \A h \in Hosts : ~Up(h) => /\ \A c \in Components : runs[h][c] = Absent
                                /\ \A p \in Providers : health[h][p] = Absent
  /\ hosts = [h \in Hosts |-> NoHost]
  /\ components = [c \in Components |-> NoInstances]
  /\ providers = [p \in Providers |-> NoStatuses]
  /\ stream = <<>>
  /\ lastSeq = 0
  /\ proc = [w \in Procs |-> Idle]
  /\ faults = 0
  /\ lost = {}
  /\ phase = "busy"
  /\ fresh = {}
-----------------------------------------------------------------------------
(* A tick of the reaper.  Every operation may fail, which ends the part of *)
(* the tick that it belongs to.                                            *)
ReapSteps ==
  <<"reap_hosts", "del_hosts", "list_hosts",
    "reap_components", "put_components", "del_components",
    "reap_providers", "put_providers", "del_providers">>

Resting(r) == proc[r].todo = <<>>

Tick(r) ==
  /\ Resting(r)
  /\ Become(r, [Idle EXCEPT !.todo = ReapSteps])
  /\ UNCHANGED <<lattice, store, delivery, faults, lost>>

ReapEmptyHosts(r) ==    \* mutant: a host that seems to run something stays
  /\ At(r, "reap_hosts")
  /\ Become(r, [Done(r) EXCEPT !.del = {h \in Hosts :
       hosts[h] # NoHost /\ hosts[h].old /\ hosts[h].components = {}}])
  /\ UNCHANGED <<lattice, store, delivery, faults, lost>>

ReapHosts(r) ==
  /\ At(r, "reap_hosts")
  /\ Become(r, [Done(r) EXCEPT
       !.del = {h \in Hosts : hosts[h] # NoHost /\ hosts[h].old}])
  /\ UNCHANGED <<lattice, store, delivery, faults, lost>>

ListHosts(r) ==
  /\ At(r, "list_hosts")
  /\ Become(r, [Done(r) EXCEPT !.hosts = hosts])
  /\ UNCHANGED <<lattice, store, delivery, faults, lost>>

KeepsByHost(r, h, c) ==    \* mutant: only the host is looked up
  proc[r].hosts[h] # NoHost

KeepsInstance(r, h, c) ==
  /\ proc[r].hosts[h] # NoHost
  /\ c \in proc[r].hosts[h].components

(* An instance stays if the host exists and has the component in its map;  *)
(* every component that keeps one is stored again, changed or not.         *)
ReapComponents(r) ==
  LET new == [c \in Components |-> [h \in Hosts |->
                IF KeepsInstance(r, h, c) THEN components[c][h] ELSE NoInstances[h]]]
      ids == {c \in Components : components[c] # NoInstances}
  IN  /\ At(r, "reap_components")
      /\ Become(r, StageComponents(r, new, ids))
      /\ UNCHANGED <<lattice, store, delivery, faults, lost>>

KeepsHealthy(r, h, p) ==    \* mutant: a provider that was healthy stays
  proc[r].hosts[h] # NoHost \/ providers[p][h] = "running"

KeepsProvider(r, h, p) == proc[r].hosts[h] # NoHost

(* A provider stays on every host that exists; only those that have lost a *)
(* host are stored.                                                        *)
ReapProviders(r) ==
  LET new == [p \in Providers |-> [h \in Hosts |->
                IF KeepsProvider(r, h, p) THEN providers[p][h] ELSE Absent]]
      ids == {p \in Providers : new[p] # providers[p]}
  IN  /\ At(r, "reap_providers")
      /\ Become(r, [StageProviders(r, new, ids) EXCEPT !.hosts = Idle.hosts])
      /\ UNCHANGED <<lattice, store, delivery, faults, lost>>

Reap(r) ==
  \/ ReapHosts(r) \/ DelHosts(r) \/ ListHosts(r)
  \/ ReapComponents(r) \/ PutComponents(r) \/ DelComponents(r)
  \/ ReapProviders(r) \/ PutProviders(r) \/ DelProviders(r)

RestOfTick(todo) ==
  CASE Head(todo) \in {"reap_hosts", "del_hosts"} -> SubSeq(ReapSteps, 3, 9)
    [] Head(todo) \in {"reap_components", "put_components", "del_components"} ->
         SubSeq(ReapSteps, 7, 9)
    [] OTHER -> <<>>

ReapFails(r) ==
  /\ ~Resting(r)
  /\ Fault
  /\ Become(r, [Idle EXCEPT !.todo = RestOfTick(proc[r].todo), !.hosts = proc[r].hosts])
  /\ UNCHANGED <<lattice, store, delivery, lost>>
-----------------------------------------------------------------------------
(* A host dies without a word.                                             *)
HostCrash(h) ==
  /\ Halt(h)
  /\ UNCHANGED <<store, delivery, proc, faults, lost>>

(* Two reaper intervals pass in which no heartbeat of the host is handled: *)
(* its record is old, in the store and in the hands of a handler.          *)
Old(host) == IF host = NoHost THEN NoHost ELSE [host EXCEPT !.old = TRUE]

Silence(aged) ==
  /\ hosts' = [h \in Hosts |-> IF h \in aged THEN Old(hosts[h]) ELSE hosts[h]]
  /\ proc' = [w \in Procs |-> [proc[w] EXCEPT
       !.host = IF Busy(w) /\ Event(w).host \in aged THEN Old(@) ELSE @,
       !.hosts = [h \in Hosts |-> IF h \in aged THEN Old(@[h]) ELSE @[h]]]]
  /\ UNCHANGED <<lattice, components, providers, delivery, lost>>

(* An instance crashes, and with it what a worker or a reaper was doing.   *)
Crash(w) ==
  /\ proc[w] # Idle
  /\ Fault
  /\ Become(w, Idle)
  /\ UNCHANGED <<lattice, store, delivery, lost>>

(* The ack wait (2 s) of a message is over before it was acknowledged.     *)
Expire(i) ==
  /\ stream[i].state = "out"
  /\ Fault
  /\ Again(i)
  /\ UNCHANGED <<lattice, store, lastSeq, proc>>

Chaos ==
  \/ Environment
  \/ \E h \in Hosts : HostCrash(h) \/ (Fault /\ Silence({h}))
  \/ \E w \in Workers : Nack(w)
  \/ \E r \in Reapers : Tick(r) \/ ReapFails(r)
  \/ \E w \in Procs : Crash(w)
  \/ \E i \in DOMAIN stream : Expire(i)

Progress ==
  \/ \E w \in Workers : Work(w)
  \/ \E r \in Reapers : Reap(r)
-----------------------------------------------------------------------------
(* The quiet time: the hosts that are up send a heartbeat one after the    *)
(* other, then the others have been silent for long, and the reaper ticks. *)
Still == Drained /\ \A r \in Reapers : Resting(r)

Busily ==
  /\ phase = "busy"
  /\ Chaos \/ Progress
  /\ UNCHANGED <<phase, fresh>>

Quietly ==
  /\ phase # "busy"
  /\ Progress
  /\ UNCHANGED <<phase, fresh>>

Quieten ==
  /\ phase = "busy"
  /\ Still
  /\ phase' = "heartbeats"
  /\ UNCHANGED <<vars, fresh>>

QuietHeartbeat(h) ==
  /\ phase = "heartbeats"
  /\ Drained
  /\ h \notin fresh
  /\ Heartbeat(h)
  /\ fresh' = fresh \cup {h}
  /\ UNCHANGED <<store, proc, faults, lost, phase>>

LongAfter ==
  /\ phase = "heartbeats"
  /\ Drained
  /\ \A h \in Hosts : Up(h) => h \in fresh
  /\ Silence({h \in Hosts : ~Up(h)})
  /\ phase' = "aged"
  /\ UNCHANGED <<faults, fresh>>

QuietTick(r) ==
  /\ phase = "aged"
  /\ Tick(r)
  /\ phase' = "reaping"
  /\ UNCHANGED fresh

Settle ==
  /\ phase = "reaping"
  /\ Still
  /\ phase' = "settled"
  /\ UNCHANGED <<vars, fresh>>

SettleNext ==
  \/ Busily \/ Quietly \/ Quieten \/ LongAfter \/ Settle
  \/ \E h \in Hosts : QuietHeartbeat(h)
  \/ \E r \in Reapers : QuietTick(r)

SettleSpec == SettleInit /\ [][SettleNext]_settleVars

(* Properties.                                                             *)

Settled == phase = "settled"

(* Whatever crashed, failed, came late or was lost, and whatever several   *)
(* instances did to each other's updates: a quiet round later the store    *)
(* has exactly the hosts that are up, and knows what each of them runs.    *)
HostsSettle ==
  Settled => \A h \in Hosts :
    IF Up(h) THEN /\ hosts[h] # NoHost
                  /\ hosts[h].components = {c \in Components : runs[h][c] # Absent}
                  /\ hosts[h].providers = {p \in Providers : health[h][p] # Absent}
    ELSE hosts[h] = NoHost

(* Every component has the instances that really run and no others: what   *)
(* the spread scalers count.                                               *)
ComponentsSettle ==
  Settled => \A h \in Hosts, c \in Components, a \in Anns :
    components[c][h][a] =
      IF Runs(h, c, a) = 0 THEN Absent ELSE Runs(h, c, a)

(* Every provider that runs is known, and none on a host that is gone.  (A *)
(* provider that stopped on a host that is up may stay known for ever:     *)
(* neither heartbeat nor reaper removes it when its stop event was lost.)  *)
ProvidersSettle ==
  Settled => \A h \in Hosts, p \in Providers :
    /\ health[h][p] # Absent => providers[p][h] # Absent
    /\ providers[p][h] # Absent => Up(h)
=============================================================================
