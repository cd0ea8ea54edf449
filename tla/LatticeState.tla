---------------------------- MODULE LatticeState ----------------------------
(***************************************************************************)
(* The state of one lattice as wadm knows it (crates/wadm/src/storage) and *)
(* the handlers that keep it up to date from the events of the hosts       *)
(* (crates/wadm/src/workers/event.rs).                                     *)
(*                                                                         *)
(* The store has three keys: the hosts, the components and the providers.  *)
(* A handler reads and writes them in several operations; each one is a    *)
(* step of its own here, because the handler of another wadm instance, the *)
(* reaper, a failure or a crash may come between any two of them.          *)
(*                                                                         *)
(* Events come from a JetStream consumer shared by all instances: at least *)
(* once, in the order of their sequence numbers except that a message that *)
(* was not acknowledged comes again, at most MaxDeliver times in all.      *)
(***************************************************************************)
EXTENDS Naturals, Sequences, FiniteSets

CONSTANTS
  Hosts, Components, Providers,
  Anns,         \* annotation sets that a component may be started with
  Counts,       \* instance counts above 0
  Workers,      \* event workers, one in each wadm instance
  Reapers,      \* reapers, one in each wadm instance
  NoHost,       \* "not in the store" for a host
  Absent,       \* "not in the map" for an instance or a provider
  MaxDeliver,   \* deliveries of a message (3 in the code)
  MaxEvents,    \* bound: events the hosts send
  MaxFaults     \* bound: failures, crashes and expired acknowledgements

ASSUME LatticeStateAssumption ==
  /\ Counts \subseteq Nat \ {0}
  /\ Workers \cap Reapers = {}
  /\ Absent \notin Nat \cup {"pending", "running", "failed"}
  /\ Absent \notin [ann : Anns, count : Counts]
  /\ NoHost \notin [components : SUBSET Components, providers : SUBSET Providers,
                     old : BOOLEAN]
  /\ MaxDeliver \in Nat \ {0}
  /\ MaxEvents \in Nat
  /\ MaxFaults \in Nat

VARIABLES
  power,       \* power[h]: "new", "up" or "down" (a host never comes back)
  runs,        \* runs[h][c]: what host h really runs of component c
  health,      \* health[h][p]: the health of provider p on h, if it runs
  hosts, components, providers,    \* the store
  stream,      \* stream[i]: message i, while it is not acknowledged
  lastSeq,     \* the last sequence number of the stream
  proc,        \* proc[w]: what a worker or a reaper is doing
  faults,
  lost         \* aux: messages given up after MaxDeliver deliveries

lattice == <<power, runs, health>>
store == <<hosts, components, providers>>
delivery == <<stream, lastSeq>>
vars == <<lattice, store, delivery, proc, faults, lost>>
-----------------------------------------------------------------------------
Procs == Workers \cup Reapers

(* A stored Component is its map from host and annotations to a count, a   *)
(* stored Provider its map from host to status.  An empty map is never     *)
(* stored: here it stands for an id that is not in the store.              *)
Instances == [Hosts -> [Anns -> Counts \cup {0, Absent}]]
Statuses == [Hosts -> {"pending", "running", "failed", Absent}]
HostRec == [components : SUBSET Components, providers : SUBSET Providers,
            old : BOOLEAN]    \* old: last_seen is two reaper intervals ago

NoInstances == [h \in Hosts |-> [a \in Anns |-> Absent]]
NoStatuses == [h \in Hosts |-> Absent]
EmptyHost == [components |-> {}, providers |-> {}, old |-> FALSE]

HostsOf(inst) == {h \in Hosts : \E a \in Anns : inst[h][a] # Absent}

(* What a host runs of a component: one set of annotations and a count.    *)
Loads == [ann : Anns, count : Counts]

Events ==
       [type : {"host_started", "host_stopped"}, host : Hosts]
  \cup [type : {"host_heartbeat"}, host : Hosts,
        loads : [Components -> Loads \cup {Absent}], providers : SUBSET Providers]
  \cup [type : {"component_scaled"}, host : Hosts, component : Components,
        ann : Anns, count : Counts \cup {0}]
  \cup [type : {"provider_started", "provider_stopped"}, host : Hosts,
        provider : Providers]
  \cup [type : {"health_check"}, host : Hosts, provider : Providers,
        result : {"status", "passed", "failed"}]

NoEvent == [type |-> "none"]

StoppedHostFirst ==    \* mutant: the stopped host is deleted first
  <<"get_host", "del_host", "list_components", "put_components", "del_components",
    "list_providers", "put_providers", "del_providers">>

StoppedSteps ==
  <<"get_host", "list_components", "put_components", "del_components",
    "list_providers", "put_providers", "del_providers", "del_host">>

(* The operations of each handler on the store, in order.                  *)
Steps(event) ==
  CASE event.type = "host_started" -> <<"put_host">>
    [] event.type = "host_stopped" -> StoppedSteps
    [] event.type = "host_heartbeat" ->
         <<"put_host", "list_providers", "put_providers",
           "list_components", "put_components">>
    [] event.type = "component_scaled" ->
         <<"get_component", "get_host", "put_host", "put_components">>
    [] event.type = "provider_started" ->
         <<"get_provider", "get_host", "put_host", "put_providers">>
    [] event.type = "provider_stopped" ->
         <<"get_host", "put_host", "get_provider", "put_providers">>
    [] event.type = "health_check" -> <<"get_provider", "put_providers">>

(* The locals of a handler: the operations to do, the message, the values  *)
(* it has read and changed, and the ids to store and to delete.            *)
Idle ==
  [todo |-> <<>>, seq |-> 0, event |-> NoEvent, host |-> NoHost,
   hosts |-> [h \in Hosts |-> NoHost],
   components |-> [c \in Components |-> NoInstances],
   providers |-> [p \in Providers |-> NoStatuses],
   put |-> {}, del |-> {}]

Init ==
  /\ power = [h \in Hosts |-> "new"]
  /\ runs = [h \in Hosts |-> [c \in Components |-> Absent]]
  /\ health = [h \in Hosts |-> [p \in Providers |-> Absent]]
  /\ hosts = [h \in Hosts |-> NoHost]
  /\ components = [c \in Components |-> NoInstances]
  /\ providers = [p \in Providers |-> NoStatuses]
  /\ stream = <<>>
  /\ lastSeq = 0
  /\ proc = [w \in Procs |-> Idle]
  /\ faults = 0
  /\ lost = {}
-----------------------------------------------------------------------------
(* The hosts (external): what they do, and the event that each change      *)
(* publishes.                                                              *)
Publish(event) ==
  /\ lastSeq' = lastSeq + 1
  /\ stream' = [i \in DOMAIN stream \cup {lastSeq'} |->
                  IF i = lastSeq' THEN [event |-> event, tries |-> 0, state |-> "due"]
                  ELSE stream[i]]

Up(h) == power[h] = "up"

HostStart(h) ==
  /\ power[h] = "new"
  /\ power' = [power EXCEPT ![h] = "up"]
  /\ Publish([type |-> "host_started", host |-> h])
  /\ UNCHANGED <<runs, health>>

Halt(h) ==
  /\ Up(h)
  /\ power' = [power EXCEPT ![h] = "down"]
  /\ runs' = [runs EXCEPT ![h] = [c \in Components |-> Absent]]
  /\ health' = [health EXCEPT ![h] = [p \in Providers |-> Absent]]

HostStop(h) ==
  /\ Halt(h)
  /\ Publish([type |-> "host_stopped", host |-> h])

Inventory(h) ==
  [type |-> "host_heartbeat", host |-> h, loads |-> runs[h],
   providers |-> {p \in Providers : health[h][p] # Absent}]

Heartbeat(h) ==
  /\ Up(h)
  /\ Publish(Inventory(h))
  /\ UNCHANGED lattice

(* A host runs a component with the annotations it was started with.       *)
Scale(h, c, load) ==
  /\ Up(h)
  /\ \/ runs[h][c] = Absent /\ load.count # 0
     \/ runs[h][c] # Absent /\ runs[h][c].ann = load.ann /\ runs[h][c] # load
  /\ runs' = [runs EXCEPT ![h][c] = IF load.count = 0 THEN Absent ELSE load]
  /\ Publish([type |-> "component_scaled", host |-> h, component |-> c,
                ann |-> load.ann, count |-> load.count])
  /\ UNCHANGED <<power, health>>

ProviderEvent(h, p, type, status) ==
  /\ Up(h)
  /\ health' = [health EXCEPT ![h][p] = status]
  /\ Publish([type |-> type, host |-> h, provider |-> p])
  /\ UNCHANGED <<power, runs>>

ProviderStart(h, p) ==
  health[h][p] = Absent /\ ProviderEvent(h, p, "provider_started", "pending")

ProviderStop(h, p) ==
  health[h][p] # Absent /\ ProviderEvent(h, p, "provider_stopped", Absent)

(* A health check passes, fails, or only reports that nothing changed.     *)
HealthCheck(h, p, result) ==
  /\ health[h][p] # Absent
  /\ health' = [health EXCEPT ![h][p] =
                  CASE result = "passed" -> "running"
                    [] result = "failed" -> "failed"
                    [] result = "status" -> IF @ = "pending" THEN "running" ELSE @]
  /\ Publish([type |-> "health_check", host |-> h, provider |-> p,
                result |-> result])
  /\ UNCHANGED <<power, runs>>

Environment ==
  /\ lastSeq < MaxEvents
  /\ \E h \in Hosts :
       \/ HostStart(h) \/ HostStop(h) \/ Heartbeat(h)
       \/ \E c \in Components, a \in Anns, n \in Counts \cup {0} :
            Scale(h, c, [ann |-> a, count |-> n])
       \/ \E p \in Providers : ProviderStart(h, p) \/ ProviderStop(h, p)
       \/ \E p \in Providers, r \in {"status", "passed", "failed"} : HealthCheck(h, p, r)
  /\ UNCHANGED <<store, proc, faults, lost>>
-----------------------------------------------------------------------------
(* Delivery: the oldest message that is due goes to an idle worker.        *)
Become(w, rec) == proc' = [proc EXCEPT ![w] = rec]
Busy(w) == proc[w].seq # 0

Due == {i \in DOMAIN stream : stream[i].state = "due"}

(* Host::from a started host or a heartbeat, with last_seen set to now.    *)
HostFrom(event) ==
  CASE event.type = "host_started" -> EmptyHost
    [] event.type = "host_heartbeat" ->
         [components |-> {c \in Components : event.loads[c] # Absent},
          providers |-> event.providers, old |-> FALSE]
    [] OTHER -> NoHost

Deliver(w) ==
  /\ ~Busy(w)
  /\ \E i \in Due :
       LET event == stream[i].event
       IN  /\ \A j \in Due : i <= j
           /\ stream' = [stream EXCEPT ![i].state = "out", ![i].tries = @ + 1]
           /\ Become(w, [Idle EXCEPT !.todo = Steps(event), !.seq = i,
                           !.event = event, !.host = HostFrom(event)])
  /\ UNCHANGED <<lattice, store, lastSeq, faults, lost>>

(* Every operation was done, and the scalers have run: acknowledge.        *)
Ack(w) ==
  /\ Busy(w)
  /\ proc[w].todo = <<>>
  /\ stream' = [i \in DOMAIN stream \ {proc[w].seq} |-> stream[i]]
  /\ Become(w, Idle)
  /\ UNCHANGED <<lattice, store, lastSeq, faults, lost>>

AgainAlways(i) ==    \* mutant: no limit of deliveries
  /\ IF i \in DOMAIN stream THEN stream' = [stream EXCEPT ![i].state = "due"]
     ELSE UNCHANGED stream
  /\ UNCHANGED lost

(* The message comes again, or never again.                                *)
Again(i) ==
  IF i \notin DOMAIN stream THEN UNCHANGED <<stream, lost>>
  ELSE IF stream[i].tries < MaxDeliver
  THEN stream' = [stream EXCEPT ![i].state = "due"] /\ UNCHANGED lost
  ELSE /\ stream' = [j \in DOMAIN stream \ {i} |-> stream[j]]
       /\ lost' = lost \cup {i}

Fault ==
  /\ faults < MaxFaults
  /\ faults' = faults + 1

(* An operation of the handler or a scaler has failed: nack.               *)
Nack(w) ==
  /\ Busy(w)
  /\ Fault
  /\ Again(proc[w].seq)
  /\ Become(w, Idle)
  /\ UNCHANGED <<lattice, store, lastSeq>>

-----------------------------------------------------------------------------
(* The operations of the store.  store, store_many, delete and delete_many *)
(* read the key again and update it at the revision they have read, until  *)
(* no other writer comes in between (update_with_retries): each is atomic, *)
(* and leaves the ids alone that it is not about.                          *)
At(w, op) == proc[w].todo # <<>> /\ Head(proc[w].todo) = op
Event(w) == proc[w].event

(* The record of w after its present operation.                            *)
Done(w) == [proc[w] EXCEPT !.todo = Tail(@)]

PutHost(w) ==
  /\ At(w, "put_host")
  /\ hosts' = [hosts EXCEPT ![Event(w).host] = proc[w].host]
  /\ Become(w, [Done(w) EXCEPT !.host = NoHost])
  /\ UNCHANGED <<lattice, components, providers, delivery, faults, lost>>

DelHosts(w) ==
  /\ At(w, "del_hosts")
  /\ hosts' = [h \in Hosts |-> IF h \in proc[w].del THEN NoHost ELSE hosts[h]]
  /\ Become(w, [Done(w) EXCEPT !.del = {}])
  /\ UNCHANGED <<lattice, components, providers, delivery, faults, lost>>

PutComponents(w) ==
  /\ At(w, "put_components")
  /\ components' = [c \in Components |->
       IF c \in proc[w].put THEN proc[w].components[c] ELSE components[c]]
  /\ Become(w, [Done(w) EXCEPT !.put = {}, !.components = Idle.components])
  /\ UNCHANGED <<lattice, hosts, providers, delivery, faults, lost>>

DelComponents(w) ==
  /\ At(w, "del_components")
  /\ components' = [c \in Components |->
       IF c \in proc[w].del THEN NoInstances ELSE components[c]]
  /\ Become(w, [Done(w) EXCEPT !.del = {}])
  /\ UNCHANGED <<lattice, hosts, providers, delivery, faults, lost>>

PutProviders(w) ==
  /\ At(w, "put_providers")
  /\ providers' = [p \in Providers |->
       IF p \in proc[w].put THEN proc[w].providers[p] ELSE providers[p]]
  /\ Become(w, [Done(w) EXCEPT !.put = {}, !.providers = Idle.providers])
  /\ UNCHANGED <<lattice, hosts, components, delivery, faults, lost>>

DelProviders(w) ==
  /\ At(w, "del_providers")
  /\ providers' = [p \in Providers |->
       IF p \in proc[w].del THEN NoStatuses ELSE providers[p]]
  /\ Become(w, [Done(w) EXCEPT !.del = {}])
  /\ UNCHANGED <<lattice, hosts, components, delivery, faults, lost>>

(* What w goes on to write: the new values of some ids, all of them, those *)
(* with an empty map to be deleted.                                        *)
StageComponents(w, new, ids) ==
  [Done(w) EXCEPT !.components = [c \in Components |->
                     IF c \in ids /\ new[c] # NoInstances THEN new[c] ELSE NoInstances],
                  !.put = {c \in ids : new[c] # NoInstances},
                  !.del = {c \in ids : new[c] = NoInstances}]

StageProviders(w, new, ids) ==
  [Done(w) EXCEPT !.providers = [p \in Providers |->
                     IF p \in ids /\ new[p] # NoStatuses THEN new[p] ELSE NoStatuses],
                  !.put = {p \in ids : new[p] # NoStatuses},
                  !.del = {p \in ids : new[p] = NoStatuses}]
-----------------------------------------------------------------------------
ScaledUp(inst, event) ==    \* mutant: scaling to zero removes nothing
  IF event.count = 0 THEN inst
  ELSE [inst EXCEPT ![event.host][event.ann] = event.count]

(* handle_component_scaled.  A component that is not in the store is added *)
(* even if it was scaled to zero.                                          *)
Scaled(inst, event) ==
  [inst EXCEPT ![event.host][event.ann] =
     IF event.count = 0 /\ inst # NoInstances THEN Absent ELSE event.count]

GetComponent(w) ==
  LET c == Event(w).component
      new == [components EXCEPT ![c] = Scaled(@, Event(w))]
      op == IF new[c] = NoInstances THEN "del_components" ELSE "put_components"
  IN  /\ At(w, "get_component")
      /\ Become(w, [StageComponents(w, new, {c}) EXCEPT
                      !.todo = <<"get_host", "put_host", op>>])
      /\ UNCHANGED <<lattice, store, delivery, faults, lost>>

ChangedByStarts(host, event) ==    \* mutant: a stopped provider stays
  CASE event.type = "component_scaled" ->
         [host EXCEPT !.components =
            IF event.count = 0 THEN @ \ {event.component} ELSE @ \cup {event.component}]
    [] event.type = "provider_started" ->
         [host EXCEPT !.providers = @ \cup {event.provider}]
    [] event.type = "provider_stopped" -> host

(* The host of the event in the store, as three handlers change it.        *)
Changed(host, event) ==
  CASE event.type = "component_scaled" ->
         [host EXCEPT !.components =
            IF event.count = 0 THEN @ \ {event.component} ELSE @ \cup {event.component}]
    [] event.type = "provider_started" ->
         [host EXCEPT !.providers = @ \cup {event.provider}]
    [] event.type = "provider_stopped" ->
         [host EXCEPT !.providers = @ \ {event.provider}]

(* A host that is not in the store is not stored.                          *)
GetHost(w) ==
  LET host == hosts[Event(w).host]
  IN  /\ At(w, "get_host")
      /\ Event(w).type # "host_stopped"
      /\ IF host = NoHost
         THEN Become(w, [Done(w) EXCEPT !.todo = Tail(@)])
         ELSE Become(w, [Done(w) EXCEPT !.host = Changed(host, Event(w))])
      /\ UNCHANGED <<lattice, store, delivery, faults, lost>>
-----------------------------------------------------------------------------
(* handle_host_stopped.  A host that is not in the store is done with.     *)
GetStoppedHost(w) ==
  LET host == hosts[Event(w).host]
  IN  /\ At(w, "get_host")
      /\ Event(w).type = "host_stopped"
      /\ Become(w, IF host = NoHost THEN [Done(w) EXCEPT !.todo = <<>>]
                   ELSE [Done(w) EXCEPT !.host = host])
      /\ UNCHANGED <<lattice, store, delivery, faults, lost>>

StoppedComponents(w) ==
  LET h == Event(w).host
      new == [c \in Components |-> [components[c] EXCEPT ![h] = NoInstances[h]]]
      ids == {c \in proc[w].host.components : components[c] # NoInstances}
  IN  /\ At(w, "list_components")
      /\ Event(w).type = "host_stopped"
      /\ Become(w, StageComponents(w, new, ids))
      /\ UNCHANGED <<lattice, store, delivery, faults, lost>>

StoppedProviders(w) ==
  LET h == Event(w).host
      new == [p \in Providers |-> [providers[p] EXCEPT ![h] = Absent]]
      ids == {p \in proc[w].host.providers : providers[p][h] # Absent}
  IN  /\ At(w, "list_providers")
      /\ Event(w).type = "host_stopped"
      /\ Become(w, StageProviders(w, new, ids))
      /\ UNCHANGED <<lattice, store, delivery, faults, lost>>


(* The host comes last: without it a retry would not know what it ran.     *)
DelStoppedHost(w) ==
  /\ At(w, "del_host")
  /\ hosts' = [hosts EXCEPT ![Event(w).host] = NoHost]
  /\ Become(w, Done(w))
  /\ UNCHANGED <<lattice, components, providers, delivery, faults, lost>>
-----------------------------------------------------------------------------
(* handle_provider_started: the host is updated only if the provider was   *)
(* not known to run on it; the provider is stored in any case.             *)
StartedProvider(w) ==
  LET p == Event(w).provider
      h == Event(w).host
      known == providers[p][h] # Absent
      new == IF known THEN providers ELSE [providers EXCEPT ![p][h] = "pending"]
  IN  /\ At(w, "get_provider")
      /\ Event(w).type = "provider_started"
      /\ Become(w, [StageProviders(w, new, {p}) EXCEPT
                      !.todo = IF known THEN <<"put_providers">> ELSE @])
      /\ UNCHANGED <<lattice, store, delivery, faults, lost>>

(* handle_provider_stopped, after the host was updated.                    *)
StoppedProvider(w) ==
  LET p == Event(w).provider
      h == Event(w).host
      new == [providers EXCEPT ![p][h] = Absent]
      op == IF new[p] = NoStatuses THEN "del_providers" ELSE "put_providers"
  IN  /\ At(w, "get_provider")
      /\ Event(w).type = "provider_stopped"
      /\ IF providers[p][h] = Absent
         THEN Become(w, [Done(w) EXCEPT !.todo = <<>>])
         ELSE Become(w, [StageProviders(w, new, {p}) EXCEPT !.todo = <<op>>])
      /\ UNCHANGED <<lattice, store, delivery, faults, lost>>

CheckedByStatus(status, result) ==    \* mutant: a status report means running
  IF result = "failed" THEN "failed" ELSE "running"

(* handle_provider_health_check: it adds a provider that is not known, and *)
(* a status report says no more than that a provider has started.          *)
Checked(status, result) ==
  CASE result = "failed" -> "failed"
    [] result = "passed" -> "running"
    [] result = "status" -> IF status \in {"pending", Absent} THEN "running" ELSE status

CheckedProvider(w) ==
  LET p == Event(w).provider
      h == Event(w).host
      new == [providers EXCEPT ![p][h] = Checked(@, Event(w).result)]
  IN  /\ At(w, "get_provider")
      /\ Event(w).type = "health_check"
      /\ Become(w, StageProviders(w, new, {p}))
      /\ UNCHANGED <<lattice, store, delivery, faults, lost>>
-----------------------------------------------------------------------------
MissingProviders(event) ==
  {p \in event.providers : providers[p][event.host] = Absent}

(* heartbeat_provider_update: adds the providers that are not known to run *)
(* on the host.  It stores a known one again when it can fill in a missing *)
(* name or reference, which the model leaves open.                         *)
HeartbeatProviders(w) ==
  LET h == Event(w).host
      missing == MissingProviders(Event(w))
      new == [p \in Providers |-> IF p \in missing
                THEN [providers[p] EXCEPT ![h] = "pending"] ELSE providers[p]]
  IN  /\ At(w, "list_providers")
      /\ Event(w).type = "host_heartbeat"
      /\ \E filled \in SUBSET (Event(w).providers \ missing) :
           Become(w, StageProviders(w, new, missing \cup filled))
      /\ UNCHANGED <<lattice, store, delivery, faults, lost>>

KnownThere(inst, h, load) ==    \* mutant: the count is not compared
  inst[h][load.ann] # Absent

(* heartbeat_component_update: an entry is up to date if it has as many    *)
(* annotation sets for this host as the component has hosts, and the right *)
(* count for the annotations that the host reports.                        *)
AnnsOn(inst, h) == {a \in Anns : inst[h][a] # Absent}

UpToDate(inst, h, load) ==
  /\ Cardinality(AnnsOn(inst, h)) = Cardinality(HostsOf(inst))
  /\ inst[h][load.ann] = load.count

(* What is not up to date is replaced by what the host reports; what the   *)
(* host does not report is left alone.                                     *)
HeartbeatComponents(w) ==
  LET h == Event(w).host
      loads == Event(w).loads
      stale == {c \in Components :
                  loads[c] # Absent /\ ~UpToDate(components[c], h, loads[c])}
      new == [c \in Components |->
                IF c \in stale
                THEN [components[c] EXCEPT ![h] =
                        [a \in Anns |-> IF a = loads[c].ann THEN loads[c].count ELSE Absent]]
                ELSE components[c]]
  IN  /\ At(w, "list_components")
      /\ Event(w).type = "host_heartbeat"
      /\ Become(w, StageComponents(w, new, stale))
      /\ UNCHANGED <<lattice, store, delivery, faults, lost>>

Handle(w) ==
  \/ PutHost(w) \/ PutComponents(w) \/ DelComponents(w)
  \/ PutProviders(w) \/ DelProviders(w)
  \/ GetComponent(w) \/ GetHost(w)
  \/ GetStoppedHost(w) \/ StoppedComponents(w) \/ StoppedProviders(w) \/ DelStoppedHost(w)
  \/ StartedProvider(w) \/ StoppedProvider(w) \/ CheckedProvider(w)
  \/ HeartbeatProviders(w) \/ HeartbeatComponents(w)

Work(w) == Deliver(w) \/ Handle(w) \/ Ack(w)

(* One wadm instance, whose handlers may fail at any operation.            *)
Next ==
  \/ Environment
  \/ \E w \in Workers : Work(w) \/ Nack(w)

Spec == Init /\ [][Next]_vars

(* Properties.                                                             *)

ProcRec ==
  [todo : Seq({"get_host", "put_host", "del_host", "get_component",
               "list_components", "put_components", "del_components",
               "get_provider", "list_providers", "put_providers", "del_providers",
               "reap_hosts", "del_hosts", "list_hosts", "reap_components",
               "reap_providers"}),
   seq : Nat, event : Events \cup {NoEvent}, host : HostRec \cup {NoHost},
   hosts : [Hosts -> HostRec \cup {NoHost}],
   components : [Components -> Instances], providers : [Providers -> Statuses],
   put : SUBSET (Components \cup Providers),
   del : SUBSET (Hosts \cup Components \cup Providers)]

TypeOK ==
  /\ power \in [Hosts -> {"new", "up", "down"}]
  /\ runs \in [Hosts -> [Components -> Loads \cup {Absent}]]
  /\ health \in [Hosts -> [Providers -> {"pending", "running", "failed", Absent}]]
  /\ hosts \in [Hosts -> HostRec \cup {NoHost}]
  /\ components \in [Components -> Instances]
  /\ providers \in [Providers -> Statuses]
  /\ lastSeq \in Nat
  /\ DOMAIN stream \in SUBSET (1 .. lastSeq)
  /\ \A i \in DOMAIN stream :
       stream[i] \in [event : Events, tries : 0 .. MaxDeliver, state : {"due", "out"}]
  /\ proc \in [Procs -> ProcRec]
  /\ faults \in 0 .. MaxFaults
  /\ lost \in SUBSET (1 .. lastSeq)

(* All events are handled, and none was given up.                          *)
Drained == stream = <<>> /\ \A w \in Workers : ~Busy(w)
CaughtUp == Drained /\ lost = {}

Runs(h, c, a) ==
  IF runs[h][c] # Absent /\ runs[h][c].ann = a THEN runs[h][c].count ELSE 0

(* However often its handlers failed and were tried again, one instance    *)
(* that has caught up knows of every host that is up what it runs, and of  *)
(* no other host.                                                          *)
HostsAgree ==
  CaughtUp => \A h \in Hosts :
    IF Up(h) THEN /\ hosts[h] # NoHost
                  /\ hosts[h].components = {c \in Components : runs[h][c] # Absent}
                  /\ hosts[h].providers = {p \in Providers : health[h][p] # Absent}
    ELSE hosts[h] = NoHost

(* It then counts of every component the instances that run, on each host  *)
(* and for each set of annotations (an entry with count 0 may be left).    *)
ComponentsAgree ==
  CaughtUp => \A h \in Hosts, c \in Components, a \in Anns :
    LET count == components[c][h][a]
    IN  Runs(h, c, a) = IF count = Absent THEN 0 ELSE count

(* And it knows where every provider runs and how healthy it is.           *)
ProvidersAgree ==
  CaughtUp => \A h \in Hosts, p \in Providers : providers[p][h] = health[h][p]

(* A host outlives what it runs: no component or provider is stored for a  *)
(* host that is not (handle_host_stopped could not find it any more, nor   *)
(* could the scalers), even while the handlers fail half-way.              *)
HostOutlivesContents ==
  lost = {} => \A h \in Hosts : hosts[h] = NoHost =>
    /\ \A c \in Components, a \in Anns : components[c][h][a] \in {0, Absent}
    /\ \A p \in Providers : providers[p][h] = Absent

(* Once a heartbeat is handled, the components that it reports are stored  *)
(* for its host exactly as it reports them, whatever had been lost before. *)
HeartbeatRepairs ==
  \A w \in Workers, c \in Components :
    LET e == Event(w)
    IN  (e.type = "host_heartbeat" /\ proc[w].todo = <<>> /\ e.loads[c] # Absent) =>
          \A a \in Anns : components[c][e.host][a] =
            IF a = e.loads[c].ann THEN e.loads[c].count ELSE Absent
=============================================================================
