--------------------------- MODULE Lattice_proofs ---------------------------
(***************************************************************************)
(* Proofs about the state of a lattice, for every set of hosts,            *)
(* components, providers, annotations, workers and reapers, and every      *)
(* number of events and faults, in three parts: type correctness of        *)
(* LatticeState; that one wadm instance agrees with the hosts              *)
(* (LatticeState); that the store settles (LatticeSettle).                 *)
(***************************************************************************)
EXTENDS LatticeSettle, TLAPS, SequenceTheorems
-----------------------------------------------------------------------------
(***************************************************************************)
(* Type correctness of LatticeState, for every set of hosts, components,   *)
(* providers, annotations, workers and reapers.  The lemmas say of every   *)
(* operation that it keeps the store typed, for a worker as for a reaper.  *)
(***************************************************************************)

Ops ==
  {"get_host", "put_host", "del_host", "get_component",
   "list_components", "put_components", "del_components",
   "get_provider", "list_providers", "put_providers", "del_providers",
   "reap_hosts", "del_hosts", "list_hosts", "reap_components", "reap_providers"}

(* Two operations read fields of the event that only some events have, and *)
(* the host of a host_stopped is read, never written.                      *)
Allowed(event) ==
  {op \in Ops :
     /\ op = "get_component" => event.type = "component_scaled"
     /\ op = "put_host" => event.type # "host_stopped"
     /\ op = "get_host" => event.type \in {"component_scaled", "provider_started",
                                           "provider_stopped", "host_stopped"}}

(* After get_host there is something left to do, which is skipped for a    *)
(* host that is not in the store.                                          *)
Programs(event) ==
  {todo \in Seq(Allowed(event)) : todo # <<>> => todo[Len(todo)] # "get_host"}

(* A worker that has no message has nothing to do, another one only what   *)
(* its message allows; a stopped host that was not in the store is done    *)
(* with.                                                                   *)
WorkOf(rec) ==
  IF rec.seq = 0 THEN rec.todo = <<>>
  ELSE /\ rec.event \in Events
       /\ rec.todo \in Programs(rec.event)
       /\ rec.event.type = "host_stopped" /\ rec.host = NoHost =>
            rec.todo \in {<<>>, StoppedSteps}

(* A message that may still be delivered has a delivery left.              *)
Deliverable == \A i \in DOMAIN stream : stream[i].state = "due" => stream[i].tries < MaxDeliver

TInv == TypeOK /\ (\A w \in Workers : WorkOf(proc[w])) /\ Deliverable

StoreTyped ==
  /\ hosts \in [Hosts -> HostRec \cup {NoHost}]
  /\ components \in [Components -> Instances]
  /\ providers \in [Providers -> Statuses]

LatticeTyped ==
  /\ power \in [Hosts -> {"new", "up", "down"}]
  /\ runs \in [Hosts -> [Components -> Loads \cup {Absent}]]
  /\ health \in [Hosts -> [Providers -> {"pending", "running", "failed", Absent}]]

StreamTyped ==
  /\ lastSeq \in Nat
  /\ DOMAIN stream \in SUBSET (1 .. lastSeq)
  /\ \A i \in DOMAIN stream :
       stream[i] \in [event : Events, tries : 0 .. MaxDeliver, state : {"due", "out"}]
  /\ Deliverable
  /\ lost \in SUBSET (1 .. lastSeq)

ProcsTyped ==
  /\ proc \in [Procs -> ProcRec]
  /\ \A w \in Workers : WorkOf(proc[w])

LEMMA TInvParts ==
  TInv <=> LatticeTyped /\ StoreTyped /\ StreamTyped /\ ProcsTyped /\ faults \in 0 .. MaxFaults
BY DEF TInv, TypeOK, LatticeTyped, StoreTyped, StreamTyped, ProcsTyped
-----------------------------------------------------------------------------
(* The fields that an event has, by its type.                              *)
LEMMA EventFacts ==
  ASSUME NEW e \in Events
  PROVE  /\ e.host \in Hosts
         /\ e.type \in {"host_started", "host_stopped", "host_heartbeat", "component_scaled",
                        "provider_started", "provider_stopped", "health_check"}
         /\ e.type = "host_heartbeat" => /\ e.loads \in [Components -> Loads \cup {Absent}]
                                         /\ e.providers \in SUBSET Providers
         /\ e.type = "component_scaled" => /\ e.component \in Components
                                           /\ e.ann \in Anns
                                           /\ e.count \in Counts \cup {0}
         /\ e.type \in {"provider_started", "provider_stopped", "health_check"} =>
              e.provider \in Providers
         /\ e.type = "health_check" => e.result \in {"status", "passed", "failed"}
BY DEF Events

LEMMA IdleTyped ==
  /\ Idle \in ProcRec
  /\ Idle.todo = <<>> /\ Idle.seq = 0
  /\ NoInstances \in Instances /\ NoStatuses \in Statuses
<1>1. NoInstances \in Instances /\ NoStatuses \in Statuses
  BY DEF NoInstances, NoStatuses, Instances, Statuses
<1>2. Idle \in ProcRec
  BY <1>1 DEF Idle, ProcRec
<1> QED
  BY <1>1, <1>2 DEF Idle

LEMMA HostFromTyped ==
  ASSUME NEW e \in Events
  PROVE  HostFrom(e) \in HostRec \cup {NoHost}
<1>1. CASE e.type = "host_started"
  BY <1>1 DEF HostFrom, EmptyHost, HostRec
<1>2. CASE e.type = "host_heartbeat"
  BY <1>2, EventFacts DEF HostFrom, HostRec
<1>3. CASE e.type \notin {"host_started", "host_heartbeat"}
  BY <1>3 DEF HostFrom
<1> QED
  BY <1>1, <1>2, <1>3

LEMMA StepsAllowed ==
  ASSUME NEW e \in Events
  PROVE  Steps(e) \in Programs(e)
<1>1. CASE e.type = "host_started"
  BY <1>1 DEF Steps, Programs, Allowed, Ops
<1>2. CASE e.type = "host_stopped"
  BY <1>2 DEF Steps, StoppedSteps, Programs, Allowed, Ops
<1>3. CASE e.type = "host_heartbeat"
  BY <1>3 DEF Steps, Programs, Allowed, Ops
<1>4. CASE e.type = "component_scaled"
  BY <1>4 DEF Steps, Programs, Allowed, Ops
<1>5. CASE e.type = "provider_started"
  BY <1>5 DEF Steps, Programs, Allowed, Ops
<1>6. CASE e.type = "provider_stopped"
  BY <1>6 DEF Steps, Programs, Allowed, Ops
<1>7. CASE e.type = "health_check"
  BY <1>7 DEF Steps, Programs, Allowed, Ops
<1> QED
  BY <1>1, <1>2, <1>3, <1>4, <1>5, <1>6, <1>7, EventFacts

LEMMA SeqOfAllowed ==
  ASSUME NEW e, NEW todo \in Programs(e)
  PROVE  todo \in Seq(Ops)
<1>1. Allowed(e) \subseteq Ops /\ todo \in Seq(Allowed(e))
  BY DEF Allowed, Programs
<1> QED
  BY <1>1

LEMMA ProgramTail ==
  ASSUME NEW e, NEW todo \in Programs(e), todo # <<>>
  PROVE  /\ Head(todo) \in Allowed(e)
         /\ Tail(todo) \in Programs(e)
         /\ Head(todo) = "get_host" => Tail(todo) # <<>>
<1> DEFINE S == Allowed(e)
<1>1. todo \in Seq(S) /\ todo[Len(todo)] # "get_host"
  BY DEF Programs
<1> HIDE DEF S
<1>2. Head(todo) \in S /\ Tail(todo) \in Seq(S) /\ Len(Tail(todo)) = Len(todo) - 1
      /\ Head(todo) = todo[1] /\ Len(todo) \in Nat /\ Len(todo) # 0
  BY <1>1
<1>3. Tail(todo) # <<>> => Tail(todo)[Len(todo) - 1] = todo[Len(todo)]
  <2> SUFFICES ASSUME Tail(todo) # <<>> PROVE Tail(todo)[Len(todo) - 1] = todo[Len(todo)]
    OBVIOUS
  <2>1. Len(todo) - 1 # 0
    BY <1>2
  <2> QED
    BY <1>1, <1>2, <2>1
<1>4. Tail(todo) = <<>> => Len(todo) = 1
  BY <1>2
<1> QED
  BY <1>1, <1>2, <1>3, <1>4 DEF S, Programs

LEMMA ProcRecTodo == ProcRec =
  [todo : Seq(Ops), seq : Nat, event : Events \cup {NoEvent}, host : HostRec \cup {NoHost},
   hosts : [Hosts -> HostRec \cup {NoHost}],
   components : [Components -> Instances], providers : [Providers -> Statuses],
   put : SUBSET (Components \cup Providers),
   del : SUBSET (Hosts \cup Components \cup Providers)]
BY DEF ProcRec, Ops
-----------------------------------------------------------------------------
(* A step of one process.                                                  *)
LEMMA BecomeTyped ==
  ASSUME TInv, NEW w \in Procs, NEW rec \in ProcRec, Become(w, rec),
         w \in Workers => WorkOf(rec)
  PROVE  /\ ProcsTyped'
         /\ proc'[w] = rec
         /\ \A v \in Procs : v # w => proc'[v] = proc[v]
<1>1. proc \in [Procs -> ProcRec] /\ proc' = [proc EXCEPT ![w] = rec]
  BY DEF TInv, TypeOK, Become
<1>2. /\ proc' \in [Procs -> ProcRec] /\ proc'[w] = rec
      /\ \A v \in Procs : v # w => proc'[v] = proc[v]
  BY <1>1
<1>3. \A v \in Workers : WorkOf(proc'[v])
  BY <1>2 DEF TInv, Procs
<1> QED
  BY <1>2, <1>3 DEF ProcsTyped, WorkOf

(* What a worker that has an operation to do has to do it with.            *)
LEMMA WorkerFacts ==
  ASSUME TInv, NEW w \in Workers, NEW op, At(w, op)
  PROVE  /\ w \in Procs /\ Busy(w) /\ Event(w) \in Events
         /\ op \in Allowed(Event(w))
         /\ Tail(proc[w].todo) \in Programs(Event(w))
         /\ op = "get_host" => Tail(proc[w].todo) # <<>>
<1>1. WorkOf(proc[w]) /\ proc[w].todo # <<>>
  BY DEF TInv, At
<1>2. proc[w].seq # 0 /\ Event(w) \in Events /\ proc[w].todo \in Programs(Event(w))
  BY <1>1 DEF WorkOf, Event
<1>3. /\ Head(proc[w].todo) \in Allowed(Event(w))
      /\ Tail(proc[w].todo) \in Programs(Event(w))
      /\ Head(proc[w].todo) = "get_host" => Tail(proc[w].todo) # <<>>
  BY <1>1, <1>2, ProgramTail
<1> QED
  BY <1>2, <1>3 DEF Procs, Busy, At

(* The record of a process whose present operation is done.                *)
LEMMA DoneFacts ==
  ASSUME TInv, NEW w \in Procs, NEW op, At(w, op)
  PROVE  /\ Done(w) \in ProcRec
         /\ Done(w).todo = Tail(proc[w].todo) /\ Done(w).seq = proc[w].seq
         /\ Done(w).event = Event(w) /\ Done(w).host = proc[w].host
         /\ Done(w).hosts = proc[w].hosts
         /\ Done(w).components = proc[w].components /\ Done(w).providers = proc[w].providers
         /\ Done(w).put = proc[w].put /\ Done(w).del = proc[w].del
         /\ w \in Workers /\ (op = "get_host" => Event(w).type # "host_stopped") =>
              WorkOf(Done(w))
<1>1. proc[w] \in ProcRec /\ proc[w].todo # <<>>
  BY DEF TInv, TypeOK, At
<1>2. Tail(proc[w].todo) \in Seq(Ops)
  BY <1>1, ProcRecTodo
<1>3. /\ Done(w) \in ProcRec
      /\ Done(w).todo = Tail(proc[w].todo) /\ Done(w).seq = proc[w].seq
      /\ Done(w).event = Event(w) /\ Done(w).host = proc[w].host
      /\ Done(w).hosts = proc[w].hosts
      /\ Done(w).components = proc[w].components /\ Done(w).providers = proc[w].providers
      /\ Done(w).put = proc[w].put /\ Done(w).del = proc[w].del
  BY <1>1, <1>2, ProcRecTodo DEF Done, Event
<1>4. ASSUME w \in Workers, op = "get_host" => Event(w).type # "host_stopped"
      PROVE  WorkOf(Done(w))
  <2>1. /\ Busy(w) /\ Event(w) \in Events /\ op \in Allowed(Event(w))
        /\ Tail(proc[w].todo) \in Programs(Event(w))
    BY <1>4, WorkerFacts
  <2>2. ~(Event(w).type = "host_stopped" /\ proc[w].host = NoHost)
    <3> SUFFICES ASSUME Event(w).type = "host_stopped", proc[w].host = NoHost PROVE FALSE
      OBVIOUS
    <3>1. proc[w].todo = StoppedSteps
      BY <1>1, <1>4, <2>1 DEF TInv, WorkOf, Event, Busy
    <3>2. op = "get_host"
      BY <3>1 DEF At, StoppedSteps
    <3> QED
      BY <1>4, <3>2
  <2> QED
    BY <1>3, <2>1, <2>2 DEF WorkOf, Busy
<1> QED
  BY <1>3, <1>4

(* A record that differs from another in what WorkOf does not look at.     *)
LEMMA SameWork ==
  ASSUME NEW old, NEW rec, rec.todo = old.todo, rec.seq = old.seq, rec.event = old.event,
         rec.host = NoHost => old.host = NoHost, WorkOf(old)
  PROVE  WorkOf(rec)
BY DEF WorkOf
-----------------------------------------------------------------------------
(* The writes of the store.                                                *)
LEMMA WriteTyped ==
  ASSUME TInv, NEW w \in Procs,
         \/ PutHost(w) \/ DelHosts(w) \/ DelStoppedHost(w)
         \/ PutComponents(w) \/ DelComponents(w)
         \/ PutProviders(w) \/ DelProviders(w)
  PROVE  /\ StoreTyped' /\ ProcsTyped'
         /\ UNCHANGED <<lattice, delivery, faults, lost>>
<1>1. PICK op : At(w, op) /\ op # "get_host" /\ (PutHost(w) => op = "put_host")
  BY DEF At, PutHost, DelHosts, DelStoppedHost, PutComponents, DelComponents, PutProviders,
         DelProviders
<1>2. /\ Done(w) \in ProcRec /\ proc[w] \in ProcRec
      /\ w \in Workers => WorkOf(Done(w))
  BY <1>1, DoneFacts DEF TInv, TypeOK
<1>3. /\ proc[w].host \in HostRec \cup {NoHost}
      /\ proc[w].components \in [Components -> Instances]
      /\ proc[w].providers \in [Providers -> Statuses]
  BY <1>2, ProcRecTodo
<1>4. StoreTyped
  BY DEF TInv, TypeOK, StoreTyped
<1>5. StoreTyped'
  <2>1. CASE PutHost(w)
    BY <1>3, <1>4, <2>1 DEF PutHost, StoreTyped
  <2>2. CASE DelHosts(w) \/ DelStoppedHost(w)
    BY <1>4, <2>2 DEF DelHosts, DelStoppedHost, StoreTyped
  <2>3. CASE PutComponents(w)
    BY <1>3, <1>4, <2>3 DEF PutComponents, StoreTyped
  <2>4. CASE DelComponents(w)
    BY <1>4, <2>4, IdleTyped DEF DelComponents, StoreTyped
  <2>5. CASE PutProviders(w)
    BY <1>3, <1>4, <2>5 DEF PutProviders, StoreTyped
  <2>6. CASE DelProviders(w)
    BY <1>4, <2>6, IdleTyped DEF DelProviders, StoreTyped
  <2> QED
    BY <2>1, <2>2, <2>3, <2>4, <2>5, <2>6
<1>6. PICK rec \in ProcRec :
        /\ Become(w, rec)
        /\ w \in Workers => WorkOf(rec)
  <2>1. CASE PutHost(w)
    <3> DEFINE rec == [Done(w) EXCEPT !.host = NoHost]
    <3>1. /\ rec \in ProcRec /\ rec.todo = Done(w).todo /\ rec.seq = Done(w).seq
          /\ rec.event = Done(w).event
      BY <1>2, ProcRecTodo
    <3> HIDE DEF rec
    <3>2. ASSUME w \in Workers PROVE WorkOf(rec)
      <4>1. Event(w).type # "host_stopped" /\ Done(w).event = Event(w)
        BY <1>1, <2>1, <3>2, WorkerFacts, DoneFacts DEF Allowed
      <4> QED
        BY <1>2, <3>1, <3>2, <4>1 DEF WorkOf
    <3> QED
      BY <2>1, <3>1, <3>2 DEF PutHost, rec
  <2>2. CASE DelHosts(w) \/ DelComponents(w) \/ DelProviders(w)
    <3> DEFINE rec == [Done(w) EXCEPT !.del = {}]
    <3>1. /\ rec \in ProcRec /\ rec.todo = Done(w).todo /\ rec.seq = Done(w).seq
          /\ rec.event = Done(w).event /\ rec.host = Done(w).host
      BY <1>2, ProcRecTodo
    <3> HIDE DEF rec
    <3>2. w \in Workers => WorkOf(rec)
      BY <1>2, <3>1, SameWork
    <3> QED
      BY <2>2, <3>1, <3>2 DEF DelHosts, DelComponents, DelProviders, rec
  <2>3. CASE DelStoppedHost(w)
    BY <1>2, <2>3 DEF DelStoppedHost
  <2>4. CASE PutComponents(w)
    <3> DEFINE rec == [Done(w) EXCEPT !.put = {}, !.components = Idle.components]
    <3>1. /\ rec \in ProcRec /\ rec.todo = Done(w).todo /\ rec.seq = Done(w).seq
          /\ rec.event = Done(w).event /\ rec.host = Done(w).host
      BY <1>2, IdleTyped, ProcRecTodo
    <3> HIDE DEF rec
    <3>2. w \in Workers => WorkOf(rec)
      BY <1>2, <3>1, SameWork
    <3> QED
      BY <2>4, <3>1, <3>2 DEF PutComponents, rec
  <2>5. CASE PutProviders(w)
    <3> DEFINE rec == [Done(w) EXCEPT !.put = {}, !.providers = Idle.providers]
    <3>1. /\ rec \in ProcRec /\ rec.todo = Done(w).todo /\ rec.seq = Done(w).seq
          /\ rec.event = Done(w).event /\ rec.host = Done(w).host
      BY <1>2, IdleTyped, ProcRecTodo
    <3> HIDE DEF rec
    <3>2. w \in Workers => WorkOf(rec)
      BY <1>2, <3>1, SameWork
    <3> QED
      BY <2>5, <3>1, <3>2 DEF PutProviders, rec
  <2> QED
    BY <2>1, <2>2, <2>3, <2>4, <2>5
<1>7. ProcsTyped'
  BY <1>6, BecomeTyped
<1>8. UNCHANGED <<lattice, delivery, faults, lost>>
  BY DEF PutHost, DelHosts, DelStoppedHost, PutComponents, DelComponents, PutProviders,
         DelProviders
<1> QED
  BY <1>5, <1>7, <1>8

(* What is staged is typed, and leaves the rest of the record alone.       *)
LEMMA StagedComponents ==
  ASSUME TInv, NEW w \in Procs, NEW op, At(w, op), op # "get_host",
         NEW new \in [Components -> Instances], NEW ids \in SUBSET Components
  PROVE  LET rec == StageComponents(w, new, ids)
         IN  /\ rec \in ProcRec
             /\ rec.todo = Tail(proc[w].todo) /\ rec.seq = proc[w].seq /\ rec.event = Event(w)
             /\ rec.host = proc[w].host /\ rec.hosts = proc[w].hosts
             /\ \A c \in Components : rec.components[c] =
                  IF c \in ids /\ new[c] # NoInstances THEN new[c] ELSE NoInstances
             /\ rec.put = {c \in ids : new[c] # NoInstances}
             /\ rec.del = {c \in ids : new[c] = NoInstances}
             /\ w \in Workers => WorkOf(rec)
<1> DEFINE comps == [c \in Components |->
                       IF c \in ids /\ new[c] # NoInstances THEN new[c] ELSE NoInstances]
           put_ == {c \in ids : new[c] # NoInstances}
           del_ == {c \in ids : new[c] = NoInstances}
           rec == [Done(w) EXCEPT !.components = comps, !.put = put_, !.del = del_]
<1>1. comps \in [Components -> Instances]
  BY IdleTyped
<1>2. put_ \in SUBSET (Components \cup Providers)
      /\ del_ \in SUBSET (Hosts \cup Components \cup Providers)
  OBVIOUS
<1>3. /\ Done(w) \in ProcRec /\ Done(w).todo = Tail(proc[w].todo)
      /\ Done(w).seq = proc[w].seq /\ Done(w).event = Event(w)
      /\ Done(w).host = proc[w].host /\ Done(w).hosts = proc[w].hosts
      /\ w \in Workers => WorkOf(Done(w))
  BY DoneFacts
<1>4. StageComponents(w, new, ids) = rec
  BY DEF StageComponents
<1> HIDE DEF comps, put_, del_
<1>5. /\ rec \in ProcRec
      /\ rec.todo = Done(w).todo /\ rec.seq = Done(w).seq /\ rec.event = Done(w).event
      /\ rec.host = Done(w).host /\ rec.hosts = Done(w).hosts
      /\ rec.components = comps /\ rec.put = put_ /\ rec.del = del_
  BY <1>1, <1>2, <1>3, ProcRecTodo
<1> HIDE DEF rec
<1>6. w \in Workers => WorkOf(rec)
  BY <1>3, <1>5, SameWork
<1> QED
  BY <1>3, <1>4, <1>5, <1>6 DEF comps, put_, del_

LEMMA StagedProviders ==
  ASSUME TInv, NEW w \in Procs, NEW op, At(w, op), op # "get_host",
         NEW new \in [Providers -> Statuses], NEW ids \in SUBSET Providers
  PROVE  LET rec == StageProviders(w, new, ids)
         IN  /\ rec \in ProcRec
             /\ rec.todo = Tail(proc[w].todo) /\ rec.seq = proc[w].seq /\ rec.event = Event(w)
             /\ rec.host = proc[w].host /\ rec.hosts = proc[w].hosts
             /\ \A p \in Providers : rec.providers[p] =
                  IF p \in ids /\ new[p] # NoStatuses THEN new[p] ELSE NoStatuses
             /\ rec.put = {p \in ids : new[p] # NoStatuses}
             /\ rec.del = {p \in ids : new[p] = NoStatuses}
             /\ w \in Workers => WorkOf(rec)
<1> DEFINE provs == [p \in Providers |->
                       IF p \in ids /\ new[p] # NoStatuses THEN new[p] ELSE NoStatuses]
           put_ == {p \in ids : new[p] # NoStatuses}
           del_ == {p \in ids : new[p] = NoStatuses}
           rec == [Done(w) EXCEPT !.providers = provs, !.put = put_, !.del = del_]
<1>1. provs \in [Providers -> Statuses]
  BY IdleTyped
<1>2. put_ \in SUBSET (Components \cup Providers)
      /\ del_ \in SUBSET (Hosts \cup Components \cup Providers)
  OBVIOUS
<1>3. /\ Done(w) \in ProcRec /\ Done(w).todo = Tail(proc[w].todo)
      /\ Done(w).seq = proc[w].seq /\ Done(w).event = Event(w)
      /\ Done(w).host = proc[w].host /\ Done(w).hosts = proc[w].hosts
      /\ w \in Workers => WorkOf(Done(w))
  BY DoneFacts
<1>4. StageProviders(w, new, ids) = rec
  BY DEF StageProviders
<1> HIDE DEF provs, put_, del_
<1>5. /\ rec \in ProcRec
      /\ rec.todo = Done(w).todo /\ rec.seq = Done(w).seq /\ rec.event = Done(w).event
      /\ rec.host = Done(w).host /\ rec.hosts = Done(w).hosts
      /\ rec.providers = provs /\ rec.put = put_ /\ rec.del = del_
  BY <1>1, <1>2, <1>3, ProcRecTodo
<1> HIDE DEF rec
<1>6. w \in Workers => WorkOf(rec)
  BY <1>3, <1>5, SameWork
<1> QED
  BY <1>3, <1>4, <1>5, <1>6 DEF provs, put_, del_

(* A worker's record with another list of allowed operations.              *)
LEMMA TodoTyped ==
  ASSUME NEW old \in ProcRec, old.seq # 0, old.event \in Events,
         NEW todo_ \in Programs(old.event),
         old.event.type # "host_stopped" \/ todo_ = <<>>
  PROVE  LET rec == [old EXCEPT !.todo = todo_]
         IN  rec \in ProcRec /\ WorkOf(rec)
<1> DEFINE rec == [old EXCEPT !.todo = todo_]
<1>1. todo_ \in Seq(Ops)
  BY SeqOfAllowed
<1>2. rec \in ProcRec /\ rec.seq # 0 /\ rec.event = old.event /\ rec.todo = todo_
  BY <1>1, ProcRecTodo
<1> QED
  BY <1>2 DEF WorkOf
-----------------------------------------------------------------------------
(* The reads of the handlers.                                              *)
LEMMA StoppedHostKnown ==
  ASSUME TInv, NEW w \in Workers, NEW op \in {"list_components", "list_providers"}, At(w, op),
         Event(w).type = "host_stopped"
  PROVE  proc[w].host \in HostRec
<1>1. proc[w].host \in HostRec \cup {NoHost} /\ Busy(w)
  BY WorkerFacts DEF TInv, TypeOK, ProcRec
<1>2. proc[w].todo \notin {<<>>, StoppedSteps}
  BY DEF At, StoppedSteps
<1> QED
  BY <1>1, <1>2 DEF TInv, WorkOf, Event, Busy

LEMMA ComponentReadTyped ==
  ASSUME TInv, NEW w \in Workers,
         GetComponent(w) \/ StoppedComponents(w) \/ HeartbeatComponents(w)
  PROVE  ProcsTyped' /\ UNCHANGED <<lattice, store, delivery, faults, lost>>
<1>1. PICK op \in {"get_component", "list_components"} :
        At(w, op) /\ (GetComponent(w) => op = "get_component")
  BY DEF GetComponent, StoppedComponents, HeartbeatComponents, At
<1>2. /\ w \in Procs /\ Busy(w) /\ Event(w) \in Events
      /\ GetComponent(w) => Event(w).type = "component_scaled"
  BY <1>1, WorkerFacts DEF Allowed
<1>3. components \in [Components -> Instances]
  BY DEF TInv, TypeOK
<1> DEFINE e == Event(w)
           h == Event(w).host
<1>4. h \in Hosts
  BY <1>2, EventFacts
<1>5. CASE GetComponent(w)
  <2> DEFINE c == e.component
             new == [components EXCEPT ![c] = Scaled(@, e)]
             op_ == IF new[c] = NoInstances THEN "del_components" ELSE "put_components"
             todo_ == <<"get_host", "put_host", op_>>
  <2>1. e.type = "component_scaled" /\ c \in Components /\ e.ann \in Anns
        /\ e.count \in Counts \cup {0}
    BY <1>2, <1>5, EventFacts
  <2>2. Scaled(components[c], e) \in Instances
    BY <1>3, <1>4, <2>1 DEF Scaled, Instances
  <2>3. new \in [Components -> Instances] /\ {c} \in SUBSET Components
    BY <1>3, <2>1, <2>2
  <2>4. todo_ \in Programs(e)
    <3>1. {"get_host", "put_host", "del_components", "put_components"} \subseteq Allowed(e)
      BY <2>1 DEF Allowed, Ops
    <3>2. "get_host" \in Allowed(e) /\ "put_host" \in Allowed(e) /\ op_ \in Allowed(e)
      BY <3>1
    <3>3. op_ # "get_host"
      OBVIOUS
    <3> HIDE DEF op_
    <3> QED
      BY <3>2, <3>3 DEF Programs
  <2> DEFINE rec == StageComponents(w, new, {c})
  <2>5. Become(w, [rec EXCEPT !.todo = todo_])
    BY <1>5 DEF GetComponent
  <2> HIDE DEF new, todo_
  <2>6. rec \in ProcRec /\ rec.seq # 0 /\ rec.event = e
    BY <1>1, <1>2, <2>3, StagedComponents DEF Busy
  <2> HIDE DEF rec
  <2>7. [rec EXCEPT !.todo = todo_] \in ProcRec /\ WorkOf([rec EXCEPT !.todo = todo_])
    BY <2>1, <2>4, <2>6, <1>2, TodoTyped
  <2> QED
    BY <1>2, <2>5, <2>7, <1>5, BecomeTyped DEF GetComponent
<1>6. CASE StoppedComponents(w) \/ HeartbeatComponents(w)
  <2>1. PICK new \in [Components -> Instances], ids \in SUBSET Components :
          Become(w, StageComponents(w, new, ids))
    <3>1. CASE StoppedComponents(w)
      <4> DEFINE new == [c \in Components |-> [components[c] EXCEPT ![h] = NoInstances[h]]]
                 ids == {c \in proc[w].host.components : components[c] # NoInstances}
      <4>1. new \in [Components -> Instances]
        BY <1>3, <1>4 DEF Instances, NoInstances
      <4>2. proc[w].host \in HostRec
        BY <3>1, StoppedHostKnown DEF StoppedComponents
      <4>3. ids \in SUBSET Components
        BY <4>2 DEF HostRec
      <4> QED
        BY <3>1, <4>1, <4>3 DEF StoppedComponents
    <3>2. CASE HeartbeatComponents(w)
      <4> DEFINE loads == e.loads
                 stale == {c \in Components :
                             loads[c] # Absent /\ ~UpToDate(components[c], h, loads[c])}
                 new == [c \in Components |->
                   IF c \in stale
                   THEN [components[c] EXCEPT ![h] =
                           [a \in Anns |-> IF a = loads[c].ann THEN loads[c].count ELSE Absent]]
                   ELSE components[c]]
      <4>1. loads \in [Components -> Loads \cup {Absent}]
        BY <1>2, <3>2, EventFacts DEF HeartbeatComponents
      <4>2. \A c \in stale : loads[c] \in Loads
        BY <4>1
      <4>3. new \in [Components -> Instances]
        BY <1>3, <1>4, <4>2 DEF Instances, Loads
      <4>4. Become(w, StageComponents(w, new, stale))
        BY <3>2 DEF HeartbeatComponents
      <4>5. stale \in SUBSET Components
        OBVIOUS
      <4> HIDE DEF new, stale
      <4> QED
        BY <4>3, <4>4, <4>5
    <3> QED
      BY <1>6, <3>1, <3>2
  <2>2. StageComponents(w, new, ids) \in ProcRec /\ WorkOf(StageComponents(w, new, ids))
    BY <1>1, <1>2, StagedComponents
  <2> QED
    BY <1>2, <1>6, <2>1, <2>2, BecomeTyped DEF StoppedComponents, HeartbeatComponents
<1> QED
  BY <1>5, <1>6

LEMMA ProviderReadTyped ==
  ASSUME TInv, NEW w \in Workers,
         \/ StartedProvider(w) \/ StoppedProvider(w) \/ CheckedProvider(w)
         \/ StoppedProviders(w) \/ HeartbeatProviders(w)
  PROVE  ProcsTyped' /\ UNCHANGED <<lattice, store, delivery, faults, lost>>
<1>1. PICK op \in {"get_provider", "list_providers"} : At(w, op)
  BY DEF StartedProvider, StoppedProvider, CheckedProvider, StoppedProviders,
         HeartbeatProviders
<1>2. w \in Procs /\ Busy(w) /\ Event(w) \in Events
  BY <1>1, WorkerFacts
<1>3. providers \in [Providers -> Statuses]
  BY DEF TInv, TypeOK
<1> DEFINE e == Event(w)
           h == Event(w).host
           p == Event(w).provider
<1>4. h \in Hosts
  BY <1>2, EventFacts
<1>5. UNCHANGED <<lattice, store, delivery, faults, lost>>
  BY DEF StartedProvider, StoppedProvider, CheckedProvider, StoppedProviders,
         HeartbeatProviders
(* Most of them stage new values, and some say what is left to do.         *)
<1>6. ASSUME NEW new \in [Providers -> Statuses], NEW ids \in SUBSET Providers,
             \/ Become(w, StageProviders(w, new, ids))
             \/ /\ e.type # "host_stopped"
                /\ \E todo_ \in Programs(e) :
                     Become(w, [StageProviders(w, new, ids) EXCEPT !.todo = todo_])
      PROVE  ProcsTyped'
  <2> DEFINE rec == StageProviders(w, new, ids)
  <2>1. rec \in ProcRec /\ WorkOf(rec) /\ rec.seq # 0 /\ rec.event = e
    BY <1>1, <1>2, StagedProviders DEF Busy
  <2> HIDE DEF rec
  <2>2. CASE Become(w, rec)
    BY <1>2, <2>1, <2>2, BecomeTyped
  <2>3. CASE e.type # "host_stopped"
             /\ \E todo_ \in Programs(e) : Become(w, [rec EXCEPT !.todo = todo_])
    <3>1. PICK todo_ \in Programs(e) : Become(w, [rec EXCEPT !.todo = todo_])
      BY <2>3
    <3>2. [rec EXCEPT !.todo = todo_] \in ProcRec /\ WorkOf([rec EXCEPT !.todo = todo_])
      BY <1>2, <2>1, <2>3, TodoTyped
    <3> QED
      BY <1>2, <3>1, <3>2, BecomeTyped
  <2> QED
    BY <1>6, <2>2, <2>3 DEF rec
<1>7. {"put_providers", "del_providers"} \subseteq Allowed(e)
  BY DEF Allowed, Ops
<1>8. CASE StartedProvider(w)
  <2> DEFINE known == providers[p][h] # Absent
             new == IF known THEN providers ELSE [providers EXCEPT ![p][h] = "pending"]
             todo_ == IF known THEN <<"put_providers">> ELSE StageProviders(w, new, {p}).todo
  <2>1. e.type = "provider_started" /\ p \in Providers
    BY <1>2, <1>8, EventFacts DEF StartedProvider
  <2>2. new \in [Providers -> Statuses]
    BY <1>3, <1>4, <2>1 DEF Statuses
  <2>3. todo_ \in Programs(e)
    <3>1. StageProviders(w, new, {p}).todo = Tail(proc[w].todo)
      BY <1>1, <1>2, <2>1, <2>2, StagedProviders
    <3>2. Tail(proc[w].todo) \in Programs(e)
      BY <1>1, WorkerFacts
    <3>3. <<"put_providers">> \in Programs(e)
      BY <1>7 DEF Programs
    <3> HIDE DEF known
    <3> QED
      BY <3>1, <3>2, <3>3
  <2>4. Become(w, [StageProviders(w, new, {p}) EXCEPT !.todo = todo_])
    BY <1>8 DEF StartedProvider
  <2> HIDE DEF new, todo_
  <2> QED
    BY <1>5, <1>6, <2>1, <2>2, <2>3, <2>4
<1>9. CASE StoppedProvider(w)
  <2> DEFINE new == [providers EXCEPT ![p][h] = Absent]
             op_ == IF new[p] = NoStatuses THEN "del_providers" ELSE "put_providers"
  <2>1. e.type = "provider_stopped" /\ p \in Providers
    BY <1>2, <1>9, EventFacts DEF StoppedProvider
  <2>2. new \in [Providers -> Statuses]
    BY <1>3, <1>4, <2>1 DEF Statuses
  <2>3. CASE Become(w, [StageProviders(w, new, {p}) EXCEPT !.todo = <<op_>>])
    <3> HIDE DEF new
    <3>1. op_ \in Allowed(e) /\ op_ # "get_host"
      BY <1>7
    <3> HIDE DEF op_
    <3>2. <<op_>> \in Programs(e)
      BY <3>1 DEF Programs
    <3> DEFINE todo_ == <<op_>>
    <3>3. todo_ \in Programs(e) /\ Become(w, [StageProviders(w, new, {p}) EXCEPT !.todo = todo_])
      BY <2>3, <3>2
    <3> HIDE DEF todo_
    <3> QED
      BY <1>5, <1>6, <2>1, <2>2, <3>3
  <2>4. CASE Become(w, [Done(w) EXCEPT !.todo = <<>>])
    <3>1. Done(w) \in ProcRec /\ Done(w).seq # 0 /\ Done(w).event = e
      BY <1>1, <1>2, DoneFacts DEF Busy
    <3>2. <<>> \in Programs(e)
      BY DEF Programs
    <3>3. [Done(w) EXCEPT !.todo = <<>>] \in ProcRec /\ WorkOf([Done(w) EXCEPT !.todo = <<>>])
      BY <1>2, <3>1, <3>2, TodoTyped
    <3> QED
      BY <1>5, <1>2, <2>4, <3>3, BecomeTyped
  <2> QED
    BY <1>9, <2>3, <2>4 DEF StoppedProvider
<1>10. CASE CheckedProvider(w)
  <2> DEFINE new == [providers EXCEPT ![p][h] = Checked(@, e.result)]
  <2>1. p \in Providers /\ e.result \in {"status", "passed", "failed"}
    BY <1>2, <1>10, EventFacts DEF CheckedProvider
  <2>2. providers[p][h] \in {"pending", "running", "failed", Absent}
    BY <1>3, <1>4, <2>1 DEF Statuses
  <2>3. Checked(providers[p][h], e.result) \in {"pending", "running", "failed", Absent}
    BY <2>1, <2>2 DEF Checked
  <2>4. new \in [Providers -> Statuses]
    BY <1>3, <1>4, <2>1, <2>3 DEF Statuses
  <2>5. Become(w, StageProviders(w, new, {p}))
    BY <1>10 DEF CheckedProvider
  <2> HIDE DEF new
  <2> QED
    BY <1>5, <1>6, <2>1, <2>4, <2>5
<1>11. CASE StoppedProviders(w)
  <2> DEFINE new == [q \in Providers |-> [providers[q] EXCEPT ![h] = Absent]]
             ids == {q \in proc[w].host.providers : providers[q][h] # Absent}
  <2>1. proc[w].host \in HostRec
    BY <1>11, StoppedHostKnown DEF StoppedProviders
  <2>2. ids \in SUBSET Providers
    BY <2>1 DEF HostRec
  <2>3. new \in [Providers -> Statuses]
    BY <1>3, <1>4 DEF Statuses
  <2>4. Become(w, StageProviders(w, new, ids))
    BY <1>11 DEF StoppedProviders
  <2> HIDE DEF new, ids
  <2> QED
    BY <1>5, <1>6, <2>2, <2>3, <2>4
<1>12. CASE HeartbeatProviders(w)
  <2> DEFINE missing == MissingProviders(e)
             new == [q \in Providers |-> IF q \in missing
                       THEN [providers[q] EXCEPT ![h] = "pending"] ELSE providers[q]]
  <2>1. e.providers \in SUBSET Providers
    BY <1>2, <1>12, EventFacts DEF HeartbeatProviders
  <2>2. new \in [Providers -> Statuses]
    BY <1>3, <1>4 DEF Statuses
  <2>3. PICK filled \in SUBSET (e.providers \ missing) :
          Become(w, StageProviders(w, new, missing \cup filled))
    BY <1>12 DEF HeartbeatProviders
  <2>4. missing \cup filled \in SUBSET Providers
    BY <2>1 DEF MissingProviders
  <2> HIDE DEF new, missing
  <2> QED
    BY <1>5, <1>6, <2>2, <2>3, <2>4
<1> QED
  BY <1>5, <1>8, <1>9, <1>10, <1>11, <1>12

LEMMA HostReadTyped ==
  ASSUME TInv, NEW w \in Workers, GetHost(w) \/ GetStoppedHost(w)
  PROVE  ProcsTyped' /\ UNCHANGED <<lattice, store, delivery, faults, lost>>
<1>1. At(w, "get_host")
  BY DEF GetHost, GetStoppedHost
<1>2. /\ w \in Procs /\ Busy(w) /\ Event(w) \in Events
      /\ Event(w).type \in {"component_scaled", "provider_started",
                            "provider_stopped", "host_stopped"}
      /\ Tail(proc[w].todo) \in Programs(Event(w)) /\ Tail(proc[w].todo) # <<>>
  BY <1>1, WorkerFacts DEF Allowed
<1>3. /\ Done(w) \in ProcRec /\ Done(w).todo = Tail(proc[w].todo)
      /\ Done(w).seq # 0 /\ Done(w).event = Event(w)
      /\ Event(w).type # "host_stopped" => WorkOf(Done(w))
  BY <1>1, <1>2, DoneFacts DEF Busy
<1>4. hosts[Event(w).host] \in HostRec \cup {NoHost}
  BY <1>2, EventFacts DEF TInv, TypeOK
<1>5. ASSUME NEW todo_ \in Programs(Event(w)),
             Event(w).type # "host_stopped" \/ todo_ = <<>>,
             Become(w, [Done(w) EXCEPT !.todo = todo_])
      PROVE  ProcsTyped'
  <2>1. [Done(w) EXCEPT !.todo = todo_] \in ProcRec /\ WorkOf([Done(w) EXCEPT !.todo = todo_])
    BY <1>2, <1>3, <1>5, TodoTyped
  <2> QED
    BY <1>2, <1>5, <2>1, BecomeTyped
<1>6. ASSUME NEW host \in HostRec, Become(w, [Done(w) EXCEPT !.host = host])
      PROVE  ProcsTyped'
  <2> DEFINE rec == [Done(w) EXCEPT !.host = host]
  <2>1. /\ rec \in ProcRec /\ rec.todo = Tail(proc[w].todo) /\ rec.seq # 0
        /\ rec.event = Event(w) /\ rec.host = host
    BY <1>3, ProcRecTodo
  <2> HIDE DEF rec
  <2>2. host # NoHost
    BY LatticeStateAssumption DEF HostRec
  <2>3. WorkOf(rec)
    BY <1>2, <2>1, <2>2 DEF WorkOf
  <2> QED
    BY <1>2, <1>6, <2>1, <2>3, BecomeTyped DEF rec
<1>7. UNCHANGED <<lattice, store, delivery, faults, lost>>
  BY DEF GetHost, GetStoppedHost
<1>8. CASE GetHost(w)
  <2> DEFINE host == hosts[Event(w).host]
  <2>1. Event(w).type # "host_stopped"
    BY <1>8 DEF GetHost
  <2>2. CASE host = NoHost
    <3>1. PICK todo_ : Become(w, [Done(w) EXCEPT !.todo = todo_]) /\ todo_ = Tail(Tail(proc[w].todo))
      BY <1>3, <1>8, <2>2 DEF GetHost
    <3>2. Tail(Tail(proc[w].todo)) \in Programs(Event(w))
      BY <1>2, ProgramTail
    <3> QED
      BY <1>5, <1>7, <2>1, <3>1, <3>2
  <2>3. CASE host # NoHost
    <3>1. host \in HostRec
      BY <1>4, <2>3
    <3>2. Changed(host, Event(w)) \in HostRec
      BY <1>2, <2>1, <3>1, EventFacts DEF Changed, HostRec
    <3> QED
      BY <1>6, <1>7, <1>8, <2>3, <3>2 DEF GetHost
  <2> QED
    BY <2>2, <2>3
<1>9. CASE GetStoppedHost(w)
  <2>1. <<>> \in Programs(Event(w))
    BY DEF Programs
  <2> QED
    BY <1>4, <1>5, <1>6, <1>7, <1>9, <2>1 DEF GetStoppedHost
<1> QED
  BY <1>8, <1>9
-----------------------------------------------------------------------------
(* Delivery.                                                               *)
LEMMA DeliverTyped ==
  ASSUME TInv, NEW w \in Workers, Deliver(w)
  PROVE  ProcsTyped' /\ StreamTyped' /\ UNCHANGED <<lattice, store, faults>>
<1>1. PICK i \in Due :
        /\ stream' = [stream EXCEPT ![i].state = "out", ![i].tries = @ + 1]
        /\ Become(w, [Idle EXCEPT !.todo = Steps(stream[i].event), !.seq = i,
                        !.event = stream[i].event, !.host = HostFrom(stream[i].event)])
  BY DEF Deliver
<1> DEFINE e == stream[i].event
           rec == [Idle EXCEPT !.todo = Steps(e), !.seq = i, !.event = e, !.host = HostFrom(e)]
<1>2. StreamTyped
  BY DEF TInv, TypeOK, StreamTyped
<1>3. /\ i \in DOMAIN stream /\ i \in 1 .. lastSeq /\ lastSeq \in Nat
      /\ e \in Events /\ stream[i].state = "due"
      /\ stream[i] \in [event : Events, tries : 0 .. MaxDeliver, state : {"due", "out"}]
      /\ stream[i].tries < MaxDeliver
  BY <1>2 DEF StreamTyped, Due, Deliverable
<1>4. UNCHANGED <<lattice, store, lastSeq, faults, lost>>
  BY DEF Deliver
<1>5. ProcsTyped'
  <2> HIDE DEF e
  <2>1. Steps(e) \in Programs(e) /\ Steps(e) \in Seq(Ops) /\ HostFrom(e) \in HostRec \cup {NoHost}
    BY <1>3, StepsAllowed, SeqOfAllowed, HostFromTyped
  <2>2. i \in Nat /\ i # 0
    BY <1>3
  <2>3. /\ rec \in ProcRec /\ rec.seq = i /\ rec.event = e /\ rec.todo = Steps(e)
        /\ rec.host = HostFrom(e)
    BY <1>3, <2>1, <2>2, IdleTyped, ProcRecTodo
  <2>4. e.type = "host_stopped" => Steps(e) = StoppedSteps
    BY DEF Steps
  <2>5. Become(w, rec)
    BY <1>1 DEF e
  <2> HIDE DEF rec
  <2>6. WorkOf(rec)
    BY <1>3, <2>1, <2>2, <2>3, <2>4 DEF WorkOf
  <2> QED
    BY <2>3, <2>5, <2>6, BecomeTyped DEF Procs
<1>6. StreamTyped'
  <2>1. DOMAIN stream' = DOMAIN stream
    BY <1>1
  <2>2. ASSUME NEW j \in DOMAIN stream
        PROVE  /\ stream'[j] \in [event : Events, tries : 0 .. MaxDeliver, state : {"due", "out"}]
               /\ stream'[j].state = "due" => stream'[j].tries < MaxDeliver
    <3>1. CASE j # i
      BY <1>1, <1>2, <3>1 DEF StreamTyped, Deliverable
    <3>2. CASE j = i
      <4>1. stream'[i] = [stream[i] EXCEPT !.state = "out", !.tries = @ + 1]
        BY <1>1, <1>3
      <4>2. stream[i].tries + 1 \in 0 .. MaxDeliver
        BY <1>3, LatticeStateAssumption
      <4> QED
        BY <1>3, <3>2, <4>1, <4>2
    <3> QED
      BY <3>1, <3>2
  <2> QED
    BY <1>2, <1>4, <2>1, <2>2 DEF StreamTyped, Deliverable
<1> QED
  BY <1>4, <1>5, <1>6

LEMMA AckTyped ==
  ASSUME TInv, NEW w \in Workers, Ack(w)
  PROVE  ProcsTyped' /\ StreamTyped' /\ UNCHANGED <<lattice, store, faults>>
<1>1. StreamTyped
  BY DEF TInv, TypeOK, StreamTyped
<1>2. StreamTyped'
  BY <1>1 DEF Ack, StreamTyped, Deliverable
<1>3. ProcsTyped'
  BY IdleTyped, BecomeTyped DEF Ack, Procs, WorkOf
<1> QED
  BY <1>2, <1>3 DEF Ack

(* A message that comes again, or is given up.                             *)
LEMMA AgainTyped ==
  ASSUME TInv, NEW i, Again(i), lastSeq' = lastSeq
  PROVE  StreamTyped'
<1>1. StreamTyped
  BY DEF TInv, TypeOK, StreamTyped
<1>2. CASE i \notin DOMAIN stream
  BY <1>1, <1>2 DEF Again, StreamTyped, Deliverable
<1>3. CASE i \in DOMAIN stream /\ stream[i].tries < MaxDeliver
  <2>1. stream' = [stream EXCEPT ![i].state = "due"] /\ lost' = lost
    BY <1>3 DEF Again
  <2>2. DOMAIN stream' = DOMAIN stream
    BY <2>1
  <2>3. ASSUME NEW j \in DOMAIN stream
        PROVE  /\ stream'[j] \in [event : Events, tries : 0 .. MaxDeliver, state : {"due", "out"}]
               /\ stream'[j].state = "due" => stream'[j].tries < MaxDeliver
    <3>1. CASE j # i
      BY <1>1, <2>1, <3>1 DEF StreamTyped, Deliverable
    <3>2. CASE j = i
      <4>1. stream'[i] = [stream[i] EXCEPT !.state = "due"]
        BY <1>3, <2>1
      <4> QED
        BY <1>1, <1>3, <3>2, <4>1 DEF StreamTyped
    <3> QED
      BY <3>1, <3>2
  <2> QED
    BY <1>1, <2>1, <2>2, <2>3 DEF StreamTyped, Deliverable
<1>4. CASE i \in DOMAIN stream /\ ~(stream[i].tries < MaxDeliver)
  <2>1. /\ stream' = [j \in DOMAIN stream \ {i} |-> stream[j]]
        /\ lost' = lost \cup {i}
    BY <1>4 DEF Again
  <2> QED
    BY <1>1, <1>4, <2>1 DEF StreamTyped, Deliverable
<1> QED
  BY <1>2, <1>3, <1>4

LEMMA NackTyped ==
  ASSUME TInv, NEW w \in Workers, Nack(w)
  PROVE  ProcsTyped' /\ StreamTyped' /\ UNCHANGED <<lattice, store>>
<1>1. StreamTyped'
  BY AgainTyped DEF Nack
<1>2. ProcsTyped'
  BY IdleTyped, BecomeTyped DEF Nack, Procs, WorkOf
<1> QED
  BY <1>1, <1>2 DEF Nack
-----------------------------------------------------------------------------
(* The hosts.                                                              *)
LEMMA PublishTyped ==
  ASSUME TInv, NEW e \in Events, Publish(e), lost' = lost
  PROVE  StreamTyped'
<1>1. StreamTyped
  BY DEF TInv, TypeOK, StreamTyped
<1>2. lastSeq \in Nat /\ lastSeq' = lastSeq + 1
  BY <1>1 DEF StreamTyped, Publish
<1>3. /\ DOMAIN stream' = DOMAIN stream \cup {lastSeq + 1}
      /\ stream'[lastSeq + 1] = [event |-> e, tries |-> 0, state |-> "due"]
      /\ \A j \in DOMAIN stream : stream'[j] = stream[j]
  BY <1>1, <1>2 DEF Publish, StreamTyped
<1>4. ASSUME NEW j \in DOMAIN stream'
      PROVE  /\ stream'[j] \in [event : Events, tries : 0 .. MaxDeliver, state : {"due", "out"}]
             /\ stream'[j].state = "due" => stream'[j].tries < MaxDeliver
  <2>1. CASE j = lastSeq + 1
    <3>1. 0 \in 0 .. MaxDeliver /\ 0 < MaxDeliver
      BY LatticeStateAssumption
    <3> QED
      BY <1>3, <2>1, <3>1
  <2>2. CASE j \in DOMAIN stream
    BY <1>1, <1>3, <2>2 DEF StreamTyped, Deliverable
  <2> QED
    BY <1>3, <2>1, <2>2
<1> QED
  BY <1>1, <1>2, <1>3, <1>4 DEF StreamTyped, Deliverable

LEMMA HaltTyped ==
  ASSUME TInv, NEW h \in Hosts, Halt(h)
  PROVE  LatticeTyped'
BY DEF TInv, TypeOK, Halt, LatticeTyped

LEMMA InventoryIsEvent ==
  ASSUME TInv, NEW h \in Hosts
  PROVE  /\ Inventory(h) \in Events
         /\ Inventory(h).type = "host_heartbeat" /\ Inventory(h).host = h
         /\ Inventory(h).loads = runs[h]
         /\ Inventory(h).providers = {p \in Providers : health[h][p] # Absent}
<1>1. runs[h] \in [Components -> Loads \cup {Absent}]
  BY DEF TInv, TypeOK
<1> QED
  BY <1>1 DEF Inventory, Events

LEMMA EnvironmentTyped ==
  ASSUME TInv, Environment
  PROVE  LatticeTyped' /\ StreamTyped' /\ UNCHANGED <<store, proc, faults>>
<1>1. PICK h \in Hosts :
        \/ HostStart(h) \/ HostStop(h) \/ Heartbeat(h)
        \/ \E c \in Components, a \in Anns, n \in Counts \cup {0} :
             Scale(h, c, [ann |-> a, count |-> n])
        \/ \E p \in Providers : ProviderStart(h, p) \/ ProviderStop(h, p)
        \/ \E p \in Providers, r \in {"status", "passed", "failed"} : HealthCheck(h, p, r)
  BY DEF Environment
<1>2. LatticeTyped
  BY DEF TInv, TypeOK, LatticeTyped
<1>3. lost' = lost
  BY DEF Environment
<1>4. LatticeTyped' /\ \E e \in Events : Publish(e)
  <2>1. CASE HostStart(h)
    <3>1. [type |-> "host_started", host |-> h] \in Events
      BY DEF Events
    <3> QED
      BY <1>2, <2>1, <3>1 DEF HostStart, LatticeTyped
  <2>2. CASE HostStop(h)
    <3>1. [type |-> "host_stopped", host |-> h] \in Events
      BY DEF Events
    <3> QED
      BY <2>2, <3>1, HaltTyped DEF HostStop
  <2>3. CASE Heartbeat(h)
    BY <1>2, <2>3, InventoryIsEvent DEF Heartbeat, lattice, LatticeTyped
  <2>4. CASE \E c \in Components, a \in Anns, n \in Counts \cup {0} :
               Scale(h, c, [ann |-> a, count |-> n])
    <3>1. PICK c \in Components, a \in Anns, n \in Counts \cup {0} :
            Scale(h, c, [ann |-> a, count |-> n])
      BY <2>4
    <3>2. [type |-> "component_scaled", host |-> h, component |-> c, ann |-> a, count |-> n]
            \in Events
      BY DEF Events
    <3>3. Publish([type |-> "component_scaled", host |-> h, component |-> c, ann |-> a,
                   count |-> n])
      BY <3>1 DEF Scale
    <3>4. (IF n = 0 THEN Absent ELSE [ann |-> a, count |-> n]) \in Loads \cup {Absent}
      BY DEF Loads
    <3>5. runs' = [runs EXCEPT ![h][c] = IF n = 0 THEN Absent ELSE [ann |-> a, count |-> n]]
          /\ UNCHANGED <<power, health>>
      BY <3>1 DEF Scale
    <3> QED
      BY <1>2, <3>2, <3>3, <3>4, <3>5 DEF LatticeTyped
  <2>5. CASE \E p \in Providers : ProviderStart(h, p) \/ ProviderStop(h, p)
    <3>1. PICK p \in Providers, type \in {"provider_started", "provider_stopped"},
               status \in {"pending", Absent} : ProviderEvent(h, p, type, status)
      BY <2>5 DEF ProviderStart, ProviderStop
    <3>2. [type |-> type, host |-> h, provider |-> p] \in Events
      BY DEF Events
    <3> QED
      BY <1>2, <3>1, <3>2 DEF ProviderEvent, LatticeTyped
  <2>6. CASE \E p \in Providers, r \in {"status", "passed", "failed"} : HealthCheck(h, p, r)
    <3>1. PICK p \in Providers, r \in {"status", "passed", "failed"} : HealthCheck(h, p, r)
      BY <2>6
    <3>2. [type |-> "health_check", host |-> h, provider |-> p, result |-> r] \in Events
      BY DEF Events
    <3> DEFINE status == CASE r = "passed" -> "running"
                           [] r = "failed" -> "failed"
                           [] r = "status" ->
                                IF health[h][p] = "pending" THEN "running" ELSE health[h][p]
    <3>3. status \in {"pending", "running", "failed", Absent}
      BY <1>2 DEF LatticeTyped
    <3>4. health' = [health EXCEPT ![h][p] = status] /\ UNCHANGED <<power, runs>>
      BY <1>2, <3>1 DEF HealthCheck, LatticeTyped
    <3> HIDE DEF status
    <3> QED
      BY <1>2, <3>1, <3>2, <3>3, <3>4 DEF HealthCheck, LatticeTyped
  <2> QED
    BY <1>1, <2>1, <2>2, <2>3, <2>4, <2>5, <2>6
<1>5. StreamTyped'
  BY <1>3, <1>4, PublishTyped
<1> QED
  BY <1>4, <1>5 DEF Environment
-----------------------------------------------------------------------------
LEMMA HandleTyped ==
  ASSUME TInv, NEW w \in Workers, Handle(w)
  PROVE  StoreTyped' /\ ProcsTyped' /\ UNCHANGED <<lattice, delivery, faults, lost>>
<1>1. w \in Procs
  BY DEF Procs
<1>2. CASE \/ PutHost(w) \/ DelStoppedHost(w) \/ PutComponents(w) \/ DelComponents(w)
           \/ PutProviders(w) \/ DelProviders(w)
  BY <1>1, <1>2, WriteTyped
<1>3. CASE \/ GetComponent(w) \/ StoppedComponents(w) \/ HeartbeatComponents(w)
           \/ StartedProvider(w) \/ StoppedProvider(w) \/ CheckedProvider(w)
           \/ StoppedProviders(w) \/ HeartbeatProviders(w)
           \/ GetHost(w) \/ GetStoppedHost(w)
  <2>1. ProcsTyped' /\ UNCHANGED <<lattice, store, delivery, faults, lost>>
    BY <1>3, ComponentReadTyped, ProviderReadTyped, HostReadTyped
  <2>2. StoreTyped'
    BY <2>1 DEF TInv, TypeOK, StoreTyped, store
  <2> QED
    BY <2>1, <2>2
<1> QED
  BY <1>2, <1>3 DEF Handle

LEMMA WorkTyped ==
  ASSUME TInv, NEW w \in Workers, Work(w)
  PROVE  TInv' /\ UNCHANGED <<lattice, faults>>
<1>1. LatticeTyped /\ StoreTyped /\ StreamTyped /\ ProcsTyped /\ faults \in 0 .. MaxFaults
  BY TInvParts
<1>2. StoreTyped' /\ StreamTyped' /\ ProcsTyped' /\ UNCHANGED <<lattice, faults>>
  <2>1. CASE Handle(w)
    BY <1>1, <2>1, HandleTyped DEF delivery, StreamTyped, Deliverable
  <2>2. CASE Deliver(w) \/ Ack(w)
    BY <1>1, <2>2, DeliverTyped, AckTyped DEF store, StoreTyped
  <2> QED
    BY <2>1, <2>2 DEF Work
<1>3. LatticeTyped'
  BY <1>1, <1>2 DEF LatticeTyped, lattice
<1>4. faults' \in 0 .. MaxFaults
  BY <1>1, <1>2
<1>5. TInv'
  BY <1>2, <1>3, <1>4 DEF TInv, TypeOK, LatticeTyped, StoreTyped, StreamTyped, ProcsTyped
<1> QED
  BY <1>2, <1>5

LEMMA FaultTyped ==
  ASSUME faults \in 0 .. MaxFaults, Fault
  PROVE  faults' \in 0 .. MaxFaults
BY LatticeStateAssumption DEF Fault

LEMMA NackStep ==
  ASSUME TInv, NEW w \in Workers, Nack(w)
  PROVE  TInv' /\ UNCHANGED lattice
<1>1. LatticeTyped /\ StoreTyped /\ faults \in 0 .. MaxFaults
  BY TInvParts
<1>2. ProcsTyped' /\ StreamTyped' /\ UNCHANGED <<lattice, store>>
  BY NackTyped
<1>3. LatticeTyped' /\ StoreTyped'
  BY <1>1, <1>2 DEF LatticeTyped, lattice, StoreTyped, store
<1>4. faults' \in 0 .. MaxFaults
  BY <1>1, FaultTyped DEF Nack
<1>5. TInv'
  BY <1>2, <1>3, <1>4 DEF TInv, TypeOK, LatticeTyped, StoreTyped, StreamTyped, ProcsTyped
<1> QED
  BY <1>2, <1>5

LEMMA EnvironmentStep ==
  ASSUME TInv, Environment
  PROVE  TInv' /\ UNCHANGED <<store, proc, faults>>
<1>1. StoreTyped /\ ProcsTyped /\ faults \in 0 .. MaxFaults
  BY TInvParts
<1>2. LatticeTyped' /\ StreamTyped' /\ UNCHANGED <<store, proc, faults>>
  BY EnvironmentTyped
<1>3. StoreTyped' /\ ProcsTyped'
  BY <1>1, <1>2 DEF StoreTyped, store, ProcsTyped, WorkOf
<1>4. TInv'
  BY <1>1, <1>2, <1>3 DEF TInv, TypeOK, LatticeTyped, StoreTyped, StreamTyped, ProcsTyped
<1> QED
  BY <1>2, <1>4

LEMMA InitTInv == Init => TInv
<1> SUFFICES ASSUME Init PROVE TInv
  OBVIOUS
<1>1. TypeOK
  <2>1. MaxFaults \in Nat
    BY LatticeStateAssumption
  <2>2. proc \in [Procs -> ProcRec] /\ components \in [Components -> Instances]
        /\ providers \in [Providers -> Statuses]
    BY IdleTyped DEF Init
  <2> QED
    BY <2>1, <2>2 DEF Init, TypeOK
<1>2. \A w \in Workers : WorkOf(proc[w])
  BY IdleTyped DEF Init, WorkOf, Procs
<1> QED
  BY <1>1, <1>2 DEF Init, TInv, Deliverable

LEMMA NextTInv == TInv /\ [Next]_vars => TInv'
<1> SUFFICES ASSUME TInv, [Next]_vars PROVE TInv'
  OBVIOUS
<1>1. CASE UNCHANGED vars
  <2>1. UNCHANGED <<power, runs, health, hosts, components, providers, stream, lastSeq, proc,
                    faults, lost>>
    BY <1>1 DEF vars, lattice, store, delivery
  <2> QED
    BY <2>1 DEF TInv, TypeOK, WorkOf, Deliverable
<1>2. CASE Next
  BY <1>2, EnvironmentStep, WorkTyped, NackStep DEF Next
<1> QED
  BY <1>1, <1>2

(* Every reachable state of the lattice is well typed: no handler reads a  *)
(* field that its event does not have, or the record of a host that it did *)
(* not find in the store.                                                  *)
THEOREM LatticeTypeCorrect == Spec => []TypeOK
<1>1. TInv => TypeOK
  BY DEF TInv
<1> QED
  BY <1>1, InitTInv, NextTInv, PTL DEF Spec
-----------------------------------------------------------------------------
(***************************************************************************)
(* One wadm instance that has handled all events knows the hosts, the      *)
(* components and the providers as they are, although its handlers fail,   *)
(* crash and are tried again between any two operations on the store.      *)
(*                                                                         *)
(* The argument: the messages that are left tell, one after the other, how *)
(* the hosts came from a state that the store once knew to the state they  *)
(* are in (History).  The first message may have been handled in part;     *)
(* everything stored is as it was before or after it (Between), and what   *)
(* its handler has staged is as it will be after it (Underway).  A handler *)
(* that fails leaves the store in between, from where it is tried again; a *)
(* message that is acknowledged leaves it after.                           *)
(***************************************************************************)

(* In Spec one instance works, with one worker.                            *)
OneWorker == \A v, w \in Workers : v = w

(* What the hosts were like when an event was published, and what its      *)
(* event says that has changed since the one before.                       *)
Views == [power : [Hosts -> {"new", "up", "down"}],
          runs : [Hosts -> [Components -> Loads \cup {Absent}]],
          health : [Hosts -> [Providers -> {"pending", "running", "failed", Absent}]]]
Now == [power |-> power, runs |-> runs, health |-> health]

Sane(v) ==
  \A h \in Hosts : v.power[h] # "up" => /\ \A c \in Components : v.runs[h][c] = Absent
                                        /\ \A p \in Providers : v.health[h][p] = Absent

LoadOf(e) == IF e.count = 0 THEN Absent ELSE [ann |-> e.ann, count |-> e.count]

Leads(v, e, new) ==
  LET h == e.host
  IN  /\ e.type = "host_started" =>
           /\ v.power[h] # "up" /\ new.power = [v.power EXCEPT ![h] = "up"]
           /\ new.runs = v.runs /\ new.health = v.health
      /\ e.type # "host_started" => v.power[h] = "up"
      /\ e.type = "host_stopped" =>
           /\ new.power = [v.power EXCEPT ![h] = "down"]
           /\ new.runs = [v.runs EXCEPT ![h] = [c \in Components |-> Absent]]
           /\ new.health = [v.health EXCEPT ![h] = [p \in Providers |-> Absent]]
      /\ e.type = "host_heartbeat" =>
           /\ new = v /\ e.loads = v.runs[h]
           /\ e.providers = {p \in Providers : v.health[h][p] # Absent}
      /\ e.type = "component_scaled" =>
           /\ v.runs[h][e.component] # Absent => v.runs[h][e.component].ann = e.ann
           /\ v.runs[h][e.component] = Absent => e.count # 0
           /\ new.runs = [v.runs EXCEPT ![h][e.component] = LoadOf(e)]
           /\ new.power = v.power /\ new.health = v.health
      /\ e.type \in {"provider_started", "provider_stopped", "health_check"} =>
           /\ e.type = "provider_started" <=> v.health[h][e.provider] = Absent
           /\ new.power = v.power /\ new.runs = v.runs
           /\ new.health = [v.health EXCEPT ![h][e.provider] =
                              CASE e.type = "provider_started" -> "pending"
                                [] e.type = "provider_stopped" -> Absent
                                [] e.type = "health_check" -> Checked(@, e.result)]

(* What the store has of a host, of the components and of the providers is *)
(* what they were like at some time (an entry with count 0 may be left).   *)
RecAs(rec, h, v) ==
  /\ rec # NoHost
  /\ rec.components = {c \in Components : v.runs[h][c] # Absent}
  /\ rec.providers = {p \in Providers : v.health[h][p] # Absent}
HostAs(h, v) == IF v.power[h] = "up" THEN RecAs(hosts[h], h, v) ELSE hosts[h] = NoHost

RunsIn(v, h, c, a) ==
  IF v.runs[h][c] # Absent /\ v.runs[h][c].ann = a THEN v.runs[h][c].count ELSE 0
CountsAs(inst, h, c, v) ==
  \A a \in Anns : RunsIn(v, h, c, a) = IF inst[h][a] = Absent THEN 0 ELSE inst[h][a]

HostsAs(v) == \A h \in Hosts : HostAs(h, v)
ComponentsAs(f, v) == \A h \in Hosts, c \in Components : CountsAs(f[c], h, c, v)
ProvidersAs(f, v) == \A h \in Hosts, p \in Providers : f[p][h] = v.health[h][p]
Agrees(v) == HostsAs(v) /\ ComponentsAs(components, v) /\ ProvidersAs(providers, v)

(* An event may have been handled in part.  Everything is as it was before *)
(* or after it; a stopped host goes last, a provider that starts comes     *)
(* last, and so does its status.                                           *)
Between(v, e, new) ==
  /\ \A h \in Hosts : HostAs(h, v) \/ HostAs(h, new)
  /\ \A h \in Hosts, c \in Components :
       CountsAs(components[c], h, c, v) \/ CountsAs(components[c], h, c, new)
  /\ \A h \in Hosts, p \in Providers :
       providers[p][h] = v.health[h][p] \/ providers[p][h] = new.health[h][p]
  /\ e.type = "host_stopped" /\ hosts[e.host] = NoHost =>
       ComponentsAs(components, new) /\ ProvidersAs(providers, new)
  /\ e.type = "provider_started" /\ providers[e.provider][e.host] # Absent => HostAs(e.host, new)

(* The store when w has put and deleted what it has staged.                *)
ComponentsWritten(w) ==
  [c \in Components |-> IF c \in proc[w].put THEN proc[w].components[c]
                        ELSE IF c \in proc[w].del THEN NoInstances ELSE components[c]]
ProvidersWritten(w) ==
  [p \in Providers |-> IF p \in proc[w].put THEN proc[w].providers[p]
                       ELSE IF p \in proc[w].del THEN NoStatuses ELSE providers[p]]

(* One kind of write is left, and it is for all that is staged.            *)
WritesComponents(w, todo, new) ==
  /\ \/ todo = <<"put_components">> /\ proc[w].del = {}
     \/ todo = <<"del_components">> /\ proc[w].put = {}
  /\ ComponentsAs(ComponentsWritten(w), new)
WritesProviders(w, todo, new) ==
  /\ \/ todo = <<"put_providers">> /\ proc[w].del = {}
     \/ todo = <<"del_providers">> /\ proc[w].put = {}
  /\ ProvidersAs(ProvidersWritten(w), new)

(* How far w has come with its event.                                      *)
Starting(w, new) ==
  \/ proc[w].todo = <<"put_host">> /\ RecAs(proc[w].host, Event(w).host, new)
  \/ proc[w].todo = <<>> /\ Agrees(new)

StopsComponents(w, new) ==
  \/ proc[w].todo = <<"list_components", "put_components", "del_components",
                      "list_providers", "put_providers", "del_providers", "del_host">>
  \/ /\ proc[w].todo = <<"put_components", "del_components",
                         "list_providers", "put_providers", "del_providers", "del_host">>
     /\ proc[w].put \cap proc[w].del = {} /\ ComponentsAs(ComponentsWritten(w), new)
  \/ /\ proc[w].todo = <<"del_components",
                         "list_providers", "put_providers", "del_providers", "del_host">>
     /\ proc[w].put = {} /\ ComponentsAs(ComponentsWritten(w), new)
  \/ /\ proc[w].todo = <<"list_providers", "put_providers", "del_providers", "del_host">>
     /\ ComponentsAs(components, new)

StopsProviders(w, new) ==
  /\ ComponentsAs(components, new)
  /\ \/ /\ proc[w].todo = <<"put_providers", "del_providers", "del_host">>
        /\ proc[w].put \cap proc[w].del = {} /\ ProvidersAs(ProvidersWritten(w), new)
     \/ /\ proc[w].todo = <<"del_providers", "del_host">>
        /\ proc[w].put = {} /\ ProvidersAs(ProvidersWritten(w), new)
     \/ /\ proc[w].todo = <<"del_host">>
        /\ ProvidersAs(providers, new)

Stopping(w, new) ==
  \/ proc[w].todo = StoppedSteps
  \/ /\ hosts[Event(w).host] # NoHost /\ proc[w].host = hosts[Event(w).host]
     /\ StopsComponents(w, new)
  \/ hosts[Event(w).host] # NoHost /\ StopsProviders(w, new)
  \/ proc[w].todo = <<>> /\ Agrees(new)

Beating(w, new) ==
  \/ /\ proc[w].todo = <<"put_host", "list_providers", "put_providers",
                         "list_components", "put_components">>
     /\ RecAs(proc[w].host, Event(w).host, new)
  \/ proc[w].todo = <<"list_providers", "put_providers", "list_components", "put_components">>
  \/ /\ proc[w].todo = <<"put_providers", "list_components", "put_components">>
     /\ ProvidersAs(ProvidersWritten(w), new) /\ proc[w].del = {}
  \/ proc[w].todo = <<"list_components", "put_components">>
  \/ WritesComponents(w, proc[w].todo, new)
  \/ proc[w].todo = <<>> /\ Agrees(new)

Scaling(w, new) ==
  \/ proc[w].todo = <<"get_component", "get_host", "put_host", "put_components">>
  \/ \E op \in {"put_components", "del_components"} :
       /\ WritesComponents(w, <<op>>, new)
       /\ \/ proc[w].todo = <<"get_host", "put_host", op>>
          \/ /\ proc[w].todo = <<"put_host", op>>
             /\ RecAs(proc[w].host, Event(w).host, new)
          \/ proc[w].todo = <<op>> /\ HostAs(Event(w).host, new)
  \/ proc[w].todo = <<>> /\ Agrees(new)

ProviderStarting(w, new) ==
  \/ proc[w].todo = <<"get_provider", "get_host", "put_host", "put_providers">>
  \/ /\ WritesProviders(w, <<"put_providers">>, new)
     /\ \/ proc[w].todo = <<"get_host", "put_host", "put_providers">>
        \/ /\ proc[w].todo = <<"put_host", "put_providers">>
           /\ RecAs(proc[w].host, Event(w).host, new)
        \/ proc[w].todo = <<"put_providers">> /\ HostAs(Event(w).host, new)
  \/ proc[w].todo = <<>> /\ Agrees(new)

ProviderStopping(w, new) ==
  \/ proc[w].todo = <<"get_host", "put_host", "get_provider", "put_providers">>
  \/ /\ proc[w].todo = <<"put_host", "get_provider", "put_providers">>
     /\ RecAs(proc[w].host, Event(w).host, new)
  \/ proc[w].todo = <<"get_provider", "put_providers">> /\ HostAs(Event(w).host, new)
  \/ WritesProviders(w, proc[w].todo, new) /\ HostAs(Event(w).host, new)
  \/ proc[w].todo = <<>> /\ Agrees(new)

Checking(w, new) ==
  \/ proc[w].todo = <<"get_provider", "put_providers">>
  \/ WritesProviders(w, proc[w].todo, new)
  \/ proc[w].todo = <<>> /\ Agrees(new)

Underway(w, new) ==
  /\ Event(w).type = "host_started" => Starting(w, new)
  /\ Event(w).type = "host_stopped" => Stopping(w, new)
  /\ Event(w).type = "host_heartbeat" => Beating(w, new)
  /\ Event(w).type = "component_scaled" => Scaling(w, new)
  /\ Event(w).type = "provider_started" => ProviderStarting(w, new)
  /\ Event(w).type = "provider_stopped" => ProviderStopping(w, new)
  /\ Event(w).type = "health_check" => Checking(w, new)

(* The messages from k on are to be handled, each about one step of the    *)
(* hosts, and the first of them may be at work.                            *)
History(hist) ==
  /\ hist[lastSeq] = Now
  /\ \A i \in 0 .. lastSeq : Sane(hist[i])
  /\ \A i \in DOMAIN stream : Leads(hist[i - 1], stream[i].event, hist[i])

From(hist, k) ==
  /\ DOMAIN stream = k .. lastSeq
  /\ IF k > lastSeq THEN Agrees(Now)
     ELSE Between(hist[k - 1], stream[k].event, hist[k])
  /\ \A w \in Workers : Busy(w) =>
       /\ k \in DOMAIN stream /\ proc[w].seq = k /\ Event(w) = stream[k].event
       /\ Underway(w, hist[k])
  /\ \A i \in DOMAIN stream : stream[i].state = "due" <=> \A w \in Workers : proc[w].seq # i

InStep(hist) == History(hist) /\ \E k \in 1 .. lastSeq + 1 : From(hist, k)
-----------------------------------------------------------------------------
(* What an event says of each host, component and provider.                *)
Touches(e, h, c) ==
  h = e.host /\ (e.type = "host_stopped" \/ (e.type = "component_scaled" /\ c = e.component))
Concerns(e, h, p) ==
  /\ h = e.host
  /\ \/ e.type = "host_stopped"
     \/ /\ e.type \in {"provider_started", "provider_stopped", "health_check"}
        /\ p = e.provider

LEMMA ViewFacts ==
  ASSUME NEW v \in Views
  PROVE  /\ \A h \in Hosts : v.power[h] \in {"new", "up", "down"}
         /\ \A h \in Hosts, c \in Components : v.runs[h][c] \in Loads \cup {Absent}
         /\ \A h \in Hosts, p \in Providers :
              v.health[h][p] \in {"pending", "running", "failed", Absent}
         /\ v.power \in [Hosts -> {"new", "up", "down"}]
         /\ v.runs \in [Hosts -> [Components -> Loads \cup {Absent}]]
         /\ v.health \in [Hosts -> [Providers -> {"pending", "running", "failed", Absent}]]
BY DEF Views

LEMMA LeadsTo ==
  ASSUME NEW v \in Views, NEW new \in Views, NEW e \in Events, Leads(v, e, new)
  PROVE  /\ \A h \in Hosts : h # e.host => new.power[h] = v.power[h]
         /\ e.type # "host_started" => v.power[e.host] = "up"
         /\ IF e.type = "host_stopped" THEN new.power[e.host] = "down"
            ELSE new.power[e.host] = "up"
         /\ \A h \in Hosts, c \in Components : ~Touches(e, h, c) => new.runs[h][c] = v.runs[h][c]
         /\ \A h \in Hosts, p \in Providers : ~Concerns(e, h, p) =>
              new.health[h][p] = v.health[h][p]
         /\ e.type = "host_stopped" =>
              /\ \A c \in Components : new.runs[e.host][c] = Absent
              /\ \A p \in Providers : new.health[e.host][p] = Absent
<1>1. e.host \in Hosts
  BY EventFacts
<1>2. /\ v.power \in [Hosts -> {"new", "up", "down"}]
      /\ v.runs \in [Hosts -> [Components -> Loads \cup {Absent}]]
      /\ v.health \in [Hosts -> [Providers -> {"pending", "running", "failed", Absent}]]
  BY ViewFacts
<1>3. CASE e.type = "host_started"
  BY <1>1, <1>2, <1>3 DEF Leads
<1>4. CASE e.type = "host_stopped"
  BY <1>1, <1>2, <1>4 DEF Leads, Touches, Concerns
<1>5. CASE e.type = "host_heartbeat"
  BY <1>1, <1>2, <1>5 DEF Leads
<1>6. CASE e.type = "component_scaled"
  <2>1. e.component \in Components
    BY <1>6, EventFacts
  <2>2. /\ v.power[e.host] = "up" /\ new.power = v.power /\ new.health = v.health
        /\ new.runs = [v.runs EXCEPT ![e.host][e.component] = LoadOf(e)]
    BY <1>6 DEF Leads
  <2> QED
    BY <1>1, <1>2, <1>6, <2>1, <2>2 DEF Touches
<1>7. CASE e.type \in {"provider_started", "provider_stopped", "health_check"}
  <2>1. e.provider \in Providers
    BY <1>7, EventFacts
  <2>2. /\ v.power[e.host] = "up" /\ new.power = v.power /\ new.runs = v.runs
        /\ \E status : new.health = [v.health EXCEPT ![e.host][e.provider] = status]
    BY <1>7 DEF Leads
  <2> QED
    BY <1>1, <1>2, <1>7, <2>1, <2>2 DEF Concerns
<1> QED
  BY <1>3, <1>4, <1>5, <1>6, <1>7, EventFacts

(* What a started host says nothing of: nothing runs before it is up.      *)
LEMMA LeadsSane ==
  ASSUME NEW v \in Views, NEW new \in Views, NEW e \in Events, Leads(v, e, new), Sane(v)
  PROVE  Sane(new)
<1> SUFFICES ASSUME NEW h \in Hosts, new.power[h] # "up"
             PROVE  /\ \A c \in Components : new.runs[h][c] = Absent
                    /\ \A p \in Providers : new.health[h][p] = Absent
  BY DEF Sane
<1>1. CASE h = e.host
  BY <1>1, LeadsTo
<1>2. CASE h # e.host
  BY <1>2, LeadsTo DEF Sane, Touches, Concerns
<1> QED
  BY <1>1, <1>2

(* What it says of what it is about.                                       *)
LEMMA LeadsScaled ==
  ASSUME NEW v \in Views, NEW new \in Views, NEW e \in Events, Leads(v, e, new),
         e.type = "component_scaled"
  PROVE  /\ e.component \in Components /\ e.ann \in Anns /\ e.count \in Nat
         /\ new.runs[e.host][e.component] =
              IF e.count = 0 THEN Absent ELSE [ann |-> e.ann, count |-> e.count]
         /\ v.runs[e.host][e.component] # Absent =>
              v.runs[e.host][e.component].ann = e.ann
         /\ v.runs[e.host][e.component] = Absent => e.count # 0
<1>1. e.host \in Hosts /\ e.component \in Components /\ e.ann \in Anns /\ e.count \in Nat
  <2>1. \A n \in Counts \cup {0} : n \in Nat
    BY LatticeStateAssumption
  <2>2. /\ e.host \in Hosts /\ e.component \in Components /\ e.ann \in Anns
        /\ e.count \in Counts \cup {0}
    BY EventFacts
  <2> QED
    BY <2>1, <2>2
<1>2. v.runs \in [Hosts -> [Components -> Loads \cup {Absent}]]
  BY ViewFacts
<1>3. new.runs = [v.runs EXCEPT ![e.host][e.component] = LoadOf(e)]
  BY DEF Leads
<1> QED
  BY <1>1, <1>2, <1>3 DEF Leads, LoadOf

LEMMA LeadsProvider ==
  ASSUME NEW v \in Views, NEW new \in Views, NEW e \in Events, Leads(v, e, new),
         e.type \in {"provider_started", "provider_stopped", "health_check"}
  PROVE  /\ e.provider \in Providers
         /\ e.type = "provider_started" <=> v.health[e.host][e.provider] = Absent
         /\ e.type = "provider_started" => new.health[e.host][e.provider] = "pending"
         /\ e.type = "provider_stopped" => new.health[e.host][e.provider] = Absent
         /\ e.type = "health_check" =>
              new.health[e.host][e.provider] = Checked(v.health[e.host][e.provider], e.result)
<1>1. e.host \in Hosts /\ e.provider \in Providers
  BY EventFacts
<1>2. v.health \in [Hosts -> [Providers -> {"pending", "running", "failed", Absent}]]
  BY ViewFacts
<1> DEFINE status == CASE e.type = "provider_started" -> "pending"
                       [] e.type = "provider_stopped" -> Absent
                       [] e.type = "health_check" -> Checked(v.health[e.host][e.provider], e.result)
<1>3. new.health = [v.health EXCEPT ![e.host][e.provider] = status]
  BY <1>1, <1>2 DEF Leads
<1>4. new.health[e.host][e.provider] = status
  <2> HIDE DEF status
  <2> QED
    BY <1>1, <1>2, <1>3
<1> QED
  BY <1>1, <1>4 DEF Leads
-----------------------------------------------------------------------------
(* What the event at work is not about is as it was, and as it will be.    *)
LEMMA BetweenElsewhere ==
  ASSUME NEW v \in Views, NEW new \in Views, NEW e \in Events, Leads(v, e, new),
         Between(v, e, new)
  PROVE  /\ \A h \in Hosts : h # e.host => HostAs(h, new)
         /\ e.type # "host_started" => hosts[e.host] # NoHost \/ e.type = "host_stopped"
         /\ e.type \in {"host_heartbeat", "health_check"} => HostsAs(new)
         /\ \A h \in Hosts, c \in Components : ~Touches(e, h, c) =>
              CountsAs(components[c], h, c, new)
         /\ \A h \in Hosts, p \in Providers : ~Concerns(e, h, p) =>
              providers[p][h] = new.health[h][p]
<1>1. \A h \in Hosts : HostAs(h, v) \/ HostAs(h, new)
  BY DEF Between
<1>2. e.host \in Hosts
  BY EventFacts
<1>3. \A h \in Hosts : h # e.host => HostAs(h, new)
  <2> SUFFICES ASSUME NEW h \in Hosts, h # e.host, HostAs(h, v) PROVE HostAs(h, new)
    BY <1>1
  <2>1. /\ new.power[h] = v.power[h]
        /\ \A c \in Components : new.runs[h][c] = v.runs[h][c]
        /\ \A p \in Providers : new.health[h][p] = v.health[h][p]
    BY LeadsTo DEF Touches, Concerns
  <2> QED
    BY <2>1 DEF HostAs, RecAs
<1>4. e.type \notin {"host_started", "host_stopped"} => hosts[e.host] # NoHost
  <2> SUFFICES ASSUME e.type \notin {"host_started", "host_stopped"} PROVE hosts[e.host] # NoHost
    OBVIOUS
  <2>1. v.power[e.host] = "up" /\ new.power[e.host] = "up"
    BY LeadsTo
  <2> QED
    BY <1>1, <1>2, <2>1 DEF HostAs, RecAs
<1>5. ASSUME e.type \in {"host_heartbeat", "health_check"} PROVE HostAs(e.host, new)
  <2>1. v.power[e.host] = "up" /\ new.power[e.host] = "up"
    BY <1>5, LeadsTo
  <2>2. \A c \in Components : new.runs[e.host][c] = v.runs[e.host][c]
    BY <1>2, <1>5, LeadsTo DEF Touches
  <2>3. \A p \in Providers : new.health[e.host][p] # Absent <=> v.health[e.host][p] # Absent
    <3>1. CASE e.type = "host_heartbeat"
      BY <1>2, <3>1, LeadsTo DEF Concerns
    <3>2. CASE e.type = "health_check"
      <4> SUFFICES ASSUME NEW p \in Providers
                   PROVE new.health[e.host][p] # Absent <=> v.health[e.host][p] # Absent
        OBVIOUS
      <4>1. CASE p = e.provider
        <5>1. /\ v.health[e.host][p] # Absent /\ e.result \in {"status", "passed", "failed"}
              /\ new.health[e.host][p] = Checked(v.health[e.host][p], e.result)
          BY <3>2, <4>1, LeadsProvider, EventFacts
        <5>2. Absent \notin {"running", "failed"}
          BY LatticeStateAssumption
        <5> QED
          BY <5>1, <5>2 DEF Checked
      <4>2. CASE p # e.provider
        BY <1>2, <3>2, <4>2, LeadsTo DEF Concerns
      <4> QED
        BY <4>1, <4>2
    <3> QED
      BY <1>5, <3>1, <3>2
  <2> QED
    BY <1>1, <1>2, <2>1, <2>2, <2>3 DEF HostAs, RecAs
<1>6. ASSUME NEW h \in Hosts, NEW c \in Components, ~Touches(e, h, c)
      PROVE  CountsAs(components[c], h, c, new)
  <2>1. new.runs[h][c] = v.runs[h][c]
    BY <1>6, LeadsTo
  <2>2. CountsAs(components[c], h, c, v) \/ CountsAs(components[c], h, c, new)
    BY DEF Between
  <2> QED
    BY <2>1, <2>2 DEF CountsAs, RunsIn
<1>7. ASSUME NEW h \in Hosts, NEW p \in Providers, ~Concerns(e, h, p)
      PROVE  providers[p][h] = new.health[h][p]
  <2>1. new.health[h][p] = v.health[h][p]
    BY <1>7, LeadsTo
  <2> QED
    BY <2>1 DEF Between
<1> QED
  BY <1>3, <1>4, <1>5, <1>6, <1>7 DEF HostsAs

(* What the handlers do to the store: each part stays, or becomes new.     *)
Renews(new) ==
  /\ \A h \in Hosts : hosts'[h] = hosts[h] \/ HostAs(h, new)'
  /\ \A h \in Hosts, c \in Components :
       components'[c][h] = components[c][h] \/ CountsAs(components[c], h, c, new)'
  /\ \A h \in Hosts, p \in Providers :
       providers'[p][h] = providers[p][h] \/ providers'[p][h] = new.health[h][p]

LEMMA BetweenStep ==
  ASSUME NEW v, NEW e, NEW new, Between(v, e, new), Renews(new),
         e.type = "host_stopped" /\ hosts'[e.host] = NoHost =>
           ComponentsAs(components', new) /\ ProvidersAs(providers', new),
         e.type = "provider_started" /\ providers'[e.provider][e.host] # Absent =>
           HostAs(e.host, new)'
  PROVE  Between(v, e, new)'
<1>1. \A h \in Hosts : (HostAs(h, v) \/ HostAs(h, new))'
  BY DEF Renews, Between, HostAs, RecAs
<1>2. \A h \in Hosts, c \in Components :
        CountsAs(components'[c], h, c, v) \/ CountsAs(components'[c], h, c, new)
  BY DEF Renews, Between, CountsAs, RunsIn
<1>3. \A h \in Hosts, p \in Providers :
        providers'[p][h] = v.health[h][p] \/ providers'[p][h] = new.health[h][p]
  BY DEF Renews, Between
<1>4. e.type = "host_stopped" /\ hosts'[e.host] = NoHost =>
        ComponentsAs(components, new)' /\ ProvidersAs(providers, new)'
  BY DEF ComponentsAs, ProvidersAs, CountsAs, RunsIn
<1> QED
  BY <1>1, <1>2, <1>3, <1>4 DEF Between, CountsAs, RunsIn

(* Once all is as it will be, the event is done with.                      *)
LEMMA AgreesIsBetween ==
  ASSUME NEW v, NEW e \in Events, NEW new, Agrees(v)
  PROVE  /\ e.type # "host_stopped" /\ e.type # "provider_started" => Between(v, e, new)
         /\ e.type = "host_stopped" /\ v.power[e.host] = "up" => Between(v, e, new)
         /\ e.type = "provider_started" /\ v.health[e.host][e.provider] = Absent =>
              Between(v, e, new)
<1>1. e.host \in Hosts /\ (e.type = "provider_started" => e.provider \in Providers)
  BY EventFacts
<1>2. e.type = "host_stopped" /\ v.power[e.host] = "up" => hosts[e.host] # NoHost
  BY <1>1 DEF Agrees, HostsAs, HostAs, RecAs
<1>3. e.type = "provider_started" => providers[e.provider][e.host] = v.health[e.host][e.provider]
  BY <1>1 DEF Agrees, ProvidersAs
<1> QED
  BY <1>2, <1>3 DEF Agrees, HostsAs, ComponentsAs, ProvidersAs, Between
-----------------------------------------------------------------------------
(* What each operation does to the store, and what then is left to do.     *)
Stays(w) == proc'[w].seq = proc[w].seq /\ Event(w)' = Event(w)
Moves(w) == Stays(w) /\ proc'[w].todo = Tail(proc[w].todo)

LEMMA Becomes ==
  ASSUME TInv, NEW w \in Workers, NEW rec, Become(w, rec)
  PROVE  proc'[w] = rec
BY DEF TInv, TypeOK, Become, Procs

LEMMA PutHostDoes ==
  ASSUME TInv, NEW w \in Workers, PutHost(w)
  PROVE  /\ Moves(w) /\ UNCHANGED <<components, providers>>
         /\ hosts'[Event(w).host] = proc[w].host
         /\ \A h \in Hosts : h # Event(w).host => hosts'[h] = hosts[h]
         /\ proc'[w].put = proc[w].put /\ proc'[w].del = proc[w].del
         /\ ComponentsWritten(w)' = ComponentsWritten(w)
         /\ ProvidersWritten(w)' = ProvidersWritten(w)
<1>1. At(w, "put_host") /\ w \in Procs
  BY DEF PutHost, Procs
<1>2. Event(w).host \in Hosts
  BY <1>1, WorkerFacts, EventFacts
<1>3. Done(w) \in ProcRec
  BY <1>1, DoneFacts
<1>4. proc'[w] = [Done(w) EXCEPT !.host = NoHost]
  BY Becomes DEF PutHost
<1>5. /\ proc'[w].todo = Done(w).todo /\ proc'[w].seq = Done(w).seq
      /\ proc'[w].event = Done(w).event /\ proc'[w].put = Done(w).put
      /\ proc'[w].del = Done(w).del /\ proc'[w].components = Done(w).components
      /\ proc'[w].providers = Done(w).providers
  BY <1>3, <1>4, ProcRecTodo
<1>6. /\ proc'[w].todo = Tail(proc[w].todo) /\ proc'[w].seq = proc[w].seq
      /\ proc'[w].event = proc[w].event /\ proc'[w].put = proc[w].put
      /\ proc'[w].del = proc[w].del /\ proc'[w].components = proc[w].components
      /\ proc'[w].providers = proc[w].providers
  BY <1>1, <1>5, DoneFacts DEF Event
<1>7. hosts \in [Hosts -> HostRec \cup {NoHost}]
  BY DEF TInv, TypeOK
<1>8. hosts' = [hosts EXCEPT ![Event(w).host] = proc[w].host] /\ UNCHANGED <<components, providers>>
  BY DEF PutHost
<1> QED
  BY <1>2, <1>6, <1>7, <1>8 DEF Moves, Stays, Event, ComponentsWritten, ProvidersWritten

LEMMA DelHostDoes ==
  ASSUME TInv, NEW w \in Workers, DelStoppedHost(w)
  PROVE  /\ Moves(w) /\ UNCHANGED <<components, providers>>
         /\ hosts'[Event(w).host] = NoHost
         /\ \A h \in Hosts : h # Event(w).host => hosts'[h] = hosts[h]
<1>1. At(w, "del_host") /\ w \in Procs
  BY DEF DelStoppedHost, Procs
<1>2. Event(w).host \in Hosts
  BY <1>1, WorkerFacts, EventFacts
<1>3. proc'[w] = Done(w)
  BY Becomes DEF DelStoppedHost
<1>4. /\ proc'[w].todo = Tail(proc[w].todo) /\ proc'[w].seq = proc[w].seq
      /\ proc'[w].event = proc[w].event
  BY <1>1, <1>3, DoneFacts DEF Event
<1>5. hosts \in [Hosts -> HostRec \cup {NoHost}]
  BY DEF TInv, TypeOK
<1>6. hosts' = [hosts EXCEPT ![Event(w).host] = NoHost] /\ UNCHANGED <<components, providers>>
  BY DEF DelStoppedHost
<1> QED
  BY <1>2, <1>4, <1>5, <1>6 DEF Moves, Stays, Event

LEMMA PutComponentsDoes ==
  ASSUME TInv, NEW w \in Workers, PutComponents(w)
  PROVE  /\ Moves(w) /\ UNCHANGED <<hosts, providers>>
         /\ proc'[w].put = {} /\ proc'[w].host = proc[w].host
         /\ \A c \in Components : components'[c] \in {components[c], ComponentsWritten(w)[c]}
         /\ proc[w].del = {} =>
              \A c \in Components : components'[c] = ComponentsWritten(w)[c]
         /\ proc[w].put \cap proc[w].del = {} =>
              \A c \in Components : ComponentsWritten(w)'[c] = ComponentsWritten(w)[c]
<1>1. At(w, "put_components") /\ w \in Procs
  BY DEF PutComponents, Procs
<1>2. Done(w) \in ProcRec
  BY <1>1, DoneFacts
<1>3. proc'[w] = [Done(w) EXCEPT !.put = {}, !.components = Idle.components]
  BY Becomes DEF PutComponents
<1>4. /\ proc'[w].todo = Done(w).todo /\ proc'[w].seq = Done(w).seq
      /\ proc'[w].event = Done(w).event /\ proc'[w].put = {}
      /\ proc'[w].del = Done(w).del /\ proc'[w].host = Done(w).host
  BY <1>2, <1>3, ProcRecTodo
<1>5. /\ proc'[w].todo = Tail(proc[w].todo) /\ proc'[w].seq = proc[w].seq
      /\ proc'[w].event = proc[w].event /\ proc'[w].put = {}
      /\ proc'[w].del = proc[w].del /\ proc'[w].host = proc[w].host
  BY <1>1, <1>4, DoneFacts DEF Event
<1>6. /\ \A c \in Components : components'[c] =
           IF c \in proc[w].put THEN proc[w].components[c] ELSE components[c]
      /\ UNCHANGED <<hosts, providers>>
  BY DEF PutComponents
<1>7. \A c \in Components : ComponentsWritten(w)[c] =
        IF c \in proc[w].put THEN proc[w].components[c]
        ELSE IF c \in proc[w].del THEN NoInstances ELSE components[c]
  BY DEF ComponentsWritten
<1>8. \A c \in Components : ComponentsWritten(w)'[c] =
        IF c \in proc[w].del THEN NoInstances ELSE components'[c]
  BY <1>5 DEF ComponentsWritten
<1> QED
  BY <1>5, <1>6, <1>7, <1>8 DEF Moves, Stays, Event

LEMMA DelComponentsDoes ==
  ASSUME TInv, NEW w \in Workers, DelComponents(w)
  PROVE  /\ Moves(w) /\ UNCHANGED <<hosts, providers>> /\ proc'[w].host = proc[w].host
         /\ proc[w].put = {} => \A c \in Components : components'[c] = ComponentsWritten(w)[c]
<1>1. At(w, "del_components") /\ w \in Procs
  BY DEF DelComponents, Procs
<1>2. Done(w) \in ProcRec
  BY <1>1, DoneFacts
<1>3. proc'[w] = [Done(w) EXCEPT !.del = {}]
  BY Becomes DEF DelComponents
<1>4. /\ proc'[w].todo = Done(w).todo /\ proc'[w].seq = Done(w).seq
      /\ proc'[w].event = Done(w).event /\ proc'[w].host = Done(w).host
  BY <1>2, <1>3, ProcRecTodo
<1>5. /\ proc'[w].todo = Tail(proc[w].todo) /\ proc'[w].seq = proc[w].seq
      /\ proc'[w].event = proc[w].event /\ proc'[w].host = proc[w].host
  BY <1>1, <1>4, DoneFacts DEF Event
<1>6. /\ \A c \in Components : components'[c] =
           IF c \in proc[w].del THEN NoInstances ELSE components[c]
      /\ UNCHANGED <<hosts, providers>>
  BY DEF DelComponents
<1>7. \A c \in Components : ComponentsWritten(w)[c] =
        IF c \in proc[w].put THEN proc[w].components[c]
        ELSE IF c \in proc[w].del THEN NoInstances ELSE components[c]
  BY DEF ComponentsWritten
<1> QED
  BY <1>5, <1>6, <1>7 DEF Moves, Stays, Event

LEMMA PutProvidersDoes ==
  ASSUME TInv, NEW w \in Workers, PutProviders(w)
  PROVE  /\ Moves(w) /\ UNCHANGED <<hosts, components>>
         /\ proc'[w].put = {} /\ proc'[w].host = proc[w].host
         /\ \A p \in Providers : providers'[p] \in {providers[p], ProvidersWritten(w)[p]}
         /\ proc[w].del = {} =>
              \A p \in Providers : providers'[p] = ProvidersWritten(w)[p]
         /\ proc[w].put \cap proc[w].del = {} =>
              \A p \in Providers : ProvidersWritten(w)'[p] = ProvidersWritten(w)[p]
<1>1. At(w, "put_providers") /\ w \in Procs
  BY DEF PutProviders, Procs
<1>2. Done(w) \in ProcRec
  BY <1>1, DoneFacts
<1>3. proc'[w] = [Done(w) EXCEPT !.put = {}, !.providers = Idle.providers]
  BY Becomes DEF PutProviders
<1>4. /\ proc'[w].todo = Done(w).todo /\ proc'[w].seq = Done(w).seq
      /\ proc'[w].event = Done(w).event /\ proc'[w].put = {}
      /\ proc'[w].del = Done(w).del /\ proc'[w].host = Done(w).host
  BY <1>2, <1>3, ProcRecTodo
<1>5. /\ proc'[w].todo = Tail(proc[w].todo) /\ proc'[w].seq = proc[w].seq
      /\ proc'[w].event = proc[w].event /\ proc'[w].put = {}
      /\ proc'[w].del = proc[w].del /\ proc'[w].host = proc[w].host
  BY <1>1, <1>4, DoneFacts DEF Event
<1>6. /\ \A p \in Providers : providers'[p] =
           IF p \in proc[w].put THEN proc[w].providers[p] ELSE providers[p]
      /\ UNCHANGED <<hosts, components>>
  BY DEF PutProviders
<1>7. \A p \in Providers : ProvidersWritten(w)[p] =
        IF p \in proc[w].put THEN proc[w].providers[p]
        ELSE IF p \in proc[w].del THEN NoStatuses ELSE providers[p]
  BY DEF ProvidersWritten
<1>8. \A p \in Providers : ProvidersWritten(w)'[p] =
        IF p \in proc[w].del THEN NoStatuses ELSE providers'[p]
  BY <1>5 DEF ProvidersWritten
<1> QED
  BY <1>5, <1>6, <1>7, <1>8 DEF Moves, Stays, Event

LEMMA DelProvidersDoes ==
  ASSUME TInv, NEW w \in Workers, DelProviders(w)
  PROVE  /\ Moves(w) /\ UNCHANGED <<hosts, components>> /\ proc'[w].host = proc[w].host
         /\ proc[w].put = {} => \A p \in Providers : providers'[p] = ProvidersWritten(w)[p]
<1>1. At(w, "del_providers") /\ w \in Procs
  BY DEF DelProviders, Procs
<1>2. Done(w) \in ProcRec
  BY <1>1, DoneFacts
<1>3. proc'[w] = [Done(w) EXCEPT !.del = {}]
  BY Becomes DEF DelProviders
<1>4. /\ proc'[w].todo = Done(w).todo /\ proc'[w].seq = Done(w).seq
      /\ proc'[w].event = Done(w).event /\ proc'[w].host = Done(w).host
  BY <1>2, <1>3, ProcRecTodo
<1>5. /\ proc'[w].todo = Tail(proc[w].todo) /\ proc'[w].seq = proc[w].seq
      /\ proc'[w].event = proc[w].event /\ proc'[w].host = proc[w].host
  BY <1>1, <1>4, DoneFacts DEF Event
<1>6. /\ \A p \in Providers : providers'[p] =
           IF p \in proc[w].del THEN NoStatuses ELSE providers[p]
      /\ UNCHANGED <<hosts, components>>
  BY DEF DelProviders
<1>7. \A p \in Providers : ProvidersWritten(w)[p] =
        IF p \in proc[w].put THEN proc[w].providers[p]
        ELSE IF p \in proc[w].del THEN NoStatuses ELSE providers[p]
  BY DEF ProvidersWritten
<1> QED
  BY <1>5, <1>6, <1>7 DEF Moves, Stays, Event
-----------------------------------------------------------------------------
(* What a worker stages is what it will have written.                      *)
LEMMA StagesComponents ==
  ASSUME TInv, NEW w \in Workers, NEW op, At(w, op), op # "get_host",
         NEW next \in [Components -> Instances], NEW ids \in SUBSET Components,
         NEW rec, rec.components = StageComponents(w, next, ids).components,
         rec.put = StageComponents(w, next, ids).put,
         rec.del = StageComponents(w, next, ids).del,
         proc'[w] = rec, UNCHANGED components
  PROVE  /\ \A c \in Components : ComponentsWritten(w)'[c] = IF c \in ids THEN next[c] ELSE components[c]
         /\ proc'[w].put = {c \in ids : next[c] # NoInstances}
         /\ proc'[w].del = {c \in ids : next[c] = NoInstances}
<1> DEFINE old == StageComponents(w, next, ids)
<1>1. /\ \A c \in Components : old.components[c] =
           IF c \in ids /\ next[c] # NoInstances THEN next[c] ELSE NoInstances
      /\ old.put = {c \in ids : next[c] # NoInstances}
      /\ old.del = {c \in ids : next[c] = NoInstances}
  BY StagedComponents DEF Procs
<1> HIDE DEF old
<1>2. \A c \in Components : rec.components[c] =
        IF c \in ids /\ next[c] # NoInstances THEN next[c] ELSE NoInstances
  BY <1>1 DEF old
<1>3. /\ rec.put = {c \in ids : next[c] # NoInstances}
      /\ rec.del = {c \in ids : next[c] = NoInstances}
  BY <1>1 DEF old
<1>4. \A c \in Components : ComponentsWritten(w)'[c] =
        IF c \in rec.put THEN rec.components[c]
        ELSE IF c \in rec.del THEN NoInstances ELSE components[c]
  BY DEF ComponentsWritten
<1> QED
  BY <1>2, <1>3, <1>4

LEMMA StagesProviders ==
  ASSUME TInv, NEW w \in Workers, NEW op, At(w, op), op # "get_host",
         NEW next \in [Providers -> Statuses], NEW ids \in SUBSET Providers,
         NEW rec, rec.providers = StageProviders(w, next, ids).providers,
         rec.put = StageProviders(w, next, ids).put,
         rec.del = StageProviders(w, next, ids).del,
         proc'[w] = rec, UNCHANGED providers
  PROVE  /\ \A p \in Providers : ProvidersWritten(w)'[p] = IF p \in ids THEN next[p] ELSE providers[p]
         /\ proc'[w].put = {p \in ids : next[p] # NoStatuses}
         /\ proc'[w].del = {p \in ids : next[p] = NoStatuses}
<1> DEFINE old == StageProviders(w, next, ids)
<1>1. /\ \A p \in Providers : old.providers[p] =
           IF p \in ids /\ next[p] # NoStatuses THEN next[p] ELSE NoStatuses
      /\ old.put = {p \in ids : next[p] # NoStatuses}
      /\ old.del = {p \in ids : next[p] = NoStatuses}
  BY StagedProviders DEF Procs
<1> HIDE DEF old
<1>2. \A p \in Providers : rec.providers[p] =
        IF p \in ids /\ next[p] # NoStatuses THEN next[p] ELSE NoStatuses
  BY <1>1 DEF old
<1>3. /\ rec.put = {p \in ids : next[p] # NoStatuses}
      /\ rec.del = {p \in ids : next[p] = NoStatuses}
  BY <1>1 DEF old
<1>4. \A p \in Providers : ProvidersWritten(w)'[p] =
        IF p \in rec.put THEN rec.providers[p]
        ELSE IF p \in rec.del THEN NoStatuses ELSE providers[p]
  BY DEF ProvidersWritten
<1> QED
  BY <1>2, <1>3, <1>4

LEMMA GetComponentDoes ==
  ASSUME TInv, NEW w \in Workers, GetComponent(w), NEW e, e = Event(w)
  PROVE  /\ Stays(w) /\ UNCHANGED store
         /\ \A c \in Components : ComponentsWritten(w)'[c] =
              IF c = e.component THEN Scaled(components[c], e) ELSE components[c]
         /\ \/ /\ proc'[w].todo = <<"get_host", "put_host", "put_components">>
               /\ proc'[w].del = {}
            \/ /\ proc'[w].todo = <<"get_host", "put_host", "del_components">>
               /\ proc'[w].put = {}
<1>1. At(w, "get_component")
  BY DEF GetComponent
<1>2. w \in Procs /\ Event(w) \in Events /\ Event(w).type = "component_scaled"
  BY <1>1, WorkerFacts DEF Allowed
<1>3. /\ e.host \in Hosts /\ e.component \in Components /\ e.ann \in Anns
      /\ e.count \in Counts \cup {0}
  BY <1>2, EventFacts
<1>4. components \in [Components -> Instances]
  BY DEF TInv, TypeOK
<1> DEFINE c == e.component
           next == [components EXCEPT ![c] = Scaled(@, e)]
           op == IF next[c] = NoInstances THEN "del_components" ELSE "put_components"
           todo == <<"get_host", "put_host", op>>
           old == StageComponents(w, next, {c})
           rec == [old EXCEPT !.todo = todo]
<1>5. Scaled(components[c], e) \in Instances
  BY <1>3, <1>4 DEF Scaled, Instances
<1>6. next \in [Components -> Instances] /\ {c} \in SUBSET Components
  BY <1>3, <1>4, <1>5
<1>7. \A d \in Components : next[d] = IF d = c THEN Scaled(components[d], e) ELSE components[d]
  BY <1>3, <1>4
<1>8. proc'[w] = rec /\ UNCHANGED store
  BY Becomes DEF GetComponent
<1> HIDE DEF next
<1>9. old \in ProcRec /\ old.seq = proc[w].seq /\ old.event = Event(w)
  BY <1>1, <1>2, <1>6, StagedComponents
<1> HIDE DEF old
<1>10. /\ rec.todo = todo /\ rec.seq = old.seq /\ rec.event = old.event
       /\ rec.components = old.components /\ rec.put = old.put /\ rec.del = old.del
  BY <1>9, ProcRecTodo
<1>11. /\ rec.components = StageComponents(w, next, {c}).components
       /\ rec.put = StageComponents(w, next, {c}).put
       /\ rec.del = StageComponents(w, next, {c}).del
  BY <1>10 DEF old
<1> HIDE DEF rec, todo
<1>13. /\ \A d \in Components : ComponentsWritten(w)'[d] = IF d \in {c} THEN next[d] ELSE components[d]
       /\ proc'[w].put = {d \in {c} : next[d] # NoInstances}
       /\ proc'[w].del = {d \in {c} : next[d] = NoInstances}
  <2>1. UNCHANGED components
    BY <1>8 DEF store
  <2>2. PICK ids : ids = {c}
    OBVIOUS
  <2>3. /\ ids \in SUBSET Components /\ proc'[w].put = rec.put /\ proc'[w].del = rec.del
        /\ rec.components = StageComponents(w, next, ids).components
        /\ rec.put = StageComponents(w, next, ids).put
        /\ rec.del = StageComponents(w, next, ids).del
    BY <1>6, <1>8, <1>11, <2>2
  <2>4. /\ \A d \in Components :
             ComponentsWritten(w)'[d] = IF d \in ids THEN next[d] ELSE components[d]
        /\ proc'[w].put = {d \in ids : next[d] # NoInstances}
        /\ proc'[w].del = {d \in ids : next[d] = NoInstances}
    BY <1>1, <1>6, <1>8, <2>1, <2>3, StagesComponents
  <2> QED
    BY <2>2, <2>4
<1>12. \/ /\ proc'[w].todo = <<"get_host", "put_host", "put_components">>
          /\ proc'[w].del = {}
       \/ /\ proc'[w].todo = <<"get_host", "put_host", "del_components">>
          /\ proc'[w].put = {}
  <2>1. proc'[w].todo = todo
    BY <1>8, <1>10
  <2>2. CASE next[c] = NoInstances
    <3>1. todo = <<"get_host", "put_host", "del_components">>
      BY <2>2 DEF todo
    <3>2. proc'[w].put = {}
      BY <1>13, <2>2
    <3> QED
      BY <2>1, <3>1, <3>2
  <2>3. CASE next[c] # NoInstances
    <3>1. todo = <<"get_host", "put_host", "put_components">>
      BY <2>3 DEF todo
    <3>2. proc'[w].del = {}
      BY <1>13, <2>3
    <3> QED
      BY <2>1, <3>1, <3>2
  <2> QED
    BY <2>2, <2>3
<1> QED
  BY <1>7, <1>8, <1>9, <1>10, <1>13, <1>12 DEF Stays, Event

LEMMA StoppedComponentsDoes ==
  ASSUME TInv, NEW w \in Workers, StoppedComponents(w), NEW e, e = Event(w)
  PROVE  /\ Moves(w) /\ UNCHANGED store /\ proc'[w].host = proc[w].host
         /\ proc'[w].put \cap proc'[w].del = {}
         /\ \A c \in Components :
              IF c \in proc[w].host.components /\ components[c] # NoInstances
              THEN ComponentsWritten(w)'[c] = [components[c] EXCEPT ![e.host] = NoInstances[e.host]]
              ELSE ComponentsWritten(w)'[c] = components[c]
<1>1. At(w, "list_components") /\ Event(w).type = "host_stopped"
  BY DEF StoppedComponents
<1>2. w \in Procs /\ Event(w) \in Events /\ e.host \in Hosts
  BY <1>1, WorkerFacts, EventFacts
<1>3. components \in [Components -> Instances]
  BY DEF TInv, TypeOK
<1> DEFINE next == [c \in Components |-> [components[c] EXCEPT ![e.host] = NoInstances[e.host]]]
           ids == {c \in proc[w].host.components : components[c] # NoInstances}
           rec == StageComponents(w, next, ids)
<1>4. next \in [Components -> Instances]
  BY <1>2, <1>3 DEF Instances, NoInstances
<1>5. ids \in SUBSET Components
  BY <1>1, StoppedHostKnown DEF HostRec
<1>6. proc'[w] = rec /\ UNCHANGED store
  BY Becomes DEF StoppedComponents
<1>7. \A c \in Components : next[c] = [components[c] EXCEPT ![e.host] = NoInstances[e.host]]
  OBVIOUS
<1>8. \A c \in Components :
        c \in ids <=> c \in proc[w].host.components /\ components[c] # NoInstances
  OBVIOUS
<1> HIDE DEF next, ids
<1>9. /\ rec.todo = Tail(proc[w].todo) /\ rec.seq = proc[w].seq /\ rec.event = Event(w)
      /\ rec.host = proc[w].host
  BY <1>1, <1>2, <1>4, <1>5, StagedComponents
<1>10. /\ \A c \in Components : ComponentsWritten(w)'[c] = IF c \in ids THEN next[c] ELSE components[c]
       /\ proc'[w].put = {c \in ids : next[c] # NoInstances}
       /\ proc'[w].del = {c \in ids : next[c] = NoInstances}
  <2>1. UNCHANGED components
    BY <1>6 DEF store
  <2> QED
    BY <1>1, <1>4, <1>5, <1>6, <2>1, StagesComponents
<1> HIDE DEF rec
<1>11. proc'[w].put \cap proc'[w].del = {}
  BY <1>10
<1> QED
  BY <1>6, <1>7, <1>8, <1>9, <1>10, <1>11 DEF Moves, Stays, Event

LEMMA HeartbeatComponentsDoes ==
  ASSUME TInv, NEW w \in Workers, HeartbeatComponents(w), NEW e, e = Event(w)
  PROVE  /\ Moves(w) /\ UNCHANGED store /\ proc'[w].del = {}
         /\ e.host \in Hosts /\ e.loads \in [Components -> Loads \cup {Absent}]
         /\ \A c \in Components :
              IF e.loads[c] # Absent /\ ~UpToDate(components[c], e.host, e.loads[c])
              THEN /\ \A a \in Anns : ComponentsWritten(w)'[c][e.host][a] =
                        IF a = e.loads[c].ann THEN e.loads[c].count ELSE Absent
                   /\ \A h \in Hosts : h # e.host =>
                        ComponentsWritten(w)'[c][h] = components[c][h]
              ELSE ComponentsWritten(w)'[c] = components[c]
<1>1. At(w, "list_components") /\ Event(w).type = "host_heartbeat"
  BY DEF HeartbeatComponents
<1>2. w \in Procs /\ Event(w) \in Events
  BY <1>1, WorkerFacts
<1>3. e.host \in Hosts /\ e.loads \in [Components -> Loads \cup {Absent}]
  BY <1>1, <1>2, EventFacts
<1>4. components \in [Components -> Instances]
  BY DEF TInv, TypeOK
<1> DEFINE loads == e.loads
           h == e.host
           stale == {c \in Components :
                       loads[c] # Absent /\ ~UpToDate(components[c], h, loads[c])}
           next == [c \in Components |->
                      IF c \in stale
                      THEN [components[c] EXCEPT ![h] =
                              [a \in Anns |-> IF a = loads[c].ann THEN loads[c].count ELSE Absent]]
                      ELSE components[c]]
           rec == StageComponents(w, next, stale)
<1>5. \A c \in stale : /\ loads[c].ann \in Anns /\ loads[c].count \in Counts
                       /\ loads[c].count # Absent
  BY <1>3, LatticeStateAssumption DEF Loads
<1>6. next \in [Components -> Instances] /\ stale \in SUBSET Components
  BY <1>3, <1>4, <1>5 DEF Instances
<1>7. \A c \in stale :
        /\ \A a \in Anns : next[c][h][a] = IF a = loads[c].ann THEN loads[c].count ELSE Absent
        /\ \A k \in Hosts : k # h => next[c][k] = components[c][k]
  BY <1>3, <1>4 DEF Instances
<1>8. \A c \in stale : next[c] # NoInstances
  BY <1>3, <1>5, <1>7 DEF NoInstances
<1>9. proc'[w] = rec /\ UNCHANGED store
  BY Becomes DEF HeartbeatComponents
<1>10. \A c \in Components :
         c \in stale <=> loads[c] # Absent /\ ~UpToDate(components[c], h, loads[c])
  OBVIOUS
<1> HIDE DEF next, stale
<1>11. /\ rec.todo = Tail(proc[w].todo) /\ rec.seq = proc[w].seq /\ rec.event = Event(w)
  BY <1>1, <1>2, <1>6, StagedComponents
<1>12. /\ \A c \in Components : ComponentsWritten(w)'[c] = IF c \in stale THEN next[c] ELSE components[c]
       /\ proc'[w].del = {c \in stale : next[c] = NoInstances}
  <2>1. UNCHANGED components
    BY <1>9 DEF store
  <2> QED
    BY <1>1, <1>6, <1>9, <2>1, StagesComponents
<1> HIDE DEF rec
<1>13. proc'[w].del = {}
  BY <1>8, <1>12
<1>14. \A c \in Components :
         IF e.loads[c] # Absent /\ ~UpToDate(components[c], e.host, e.loads[c])
         THEN ComponentsWritten(w)'[c] = next[c] /\ c \in stale
         ELSE ComponentsWritten(w)'[c] = components[c]
  BY <1>10, <1>12
<1> QED
  BY <1>3, <1>7, <1>9, <1>11, <1>13, <1>14 DEF Moves, Stays, Event
-----------------------------------------------------------------------------
(* The same for the providers, whose statuses are simpler to say.          *)
Sets(w, p, h, status) ==
  \A q \in Providers, k \in Hosts :
    ProvidersWritten(w)'[q][k] = IF q = p /\ k = h THEN status ELSE providers[q][k]

LEMMA ReadsProviders ==
  ASSUME TInv, NEW w \in Workers, NEW op, At(w, op), op # "get_host",
         NEW next \in [Providers -> Statuses], NEW ids \in SUBSET Providers,
         UNCHANGED store, Become(w, StageProviders(w, next, ids))
  PROVE  /\ Moves(w) /\ proc'[w].host = proc[w].host
         /\ \A p \in Providers :
              ProvidersWritten(w)'[p] = IF p \in ids THEN next[p] ELSE providers[p]
         /\ proc'[w].put = {p \in ids : next[p] # NoStatuses}
         /\ proc'[w].del = {p \in ids : next[p] = NoStatuses}
<1> DEFINE old == StageProviders(w, next, ids)
<1>1. /\ old.todo = Tail(proc[w].todo) /\ old.seq = proc[w].seq
      /\ old.event = Event(w) /\ old.host = proc[w].host
  BY StagedProviders DEF Procs
<1>2. proc'[w] = old /\ UNCHANGED providers
  BY Becomes DEF store
<1>3. /\ \A p \in Providers :
           ProvidersWritten(w)'[p] = IF p \in ids THEN next[p] ELSE providers[p]
      /\ proc'[w].put = {p \in ids : next[p] # NoStatuses}
      /\ proc'[w].del = {p \in ids : next[p] = NoStatuses}
  BY <1>2, StagesProviders
<1> HIDE DEF old
<1> QED
  BY <1>1, <1>2, <1>3 DEF Moves, Stays, Event

(* Some handlers leave out what would come next.                           *)
Then(rec, todo) == [rec EXCEPT !.todo = todo]

LEMMA ReadsProvidersThen ==
  ASSUME TInv, NEW w \in Workers, NEW op, At(w, op), op # "get_host",
         NEW next \in [Providers -> Statuses], NEW ids \in SUBSET Providers, NEW todo,
         UNCHANGED store, Become(w, Then(StageProviders(w, next, ids), todo))
  PROVE  /\ Stays(w) /\ proc'[w].todo = todo
         /\ \A p \in Providers :
              ProvidersWritten(w)'[p] = IF p \in ids THEN next[p] ELSE providers[p]
         /\ proc'[w].put = {p \in ids : next[p] # NoStatuses}
         /\ proc'[w].del = {p \in ids : next[p] = NoStatuses}
<1> DEFINE old == StageProviders(w, next, ids)
           rec == Then(old, todo)
<1>1. old \in ProcRec /\ old.seq = proc[w].seq /\ old.event = Event(w)
  BY StagedProviders DEF Procs
<1>2. proc'[w] = rec /\ UNCHANGED providers
  BY Becomes DEF store
<1> HIDE DEF old
<1>3. /\ rec.todo = todo /\ rec.seq = old.seq /\ rec.event = old.event
      /\ rec.providers = old.providers /\ rec.put = old.put /\ rec.del = old.del
  BY <1>1, ProcRecTodo DEF Then
<1>4. /\ rec.providers = StageProviders(w, next, ids).providers
      /\ rec.put = StageProviders(w, next, ids).put
      /\ rec.del = StageProviders(w, next, ids).del
  BY <1>3 DEF old
<1> HIDE DEF rec
<1>5. /\ \A p \in Providers :
           ProvidersWritten(w)'[p] = IF p \in ids THEN next[p] ELSE providers[p]
      /\ proc'[w].put = {p \in ids : next[p] # NoStatuses}
      /\ proc'[w].del = {p \in ids : next[p] = NoStatuses}
  BY <1>2, <1>4, StagesProviders
<1> QED
  BY <1>1, <1>2, <1>3, <1>5 DEF Stays, Event

LEMMA StartedProviderDoes ==
  ASSUME TInv, NEW w \in Workers, StartedProvider(w), NEW e, e = Event(w)
  PROVE  /\ Stays(w) /\ UNCHANGED store /\ proc'[w].del = {}
         /\ IF providers[e.provider][e.host] # Absent
            THEN /\ proc'[w].todo = <<"put_providers">>
                 /\ \A q \in Providers : ProvidersWritten(w)'[q] = providers[q]
            ELSE /\ proc'[w].todo = Tail(proc[w].todo)
                 /\ Sets(w, e.provider, e.host, "pending")
<1>1. At(w, "get_provider") /\ Event(w).type = "provider_started" /\ UNCHANGED store
  BY DEF StartedProvider
<1>2. e.host \in Hosts /\ e.provider \in Providers
  BY <1>1, WorkerFacts, EventFacts
<1>3. providers \in [Providers -> Statuses]
  BY DEF TInv, TypeOK
<1> DEFINE p == e.provider
           known == providers[p][e.host] # Absent
           next == IF known THEN providers ELSE [providers EXCEPT ![p][e.host] = "pending"]
           todo == IF known THEN <<"put_providers">> ELSE StageProviders(w, next, {p}).todo
<1>4. next \in [Providers -> Statuses] /\ {p} \in SUBSET Providers
  BY <1>2, <1>3 DEF Statuses
<1>5. next[p][e.host] # Absent
  BY <1>2, <1>3, LatticeStateAssumption DEF Statuses
<1>6. next[p] # NoStatuses
  BY <1>2, <1>5 DEF NoStatuses
<1>7. IF known THEN next = providers
      ELSE \A q \in Providers, k \in Hosts :
             next[q][k] = IF q = p /\ k = e.host THEN "pending" ELSE providers[q][k]
  BY <1>2, <1>3 DEF Statuses
<1>8. Become(w, Then(StageProviders(w, next, {p}), todo))
  BY DEF StartedProvider, Then
<1>9. ~known => todo = Tail(proc[w].todo)
  <2> HIDE DEF next
  <2>1. StageProviders(w, next, {p}).todo = Tail(proc[w].todo)
    BY <1>1, <1>4, StagedProviders DEF Procs
  <2> QED
    BY <2>1
<1>10. known => todo = <<"put_providers">>
  OBVIOUS
<1> HIDE DEF next, todo
<1>11. /\ Stays(w) /\ proc'[w].todo = todo
       /\ \A q \in Providers : ProvidersWritten(w)'[q] = IF q \in {p} THEN next[q] ELSE providers[q]
       /\ proc'[w].del = {q \in {p} : next[q] = NoStatuses}
  BY <1>1, <1>4, <1>8, ReadsProvidersThen
<1>12. proc'[w].del = {}
  BY <1>6, <1>11
<1>13. CASE known
  BY <1>1, <1>7, <1>10, <1>11, <1>12, <1>13
<1>14. CASE ~known
  BY <1>1, <1>7, <1>9, <1>11, <1>12, <1>14 DEF Sets
<1> QED
  BY <1>13, <1>14

LEMMA StoppedProviderDoes ==
  ASSUME TInv, NEW w \in Workers, StoppedProvider(w), NEW e, e = Event(w)
  PROVE  /\ Stays(w) /\ UNCHANGED store
         /\ IF providers[e.provider][e.host] = Absent THEN proc'[w].todo = <<>>
            ELSE /\ Sets(w, e.provider, e.host, Absent)
                 /\ \/ proc'[w].todo = <<"put_providers">> /\ proc'[w].del = {}
                    \/ proc'[w].todo = <<"del_providers">> /\ proc'[w].put = {}
<1>1. /\ At(w, "get_provider") /\ Event(w).type = "provider_stopped" /\ UNCHANGED store
      /\ w \in Procs
  BY DEF StoppedProvider, Procs
<1>2. e.host \in Hosts /\ e.provider \in Providers
  BY <1>1, WorkerFacts, EventFacts
<1>3. providers \in [Providers -> Statuses]
  BY DEF TInv, TypeOK
<1> DEFINE p == e.provider
           next == [providers EXCEPT ![p][e.host] = Absent]
           op == IF next[p] = NoStatuses THEN "del_providers" ELSE "put_providers"
           todo == <<op>>
<1>4. CASE providers[p][e.host] = Absent
  <2>1. Done(w) \in ProcRec /\ Done(w).seq = proc[w].seq /\ Done(w).event = Event(w)
    BY <1>1, DoneFacts
  <2>2. proc'[w] = [Done(w) EXCEPT !.todo = <<>>]
    BY <1>4, Becomes DEF StoppedProvider
  <2>3. proc'[w].todo = <<>> /\ proc'[w].seq = Done(w).seq /\ proc'[w].event = Done(w).event
    BY <2>1, <2>2, ProcRecTodo
  <2> QED
    BY <1>1, <1>4, <2>1, <2>3 DEF Stays, Event
<1>5. CASE providers[p][e.host] # Absent
  <2>1. next \in [Providers -> Statuses] /\ {p} \in SUBSET Providers
    BY <1>2, <1>3 DEF Statuses
  <2>2. \A q \in Providers, k \in Hosts :
          next[q][k] = IF q = p /\ k = e.host THEN Absent ELSE providers[q][k]
    BY <1>2, <1>3 DEF Statuses
  <2>3. Become(w, Then(StageProviders(w, next, {p}), todo))
    BY <1>5 DEF StoppedProvider, Then
  <2>4. \/ todo = <<"put_providers">> /\ next[p] # NoStatuses
        \/ todo = <<"del_providers">> /\ next[p] = NoStatuses
    OBVIOUS
  <2> HIDE DEF next, op, todo
  <2>5. /\ Stays(w) /\ proc'[w].todo = todo
        /\ \A q \in Providers : ProvidersWritten(w)'[q] = IF q \in {p} THEN next[q] ELSE providers[q]
        /\ proc'[w].put = {q \in {p} : next[q] # NoStatuses}
        /\ proc'[w].del = {q \in {p} : next[q] = NoStatuses}
    BY <1>1, <2>1, <2>3, ReadsProvidersThen
  <2>6. Sets(w, p, e.host, Absent)
    BY <2>2, <2>5 DEF Sets
  <2>7. \/ proc'[w].todo = <<"put_providers">> /\ proc'[w].del = {}
        \/ proc'[w].todo = <<"del_providers">> /\ proc'[w].put = {}
    BY <2>4, <2>5
  <2> QED
    BY <1>1, <1>5, <2>5, <2>6, <2>7
<1> QED
  BY <1>4, <1>5

LEMMA CheckedProviderDoes ==
  ASSUME TInv, NEW w \in Workers, CheckedProvider(w), NEW e, e = Event(w)
  PROVE  /\ Moves(w) /\ UNCHANGED store /\ proc'[w].del = {}
         /\ Sets(w, e.provider, e.host, Checked(providers[e.provider][e.host], e.result))
<1>1. At(w, "get_provider") /\ Event(w).type = "health_check" /\ UNCHANGED store
  BY DEF CheckedProvider
<1>2. /\ e.host \in Hosts /\ e.provider \in Providers
      /\ e.result \in {"status", "passed", "failed"}
  BY <1>1, WorkerFacts, EventFacts
<1>3. providers \in [Providers -> Statuses]
  BY DEF TInv, TypeOK
<1> DEFINE p == e.provider
           status == Checked(providers[p][e.host], e.result)
           next == [providers EXCEPT ![p][e.host] = Checked(@, e.result)]
<1>4. providers[p][e.host] \in {"pending", "running", "failed", Absent}
  BY <1>2, <1>3 DEF Statuses
<1>5. status \in {"pending", "running", "failed"}
  BY <1>2, <1>4 DEF Checked
<1>6. status # Absent
  BY <1>5, LatticeStateAssumption
<1>7. next \in [Providers -> Statuses] /\ {p} \in SUBSET Providers
  BY <1>2, <1>3, <1>5 DEF Statuses
<1>8. \A q \in Providers, k \in Hosts :
        next[q][k] = IF q = p /\ k = e.host THEN status ELSE providers[q][k]
  BY <1>2, <1>3 DEF Statuses
<1>9. next[p] # NoStatuses
  <2> HIDE DEF next, status
  <2> QED
    BY <1>2, <1>6, <1>8 DEF NoStatuses
<1>10. Become(w, StageProviders(w, next, {p}))
  BY DEF CheckedProvider
<1> HIDE DEF next, status
<1>11. /\ Moves(w)
       /\ \A q \in Providers : ProvidersWritten(w)'[q] = IF q \in {p} THEN next[q] ELSE providers[q]
       /\ proc'[w].del = {q \in {p} : next[q] = NoStatuses}
  BY <1>1, <1>7, <1>10, ReadsProviders
<1>12. proc'[w].del = {}
  BY <1>9, <1>11
<1>13. Sets(w, p, e.host, status)
  BY <1>8, <1>11 DEF Sets
<1> QED
  BY <1>1, <1>11, <1>12, <1>13 DEF status

LEMMA HeartbeatProvidersDoes ==
  ASSUME TInv, NEW w \in Workers, HeartbeatProviders(w), NEW e, e = Event(w)
  PROVE  /\ Moves(w) /\ UNCHANGED store /\ proc'[w].del = {}
         /\ \A q \in Providers, k \in Hosts : ProvidersWritten(w)'[q][k] =
              IF k = e.host /\ q \in e.providers /\ providers[q][k] = Absent
              THEN "pending" ELSE providers[q][k]
<1>1. At(w, "list_providers") /\ Event(w).type = "host_heartbeat" /\ UNCHANGED store
  BY DEF HeartbeatProviders
<1>2. e.host \in Hosts /\ e.providers \in SUBSET Providers
  BY <1>1, WorkerFacts, EventFacts
<1>3. providers \in [Providers -> Statuses]
  BY DEF TInv, TypeOK
<1> DEFINE missing == MissingProviders(e)
           next == [q \in Providers |-> IF q \in missing
                      THEN [providers[q] EXCEPT ![e.host] = "pending"] ELSE providers[q]]
<1>4. PICK filled \in SUBSET (e.providers \ missing) :
        Become(w, StageProviders(w, next, missing \cup filled))
  BY DEF HeartbeatProviders
<1> DEFINE ids == missing \cup filled
<1>5. \A q : q \in missing <=> q \in e.providers /\ providers[q][e.host] = Absent
  BY DEF MissingProviders
<1>6. ids \in SUBSET Providers /\ missing \subseteq ids /\ ids \subseteq e.providers
  BY <1>2, <1>5
<1> HIDE DEF missing
<1>7. next \in [Providers -> Statuses]
  BY <1>2, <1>3 DEF Statuses
<1>8. \A q \in Providers, k \in Hosts : next[q][k] =
        IF k = e.host /\ q \in missing THEN "pending" ELSE providers[q][k]
  BY <1>2, <1>3 DEF Statuses
<1>9. Become(w, StageProviders(w, next, ids))
  BY <1>4
<1> HIDE DEF next, ids
<1>10. "pending" # Absent
  BY LatticeStateAssumption
<1>11. \A q \in ids : next[q][e.host] # Absent
  BY <1>2, <1>5, <1>6, <1>8, <1>10
<1>12. \A q \in ids : next[q] # NoStatuses
  BY <1>2, <1>11 DEF NoStatuses
<1>13. /\ Moves(w)
       /\ \A q \in Providers : ProvidersWritten(w)'[q] = IF q \in ids THEN next[q] ELSE providers[q]
       /\ proc'[w].del = {q \in ids : next[q] = NoStatuses}
  BY <1>1, <1>6, <1>7, <1>9, ReadsProviders
<1>14. proc'[w].del = {}
  BY <1>12, <1>13
<1> QED
  BY <1>1, <1>5, <1>6, <1>8, <1>13, <1>14

LEMMA StoppedProvidersDoes ==
  ASSUME TInv, NEW w \in Workers, StoppedProviders(w), NEW e, e = Event(w)
  PROVE  /\ Moves(w) /\ UNCHANGED store /\ proc'[w].put \cap proc'[w].del = {}
         /\ \A q \in Providers, k \in Hosts : ProvidersWritten(w)'[q][k] =
              IF k = e.host /\ q \in proc[w].host.providers THEN Absent ELSE providers[q][k]
<1>1. At(w, "list_providers") /\ Event(w).type = "host_stopped" /\ UNCHANGED store
  BY DEF StoppedProviders
<1>2. e.host \in Hosts
  BY <1>1, WorkerFacts, EventFacts
<1>3. providers \in [Providers -> Statuses]
  BY DEF TInv, TypeOK
<1> DEFINE next == [q \in Providers |-> [providers[q] EXCEPT ![e.host] = Absent]]
           ids == {q \in proc[w].host.providers : providers[q][e.host] # Absent}
<1>4. next \in [Providers -> Statuses]
  BY <1>2, <1>3 DEF Statuses
<1>5. ids \in SUBSET Providers
  BY <1>1, StoppedHostKnown DEF HostRec
<1>6. \A q \in Providers, k \in Hosts :
        next[q][k] = IF k = e.host THEN Absent ELSE providers[q][k]
  BY <1>2, <1>3 DEF Statuses
<1>7. \A q : q \in ids <=> q \in proc[w].host.providers /\ providers[q][e.host] # Absent
  OBVIOUS
<1>8. Become(w, StageProviders(w, next, ids))
  BY DEF StoppedProviders
<1> HIDE DEF next, ids
<1>9. /\ Moves(w)
      /\ \A q \in Providers : ProvidersWritten(w)'[q] = IF q \in ids THEN next[q] ELSE providers[q]
      /\ proc'[w].put = {q \in ids : next[q] # NoStatuses}
      /\ proc'[w].del = {q \in ids : next[q] = NoStatuses}
  BY <1>1, <1>4, <1>5, <1>8, ReadsProviders
<1>10. proc'[w].put \cap proc'[w].del = {}
  BY <1>9
<1>11. ASSUME NEW q \in Providers, NEW k \in Hosts
       PROVE  ProvidersWritten(w)'[q][k] =
                IF k = e.host /\ q \in proc[w].host.providers THEN Absent ELSE providers[q][k]
  BY <1>6, <1>7, <1>9
<1> QED
  BY <1>1, <1>9, <1>10, <1>11
-----------------------------------------------------------------------------
(* The reads of the host.                                                  *)
LEMMA GetHostDoes ==
  ASSUME TInv, NEW w \in Workers, GetHost(w), NEW e, e = Event(w), hosts[e.host] # NoHost
  PROVE  /\ Moves(w) /\ UNCHANGED store
         /\ proc'[w].host = Changed(hosts[e.host], e)
         /\ proc'[w].put = proc[w].put /\ proc'[w].del = proc[w].del
         /\ ComponentsWritten(w)' = ComponentsWritten(w)
         /\ ProvidersWritten(w)' = ProvidersWritten(w)
<1>1. At(w, "get_host") /\ w \in Procs /\ UNCHANGED store
  BY DEF GetHost, Procs
<1>2. Done(w) \in ProcRec
  BY <1>1, DoneFacts
<1>3. proc'[w] = [Done(w) EXCEPT !.host = Changed(hosts[e.host], e)]
  BY Becomes DEF GetHost
<1>4. /\ proc'[w].todo = Done(w).todo /\ proc'[w].seq = Done(w).seq
      /\ proc'[w].event = Done(w).event /\ proc'[w].put = Done(w).put
      /\ proc'[w].del = Done(w).del /\ proc'[w].components = Done(w).components
      /\ proc'[w].providers = Done(w).providers /\ proc'[w].host = Changed(hosts[e.host], e)
  BY <1>2, <1>3, ProcRecTodo
<1>5. /\ proc'[w].todo = Tail(proc[w].todo) /\ proc'[w].seq = proc[w].seq
      /\ proc'[w].event = proc[w].event /\ proc'[w].put = proc[w].put
      /\ proc'[w].del = proc[w].del /\ proc'[w].components = proc[w].components
      /\ proc'[w].providers = proc[w].providers
  BY <1>1, <1>4, DoneFacts DEF Event
<1> QED
  BY <1>1, <1>4, <1>5 DEF Moves, Stays, Event, ComponentsWritten, ProvidersWritten, store

LEMMA GetStoppedHostDoes ==
  ASSUME TInv, NEW w \in Workers, GetStoppedHost(w), NEW e, e = Event(w)
  PROVE  /\ Stays(w) /\ UNCHANGED store
         /\ IF hosts[e.host] = NoHost THEN proc'[w].todo = <<>>
            ELSE proc'[w].todo = Tail(proc[w].todo) /\ proc'[w].host = hosts[e.host]
<1>1. At(w, "get_host") /\ w \in Procs /\ UNCHANGED store
  BY DEF GetStoppedHost, Procs
<1>2. /\ Done(w) \in ProcRec /\ Done(w).todo = Tail(proc[w].todo)
      /\ Done(w).seq = proc[w].seq /\ Done(w).event = proc[w].event
  BY <1>1, DoneFacts DEF Event
<1>3. proc'[w] = IF hosts[e.host] = NoHost THEN [Done(w) EXCEPT !.todo = <<>>]
                 ELSE [Done(w) EXCEPT !.host = hosts[e.host]]
  BY Becomes DEF GetStoppedHost
<1>4. CASE hosts[e.host] = NoHost
  <2>1. proc'[w].todo = <<>> /\ proc'[w].seq = Done(w).seq /\ proc'[w].event = Done(w).event
    BY <1>2, <1>3, <1>4, ProcRecTodo
  <2> QED
    BY <1>1, <1>2, <1>4, <2>1 DEF Stays, Event
<1>5. CASE hosts[e.host] # NoHost
  <2>1. /\ proc'[w].todo = Done(w).todo /\ proc'[w].seq = Done(w).seq
        /\ proc'[w].event = Done(w).event /\ proc'[w].host = hosts[e.host]
    BY <1>2, <1>3, <1>5, ProcRecTodo
  <2> QED
    BY <1>1, <1>2, <1>5, <2>1 DEF Stays, Event
<1> QED
  BY <1>4, <1>5
-----------------------------------------------------------------------------
(* Which operation of a handler is at work.                                *)
LEMMA HeadAndTail ==
  /\ \A a : Head(<<a>>) = a /\ Tail(<<a>>) = <<>> /\ <<a>> # <<>>
  /\ \A a, b : Head(<<a, b>>) = a /\ Tail(<<a, b>>) = <<b>> /\ <<a, b>> # <<>>
  /\ \A a, b, c : Head(<<a, b, c>>) = a /\ Tail(<<a, b, c>>) = <<b, c>> /\ <<a, b, c>> # <<>>
  /\ \A a, b, c, d : /\ Head(<<a, b, c, d>>) = a /\ Tail(<<a, b, c, d>>) = <<b, c, d>>
                     /\ <<a, b, c, d>> # <<>>
  /\ \A a, b, c, d, f : /\ Head(<<a, b, c, d, f>>) = a
                        /\ Tail(<<a, b, c, d, f>>) = <<b, c, d, f>>
                        /\ <<a, b, c, d, f>> # <<>>
  /\ \A a, b, c, d, f, g : /\ Head(<<a, b, c, d, f, g>>) = a
                           /\ Tail(<<a, b, c, d, f, g>>) = <<b, c, d, f, g>>
                           /\ <<a, b, c, d, f, g>> # <<>>
  /\ \A a, b, c, d, f, g, i : /\ Head(<<a, b, c, d, f, g, i>>) = a
                              /\ Tail(<<a, b, c, d, f, g, i>>) = <<b, c, d, f, g, i>>
                              /\ <<a, b, c, d, f, g, i>> # <<>>
  /\ \A a, b, c, d, f, g, i, j : /\ Head(<<a, b, c, d, f, g, i, j>>) = a
                                 /\ Tail(<<a, b, c, d, f, g, i, j>>) = <<b, c, d, f, g, i, j>>
                                 /\ <<a, b, c, d, f, g, i, j>> # <<>>
OBVIOUS

LEMMA HandleAt ==
  ASSUME NEW w \in Workers, Handle(w)
  PROVE  /\ proc[w].todo # <<>>
         /\ Head(proc[w].todo) = "put_host" => PutHost(w)
         /\ Head(proc[w].todo) = "del_host" => DelStoppedHost(w)
         /\ Head(proc[w].todo) = "put_components" => PutComponents(w)
         /\ Head(proc[w].todo) = "del_components" => DelComponents(w)
         /\ Head(proc[w].todo) = "put_providers" => PutProviders(w)
         /\ Head(proc[w].todo) = "del_providers" => DelProviders(w)
         /\ Head(proc[w].todo) = "get_component" => GetComponent(w)
         /\ Head(proc[w].todo) = "get_host" =>
              IF Event(w).type = "host_stopped" THEN GetStoppedHost(w) ELSE GetHost(w)
         /\ Head(proc[w].todo) = "get_provider" =>
              /\ Event(w).type = "provider_started" => StartedProvider(w)
              /\ Event(w).type = "provider_stopped" => StoppedProvider(w)
              /\ Event(w).type = "health_check" => CheckedProvider(w)
         /\ Head(proc[w].todo) = "list_components" =>
              /\ Event(w).type = "host_stopped" => StoppedComponents(w)
              /\ Event(w).type = "host_heartbeat" => HeartbeatComponents(w)
         /\ Head(proc[w].todo) = "list_providers" =>
              /\ Event(w).type = "host_stopped" => StoppedProviders(w)
              /\ Event(w).type = "host_heartbeat" => HeartbeatProviders(w)
<1>1. PutHost(w) => At(w, "put_host")
  BY DEF PutHost
<1>2. DelStoppedHost(w) => At(w, "del_host")
  BY DEF DelStoppedHost
<1>3. PutComponents(w) => At(w, "put_components")
  BY DEF PutComponents
<1>4. DelComponents(w) => At(w, "del_components")
  BY DEF DelComponents
<1>5. PutProviders(w) => At(w, "put_providers")
  BY DEF PutProviders
<1>6. DelProviders(w) => At(w, "del_providers")
  BY DEF DelProviders
<1>7. GetComponent(w) => At(w, "get_component")
  BY DEF GetComponent
<1>8. /\ GetHost(w) => At(w, "get_host") /\ Event(w).type # "host_stopped"
      /\ GetStoppedHost(w) => At(w, "get_host") /\ Event(w).type = "host_stopped"
  BY DEF GetHost, GetStoppedHost
<1>9. /\ StartedProvider(w) => At(w, "get_provider") /\ Event(w).type = "provider_started"
      /\ StoppedProvider(w) => At(w, "get_provider") /\ Event(w).type = "provider_stopped"
      /\ CheckedProvider(w) => At(w, "get_provider") /\ Event(w).type = "health_check"
  BY DEF StartedProvider, StoppedProvider, CheckedProvider
<1>10. /\ StoppedComponents(w) => At(w, "list_components") /\ Event(w).type = "host_stopped"
       /\ HeartbeatComponents(w) => At(w, "list_components") /\ Event(w).type = "host_heartbeat"
  BY DEF StoppedComponents, HeartbeatComponents
<1>11. /\ StoppedProviders(w) => At(w, "list_providers") /\ Event(w).type = "host_stopped"
       /\ HeartbeatProviders(w) => At(w, "list_providers") /\ Event(w).type = "host_heartbeat"
  BY DEF StoppedProviders, HeartbeatProviders
<1> QED
  BY <1>1, <1>2, <1>3, <1>4, <1>5, <1>6, <1>7, <1>8, <1>9, <1>10, <1>11 DEF Handle, At

-----------------------------------------------------------------------------
(* What the handlers compute from what is stored is what it will be, even  *)
(* if some of it is stored already.                                        *)
LEMMA BetweenSame ==
  ASSUME NEW v, NEW e, NEW new, UNCHANGED store, Between(v, e, new)
  PROVE  Between(v, e, new)'
BY DEF store, Between, HostAs, ComponentsAs, ProvidersAs

LEMMA ChangedIsNew ==
  ASSUME NEW v \in Views, NEW new \in Views, NEW e \in Events, Leads(v, e, new),
         e.type \in {"component_scaled", "provider_started", "provider_stopped"},
         NEW rec \in HostRec, RecAs(rec, e.host, v) \/ RecAs(rec, e.host, new)
  PROVE  RecAs(Changed(rec, e), e.host, new)
<1> DEFINE h == e.host
<1>1. h \in Hosts
  BY EventFacts
<1>2. Changed(rec, e) # NoHost
  <2>1. Changed(rec, e) \in HostRec
    BY EventFacts DEF Changed, HostRec
  <2> QED
    BY <2>1, LatticeStateAssumption DEF HostRec
<1>3. CASE e.type = "component_scaled"
  <2>1. /\ \A p \in Providers : new.health[h][p] = v.health[h][p]
        /\ \A c \in Components : c # e.component => new.runs[h][c] = v.runs[h][c]
    BY <1>1, <1>3, LeadsTo DEF Touches, Concerns
  <2>2. new.runs[h][e.component] = Absent <=> e.count = 0
    <3>1. e.count # 0 => [ann |-> e.ann, count |-> e.count] # Absent
      BY <1>3, EventFacts, LatticeStateAssumption
    <3> QED
      BY <1>3, <3>1, LeadsScaled
  <2>3. /\ Changed(rec, e).providers = rec.providers
        /\ Changed(rec, e).components =
             IF e.count = 0 THEN rec.components \ {e.component}
             ELSE rec.components \cup {e.component}
    BY <1>3 DEF Changed, HostRec
  <2>4. e.component \in Components
    BY <1>3, EventFacts
  <2> QED
    BY <1>2, <2>1, <2>2, <2>3, <2>4 DEF RecAs
<1>4. CASE e.type \in {"provider_started", "provider_stopped"}
  <2>1. /\ \A p \in Providers : p # e.provider => new.health[h][p] = v.health[h][p]
        /\ \A c \in Components : new.runs[h][c] = v.runs[h][c]
    BY <1>1, <1>4, LeadsTo DEF Touches, Concerns
  <2>2. new.health[h][e.provider] = Absent <=> e.type = "provider_stopped"
    BY <1>4, LeadsProvider, LatticeStateAssumption
  <2>3. /\ Changed(rec, e).components = rec.components
        /\ Changed(rec, e).providers =
             IF e.type = "provider_stopped" THEN rec.providers \ {e.provider}
             ELSE rec.providers \cup {e.provider}
    BY <1>4 DEF Changed, HostRec
  <2>4. e.provider \in Providers
    BY <1>4, EventFacts
  <2> QED
    BY <1>2, <2>1, <2>2, <2>3, <2>4 DEF RecAs
<1> QED
  BY <1>3, <1>4

LEMMA ScaledIsNew ==
  ASSUME NEW v \in Views, NEW new \in Views, NEW e \in Events, Leads(v, e, new),
         e.type = "component_scaled", NEW inst \in Instances,
         \/ CountsAs(inst, e.host, e.component, v)
         \/ CountsAs(inst, e.host, e.component, new)
  PROVE  /\ CountsAs(Scaled(inst, e), e.host, e.component, new)
         /\ \A h \in Hosts : h # e.host => Scaled(inst, e)[h] = inst[h]
<1>1. e.host \in Hosts
  BY EventFacts
<1>2. /\ e.component \in Components /\ e.ann \in Anns /\ e.count \in Nat
      /\ new.runs[e.host][e.component] =
           IF e.count = 0 THEN Absent ELSE [ann |-> e.ann, count |-> e.count]
      /\ v.runs[e.host][e.component] # Absent => v.runs[e.host][e.component].ann = e.ann
  BY LeadsScaled
<1> DEFINE count == IF e.count = 0 /\ inst # NoInstances THEN Absent ELSE e.count
<1>3. Scaled(inst, e) = [inst EXCEPT ![e.host][e.ann] = count]
  BY DEF Scaled
<1>4. /\ \A a \in Anns : Scaled(inst, e)[e.host][a] = IF a = e.ann THEN count ELSE inst[e.host][a]
      /\ \A h \in Hosts : h # e.host => Scaled(inst, e)[h] = inst[h]
  <2> HIDE DEF count
  <2> QED
    BY <1>1, <1>2, <1>3 DEF Instances
<1>5. e.count # Absent
  BY <1>2, LatticeStateAssumption
<1>6. e.count # 0 => [ann |-> e.ann, count |-> e.count] # Absent
  BY <1>2, EventFacts, LatticeStateAssumption
<1>7. \A a \in Anns : RunsIn(new, e.host, e.component, a) = IF a = e.ann THEN e.count ELSE 0
  BY <1>2, <1>6 DEF RunsIn
<1>8. \A a \in Anns : a # e.ann => RunsIn(v, e.host, e.component, a) = 0
  BY <1>2 DEF RunsIn
<1>9. (IF count = Absent THEN 0 ELSE count) = e.count
  BY <1>5
<1> HIDE DEF count
<1>10. ASSUME NEW a \in Anns
       PROVE  RunsIn(new, e.host, e.component, a) =
                IF Scaled(inst, e)[e.host][a] = Absent THEN 0 ELSE Scaled(inst, e)[e.host][a]
  <2>1. CASE a = e.ann
    BY <1>4, <1>7, <1>9, <2>1
  <2>2. CASE a # e.ann
    BY <1>4, <1>7, <1>8, <2>2 DEF CountsAs
  <2> QED
    BY <2>1, <2>2
<1> QED
  BY <1>4, <1>10 DEF CountsAs

LEMMA CheckedIsNew ==
  ASSUME NEW v \in Views, NEW new \in Views, NEW e \in Events, Leads(v, e, new),
         e.type = "health_check",
         NEW status \in {v.health[e.host][e.provider], new.health[e.host][e.provider]}
  PROVE  Checked(status, e.result) = new.health[e.host][e.provider]
<1>1. /\ new.health[e.host][e.provider] = Checked(v.health[e.host][e.provider], e.result)
      /\ e.result \in {"status", "passed", "failed"}
  BY LeadsProvider, EventFacts
<1>2. "running" # Absent
  BY LatticeStateAssumption
<1> QED
  BY <1>1, <1>2 DEF Checked
-----------------------------------------------------------------------------
(* A write of what will be keeps the store between the two.                *)
LEMMA HostWriteBetween ==
  ASSUME TInv, NEW w \in Workers, PutHost(w), NEW e \in Events, e = Event(w),
         NEW v \in Views, NEW new \in Views, Leads(v, e, new), Between(v, e, new),
         e.type # "host_stopped", RecAs(proc[w].host, e.host, new)
  PROVE  Between(v, e, new)' /\ HostsAs(new)'
<1>1. /\ UNCHANGED <<components, providers>> /\ hosts'[e.host] = proc[w].host
      /\ \A h \in Hosts : h # e.host => hosts'[h] = hosts[h]
  BY PutHostDoes
<1>2. new.power[e.host] = "up" /\ e.host \in Hosts
  BY LeadsTo, EventFacts
<1>3. \A h \in Hosts : h # e.host => HostAs(h, new)
  BY BetweenElsewhere
<1>4. \A h \in Hosts : HostAs(h, new)'
  BY <1>1, <1>2, <1>3 DEF HostAs, RecAs
<1>5. Renews(new)
  BY <1>1, <1>4 DEF Renews
<1>6. Between(v, e, new)'
  BY <1>2, <1>4, <1>5, BetweenStep
<1> QED
  BY <1>4, <1>6 DEF HostsAs

LEMMA ComponentsWriteBetween ==
  ASSUME NEW e \in Events, NEW v \in Views, NEW new \in Views, Between(v, e, new),
         UNCHANGED <<hosts, providers>>, e.type = "host_stopped" => hosts[e.host] # NoHost,
         NEW next, ComponentsAs(next, new),
         \A c \in Components : components'[c] \in {components[c], next[c]}
  PROVE  Between(v, e, new)'
<1>1. \A h \in Hosts, c \in Components :
        components'[c][h] = components[c][h] \/ CountsAs(components[c], h, c, new)'
  BY DEF ComponentsAs, CountsAs, RunsIn
<1>2. Renews(new)
  BY <1>1 DEF Renews
<1>3. e.type = "provider_started" /\ providers'[e.provider][e.host] # Absent => HostAs(e.host, new)'
  BY DEF Between, HostAs, RecAs
<1> QED
  BY <1>2, <1>3, BetweenStep

LEMMA ProvidersWriteBetween ==
  ASSUME NEW e \in Events, NEW v \in Views, NEW new \in Views, Between(v, e, new),
         UNCHANGED <<hosts, components>>, e.type = "host_stopped" => hosts[e.host] # NoHost,
         e.type = "provider_started" => HostAs(e.host, new),
         NEW next, ProvidersAs(next, new),
         \A p \in Providers : providers'[p] \in {providers[p], next[p]}
  PROVE  Between(v, e, new)'
<1>1. \A h \in Hosts, p \in Providers :
        providers'[p][h] = providers[p][h] \/ providers'[p][h] = new.health[h][p]
  BY DEF ProvidersAs
<1>2. Renews(new)
  BY <1>1 DEF Renews
<1>3. e.type = "provider_started" => HostAs(e.host, new)'
  BY DEF HostAs, RecAs
<1> QED
  BY <1>2, <1>3, BetweenStep

(* The same of the fields that stand in the way of a view.                 *)
LEMMA SameAs ==
  ASSUME NEW new
  PROVE  /\ UNCHANGED hosts => HostsAs(new)' <=> HostsAs(new)
         /\ UNCHANGED hosts => \A h \in Hosts : HostAs(h, new)' <=> HostAs(h, new)
         /\ UNCHANGED components => ComponentsAs(components, new)' <=> ComponentsAs(components, new)
         /\ UNCHANGED providers => ProvidersAs(providers, new)' <=> ProvidersAs(providers, new)
<1>1. UNCHANGED hosts => \A h \in Hosts : HostAs(h, new)' <=> HostAs(h, new)
  BY DEF HostAs, RecAs
<1>2. UNCHANGED components => ComponentsAs(components, new)' <=> ComponentsAs(components, new)
  BY DEF ComponentsAs, CountsAs, RunsIn
<1>3. UNCHANGED providers => ProvidersAs(providers, new)' <=> ProvidersAs(providers, new)
  BY DEF ProvidersAs
<1> QED
  BY <1>1, <1>2, <1>3 DEF HostsAs

LEMMA SameCounts ==
  ASSUME NEW new, NEW f, NEW g
  PROVE  /\ (\A c \in Components : f[c] = g[c]) /\ ComponentsAs(g, new) => ComponentsAs(f, new)
         /\ (\A p \in Providers : f[p] = g[p]) /\ ProvidersAs(g, new) => ProvidersAs(f, new)
BY DEF ComponentsAs, CountsAs, RunsIn, ProvidersAs
(* The last write of a handler.                                            *)
LEMMA ComponentsAreWritten ==
  ASSUME TInv, NEW w \in Workers, Handle(w), NEW new, WritesComponents(w, proc[w].todo, new)
  PROVE  /\ Moves(w) /\ proc'[w].todo = <<>> /\ UNCHANGED <<hosts, providers>>
         /\ \A c \in Components : components'[c] = ComponentsWritten(w)[c]
         /\ ComponentsAs(ComponentsWritten(w), new) /\ ComponentsAs(components, new)'
<1>1. ComponentsAs(ComponentsWritten(w), new)
  BY DEF WritesComponents
<1>2. /\ Moves(w) /\ proc'[w].todo = <<>> /\ UNCHANGED <<hosts, providers>>
      /\ \A c \in Components : components'[c] = ComponentsWritten(w)[c]
  <2>1. CASE proc[w].todo = <<"put_components">> /\ proc[w].del = {}
    <3>1. PutComponents(w) /\ Tail(proc[w].todo) = <<>>
      BY <2>1, HandleAt, HeadAndTail
    <3> QED
      BY <2>1, <3>1, PutComponentsDoes DEF Moves
  <2>2. CASE proc[w].todo = <<"del_components">> /\ proc[w].put = {}
    <3>1. DelComponents(w) /\ Tail(proc[w].todo) = <<>>
      BY <2>2, HandleAt, HeadAndTail
    <3> QED
      BY <2>2, <3>1, DelComponentsDoes DEF Moves
  <2> QED
    BY <2>1, <2>2 DEF WritesComponents
<1>3. ComponentsAs(components', new)
  BY <1>1, <1>2, SameCounts
<1>4. ComponentsAs(components, new)'
  BY <1>3 DEF ComponentsAs, CountsAs, RunsIn
<1> QED
  BY <1>1, <1>2, <1>4

LEMMA ProvidersAreWritten ==
  ASSUME TInv, NEW w \in Workers, Handle(w), NEW new, WritesProviders(w, proc[w].todo, new)
  PROVE  /\ Moves(w) /\ proc'[w].todo = <<>> /\ UNCHANGED <<hosts, components>>
         /\ \A p \in Providers : providers'[p] = ProvidersWritten(w)[p]
         /\ ProvidersAs(ProvidersWritten(w), new) /\ ProvidersAs(providers, new)'
<1>1. ProvidersAs(ProvidersWritten(w), new)
  BY DEF WritesProviders
<1>2. /\ Moves(w) /\ proc'[w].todo = <<>> /\ UNCHANGED <<hosts, components>>
      /\ \A p \in Providers : providers'[p] = ProvidersWritten(w)[p]
  <2>1. CASE proc[w].todo = <<"put_providers">> /\ proc[w].del = {}
    <3>1. PutProviders(w) /\ Tail(proc[w].todo) = <<>>
      BY <2>1, HandleAt, HeadAndTail
    <3> QED
      BY <2>1, <3>1, PutProvidersDoes DEF Moves
  <2>2. CASE proc[w].todo = <<"del_providers">> /\ proc[w].put = {}
    <3>1. DelProviders(w) /\ Tail(proc[w].todo) = <<>>
      BY <2>2, HandleAt, HeadAndTail
    <3> QED
      BY <2>2, <3>1, DelProvidersDoes DEF Moves
  <2> QED
    BY <2>1, <2>2 DEF WritesProviders
<1>3. ProvidersAs(providers', new)
  BY <1>1, <1>2, SameCounts
<1>4. ProvidersAs(providers, new)'
  BY <1>3 DEF ProvidersAs
<1> QED
  BY <1>1, <1>2, <1>4
-----------------------------------------------------------------------------
(* Each handler, operation by operation.                                   *)
LEMMA StartingStep ==
  ASSUME TInv, NEW w \in Workers, Handle(w), NEW e \in Events, e = Event(w),
         NEW v \in Views, NEW new \in Views, Leads(v, e, new), Between(v, e, new),
         e.type = "host_started", Starting(w, new)
  PROVE  Between(v, e, new)' /\ Starting(w, new)' /\ Stays(w)
<1>1. proc[w].todo = <<"put_host">> /\ RecAs(proc[w].host, e.host, new)
  BY HandleAt DEF Starting
<1>2. PutHost(w) /\ Tail(proc[w].todo) = <<>>
  BY <1>1, HandleAt, HeadAndTail
<1>3. Between(v, e, new)' /\ HostsAs(new)'
  BY <1>1, <1>2, HostWriteBetween
<1>4. Moves(w) /\ UNCHANGED <<components, providers>>
  BY <1>2, PutHostDoes
<1>5. ComponentsAs(components, new) /\ ProvidersAs(providers, new)
  BY BetweenElsewhere DEF ComponentsAs, ProvidersAs, Touches, Concerns
<1>6. Agrees(new)'
  BY <1>3, <1>4, <1>5, SameAs DEF Agrees
<1> QED
  BY <1>2, <1>3, <1>4, <1>6 DEF Starting, Moves

LEMMA CheckingStep ==
  ASSUME TInv, NEW w \in Workers, Handle(w), NEW e \in Events, e = Event(w),
         NEW v \in Views, NEW new \in Views, Leads(v, e, new), Between(v, e, new),
         e.type = "health_check", Checking(w, new)
  PROVE  Between(v, e, new)' /\ Checking(w, new)' /\ Stays(w)
<1>1. HostsAs(new) /\ ComponentsAs(components, new)
  BY BetweenElsewhere DEF ComponentsAs, Touches
<1>2. e.host \in Hosts /\ e.provider \in Providers
  BY EventFacts
<1>3. CASE proc[w].todo = <<"get_provider", "put_providers">>
  <2>1. CheckedProvider(w) /\ Tail(proc[w].todo) = <<"put_providers">>
    BY <1>3, HandleAt, HeadAndTail
  <2>2. /\ Moves(w) /\ UNCHANGED store /\ proc'[w].del = {}
        /\ Sets(w, e.provider, e.host, Checked(providers[e.provider][e.host], e.result))
    BY <2>1, CheckedProviderDoes
  <2>3. Checked(providers[e.provider][e.host], e.result) = new.health[e.host][e.provider]
    BY <1>2, CheckedIsNew DEF Between
  <2>4. \A q \in Providers, k \in Hosts : ~(q = e.provider /\ k = e.host) =>
          providers[q][k] = new.health[k][q]
    BY BetweenElsewhere DEF Concerns
  <2>5. ProvidersAs(ProvidersWritten(w)', new)
    BY <2>2, <2>3, <2>4 DEF Sets, ProvidersAs
  <2>6. proc'[w].todo = <<"put_providers">> /\ ProvidersAs(ProvidersWritten(w), new)'
    BY <2>1, <2>2, <2>5 DEF Moves, ProvidersAs
  <2>7. WritesProviders(w, proc[w].todo, new)'
    BY <2>2, <2>6 DEF WritesProviders
  <2> QED
    BY <2>2, <2>7, BetweenSame DEF Checking, Moves
<1>4. CASE WritesProviders(w, proc[w].todo, new)
  <2>1. /\ Moves(w) /\ proc'[w].todo = <<>> /\ UNCHANGED <<hosts, components>>
        /\ \A p \in Providers : providers'[p] = ProvidersWritten(w)[p]
        /\ ProvidersAs(ProvidersWritten(w), new) /\ ProvidersAs(providers, new)'
    BY <1>4, ProvidersAreWritten
  <2>2. Between(v, e, new)'
    BY <2>1, ProvidersWriteBetween
  <2>3. Agrees(new)'
    BY <1>1, <2>1, SameAs DEF Agrees
  <2> QED
    BY <2>1, <2>2, <2>3 DEF Checking, Moves
<1> QED
  BY <1>3, <1>4, HandleAt DEF Checking

(* What a handler has read of the host and goes on to write.               *)
LEMMA HostIsRead ==
  ASSUME TInv, NEW w \in Workers, GetHost(w), NEW e \in Events, e = Event(w),
         NEW v \in Views, NEW new \in Views, Leads(v, e, new), Between(v, e, new)
  PROVE  /\ Moves(w) /\ UNCHANGED store /\ RecAs(proc'[w].host, e.host, new)
         /\ proc'[w].put = proc[w].put /\ proc'[w].del = proc[w].del
         /\ ComponentsWritten(w)' = ComponentsWritten(w)
         /\ ProvidersWritten(w)' = ProvidersWritten(w)
<1>1. At(w, "get_host") /\ Event(w).type # "host_stopped"
  BY DEF GetHost
<1>2. e.type \in {"component_scaled", "provider_started", "provider_stopped"}
  BY <1>1, WorkerFacts DEF Allowed
<1>3. hosts[e.host] # NoHost /\ e.host \in Hosts
  BY <1>2, BetweenElsewhere, EventFacts
<1>4. hosts[e.host] \in HostRec
  BY <1>3 DEF TInv, TypeOK
<1>5. v.power[e.host] = "up" /\ new.power[e.host] = "up"
  BY <1>2, LeadsTo
<1>6. RecAs(hosts[e.host], e.host, v) \/ RecAs(hosts[e.host], e.host, new)
  BY <1>3, <1>5 DEF Between, HostAs
<1>7. RecAs(Changed(hosts[e.host], e), e.host, new)
  BY <1>2, <1>4, <1>6, ChangedIsNew
<1> QED
  BY <1>3, <1>7, GetHostDoes

LEMMA ScalingStep ==
  ASSUME TInv, NEW w \in Workers, Handle(w), NEW e \in Events, e = Event(w),
         NEW v \in Views, NEW new \in Views, Leads(v, e, new), Between(v, e, new),
         e.type = "component_scaled", Scaling(w, new)
  PROVE  Between(v, e, new)' /\ Scaling(w, new)' /\ Stays(w)
<1>1. ProvidersAs(providers, new) /\ e.host \in Hosts /\ e.component \in Components
  BY BetweenElsewhere, EventFacts DEF ProvidersAs, Concerns
<1>2. CASE proc[w].todo = <<"get_component", "get_host", "put_host", "put_components">>
  <2>1. GetComponent(w)
    BY <1>2, HandleAt, HeadAndTail
  <2>2. /\ Stays(w) /\ UNCHANGED store
        /\ \A c \in Components : ComponentsWritten(w)'[c] =
             IF c = e.component THEN Scaled(components[c], e) ELSE components[c]
        /\ \/ proc'[w].todo = <<"get_host", "put_host", "put_components">> /\ proc'[w].del = {}
           \/ proc'[w].todo = <<"get_host", "put_host", "del_components">> /\ proc'[w].put = {}
    BY <2>1, GetComponentDoes
  <2>3. components[e.component] \in Instances
    BY <1>1 DEF TInv, TypeOK
  <2>4. /\ CountsAs(Scaled(components[e.component], e), e.host, e.component, new)
        /\ \A h \in Hosts : h # e.host =>
             Scaled(components[e.component], e)[h] = components[e.component][h]
    BY <1>1, <2>3, ScaledIsNew DEF Between
  <2>5. \A h \in Hosts, c \in Components : ~(h = e.host /\ c = e.component) =>
          CountsAs(components[c], h, c, new)
    BY BetweenElsewhere DEF Touches
  <2>6. \A h \in Hosts, c \in Components : CountsAs(ComponentsWritten(w)'[c], h, c, new)
    <3> SUFFICES ASSUME NEW h \in Hosts, NEW c \in Components
                 PROVE CountsAs(ComponentsWritten(w)'[c], h, c, new)
      OBVIOUS
    <3>1. CASE h = e.host /\ c = e.component
      BY <2>2, <2>4, <3>1
    <3>2. CASE ~(h = e.host /\ c = e.component)
      <4>1. ComponentsWritten(w)'[c][h] = components[c][h]
        BY <2>2, <2>4, <3>2
      <4> QED
        BY <2>5, <3>2, <4>1 DEF CountsAs
    <3> QED
      BY <3>1, <3>2
  <2>7. ComponentsAs(ComponentsWritten(w), new)'
    BY <2>6 DEF ComponentsAs, CountsAs, RunsIn
  <2>8. \E op \in {"put_components", "del_components"} :
          WritesComponents(w, <<op>>, new)' /\ proc'[w].todo = <<"get_host", "put_host", op>>
    BY <2>2, <2>7 DEF WritesComponents
  <2> QED
    BY <2>2, <2>8, BetweenSame DEF Scaling
<1>3. ASSUME NEW op \in {"put_components", "del_components"}, WritesComponents(w, <<op>>, new),
             proc[w].todo = <<"get_host", "put_host", op>>
      PROVE  Between(v, e, new)' /\ Scaling(w, new)' /\ Stays(w)
  <2>1. GetHost(w) /\ Tail(proc[w].todo) = <<"put_host", op>>
    BY <1>3, HandleAt, HeadAndTail
  <2>2. /\ Moves(w) /\ UNCHANGED store /\ RecAs(proc'[w].host, e.host, new)
        /\ proc'[w].put = proc[w].put /\ proc'[w].del = proc[w].del
        /\ ComponentsWritten(w)' = ComponentsWritten(w)
    BY <2>1, HostIsRead
  <2>3. WritesComponents(w, <<op>>, new)'
    BY <1>3, <2>2 DEF WritesComponents, ComponentsAs, CountsAs, RunsIn
  <2>4. proc'[w].todo = <<"put_host", op>> /\ RecAs(proc[w].host, Event(w).host, new)'
    BY <2>1, <2>2 DEF Moves, Stays, RecAs
  <2> QED
    BY <2>2, <2>3, <2>4, BetweenSame DEF Scaling, Moves
<1>4. ASSUME NEW op \in {"put_components", "del_components"}, WritesComponents(w, <<op>>, new),
             proc[w].todo = <<"put_host", op>>, RecAs(proc[w].host, e.host, new)
      PROVE  Between(v, e, new)' /\ Scaling(w, new)' /\ Stays(w)
  <2>1. PutHost(w) /\ Tail(proc[w].todo) = <<op>>
    BY <1>4, HandleAt, HeadAndTail
  <2>2. /\ Moves(w)
        /\ proc'[w].put = proc[w].put /\ proc'[w].del = proc[w].del
        /\ ComponentsWritten(w)' = ComponentsWritten(w)
    BY <2>1, PutHostDoes
  <2>3. Between(v, e, new)' /\ HostsAs(new)'
    BY <1>4, <2>1, HostWriteBetween
  <2>4. WritesComponents(w, <<op>>, new)'
    BY <1>4, <2>2 DEF WritesComponents, ComponentsAs, CountsAs, RunsIn
  <2>5. proc'[w].todo = <<op>> /\ HostAs(Event(w).host, new)'
    BY <1>1, <2>1, <2>2, <2>3 DEF Moves, Stays, HostsAs, HostAs, RecAs
  <2> QED
    BY <2>2, <2>3, <2>4, <2>5 DEF Scaling, Moves
<1>5. ASSUME WritesComponents(w, proc[w].todo, new), HostAs(e.host, new)
      PROVE  Between(v, e, new)' /\ Scaling(w, new)' /\ Stays(w)
  <2>1. /\ Moves(w) /\ proc'[w].todo = <<>> /\ UNCHANGED <<hosts, providers>>
        /\ \A c \in Components : components'[c] = ComponentsWritten(w)[c]
        /\ ComponentsAs(ComponentsWritten(w), new) /\ ComponentsAs(components, new)'
    BY <1>5, ComponentsAreWritten
  <2>2. Between(v, e, new)'
    BY <2>1, ComponentsWriteBetween
  <2>3. HostsAs(new)
    BY <1>5, BetweenElsewhere DEF HostsAs
  <2>4. Agrees(new)'
    BY <1>1, <2>1, <2>3, SameAs DEF Agrees
  <2> QED
    BY <2>1, <2>2, <2>4 DEF Scaling, Moves
<1>6. proc[w].todo # <<>>
  BY HandleAt
<1>7. CASE \E op \in {"put_components", "del_components"} :
             /\ WritesComponents(w, <<op>>, new)
             /\ \/ proc[w].todo = <<"get_host", "put_host", op>>
                \/ /\ proc[w].todo = <<"put_host", op>>
                   /\ RecAs(proc[w].host, e.host, new)
                \/ proc[w].todo = <<op>> /\ HostAs(e.host, new)
  <2>1. PICK op \in {"put_components", "del_components"} :
             /\ WritesComponents(w, <<op>>, new)
             /\ \/ proc[w].todo = <<"get_host", "put_host", op>>
                \/ /\ proc[w].todo = <<"put_host", op>>
                   /\ RecAs(proc[w].host, e.host, new)
                \/ proc[w].todo = <<op>> /\ HostAs(e.host, new)
    BY <1>7
  <2>2. CASE proc[w].todo = <<op>> /\ HostAs(e.host, new)
    <3>1. WritesComponents(w, proc[w].todo, new)
      BY <2>1, <2>2
    <3> QED
      BY <1>5, <2>2, <3>1
  <2> QED
    BY <1>3, <1>4, <2>1, <2>2
<1> QED
  BY <1>2, <1>6, <1>7 DEF Scaling

LEMMA ProviderStartingStep ==
  ASSUME TInv, NEW w \in Workers, Handle(w), NEW e \in Events, e = Event(w),
         NEW v \in Views, NEW new \in Views, Leads(v, e, new), Between(v, e, new),
         e.type = "provider_started", ProviderStarting(w, new)
  PROVE  Between(v, e, new)' /\ ProviderStarting(w, new)' /\ Stays(w)
<1> DEFINE op == "put_providers"
<1>1. /\ ComponentsAs(components, new) /\ e.host \in Hosts /\ e.provider \in Providers
      /\ v.health[e.host][e.provider] = Absent /\ new.health[e.host][e.provider] = "pending"
  BY BetweenElsewhere, EventFacts, LeadsProvider DEF ComponentsAs, Touches
<1>2. CASE proc[w].todo = <<"get_provider", "get_host", "put_host", op>>
  <2>1. StartedProvider(w) /\ Tail(proc[w].todo) = <<"get_host", "put_host", op>>
    BY <1>2, HandleAt, HeadAndTail
  <2>2. \A q \in Providers, k \in Hosts : ~(q = e.provider /\ k = e.host) =>
          providers[q][k] = new.health[k][q]
    BY BetweenElsewhere DEF Concerns
  <2>3. CASE providers[e.provider][e.host] # Absent
    <3>1. /\ Stays(w) /\ UNCHANGED store /\ proc'[w].del = {} /\ proc'[w].todo = <<op>>
          /\ \A q \in Providers : ProvidersWritten(w)'[q] = providers[q]
      BY <2>1, <2>3, StartedProviderDoes
    <3>2. HostAs(e.host, new) /\ providers[e.provider][e.host] = new.health[e.host][e.provider]
      BY <1>1, <2>3 DEF Between
    <3>3. ProvidersAs(providers, new)
      BY <2>2, <3>2 DEF ProvidersAs
    <3>4. ProvidersAs(ProvidersWritten(w), new)'
      BY <3>1, <3>3 DEF ProvidersAs
    <3>5. WritesProviders(w, <<op>>, new)'
      BY <3>1, <3>4 DEF WritesProviders
    <3>6. HostAs(Event(w).host, new)'
      BY <3>1, <3>2 DEF HostAs, RecAs, Stays, store
    <3> QED
      BY <3>1, <3>5, <3>6, BetweenSame DEF ProviderStarting
  <2>4. CASE providers[e.provider][e.host] = Absent
    <3>1. /\ Stays(w) /\ UNCHANGED store /\ proc'[w].del = {}
          /\ proc'[w].todo = <<"get_host", "put_host", op>>
          /\ Sets(w, e.provider, e.host, "pending")
      BY <2>1, <2>4, StartedProviderDoes
    <3>2. ProvidersAs(ProvidersWritten(w), new)'
      BY <1>1, <2>2, <3>1 DEF Sets, ProvidersAs
    <3>3. WritesProviders(w, <<op>>, new)'
      BY <3>1, <3>2 DEF WritesProviders
    <3> QED
      BY <3>1, <3>3, BetweenSame DEF ProviderStarting
  <2> QED
    BY <2>3, <2>4
<1>3. CASE proc[w].todo = <<"get_host", "put_host", op>> /\ WritesProviders(w, <<op>>, new)
  <2>1. GetHost(w) /\ Tail(proc[w].todo) = <<"put_host", op>>
    BY <1>3, HandleAt, HeadAndTail
  <2>2. /\ Moves(w) /\ UNCHANGED store /\ RecAs(proc'[w].host, e.host, new)
        /\ proc'[w].put = proc[w].put /\ proc'[w].del = proc[w].del
        /\ ProvidersWritten(w)' = ProvidersWritten(w)
    BY <2>1, HostIsRead
  <2>3. WritesProviders(w, <<op>>, new)'
    BY <1>3, <2>2 DEF WritesProviders, ProvidersAs
  <2>4. proc'[w].todo = <<"put_host", op>> /\ RecAs(proc[w].host, Event(w).host, new)'
    BY <2>1, <2>2 DEF Moves, Stays, RecAs
  <2> QED
    BY <2>2, <2>3, <2>4, BetweenSame DEF ProviderStarting, Moves
<1>4. CASE /\ proc[w].todo = <<"put_host", op>> /\ RecAs(proc[w].host, e.host, new)
           /\ WritesProviders(w, <<op>>, new)
  <2>1. PutHost(w) /\ Tail(proc[w].todo) = <<op>>
    BY <1>4, HandleAt, HeadAndTail
  <2>2. /\ Moves(w)
        /\ proc'[w].put = proc[w].put /\ proc'[w].del = proc[w].del
        /\ ProvidersWritten(w)' = ProvidersWritten(w)
    BY <2>1, PutHostDoes
  <2>3. Between(v, e, new)' /\ HostsAs(new)'
    BY <1>4, <2>1, HostWriteBetween
  <2>4. WritesProviders(w, <<op>>, new)'
    BY <1>4, <2>2 DEF WritesProviders, ProvidersAs
  <2>5. proc'[w].todo = <<op>> /\ HostAs(Event(w).host, new)'
    BY <1>1, <2>1, <2>2, <2>3 DEF Moves, Stays, HostsAs, HostAs, RecAs
  <2> QED
    BY <2>2, <2>3, <2>4, <2>5 DEF ProviderStarting, Moves
<1>5. CASE proc[w].todo = <<op>> /\ WritesProviders(w, <<op>>, new) /\ HostAs(e.host, new)
  <2>1. WritesProviders(w, proc[w].todo, new)
    BY <1>5
  <2>2. /\ Moves(w) /\ proc'[w].todo = <<>> /\ UNCHANGED <<hosts, components>>
        /\ \A p \in Providers : providers'[p] = ProvidersWritten(w)[p]
        /\ ProvidersAs(ProvidersWritten(w), new) /\ ProvidersAs(providers, new)'
    BY <2>1, ProvidersAreWritten
  <2>3. Between(v, e, new)'
    BY <1>5, <2>2, ProvidersWriteBetween
  <2>4. HostsAs(new)
    BY <1>5, BetweenElsewhere DEF HostsAs
  <2>5. Agrees(new)'
    BY <1>1, <2>2, <2>4, SameAs DEF Agrees
  <2> QED
    BY <2>2, <2>3, <2>5 DEF ProviderStarting, Moves
<1>6. proc[w].todo # <<>>
  BY HandleAt
<1> QED
  BY <1>2, <1>3, <1>4, <1>5, <1>6 DEF ProviderStarting

LEMMA ProviderStoppingStep ==
  ASSUME TInv, NEW w \in Workers, Handle(w), NEW e \in Events, e = Event(w),
         NEW v \in Views, NEW new \in Views, Leads(v, e, new), Between(v, e, new),
         e.type = "provider_stopped", ProviderStopping(w, new)
  PROVE  Between(v, e, new)' /\ ProviderStopping(w, new)' /\ Stays(w)
<1>1. /\ ComponentsAs(components, new) /\ e.host \in Hosts /\ e.provider \in Providers
      /\ new.health[e.host][e.provider] = Absent
  BY BetweenElsewhere, EventFacts, LeadsProvider DEF ComponentsAs, Touches
<1>2. CASE proc[w].todo = <<"get_host", "put_host", "get_provider", "put_providers">>
  <2>1. GetHost(w) /\ Tail(proc[w].todo) = <<"put_host", "get_provider", "put_providers">>
    BY <1>2, HandleAt, HeadAndTail
  <2>2. Moves(w) /\ UNCHANGED store /\ RecAs(proc'[w].host, e.host, new)
    BY <2>1, HostIsRead
  <2>3. /\ proc'[w].todo = <<"put_host", "get_provider", "put_providers">>
        /\ RecAs(proc[w].host, Event(w).host, new)'
    BY <2>1, <2>2 DEF Moves, Stays, RecAs
  <2> QED
    BY <2>2, <2>3, BetweenSame DEF ProviderStopping, Moves
<1>3. CASE /\ proc[w].todo = <<"put_host", "get_provider", "put_providers">>
           /\ RecAs(proc[w].host, e.host, new)
  <2>1. PutHost(w) /\ Tail(proc[w].todo) = <<"get_provider", "put_providers">>
    BY <1>3, HandleAt, HeadAndTail
  <2>2. Moves(w)
    BY <2>1, PutHostDoes
  <2>3. Between(v, e, new)' /\ HostsAs(new)'
    BY <1>3, <2>1, HostWriteBetween
  <2>4. proc'[w].todo = <<"get_provider", "put_providers">> /\ HostAs(Event(w).host, new)'
    BY <1>1, <2>1, <2>2, <2>3 DEF Moves, Stays, HostsAs, HostAs, RecAs
  <2> QED
    BY <2>2, <2>3, <2>4 DEF ProviderStopping, Moves
<1>4. CASE proc[w].todo = <<"get_provider", "put_providers">> /\ HostAs(e.host, new)
  <2>1. StoppedProvider(w)
    BY <1>4, HandleAt, HeadAndTail
  <2>2. \A q \in Providers, k \in Hosts : ~(q = e.provider /\ k = e.host) =>
          providers[q][k] = new.health[k][q]
    BY BetweenElsewhere DEF Concerns
  <2>3. Stays(w) /\ UNCHANGED store
    BY <2>1, StoppedProviderDoes
  <2>4. CASE providers[e.provider][e.host] = Absent
    <3>1. proc'[w].todo = <<>>
      BY <2>1, <2>4, StoppedProviderDoes
    <3>2. ProvidersAs(providers, new)
      BY <1>1, <2>2, <2>4 DEF ProvidersAs
    <3>3. HostsAs(new)
      BY <1>4, BetweenElsewhere DEF HostsAs
    <3>4. Agrees(new)'
      BY <1>1, <2>3, <3>2, <3>3, SameAs DEF Agrees, store
    <3> QED
      BY <2>3, <3>1, <3>4, BetweenSame DEF ProviderStopping
  <2>5. CASE providers[e.provider][e.host] # Absent
    <3>1. /\ Sets(w, e.provider, e.host, Absent)
          /\ \/ proc'[w].todo = <<"put_providers">> /\ proc'[w].del = {}
             \/ proc'[w].todo = <<"del_providers">> /\ proc'[w].put = {}
      BY <2>1, <2>5, StoppedProviderDoes
    <3>2. ProvidersAs(ProvidersWritten(w), new)'
      BY <1>1, <2>2, <3>1 DEF Sets, ProvidersAs
    <3>3. WritesProviders(w, proc[w].todo, new)'
      BY <3>1, <3>2 DEF WritesProviders
    <3>4. HostAs(Event(w).host, new)'
      BY <1>4, <2>3 DEF HostAs, RecAs, Stays, store
    <3> QED
      BY <2>3, <3>3, <3>4, BetweenSame DEF ProviderStopping
  <2> QED
    BY <2>4, <2>5
<1>5. CASE WritesProviders(w, proc[w].todo, new) /\ HostAs(e.host, new)
  <2>1. /\ Moves(w) /\ proc'[w].todo = <<>> /\ UNCHANGED <<hosts, components>>
        /\ \A p \in Providers : providers'[p] = ProvidersWritten(w)[p]
        /\ ProvidersAs(ProvidersWritten(w), new) /\ ProvidersAs(providers, new)'
    BY <1>5, ProvidersAreWritten
  <2>2. Between(v, e, new)'
    BY <2>1, ProvidersWriteBetween
  <2>3. HostsAs(new)
    BY <1>5, BetweenElsewhere DEF HostsAs
  <2>4. Agrees(new)'
    BY <1>1, <2>1, <2>3, SameAs DEF Agrees
  <2> QED
    BY <2>1, <2>2, <2>4 DEF ProviderStopping, Moves
<1>6. proc[w].todo # <<>>
  BY HandleAt
<1> QED
  BY <1>2, <1>3, <1>4, <1>5, <1>6 DEF ProviderStopping

LEMMA BeatingStep ==
  ASSUME TInv, NEW w \in Workers, Handle(w), NEW e \in Events, e = Event(w),
         NEW v \in Views, NEW new \in Views, Leads(v, e, new), Between(v, e, new),
         e.type = "host_heartbeat", Beating(w, new)
  PROVE  Between(v, e, new)' /\ Beating(w, new)' /\ Stays(w)
<1>1. HostsAs(new) /\ ComponentsAs(components, new) /\ ProvidersAs(providers, new)
  BY BetweenElsewhere DEF ComponentsAs, ProvidersAs, Touches, Concerns
<1>2. /\ e.host \in Hosts /\ new = v /\ e.loads = new.runs[e.host]
      /\ e.providers = {p \in Providers : new.health[e.host][p] # Absent}
  BY EventFacts DEF Leads
<1>3. CASE /\ proc[w].todo = <<"put_host", "list_providers", "put_providers",
                               "list_components", "put_components">>
           /\ RecAs(proc[w].host, e.host, new)
  <2>1. /\ PutHost(w)
        /\ Tail(proc[w].todo) = <<"list_providers", "put_providers",
                                  "list_components", "put_components">>
    BY <1>3, HandleAt, HeadAndTail
  <2>2. Moves(w)
    BY <2>1, PutHostDoes
  <2>3. Between(v, e, new)'
    BY <1>3, <2>1, HostWriteBetween
  <2> QED
    BY <2>1, <2>2, <2>3 DEF Beating, Moves
<1>4. CASE proc[w].todo = <<"list_providers", "put_providers",
                            "list_components", "put_components">>
  <2>1. /\ HeartbeatProviders(w)
        /\ Tail(proc[w].todo) = <<"put_providers", "list_components", "put_components">>
    BY <1>4, HandleAt, HeadAndTail
  <2>2. /\ Moves(w) /\ UNCHANGED store /\ proc'[w].del = {}
        /\ \A q \in Providers, k \in Hosts : ProvidersWritten(w)'[q][k] =
             IF k = e.host /\ q \in e.providers /\ providers[q][k] = Absent
             THEN "pending" ELSE providers[q][k]
    BY <2>1, HeartbeatProvidersDoes
  <2>3. \A q \in Providers, k \in Hosts : ProvidersWritten(w)'[q][k] = new.health[k][q]
    BY <1>1, <1>2, <2>2 DEF ProvidersAs
  <2>4. ProvidersAs(ProvidersWritten(w), new)'
    BY <2>3 DEF ProvidersAs
  <2> QED
    BY <2>1, <2>2, <2>4, BetweenSame DEF Beating, Moves
<1>5. CASE /\ proc[w].todo = <<"put_providers", "list_components", "put_components">>
           /\ ProvidersAs(ProvidersWritten(w), new) /\ proc[w].del = {}
  <2>1. PutProviders(w) /\ Tail(proc[w].todo) = <<"list_components", "put_components">>
    BY <1>5, HandleAt, HeadAndTail
  <2>2. /\ Moves(w) /\ UNCHANGED <<hosts, components>>
        /\ \A p \in Providers : providers'[p] = ProvidersWritten(w)[p]
    BY <1>5, <2>1, PutProvidersDoes
  <2>3. Between(v, e, new)'
    BY <1>5, <2>2, ProvidersWriteBetween
  <2> QED
    BY <2>1, <2>2, <2>3 DEF Beating, Moves
<1>6. CASE proc[w].todo = <<"list_components", "put_components">>
  <2>1. HeartbeatComponents(w) /\ Tail(proc[w].todo) = <<"put_components">>
    BY <1>6, HandleAt, HeadAndTail
  <2>2. /\ Moves(w) /\ UNCHANGED store /\ proc'[w].del = {}
        /\ \A c \in Components :
             IF e.loads[c] # Absent /\ ~UpToDate(components[c], e.host, e.loads[c])
             THEN /\ \A a \in Anns : ComponentsWritten(w)'[c][e.host][a] =
                       IF a = e.loads[c].ann THEN e.loads[c].count ELSE Absent
                  /\ \A h \in Hosts : h # e.host =>
                       ComponentsWritten(w)'[c][h] = components[c][h]
             ELSE ComponentsWritten(w)'[c] = components[c]
    BY <2>1, HeartbeatComponentsDoes
  <2>3. ASSUME NEW h \in Hosts, NEW c \in Components
        PROVE  CountsAs(ComponentsWritten(w)'[c], h, c, new)
    <3>1. CountsAs(components[c], h, c, new)
      BY <1>1 DEF ComponentsAs
    <3>2. CASE ComponentsWritten(w)'[c][h] = components[c][h]
      BY <3>1, <3>2 DEF CountsAs
    <3>3. CASE /\ h = e.host /\ e.loads[c] # Absent
               /\ \A a \in Anns : ComponentsWritten(w)'[c][h][a] =
                    IF a = e.loads[c].ann THEN e.loads[c].count ELSE Absent
      <4>1. new.runs[h][c] = e.loads[c]
        BY <1>2, <3>3
      <4>2. e.loads[c].count # Absent
        <5>1. e.loads[c] \in Loads
          BY <1>2, <3>3, ViewFacts
        <5> QED
          BY <5>1, LatticeStateAssumption DEF Loads
      <4> QED
        BY <3>3, <4>1, <4>2 DEF CountsAs, RunsIn
    <3> QED
      BY <2>2, <3>2, <3>3
  <2>4. ComponentsAs(ComponentsWritten(w), new)'
    BY <2>3 DEF ComponentsAs, CountsAs, RunsIn
  <2>5. WritesComponents(w, proc[w].todo, new)'
    BY <2>1, <2>2, <2>4 DEF WritesComponents, Moves
  <2> QED
    BY <2>2, <2>5, BetweenSame DEF Beating, Moves
<1>7. CASE WritesComponents(w, proc[w].todo, new)
  <2>1. /\ Moves(w) /\ proc'[w].todo = <<>> /\ UNCHANGED <<hosts, providers>>
        /\ \A c \in Components : components'[c] = ComponentsWritten(w)[c]
        /\ ComponentsAs(ComponentsWritten(w), new) /\ ComponentsAs(components, new)'
    BY <1>7, ComponentsAreWritten
  <2>2. Between(v, e, new)'
    BY <2>1, ComponentsWriteBetween
  <2>3. Agrees(new)'
    BY <1>1, <2>1, SameAs DEF Agrees
  <2> QED
    BY <2>1, <2>2, <2>3 DEF Beating, Moves
<1>8. proc[w].todo # <<>>
  BY HandleAt
<1> QED
  BY <1>3, <1>4, <1>5, <1>6, <1>7, <1>8 DEF Beating

(* A host that has stopped runs nothing, and only what its entry in the    *)
(* store names was known to run on it.                                     *)
LEMMA StoppedRunsNothing ==
  ASSUME NEW e \in Events, NEW v \in Views, NEW new \in Views, Leads(v, e, new),
         Between(v, e, new), e.type = "host_stopped"
  PROVE  /\ e.host \in Hosts /\ new.power[e.host] = "down"
         /\ \A inst : \A c \in Components :
              CountsAs(inst, e.host, c, new) <=> \A a \in Anns : inst[e.host][a] \in {0, Absent}
         /\ \A p \in Providers : new.health[e.host][p] = Absent
         /\ hosts[e.host] # NoHost =>
              /\ \A c \in Components : c \notin hosts[e.host].components =>
                   CountsAs(components[c], e.host, c, new)
              /\ \A p \in Providers : p \notin hosts[e.host].providers =>
                   providers[p][e.host] = Absent
<1>1. e.host \in Hosts
  BY EventFacts
<1>2. /\ v.power[e.host] = "up" /\ new.power[e.host] = "down"
      /\ \A c \in Components : new.runs[e.host][c] = Absent
      /\ \A p \in Providers : new.health[e.host][p] = Absent
  BY LeadsTo
<1>3. Absent # 0
  BY LatticeStateAssumption
<1>4. \A c \in Components, a \in Anns : RunsIn(new, e.host, c, a) = 0
  BY <1>2 DEF RunsIn
<1>5. \A inst : \A c \in Components :
        CountsAs(inst, e.host, c, new) <=> \A a \in Anns : inst[e.host][a] \in {0, Absent}
  BY <1>3, <1>4 DEF CountsAs
<1>6. ASSUME hosts[e.host] # NoHost
      PROVE  /\ \A c \in Components : c \notin hosts[e.host].components =>
                  CountsAs(components[c], e.host, c, new)
             /\ \A p \in Providers : p \notin hosts[e.host].providers =>
                  providers[p][e.host] = Absent
  <2>1. HostAs(e.host, v)
    BY <1>1, <1>2, <1>6 DEF Between, HostAs
  <2>2. /\ hosts[e.host].components = {c \in Components : v.runs[e.host][c] # Absent}
        /\ hosts[e.host].providers = {p \in Providers : v.health[e.host][p] # Absent}
    BY <1>2, <2>1 DEF HostAs, RecAs
  <2>3. ASSUME NEW c \in Components, c \notin hosts[e.host].components
        PROVE  CountsAs(components[c], e.host, c, new)
    <3>1. v.runs[e.host][c] = Absent
      BY <2>2, <2>3
    <3>2. \A a \in Anns : RunsIn(v, e.host, c, a) = 0
      BY <3>1 DEF RunsIn
    <3> QED
      BY <1>1, <1>4, <3>2 DEF Between, CountsAs
  <2>4. ASSUME NEW p \in Providers, p \notin hosts[e.host].providers
        PROVE  providers[p][e.host] = Absent
    BY <1>1, <1>2, <2>2, <2>4 DEF Between
  <2> QED
    BY <2>3, <2>4
<1> QED
  BY <1>1, <1>2, <1>5, <1>6

LEMMA StoppingComponentsStep ==
  ASSUME TInv, NEW w \in Workers, Handle(w), NEW e \in Events, e = Event(w),
         NEW v \in Views, NEW new \in Views, Leads(v, e, new), Between(v, e, new),
         e.type = "host_stopped", hosts[e.host] # NoHost, proc[w].host = hosts[e.host],
         StopsComponents(w, new)
  PROVE  Between(v, e, new)' /\ Stopping(w, new)' /\ Stays(w)
<1>1. e.host \in Hosts
  BY EventFacts
<1>2. CASE proc[w].todo = <<"list_components", "put_components", "del_components",
                            "list_providers", "put_providers", "del_providers", "del_host">>
  <2>1. /\ StoppedComponents(w)
        /\ Tail(proc[w].todo) = <<"put_components", "del_components",
                      "list_providers", "put_providers", "del_providers", "del_host">>
    BY <1>2, HandleAt, HeadAndTail
  <2>2. /\ Moves(w) /\ UNCHANGED store /\ proc'[w].host = proc[w].host
        /\ proc'[w].put \cap proc'[w].del = {}
        /\ \A c \in Components :
             IF c \in proc[w].host.components /\ components[c] # NoInstances
             THEN ComponentsWritten(w)'[c] = [components[c] EXCEPT ![e.host] = NoInstances[e.host]]
             ELSE ComponentsWritten(w)'[c] = components[c]
    BY <2>1, StoppedComponentsDoes
  <2>3. ASSUME NEW h \in Hosts, NEW c \in Components
        PROVE  CountsAs(ComponentsWritten(w)'[c], h, c, new)
    <3> DEFINE after == ComponentsWritten(w)'[c]
    <3>1. components[c] \in Instances
      BY DEF TInv, TypeOK
    <3>2. CASE h = e.host
      <4>1. CASE c \in proc[w].host.components /\ components[c] # NoInstances
        <5>1. after = [components[c] EXCEPT ![e.host] = NoInstances[e.host]]
          BY <2>2, <4>1
        <5>2. \A a \in Anns : after[e.host][a] = Absent
          BY <1>1, <3>1, <5>1 DEF Instances, NoInstances
        <5> QED
          BY <3>2, <5>2, StoppedRunsNothing
      <4>2. CASE components[c] = NoInstances
        <5>1. \A a \in Anns : after[e.host][a] = Absent
          BY <1>1, <2>2, <4>2 DEF NoInstances
        <5> QED
          BY <3>2, <5>1, StoppedRunsNothing
      <4>3. CASE c \notin proc[w].host.components
        BY <2>2, <3>2, <4>3, StoppedRunsNothing
      <4> QED
        BY <4>1, <4>2, <4>3
    <3>3. CASE h # e.host
      <4>1. after[h] = components[c][h]
        BY <2>2, <3>1, <3>3 DEF Instances
      <4>2. CountsAs(components[c], h, c, new)
        BY <3>3, BetweenElsewhere DEF Touches
      <4> QED
        BY <4>1, <4>2 DEF CountsAs
    <3> QED
      BY <3>2, <3>3
  <2>4. ComponentsAs(ComponentsWritten(w), new)'
    BY <2>3 DEF ComponentsAs, CountsAs, RunsIn
  <2>5. proc'[w].todo = <<"put_components", "del_components",
                          "list_providers", "put_providers", "del_providers", "del_host">>
    BY <2>1, <2>2 DEF Moves
  <2>6. StopsComponents(w, new)'
    BY <2>2, <2>4, <2>5 DEF StopsComponents
  <2> QED
    BY <2>2, <2>6, BetweenSame DEF Stopping, Moves, Stays, store
<1>3. CASE /\ proc[w].todo = <<"put_components", "del_components",
                               "list_providers", "put_providers", "del_providers", "del_host">>
           /\ proc[w].put \cap proc[w].del = {} /\ ComponentsAs(ComponentsWritten(w), new)
  <2>1. /\ PutComponents(w)
        /\ Tail(proc[w].todo) = <<"del_components",
                      "list_providers", "put_providers", "del_providers", "del_host">>
    BY <1>3, HandleAt, HeadAndTail
  <2>2. /\ Moves(w) /\ UNCHANGED <<hosts, providers>>
        /\ proc'[w].put = {} /\ proc'[w].host = proc[w].host
        /\ \A c \in Components : components'[c] \in {components[c], ComponentsWritten(w)[c]}
        /\ \A c \in Components : ComponentsWritten(w)'[c] = ComponentsWritten(w)[c]
    BY <1>3, <2>1, PutComponentsDoes
  <2>3. Between(v, e, new)'
    BY <1>3, <2>2, ComponentsWriteBetween
  <2>4. ComponentsAs(ComponentsWritten(w)', new)
    BY <1>3, <2>2, SameCounts
  <2>5. ComponentsAs(ComponentsWritten(w), new)'
    BY <2>4 DEF ComponentsAs, CountsAs, RunsIn
  <2>6. StopsComponents(w, new)'
    BY <2>1, <2>2, <2>5 DEF StopsComponents, Moves
  <2> QED
    BY <2>2, <2>3, <2>6 DEF Stopping, Moves, Stays
<1>4. CASE /\ proc[w].todo = <<"del_components",
                               "list_providers", "put_providers", "del_providers", "del_host">>
           /\ proc[w].put = {} /\ ComponentsAs(ComponentsWritten(w), new)
  <2>1. /\ DelComponents(w)
        /\ Tail(proc[w].todo) = <<"list_providers", "put_providers", "del_providers", "del_host">>
    BY <1>4, HandleAt, HeadAndTail
  <2>2. /\ Moves(w) /\ UNCHANGED <<hosts, providers>> /\ proc'[w].host = proc[w].host
        /\ \A c \in Components : components'[c] = ComponentsWritten(w)[c]
    BY <1>4, <2>1, DelComponentsDoes
  <2>3. Between(v, e, new)'
    BY <1>4, <2>2, ComponentsWriteBetween
  <2>4. ComponentsAs(components', new)
    BY <1>4, <2>2, SameCounts
  <2>5. ComponentsAs(components, new)'
    BY <2>4 DEF ComponentsAs, CountsAs, RunsIn
  <2>6. StopsComponents(w, new)'
    BY <2>1, <2>2, <2>5 DEF StopsComponents, Moves
  <2> QED
    BY <2>2, <2>3, <2>6 DEF Stopping, Moves, Stays
<1>5. CASE /\ proc[w].todo = <<"list_providers", "put_providers", "del_providers", "del_host">>
           /\ ComponentsAs(components, new)
  <2>1. StoppedProviders(w) /\ Tail(proc[w].todo) = <<"put_providers", "del_providers", "del_host">>
    BY <1>5, HandleAt, HeadAndTail
  <2>2. /\ Moves(w) /\ UNCHANGED store /\ proc'[w].put \cap proc'[w].del = {}
        /\ \A q \in Providers, k \in Hosts : ProvidersWritten(w)'[q][k] =
             IF k = e.host /\ q \in proc[w].host.providers THEN Absent ELSE providers[q][k]
    BY <2>1, StoppedProvidersDoes
  <2>3. \A q \in Providers, k \in Hosts : k # e.host => providers[q][k] = new.health[k][q]
    BY BetweenElsewhere DEF Concerns
  <2>4. /\ \A q \in Providers : new.health[e.host][q] = Absent
        /\ \A q \in Providers : q \notin proc[w].host.providers => providers[q][e.host] = Absent
    BY StoppedRunsNothing
  <2>5. \A q \in Providers, k \in Hosts : ProvidersWritten(w)'[q][k] = new.health[k][q]
    BY <2>2, <2>3, <2>4
  <2>6. ProvidersAs(ProvidersWritten(w), new)'
    BY <2>5 DEF ProvidersAs
  <2>7. ComponentsAs(components, new)'
    BY <1>5, <2>2, SameAs DEF store
  <2>8. StopsProviders(w, new)'
    BY <2>1, <2>2, <2>6, <2>7 DEF StopsProviders, Moves
  <2> QED
    BY <2>2, <2>8, BetweenSame DEF Stopping, Moves, Stays, store
<1> QED
  BY <1>2, <1>3, <1>4, <1>5 DEF StopsComponents

LEMMA StoppingProvidersStep ==
  ASSUME TInv, NEW w \in Workers, Handle(w), NEW e \in Events, e = Event(w),
         NEW v \in Views, NEW new \in Views, Leads(v, e, new), Between(v, e, new),
         e.type = "host_stopped", hosts[e.host] # NoHost, StopsProviders(w, new)
  PROVE  Between(v, e, new)' /\ Stopping(w, new)' /\ Stays(w)
<1>1. ComponentsAs(components, new)
  BY DEF StopsProviders
<1>2. CASE /\ proc[w].todo = <<"put_providers", "del_providers", "del_host">>
           /\ proc[w].put \cap proc[w].del = {} /\ ProvidersAs(ProvidersWritten(w), new)
  <2>1. PutProviders(w) /\ Tail(proc[w].todo) = <<"del_providers", "del_host">>
    BY <1>2, HandleAt, HeadAndTail
  <2>2. /\ Moves(w) /\ UNCHANGED <<hosts, components>> /\ proc'[w].put = {}
        /\ \A p \in Providers : providers'[p] \in {providers[p], ProvidersWritten(w)[p]}
        /\ \A p \in Providers : ProvidersWritten(w)'[p] = ProvidersWritten(w)[p]
    BY <1>2, <2>1, PutProvidersDoes
  <2>3. Between(v, e, new)'
    BY <1>2, <2>2, ProvidersWriteBetween
  <2>4. ProvidersAs(ProvidersWritten(w)', new)
    BY <1>2, <2>2, SameCounts
  <2>5. ProvidersAs(ProvidersWritten(w), new)'
    BY <2>4 DEF ProvidersAs
  <2>6. StopsProviders(w, new)'
    BY <1>1, <2>1, <2>2, <2>5, SameAs DEF StopsProviders, Moves
  <2> QED
    BY <2>2, <2>3, <2>6 DEF Stopping, Moves, Stays
<1>3. CASE /\ proc[w].todo = <<"del_providers", "del_host">>
           /\ proc[w].put = {} /\ ProvidersAs(ProvidersWritten(w), new)
  <2>1. DelProviders(w) /\ Tail(proc[w].todo) = <<"del_host">>
    BY <1>3, HandleAt, HeadAndTail
  <2>2. /\ Moves(w) /\ UNCHANGED <<hosts, components>>
        /\ \A p \in Providers : providers'[p] = ProvidersWritten(w)[p]
    BY <1>3, <2>1, DelProvidersDoes
  <2>3. Between(v, e, new)'
    BY <1>3, <2>2, ProvidersWriteBetween
  <2>4. ProvidersAs(providers', new)
    BY <1>3, <2>2, SameCounts
  <2>5. ProvidersAs(providers, new)'
    BY <2>4 DEF ProvidersAs
  <2>6. StopsProviders(w, new)'
    BY <1>1, <2>1, <2>2, <2>5, SameAs DEF StopsProviders, Moves
  <2> QED
    BY <2>2, <2>3, <2>6 DEF Stopping, Moves, Stays
<1>4. CASE proc[w].todo = <<"del_host">> /\ ProvidersAs(providers, new)
  <2>1. DelStoppedHost(w) /\ Tail(proc[w].todo) = <<>>
    BY <1>4, HandleAt, HeadAndTail
  <2>2. /\ Moves(w) /\ UNCHANGED <<components, providers>>
        /\ hosts'[e.host] = NoHost
        /\ \A h \in Hosts : h # e.host => hosts'[h] = hosts[h]
    BY <2>1, DelHostDoes
  <2>3. \A h \in Hosts : h # e.host => HostAs(h, new)
    BY BetweenElsewhere
  <2>4. \A h \in Hosts : HostAs(h, new)'
    BY <2>2, <2>3, StoppedRunsNothing DEF HostAs, RecAs
  <2>5. Agrees(new)'
    BY <1>1, <1>4, <2>2, <2>4, SameAs DEF Agrees, HostsAs
  <2>6. Renews(new)
    BY <2>2, <2>4 DEF Renews
  <2>7. Between(v, e, new)'
    BY <1>1, <1>4, <2>2, <2>6, BetweenStep
  <2> QED
    BY <2>1, <2>2, <2>5, <2>7 DEF Stopping, Moves
<1> QED
  BY <1>2, <1>3, <1>4 DEF StopsProviders

LEMMA StoppingStep ==
  ASSUME TInv, NEW w \in Workers, Handle(w), NEW e \in Events, e = Event(w),
         NEW v \in Views, NEW new \in Views, Leads(v, e, new), Between(v, e, new),
         e.type = "host_stopped", Stopping(w, new)
  PROVE  Between(v, e, new)' /\ Stopping(w, new)' /\ Stays(w)
<1>1. CASE proc[w].todo = StoppedSteps
  <2>1. /\ GetStoppedHost(w)
        /\ Tail(proc[w].todo) = <<"list_components", "put_components", "del_components",
                      "list_providers", "put_providers", "del_providers", "del_host">>
    BY <1>1, HandleAt, HeadAndTail DEF StoppedSteps
  <2>2. /\ Stays(w) /\ UNCHANGED store
        /\ IF hosts[e.host] = NoHost THEN proc'[w].todo = <<>>
           ELSE proc'[w].todo = Tail(proc[w].todo) /\ proc'[w].host = hosts[e.host]
    BY <2>1, GetStoppedHostDoes
  <2>3. CASE hosts[e.host] = NoHost
    <3>1. ComponentsAs(components, new) /\ ProvidersAs(providers, new)
      BY <2>3 DEF Between
    <3>2. HostsAs(new)
      BY <2>3, BetweenElsewhere, StoppedRunsNothing DEF HostsAs, HostAs
    <3>3. Agrees(new)'
      BY <2>2, <3>1, <3>2, SameAs DEF Agrees, store
    <3> QED
      BY <2>2, <2>3, <3>3, BetweenSame DEF Stopping
  <2>4. CASE hosts[e.host] # NoHost
    <3>1. StopsComponents(w, new)'
      BY <2>1, <2>2, <2>4 DEF StopsComponents
    <3> QED
      BY <2>2, <2>4, <3>1, BetweenSame DEF Stopping, Stays, store
  <2> QED
    BY <2>3, <2>4
<1>2. proc[w].todo # <<>>
  BY HandleAt
<1> QED
  BY <1>1, <1>2, StoppingComponentsStep, StoppingProvidersStep DEF Stopping

(* Every operation of every handler stays between the two views.           *)
LEMMA ProgressStep ==
  ASSUME TInv, NEW w \in Workers, Handle(w), NEW e \in Events, e = Event(w),
         NEW v \in Views, NEW new \in Views, Leads(v, e, new), Between(v, e, new),
         Underway(w, new)
  PROVE  Between(v, e, new)' /\ Underway(w, new)' /\ Stays(w)
<1>1. CASE e.type = "host_started"
  BY <1>1, StartingStep DEF Underway, Stays
<1>2. CASE e.type = "host_stopped"
  BY <1>2, StoppingStep DEF Underway, Stays
<1>3. CASE e.type = "host_heartbeat"
  BY <1>3, BeatingStep DEF Underway, Stays
<1>4. CASE e.type = "component_scaled"
  BY <1>4, ScalingStep DEF Underway, Stays
<1>5. CASE e.type = "provider_started"
  BY <1>5, ProviderStartingStep DEF Underway, Stays
<1>6. CASE e.type = "provider_stopped"
  BY <1>6, ProviderStoppingStep DEF Underway, Stays
<1>7. CASE e.type = "health_check"
  BY <1>7, CheckingStep DEF Underway, Stays
<1> QED
  BY <1>1, <1>2, <1>3, <1>4, <1>5, <1>6, <1>7, EventFacts
-----------------------------------------------------------------------------
(* The messages that are to be handled, and the one at work.               *)
LEMMA FromFacts ==
  ASSUME TInv, NEW hist, hist \in [0 .. lastSeq -> Views], History(hist),
         NEW k \in 1 .. lastSeq + 1, From(hist, k)
  PROVE  /\ lastSeq \in Nat /\ k \in Nat /\ k # 0 /\ DOMAIN stream = k .. lastSeq
         /\ k \in DOMAIN stream <=> k <= lastSeq
         /\ \A i \in DOMAIN stream :
              /\ i \in 1 .. lastSeq /\ stream[i].event \in Events
              /\ hist[i - 1] \in Views /\ hist[i] \in Views
              /\ Leads(hist[i - 1], stream[i].event, hist[i]) /\ Sane(hist[i - 1])
         /\ Now \in Views /\ Sane(Now)
<1>1. /\ lastSeq \in Nat /\ DOMAIN stream \in SUBSET (1 .. lastSeq)
      /\ \A i \in DOMAIN stream : stream[i].event \in Events
  BY DEF TInv, TypeOK
<1>2. k \in Nat /\ k # 0 /\ DOMAIN stream = k .. lastSeq /\ (k \in DOMAIN stream <=> k <= lastSeq)
  BY <1>1 DEF From
<1>3. ASSUME NEW i \in DOMAIN stream
      PROVE  i \in 1 .. lastSeq /\ i - 1 \in 0 .. lastSeq /\ i \in 0 .. lastSeq
  BY <1>1
<1>4. ASSUME NEW i \in DOMAIN stream
      PROVE  /\ i \in 1 .. lastSeq /\ stream[i].event \in Events
             /\ hist[i - 1] \in Views /\ hist[i] \in Views
             /\ Leads(hist[i - 1], stream[i].event, hist[i]) /\ Sane(hist[i - 1])
  BY <1>1, <1>3 DEF History
<1>5. lastSeq \in 0 .. lastSeq
  BY <1>1
<1>6. Now \in Views /\ Sane(Now)
  BY <1>5 DEF History
<1> QED
  BY <1>1, <1>2, <1>4, <1>6

LEMMA HistorySame ==
  ASSUME NEW hist, History(hist), UNCHANGED <<lattice, lastSeq>>,
         DOMAIN stream' \subseteq DOMAIN stream,
         \A i \in DOMAIN stream' : stream'[i].event = stream[i].event
  PROVE  History(hist)'
BY DEF History, Now, lattice

(* An operation of the handler at work.                                    *)
LEMMA HandleKeeps ==
  ASSUME OneWorker, TInv, NEW w \in Workers, Handle(w),
         NEW hist, hist \in [0 .. lastSeq -> Views], History(hist),
         NEW k \in 1 .. lastSeq + 1, From(hist, k)
  PROVE  History(hist)' /\ From(hist, k)'
<1>1. UNCHANGED <<lattice, delivery>>
  BY HandleTyped
<1>2. Busy(w)
  <2>1. \E op : At(w, op)
    BY HandleAt DEF At
  <2> QED
    BY <2>1, WorkerFacts
<1> DEFINE e == stream[k].event
           v == hist[k - 1]
           new == hist[k]
<1>3. /\ k \in DOMAIN stream /\ proc[w].seq = k /\ Event(w) = e /\ Underway(w, new)
      /\ e \in Events /\ v \in Views /\ new \in Views /\ Leads(v, e, new)
      /\ k <= lastSeq /\ Between(v, e, new)
  <2>1. k \in DOMAIN stream /\ proc[w].seq = k /\ Event(w) = e /\ Underway(w, new)
    BY <1>2 DEF From
  <2>2. k <= lastSeq /\ lastSeq \in Nat /\ k \in Nat
    BY <2>1, FromFacts
  <2>3. Between(v, e, new)
    BY <2>2 DEF From
  <2> QED
    BY <2>1, <2>2, <2>3, FromFacts
<1>4. e' = e /\ lastSeq' = lastSeq /\ stream' = stream
  BY <1>1 DEF delivery
<1>5. ASSUME NEW ev, ev = e
      PROVE  Between(v, ev, new)' /\ Underway(w, new)' /\ Stays(w)
  BY <1>3, <1>5, ProgressStep
<1>6. Between(v, e, new)' /\ Underway(w, new)' /\ Stays(w)
  <2>1. PICK ev : ev = e
    OBVIOUS
  <2>2. Between(v, ev, new)' /\ Underway(w, new)' /\ Stays(w)
    BY <1>5, <2>1
  <2>3. e' = ev
    BY <1>4, <2>1
  <2> QED
    BY <2>2, <2>3
<1>7. \A u \in Workers : u = w
  BY DEF OneWorker
<1>8. /\ proc'[w].seq = k /\ proc'[w].event = e
  BY <1>3, <1>6 DEF Stays, Event
<1>9. History(hist)'
  BY <1>1, HistorySame DEF delivery
<1>10. From(hist, k)'
  <2>1. DOMAIN stream' = k .. lastSeq'
    BY <1>4 DEF From
  <2>2. ~(k > lastSeq')
    BY <1>3, <1>4, FromFacts
  <2>3. Between(hist[k - 1], stream[k].event, hist[k])'
    BY <1>6
  <2>4. \A u \in Workers : Busy(u)' =>
          /\ k \in DOMAIN stream' /\ proc'[u].seq = k /\ Event(u)' = stream'[k].event
          /\ Underway(u, hist[k])'
    BY <1>3, <1>4, <1>6, <1>7, <1>8 DEF Event
  <2>5. \A i \in DOMAIN stream' : stream'[i].state = "due" <=> \A u \in Workers : proc'[u].seq # i
    BY <1>3, <1>4, <1>7, <1>8 DEF From
  <2> QED
    BY <2>1, <2>2, <2>3, <2>4, <2>5 DEF From
<1> QED
  BY <1>9, <1>10

(* A handler starts with what it reads first, and ends when all is new.    *)
LEMMA ProgressStarts ==
  ASSUME NEW w, NEW e \in Events, NEW v \in Views, NEW new \in Views, Leads(v, e, new), Sane(v),
         Event(w)' = e, proc'[w].todo = Steps(e), proc'[w].host = HostFrom(e)
  PROVE  Underway(w, new)'
<1>1. e.host \in Hosts
  BY EventFacts
<1>2. CASE e.type = "host_started"
  <2>1. proc'[w].todo = <<"put_host">> /\ proc'[w].host = EmptyHost
    BY <1>2 DEF Steps, HostFrom
  <2>2. EmptyHost # NoHost /\ EmptyHost.components = {} /\ EmptyHost.providers = {}
    <3>1. EmptyHost \in HostRec
      BY DEF EmptyHost, HostRec
    <3> QED
      BY <3>1, LatticeStateAssumption DEF EmptyHost, HostRec
  <2>3. v.power[e.host] # "up" /\ new.runs = v.runs /\ new.health = v.health
    BY <1>2 DEF Leads
  <2>4. /\ \A c \in Components : new.runs[e.host][c] = Absent
        /\ \A p \in Providers : new.health[e.host][p] = Absent
    BY <1>1, <2>3 DEF Sane
  <2>5. RecAs(proc[w].host, Event(w).host, new)'
    BY <2>1, <2>2, <2>4 DEF RecAs
  <2> QED
    BY <1>2, <2>1, <2>5 DEF Underway, Starting
<1>3. CASE e.type = "host_heartbeat"
  <2>1. /\ proc'[w].todo = <<"put_host", "list_providers", "put_providers",
                            "list_components", "put_components">>
        /\ proc'[w].host = [components |-> {c \in Components : e.loads[c] # Absent},
                           providers |-> e.providers, old |-> FALSE]
    BY <1>3 DEF Steps, HostFrom
  <2>2. /\ new = v /\ e.loads = v.runs[e.host]
        /\ e.providers = {p \in Providers : v.health[e.host][p] # Absent}
    BY <1>3 DEF Leads
  <2>3. proc'[w].host # NoHost
    <3>1. e.providers \in SUBSET Providers
      BY <1>3, EventFacts
    <3>2. proc'[w].host \in HostRec
      BY <2>1, <3>1 DEF HostRec
    <3> QED
      BY <3>2, LatticeStateAssumption DEF HostRec
  <2>4. RecAs(proc[w].host, Event(w).host, new)'
    <3>1. proc'[w].host.components = {c \in Components : e.loads[c] # Absent}
      BY <2>1
    <3>2. proc'[w].host.providers = e.providers
      BY <2>1
    <3>3. proc'[w].host.components = {c \in Components : new.runs[e.host][c] # Absent}
      BY <2>2, <3>1
    <3>4. proc'[w].host.providers = {p \in Providers : new.health[e.host][p] # Absent}
      BY <2>2, <3>2
    <3> QED
      BY <2>3, <3>3, <3>4 DEF RecAs
  <2>5. Beating(w, new)'
    BY <2>1, <2>4 DEF Beating
  <2> QED
    BY <1>3, <2>5 DEF Underway
<1>4. CASE e.type = "host_stopped"
  <2>1. proc'[w].todo = StoppedSteps
    BY <1>4 DEF Steps
  <2> QED
    BY <1>4, <2>1 DEF Underway, Stopping
<1>5. CASE e.type = "component_scaled"
  <2>1. proc'[w].todo = <<"get_component", "get_host", "put_host", "put_components">>
    BY <1>5 DEF Steps
  <2> QED
    BY <1>5, <2>1 DEF Underway, Scaling
<1>6. CASE e.type = "provider_started"
  <2>1. proc'[w].todo = <<"get_provider", "get_host", "put_host", "put_providers">>
    BY <1>6 DEF Steps
  <2> QED
    BY <1>6, <2>1 DEF Underway, ProviderStarting
<1>7. CASE e.type = "provider_stopped"
  <2>1. proc'[w].todo = <<"get_host", "put_host", "get_provider", "put_providers">>
    BY <1>7 DEF Steps
  <2> QED
    BY <1>7, <2>1 DEF Underway, ProviderStopping
<1>8. CASE e.type = "health_check"
  <2>1. proc'[w].todo = <<"get_provider", "put_providers">>
    BY <1>8 DEF Steps
  <2> QED
    BY <1>8, <2>1 DEF Underway, Checking
<1> QED
  BY <1>2, <1>3, <1>4, <1>5, <1>6, <1>7, <1>8, EventFacts

LEMMA ProgressEnds ==
  ASSUME NEW w, Event(w) \in Events, NEW new, Underway(w, new), proc[w].todo = <<>>
  PROVE  Agrees(new)
<1>1. ~WritesComponents(w, proc[w].todo, new) /\ ~WritesProviders(w, proc[w].todo, new)
  BY HeadAndTail DEF WritesComponents, WritesProviders
<1>2. CASE Event(w).type = "host_started"
  BY <1>2, HeadAndTail DEF Underway, Starting
<1>3. CASE Event(w).type = "host_stopped"
  BY <1>3, HeadAndTail DEF Underway, Stopping, StopsComponents, StopsProviders, StoppedSteps
<1>4. CASE Event(w).type = "host_heartbeat"
  BY <1>1, <1>4, HeadAndTail DEF Underway, Beating
<1>5. CASE Event(w).type = "component_scaled"
  BY <1>5, HeadAndTail DEF Underway, Scaling
<1>6. CASE Event(w).type = "provider_started"
  BY <1>6, HeadAndTail DEF Underway, ProviderStarting
<1>7. CASE Event(w).type = "provider_stopped"
  BY <1>1, <1>7, HeadAndTail DEF Underway, ProviderStopping
<1>8. CASE Event(w).type = "health_check"
  BY <1>1, <1>8, HeadAndTail DEF Underway, Checking
<1> QED
  BY <1>2, <1>3, <1>4, <1>5, <1>6, <1>7, <1>8, EventFacts

(* What is said of the store and the lattice only.                         *)
LEMMA SameStore ==
  ASSUME NEW v, NEW e, NEW new, UNCHANGED store
  PROVE  /\ Between(v, e, new) => Between(v, e, new)'
         /\ Agrees(new) => Agrees(new)'
BY BetweenSame, SameAs DEF Agrees, store

(* The message that is delivered is the first one that is left.            *)
LEMMA DeliverKeeps ==
  ASSUME OneWorker, TInv, NEW w \in Workers, Deliver(w),
         NEW hist, hist \in [0 .. lastSeq -> Views], History(hist),
         NEW k \in 1 .. lastSeq + 1, From(hist, k)
  PROVE  History(hist)' /\ From(hist, k)'
<1>1. PICK i \in Due :
        /\ \A j \in Due : i <= j
        /\ stream' = [stream EXCEPT ![i].state = "out", ![i].tries = @ + 1]
        /\ Become(w, [Idle EXCEPT !.todo = Steps(stream[i].event), !.seq = i,
                        !.event = stream[i].event, !.host = HostFrom(stream[i].event)])
  BY DEF Deliver
<1>2. \A u \in Workers : u = w
  BY DEF OneWorker
<1>3. proc[w].seq = 0 /\ UNCHANGED <<lattice, store, lastSeq>>
  BY DEF Deliver, Busy
<1>4. i \in DOMAIN stream
  BY <1>1 DEF Due
<1>5. \A j \in DOMAIN stream : stream[j].state = "due"
  <2>1. \A j \in DOMAIN stream : j # 0
    BY FromFacts
  <2> QED
    BY <1>2, <1>3, <2>1 DEF From
<1>6. i = k /\ k <= lastSeq /\ k \in DOMAIN stream
  <2>1. DOMAIN stream = k .. lastSeq /\ lastSeq \in Nat /\ k \in Nat
    BY FromFacts
  <2>2. k \in DOMAIN stream /\ k <= i /\ k <= lastSeq
    BY <1>4, <2>1
  <2>3. i <= k
    BY <1>1, <1>5, <2>2 DEF Due
  <2> QED
    BY <1>4, <2>1, <2>2, <2>3
<1> DEFINE e == stream[k].event
           rec == [Idle EXCEPT !.todo = Steps(e), !.seq = k, !.event = e, !.host = HostFrom(e)]
<1>7. /\ DOMAIN stream' = DOMAIN stream
      /\ \A j \in DOMAIN stream : stream'[j].event = stream[j].event
      /\ \A j \in DOMAIN stream : j # k => stream'[j] = stream[j]
      /\ stream'[k].state = "out"
  <2>1. \A j \in DOMAIN stream :
          stream[j] \in [event : Events, tries : 0 .. MaxDeliver, state : {"due", "out"}]
    BY DEF TInv, TypeOK
  <2> QED
    BY <1>1, <1>6, <2>1
<1>8. /\ e \in Events /\ hist[k - 1] \in Views /\ hist[k] \in Views
      /\ Leads(hist[k - 1], e, hist[k]) /\ Sane(hist[k - 1]) /\ k # 0
  BY <1>6, FromFacts
<1>9. /\ proc'[w].todo = Steps(e) /\ proc'[w].seq = k /\ proc'[w].event = e
      /\ proc'[w].host = HostFrom(e)
  <2>1. proc'[w] = rec
    BY <1>1, <1>6, Becomes
  <2> HIDE DEF e
  <2>2. /\ rec.todo = Steps(e) /\ rec.seq = k /\ rec.event = e /\ rec.host = HostFrom(e)
    BY DEF Idle
  <2> QED
    BY <2>1, <2>2
<1>10. Underway(w, hist[k])'
  <2> DEFINE now == proc'[w]
  <2>1. PICK ev \in Events : ev = e
    BY <1>8
  <2>2. Leads(hist[k - 1], ev, hist[k])
    BY <1>8, <2>1
  <2>3. /\ Event(w)' = ev /\ proc'[w].todo = Steps(ev) /\ proc'[w].host = HostFrom(ev)
    BY <1>9, <2>1 DEF Event
  <2> HIDE DEF e, now
  <2> QED
    BY <1>8, <2>2, <2>3, ProgressStarts
<1>11. History(hist)'
  BY <1>3, <1>7, HistorySame
<1>12. From(hist, k)'
  <2>1. DOMAIN stream' = k .. lastSeq' /\ ~(k > lastSeq')
    BY <1>3, <1>6, <1>7, FromFacts
  <2>2. Between(hist[k - 1], stream[k].event, hist[k])'
    <3>1. Between(hist[k - 1], e, hist[k])
      <4>1. ~(k > lastSeq)
        BY <1>6, FromFacts
      <4> QED
        BY <4>1 DEF From
    <3>2. PICK ev : ev = e
      OBVIOUS
    <3>3. Between(hist[k - 1], ev, hist[k])'
      BY <1>3, <3>1, <3>2, SameStore
    <3>4. stream'[k].event = ev
      BY <1>6, <1>7, <3>2
    <3> QED
      BY <3>3, <3>4
  <2>3. \A u \in Workers : Busy(u)' =>
          /\ k \in DOMAIN stream' /\ proc'[u].seq = k /\ Event(u)' = stream'[k].event
          /\ Underway(u, hist[k])'
    BY <1>2, <1>6, <1>7, <1>9, <1>10 DEF Event
  <2>4. \A j \in DOMAIN stream' : stream'[j].state = "due" <=> \A u \in Workers : proc'[u].seq # j
    BY <1>2, <1>5, <1>7, <1>9
  <2> QED
    BY <2>1, <2>2, <2>3, <2>4 DEF From
<1> QED
  BY <1>11, <1>12

(* A message that is handled leaves the history, whose next view is then   *)
(* what the store knows.                                                   *)
LEMMA AckKeeps ==
  ASSUME OneWorker, TInv, NEW w \in Workers, Ack(w),
         NEW hist, hist \in [0 .. lastSeq -> Views], History(hist),
         NEW k \in 1 .. lastSeq + 1, From(hist, k)
  PROVE  /\ History(hist)' /\ k + 1 \in 1 .. lastSeq' + 1 /\ From(hist, k + 1)'
<1>1. /\ Busy(w) /\ proc[w].todo = <<>> /\ Become(w, Idle)
      /\ stream' = [i \in DOMAIN stream \ {proc[w].seq} |-> stream[i]]
      /\ UNCHANGED <<lattice, store, lastSeq>>
  BY DEF Ack
<1>2. \A u \in Workers : u = w
  BY DEF OneWorker
<1>3. /\ k \in DOMAIN stream /\ proc[w].seq = k /\ Event(w) = stream[k].event
      /\ Underway(w, hist[k])
  BY <1>1 DEF From
<1>4. lastSeq \in Nat /\ k \in Nat /\ k <= lastSeq /\ DOMAIN stream = k .. lastSeq
  BY <1>3, FromFacts
<1>5. Agrees(hist[k])
  <2>1. Event(w) \in Events
    BY <1>3, FromFacts
  <2> QED
    BY <1>1, <1>3, <2>1, ProgressEnds
<1>6. /\ DOMAIN stream' = k + 1 .. lastSeq'
      /\ \A i \in DOMAIN stream' : i \in DOMAIN stream /\ stream'[i] = stream[i]
  BY <1>1, <1>3, <1>4
<1>7. proc'[w] = Idle
  BY <1>1, Becomes
<1>8. ~Busy(w)' /\ proc'[w].seq = 0
  BY <1>7 DEF Busy, Idle
<1>9. History(hist)'
  BY <1>1, <1>6, HistorySame
<1>10. IF k + 1 > lastSeq' THEN Agrees(Now)'
       ELSE Between(hist[k + 1 - 1], stream[k + 1].event, hist[k + 1])'
  <2>1. CASE k + 1 > lastSeq'
    <3>1. k = lastSeq
      BY <1>1, <1>4, <2>1
    <3>2. Agrees(hist[k])'
      BY <1>1, <1>5, SameStore
    <3>3. Now' = hist[k]
      BY <1>1, <3>1 DEF History, Now, lattice
    <3> QED
      BY <2>1, <3>2, <3>3
  <2>2. CASE ~(k + 1 > lastSeq')
    <3>1. k + 1 \in DOMAIN stream /\ k + 1 \in DOMAIN stream' /\ k + 1 - 1 = k
      BY <1>1, <1>4, <1>6, <2>2
    <3>2. PICK ev : ev = stream[k + 1].event
      OBVIOUS
    <3>3. /\ ev \in Events /\ Leads(hist[k], ev, hist[k + 1])
          /\ hist[k] \in Views /\ hist[k + 1] \in Views
      BY <3>1, <3>2, FromFacts
    <3>4. Between(hist[k], ev, hist[k + 1])
      <4>1. ev.type = "host_stopped" => hist[k].power[ev.host] = "up"
        BY <3>3, LeadsTo
      <4>2. ev.type = "provider_started" => hist[k].health[ev.host][ev.provider] = Absent
        BY <3>3, LeadsProvider
      <4> QED
        BY <1>5, <3>3, <4>1, <4>2, AgreesIsBetween
    <3>5. Between(hist[k], ev, hist[k + 1])'
      BY <1>1, <3>4, SameStore
    <3>6. stream'[k + 1].event = ev
      BY <1>6, <3>1, <3>2
    <3> QED
      BY <2>2, <3>1, <3>5, <3>6
  <2> QED
    BY <2>1, <2>2
<1>11. \A i \in DOMAIN stream' : stream'[i].state = "due" <=> \A u \in Workers : proc'[u].seq # i
  <2>1. \A i \in DOMAIN stream' : i # 0 /\ i # k
    BY <1>4, <1>6
  <2> QED
    BY <1>2, <1>3, <1>6, <1>8, <2>1 DEF From
<1>12. From(hist, k + 1)'
  BY <1>2, <1>6, <1>8, <1>10, <1>11 DEF From
<1> QED
  BY <1>1, <1>4, <1>9, <1>12

(* After a failure the store is as it was, between the two views.          *)
LEMMA NackKeeps ==
  ASSUME OneWorker, TInv, NEW w \in Workers, Nack(w), lost' = {},
         NEW hist, hist \in [0 .. lastSeq -> Views], History(hist),
         NEW k \in 1 .. lastSeq + 1, From(hist, k)
  PROVE  History(hist)' /\ From(hist, k)'
<1>1. /\ Busy(w) /\ Again(proc[w].seq) /\ Become(w, Idle)
      /\ UNCHANGED <<lattice, store, lastSeq>>
  BY DEF Nack
<1>2. \A u \in Workers : u = w
  BY DEF OneWorker
<1>3. /\ k \in DOMAIN stream /\ proc[w].seq = k
  BY <1>1 DEF From
<1>4. lastSeq \in Nat /\ k \in Nat /\ k <= lastSeq /\ DOMAIN stream = k .. lastSeq /\ k # 0
  BY <1>3, FromFacts
<1>5. stream' = [stream EXCEPT ![k].state = "due"]
  BY <1>1, <1>3 DEF Again
<1>6. /\ DOMAIN stream' = DOMAIN stream
      /\ \A j \in DOMAIN stream : stream'[j].event = stream[j].event
      /\ \A j \in DOMAIN stream : j # k => stream'[j] = stream[j]
      /\ stream'[k].state = "due"
  <2>1. \A j \in DOMAIN stream :
          stream[j] \in [event : Events, tries : 0 .. MaxDeliver, state : {"due", "out"}]
    BY DEF TInv, TypeOK
  <2> QED
    BY <1>3, <1>5, <2>1
<1>7. proc'[w] = Idle
  BY <1>1, Becomes
<1>8. ~Busy(w)' /\ proc'[w].seq = 0
  BY <1>7 DEF Busy, Idle
<1>9. History(hist)'
  BY <1>1, <1>6, HistorySame
<1>10. Between(hist[k - 1], stream[k].event, hist[k])'
  <2>1. Between(hist[k - 1], stream[k].event, hist[k])
    <3>1. ~(k > lastSeq)
      BY <1>4
    <3> QED
      BY <3>1 DEF From
  <2>2. PICK ev : ev = stream[k].event
    OBVIOUS
  <2>3. Between(hist[k - 1], ev, hist[k])'
    BY <1>1, <2>1, <2>2, SameStore
  <2>4. stream'[k].event = ev
    BY <1>3, <1>6, <2>2
  <2> QED
    BY <2>3, <2>4
<1>11. \A i \in DOMAIN stream' : stream'[i].state = "due" <=> \A u \in Workers : proc'[u].seq # i
  <2>1. \A i \in DOMAIN stream' : i # 0
    BY <1>4, <1>6
  <2> QED
    BY <1>2, <1>3, <1>6, <1>8, <2>1 DEF From
<1>12. From(hist, k)'
  <2>1. DOMAIN stream' = k .. lastSeq' /\ ~(k > lastSeq')
    BY <1>1, <1>4, <1>6
  <2> QED
    BY <1>2, <1>8, <1>10, <1>11, <2>1 DEF From
<1> QED
  BY <1>9, <1>12
-----------------------------------------------------------------------------
(* What the hosts do, and what they publish of it.                         *)
LEMMA EnvironmentLeads ==
  ASSUME TInv, Sane(Now), Environment
  PROVE  \E e \in Events : Publish(e) /\ Leads(Now, e, Now')
<1>1. PICK h \in Hosts :
        \/ HostStart(h) \/ HostStop(h) \/ Heartbeat(h)
        \/ \E c \in Components, a \in Anns, n \in Counts \cup {0} :
             Scale(h, c, [ann |-> a, count |-> n])
        \/ \E p \in Providers : ProviderStart(h, p) \/ ProviderStop(h, p)
        \/ \E p \in Providers, r \in {"status", "passed", "failed"} : HealthCheck(h, p, r)
  BY DEF Environment
<1>2. /\ power \in [Hosts -> {"new", "up", "down"}]
      /\ runs \in [Hosts -> [Components -> Loads \cup {Absent}]]
      /\ health \in [Hosts -> [Providers -> {"pending", "running", "failed", Absent}]]
  BY DEF TInv, TypeOK
<1>3. /\ Now.power = power /\ Now.runs = runs /\ Now.health = health
      /\ Now'.power = power' /\ Now'.runs = runs' /\ Now'.health = health'
  BY DEF Now
<1>4. CASE HostStart(h)
  <2> DEFINE e == [type |-> "host_started", host |-> h]
  <2>1. e \in Events
    BY DEF Events
  <2>2. /\ Publish(e) /\ power[h] = "new" /\ power' = [power EXCEPT ![h] = "up"]
        /\ UNCHANGED <<runs, health>>
    BY <1>4 DEF HostStart
  <2>3. Leads(Now, e, Now')
    BY <1>2, <1>3, <2>2 DEF Leads
  <2> QED
    BY <2>1, <2>2, <2>3
<1>5. CASE HostStop(h)
  <2> DEFINE e == [type |-> "host_stopped", host |-> h]
  <2>1. e \in Events
    BY DEF Events
  <2>2. /\ Publish(e) /\ power[h] = "up" /\ power' = [power EXCEPT ![h] = "down"]
        /\ runs' = [runs EXCEPT ![h] = [c \in Components |-> Absent]]
        /\ health' = [health EXCEPT ![h] = [p \in Providers |-> Absent]]
    BY <1>5 DEF HostStop, Halt, Up
  <2>3. Leads(Now, e, Now')
    BY <1>3, <2>2 DEF Leads
  <2> QED
    BY <2>1, <2>2, <2>3
<1>6. CASE Heartbeat(h)
  <2>1. PICK e : e = Inventory(h)
    OBVIOUS
  <2>2. /\ e \in Events /\ e.type = "host_heartbeat" /\ e.host = h /\ e.loads = runs[h]
        /\ e.providers = {p \in Providers : health[h][p] # Absent}
    BY <2>1, InventoryIsEvent
  <2>3. Publish(e) /\ power[h] = "up" /\ UNCHANGED <<power, runs, health>>
    BY <1>6, <2>1 DEF Heartbeat, Up, lattice
  <2>4. Now' = Now
    BY <2>3 DEF Now
  <2>5. Leads(Now, e, Now')
    BY <1>3, <2>2, <2>3, <2>4 DEF Leads
  <2> QED
    BY <2>2, <2>3, <2>5
<1>7. CASE \E c \in Components, a \in Anns, n \in Counts \cup {0} :
             Scale(h, c, [ann |-> a, count |-> n])
  <2>1. PICK c \in Components, a \in Anns, n \in Counts \cup {0} :
          Scale(h, c, [ann |-> a, count |-> n])
    BY <1>7
  <2>2. PICK e : e = [type |-> "component_scaled", host |-> h, component |-> c, ann |-> a,
                      count |-> n]
    OBVIOUS
  <2>3. /\ e \in Events /\ e.type = "component_scaled" /\ e.host = h /\ e.component = c
        /\ e.ann = a /\ e.count = n
    BY <2>2 DEF Events
  <2>4. /\ Publish(e) /\ power[h] = "up" /\ UNCHANGED <<power, health>>
        /\ \/ runs[h][c] = Absent /\ n # 0
           \/ runs[h][c] # Absent /\ runs[h][c].ann = a
        /\ runs' = [runs EXCEPT ![h][c] = IF n = 0 THEN Absent ELSE [ann |-> a, count |-> n]]
    BY <2>1, <2>2 DEF Scale, Up
  <2>5. runs' = [runs EXCEPT ![h][c] = LoadOf(e)]
    BY <2>3, <2>4 DEF LoadOf
  <2>6. Leads(Now, e, Now')
    BY <1>3, <2>3, <2>4, <2>5 DEF Leads
  <2> QED
    BY <2>3, <2>4, <2>6
<1>8. CASE \E p \in Providers : ProviderStart(h, p) \/ ProviderStop(h, p)
  <2>1. PICK p \in Providers : ProviderStart(h, p) \/ ProviderStop(h, p)
    BY <1>8
  <2>2. PICK type \in {"provider_started", "provider_stopped"} :
          /\ type = "provider_started" <=> health[h][p] = Absent
          /\ ProviderEvent(h, p, type, IF type = "provider_started" THEN "pending" ELSE Absent)
    BY <2>1 DEF ProviderStart, ProviderStop
  <2>3. PICK e : e = [type |-> type, host |-> h, provider |-> p]
    OBVIOUS
  <2>4. e \in Events /\ e.type = type /\ e.host = h /\ e.provider = p
    BY <2>3 DEF Events
  <2>5. /\ Publish(e) /\ power[h] = "up" /\ UNCHANGED <<power, runs>>
        /\ health' = [health EXCEPT ![h][p] = IF type = "provider_started" THEN "pending" ELSE Absent]
    BY <2>2, <2>3 DEF ProviderEvent, Up
  <2>6. health' = [health EXCEPT ![h][p] = CASE e.type = "provider_started" -> "pending"
                                            [] e.type = "provider_stopped" -> Absent
                                            [] e.type = "health_check" -> Checked(@, e.result)]
    <3>1. CASE type = "provider_started"
      BY <2>4, <2>5, <3>1
    <3>2. CASE type = "provider_stopped"
      BY <2>4, <2>5, <3>2
    <3> QED
      BY <3>1, <3>2
  <2>7. Leads(Now, e, Now')
    BY <1>3, <2>2, <2>4, <2>5, <2>6 DEF Leads
  <2> QED
    BY <2>4, <2>5, <2>7
<1>9. CASE \E p \in Providers, r \in {"status", "passed", "failed"} : HealthCheck(h, p, r)
  <2>1. PICK p \in Providers, r \in {"status", "passed", "failed"} : HealthCheck(h, p, r)
    BY <1>9
  <2>2. PICK e : e = [type |-> "health_check", host |-> h, provider |-> p, result |-> r]
    OBVIOUS
  <2>3. e \in Events /\ e.type = "health_check" /\ e.host = h /\ e.provider = p /\ e.result = r
    BY <2>2 DEF Events
  <2>4. Publish(e) /\ health[h][p] # Absent /\ UNCHANGED <<power, runs>>
    BY <2>1, <2>2 DEF HealthCheck
  <2>5. health' = [health EXCEPT ![h][p] = Checked(@, r)]
    <3>1. health[h][p] \in {"pending", "running", "failed"}
      BY <1>2, <2>4
    <3>2. health' = [health EXCEPT ![h][p] =
                       CASE r = "passed" -> "running"
                         [] r = "failed" -> "failed"
                         [] r = "status" -> IF @ = "pending" THEN "running" ELSE @]
      BY <2>1 DEF HealthCheck
    <3>3. (CASE r = "passed" -> "running"
             [] r = "failed" -> "failed"
             [] r = "status" -> IF health[h][p] = "pending" THEN "running" ELSE health[h][p])
          = Checked(health[h][p], r)
      BY <2>4 DEF Checked
    <3> QED
      BY <1>2, <3>2, <3>3
  <2>6. health' = [health EXCEPT ![h][p] = CASE e.type = "provider_started" -> "pending"
                                            [] e.type = "provider_stopped" -> Absent
                                            [] e.type = "health_check" -> Checked(@, e.result)]
    BY <2>3, <2>5
  <2>7. power[h] = "up"
    BY <1>3, <2>4 DEF Sane
  <2>8. Leads(Now, e, Now')
    BY <1>3, <2>3, <2>4, <2>6, <2>7 DEF Leads
  <2> QED
    BY <2>3, <2>4, <2>8
<1> QED
  BY <1>1, <1>4, <1>5, <1>6, <1>7, <1>8, <1>9

LEMMA SameProgress ==
  ASSUME UNCHANGED <<store, proc>>, NEW w, NEW new, Underway(w, new)
  PROVE  Underway(w, new)'
<1>1. UNCHANGED <<hosts, components, providers, proc>>
  BY DEF store
<1>2. Event(w)' = Event(w) /\ proc'[w] = proc[w]
  BY <1>1 DEF Event
<1>3. ComponentsWritten(w)' = ComponentsWritten(w) /\ ProvidersWritten(w)' = ProvidersWritten(w)
  BY <1>1 DEF ComponentsWritten, ProvidersWritten
<1>6. /\ ComponentsAs(components, new)' <=> ComponentsAs(components, new)
      /\ ProvidersAs(providers, new)' <=> ProvidersAs(providers, new)
      /\ Agrees(new)' <=> Agrees(new)
  BY <1>1, SameAs DEF Agrees
<1>7. /\ ComponentsAs(ComponentsWritten(w), new)' <=> ComponentsAs(ComponentsWritten(w), new)
      /\ ProvidersAs(ProvidersWritten(w), new)' <=> ProvidersAs(ProvidersWritten(w), new)
  BY <1>3 DEF ComponentsAs, CountsAs, RunsIn, ProvidersAs
<1>8. /\ RecAs(proc[w].host, Event(w).host, new)' <=> RecAs(proc[w].host, Event(w).host, new)
      /\ HostAs(Event(w).host, new)' <=> HostAs(Event(w).host, new)
  BY <1>1, <1>2 DEF HostAs, RecAs
<1>9. ASSUME NEW todo
      PROVE  /\ WritesComponents(w, todo, new)' <=> WritesComponents(w, todo, new)
             /\ WritesProviders(w, todo, new)' <=> WritesProviders(w, todo, new)
  BY <1>2, <1>7 DEF WritesComponents, WritesProviders
<1>10. /\ WritesComponents(w, proc[w].todo, new)' <=> WritesComponents(w, proc[w].todo, new)
       /\ WritesProviders(w, proc[w].todo, new)' <=> WritesProviders(w, proc[w].todo, new)
  BY <1>2, <1>7 DEF WritesComponents, WritesProviders
<1>11. Starting(w, new)' <=> Starting(w, new)
  BY <1>2, <1>6, <1>8 DEF Starting
<1>12. /\ StopsComponents(w, new)' <=> StopsComponents(w, new)
       /\ StopsProviders(w, new)' <=> StopsProviders(w, new)
  BY <1>2, <1>6, <1>7 DEF StopsComponents, StopsProviders
<1>13. Stopping(w, new)' <=> Stopping(w, new)
  BY <1>1, <1>2, <1>6, <1>12 DEF Stopping
<1>14. Beating(w, new)' <=> Beating(w, new)
  BY <1>2, <1>6, <1>7, <1>8, <1>10 DEF Beating
<1>15. Scaling(w, new)' <=> Scaling(w, new)
  BY <1>2, <1>6, <1>8, <1>9 DEF Scaling
<1>16. ProviderStarting(w, new)' <=> ProviderStarting(w, new)
  BY <1>2, <1>6, <1>8, <1>9 DEF ProviderStarting
<1>17. ProviderStopping(w, new)' <=> ProviderStopping(w, new)
  BY <1>2, <1>6, <1>8, <1>10 DEF ProviderStopping
<1>18. Checking(w, new)' <=> Checking(w, new)
  BY <1>2, <1>6, <1>10 DEF Checking
<1> QED
  BY <1>2, <1>11, <1>13, <1>14, <1>15, <1>16, <1>17, <1>18 DEF Underway

(* What the hosts do adds a view at the end.                               *)
LEMMA EnvironmentKeeps ==
  ASSUME OneWorker, TInv, Environment,
         NEW hist, hist \in [0 .. lastSeq -> Views], History(hist),
         NEW k \in 1 .. lastSeq + 1, From(hist, k)
  PROVE  \E new \in [0 .. lastSeq' -> Views] :
           /\ History(new)' /\ k \in 1 .. lastSeq' + 1 /\ From(new, k)'
<1>1. Now \in Views /\ Sane(Now) /\ lastSeq \in Nat /\ k \in Nat /\ k # 0
  BY FromFacts
<1>2. PICK e \in Events : Publish(e) /\ Leads(Now, e, Now')
  BY <1>1, EnvironmentLeads
<1>3. UNCHANGED <<store, proc, lost>> /\ lastSeq' = lastSeq + 1
  BY <1>2 DEF Environment, Publish
<1>4. Now' \in Views
  BY EnvironmentTyped DEF LatticeTyped, Now, Views
<1>5. PICK now \in Views : now = Now'
  BY <1>4
<1> DEFINE last == lastSeq + 1
<1>6. PICK new : new = [i \in 0 .. last |-> IF i = last THEN now ELSE hist[i]]
  OBVIOUS
<1>7. /\ new \in [0 .. lastSeq' -> Views] /\ new[last] = Now'
      /\ \A i \in 0 .. lastSeq : new[i] = hist[i]
      /\ new[lastSeq] = Now
  <2>1. \A i \in 0 .. last : i # last => i \in 0 .. lastSeq
    BY <1>1
  <2>2. \A i \in 0 .. lastSeq : i \in 0 .. last /\ i # last
    BY <1>1
  <2>3. last \in 0 .. last /\ lastSeq \in 0 .. lastSeq
    BY <1>1
  <2> HIDE DEF last
  <2>4. new \in [0 .. last -> Views]
    BY <1>5, <1>6, <2>1
  <2>5. /\ new[last] = Now' /\ \A i \in 0 .. lastSeq : new[i] = hist[i]
        /\ new[lastSeq] = Now
    BY <1>5, <1>6, <2>2, <2>3 DEF History
  <2> QED
    BY <1>3, <2>4, <2>5 DEF last
<1>8. /\ DOMAIN stream = k .. lastSeq /\ DOMAIN stream' = DOMAIN stream \cup {last}
      /\ stream'[last] = [event |-> e, tries |-> 0, state |-> "due"]
      /\ \A i \in DOMAIN stream : stream'[i] = stream[i]
      /\ \A i \in DOMAIN stream : i \in 0 .. lastSeq /\ i - 1 \in 0 .. lastSeq
  <2>1. DOMAIN stream = k .. lastSeq
    BY FromFacts
  <2>2. \A i \in DOMAIN stream : i # last /\ i \in 0 .. lastSeq /\ i - 1 \in 0 .. lastSeq
    BY <1>1, <2>1
  <2> QED
    BY <1>2, <1>3, <2>1, <2>2 DEF Publish
<1>9. \A i \in 0 .. lastSeq' : Sane(new[i])
  <2>1. \A i \in 0 .. lastSeq' : i = last \/ i \in 0 .. lastSeq
    BY <1>1, <1>3
  <2>2. Sane(now)
    BY <1>1, <1>2, <1>5, LeadsSane
  <2> QED
    BY <1>5, <1>7, <2>1, <2>2 DEF History
<1>10. \A i \in DOMAIN stream' : Leads(new[i - 1], stream'[i].event, new[i])
  <2> SUFFICES ASSUME NEW i \in DOMAIN stream'
               PROVE Leads(new[i - 1], stream'[i].event, new[i])
    OBVIOUS
  <2>1. CASE i = last
    <3>1. i - 1 = lastSeq
      BY <1>1, <2>1
    <3>2. stream'[i].event = e
      BY <1>8, <2>1
    <3> HIDE DEF last
    <3> QED
      BY <1>2, <1>7, <2>1, <3>1, <3>2
  <2>2. CASE i \in DOMAIN stream
    <3>1. stream'[i] = stream[i] /\ new[i] = hist[i] /\ new[i - 1] = hist[i - 1]
      BY <1>7, <1>8, <2>2
    <3> QED
      BY <2>2, <3>1 DEF History
  <2> QED
    BY <1>8, <2>1, <2>2
<1>11. History(new)'
  BY <1>3, <1>7, <1>9, <1>10 DEF History
<1>12. DOMAIN stream' = k .. lastSeq' /\ ~(k > lastSeq') /\ k \in 1 .. lastSeq' + 1
  BY <1>1, <1>3, <1>8
<1>13. Between(new[k - 1], stream[k].event, new[k])'
  <2>1. CASE k > lastSeq
    <3>1. k = last /\ k - 1 = lastSeq
      BY <1>1, <2>1
    <3>2. Agrees(Now)
      BY <2>1 DEF From
    <3>3. PICK was \in Views : was = Now
      BY <1>1
    <3>4. Leads(was, e, now)
      BY <1>2, <1>5, <3>3
    <3>5. Between(was, e, now)
      <4>1. e.type = "host_stopped" => was.power[e.host] = "up"
        BY <3>4, LeadsTo
      <4>2. e.type = "provider_started" => was.health[e.host][e.provider] = Absent
        BY <3>4, LeadsProvider
      <4>3. Agrees(was)
        BY <3>2, <3>3
      <4> QED
        BY <4>1, <4>2, <4>3, AgreesIsBetween
    <3>6. Between(was, e, now)'
      BY <1>3, <3>5, SameStore
    <3>7. new[k - 1] = was /\ new[k] = now /\ stream'[k].event = e
      BY <1>5, <1>7, <1>8, <3>1, <3>3
    <3> QED
      BY <3>6, <3>7
  <2>2. CASE ~(k > lastSeq)
    <3>1. k \in DOMAIN stream
      BY <1>1, <1>8, <2>2
    <3>2. PICK ev : ev = stream[k].event
      OBVIOUS
    <3>3. Between(hist[k - 1], ev, hist[k])
      BY <2>2, <3>2 DEF From
    <3>4. Between(hist[k - 1], ev, hist[k])'
      BY <1>3, <3>3, SameStore
    <3>5. new[k - 1] = hist[k - 1] /\ new[k] = hist[k] /\ stream'[k].event = ev
      BY <1>7, <1>8, <3>1, <3>2
    <3> QED
      BY <3>4, <3>5
  <2> QED
    BY <2>1, <2>2
<1>14. ASSUME NEW u \in Workers, Busy(u)'
       PROVE  /\ k \in DOMAIN stream' /\ proc'[u].seq = k /\ Event(u)' = stream'[k].event
              /\ Underway(u, new[k])'
  <2>1. /\ k \in DOMAIN stream /\ proc[u].seq = k /\ Event(u) = stream[k].event
        /\ Underway(u, hist[k])
    BY <1>3, <1>14 DEF Busy, From
  <2>2. new[k] = hist[k] /\ stream'[k] = stream[k]
    BY <1>7, <1>8, <2>1
  <2>3. Underway(u, hist[k])'
    BY <1>3, <2>1, SameProgress
  <2> QED
    BY <1>3, <1>8, <2>1, <2>2, <2>3 DEF Event
<1>15. \A i \in DOMAIN stream' : stream'[i].state = "due" <=> \A u \in Workers : proc'[u].seq # i
  <2>1. \A u \in Workers : proc[u].seq # last
    <3>1. \A u \in Workers : proc[u].seq = 0 \/ proc[u].seq \in DOMAIN stream
      BY DEF From, Busy
    <3>2. last # 0 /\ last \notin DOMAIN stream
      BY <1>1, <1>8
    <3> QED
      BY <3>1, <3>2
  <2>2. stream'[last].state = "due"
    BY <1>8
  <2>3. \A i \in DOMAIN stream : stream'[i].state = "due" <=> \A u \in Workers : proc'[u].seq # i
    BY <1>3, <1>8 DEF From
  <2> HIDE DEF last
  <2> QED
    BY <1>3, <1>8, <2>1, <2>2, <2>3
<1>16. From(new, k)'
  BY <1>12, <1>13, <1>14, <1>15 DEF From
<1> QED
  BY <1>7, <1>11, <1>12, <1>16
-----------------------------------------------------------------------------
(* Some history leads from what the store once knew to the hosts as they   *)
(* are, until a message is given up.                                       *)
Known == \E hist \in [0 .. lastSeq -> Views] : InStep(hist)

(* At first there is one view, and nothing to be handled.                  *)
LEMMA InitKnown == Init => Known
<1> SUFFICES ASSUME Init PROVE Known
  OBVIOUS
<1>1. /\ lastSeq = 0 /\ DOMAIN stream = {} /\ \A w \in Workers : proc[w] = Idle
      /\ power = [h \in Hosts |-> "new"]
      /\ runs = [h \in Hosts |-> [c \in Components |-> Absent]]
      /\ health = [h \in Hosts |-> [p \in Providers |-> Absent]]
      /\ hosts = [h \in Hosts |-> NoHost]
      /\ components = [c \in Components |-> NoInstances]
      /\ providers = [p \in Providers |-> NoStatuses]
  BY DEF Init, Procs
<1>2. Now \in Views /\ Sane(Now)
  BY <1>1 DEF Now, Views, Sane
<1>3. PICK hist : hist = [i \in 0 .. 0 |-> Now]
  OBVIOUS
<1>4. hist \in [0 .. lastSeq -> Views] /\ hist[0] = Now
  BY <1>1, <1>2, <1>3
<1>5. History(hist)
  BY <1>1, <1>2, <1>4 DEF History
<1>6. Agrees(Now)
  <2>1. HostsAs(Now)
    BY <1>1 DEF HostsAs, HostAs, Now
  <2>2. ProvidersAs(providers, Now)
    BY <1>1 DEF ProvidersAs, Now, NoStatuses
  <2>3. \A h \in Hosts, c \in Components, a \in Anns :
          components[c][h][a] = Absent /\ RunsIn(Now, h, c, a) = 0
    BY <1>1 DEF NoInstances, RunsIn, Now
  <2> QED
    BY <2>1, <2>2, <2>3 DEF Agrees, ComponentsAs, CountsAs
<1>7. From(hist, 1) /\ 1 \in 1 .. lastSeq + 1
  BY <1>1, <1>6 DEF From, Busy, Idle
<1> QED
  BY <1>4, <1>5, <1>7 DEF Known, InStep

LEMMA SameKeeps ==
  ASSUME UNCHANGED vars, NEW hist, History(hist), NEW k, From(hist, k)
  PROVE  History(hist)' /\ From(hist, k)'
<1>1. UNCHANGED <<lattice, store, lastSeq, stream, proc>>
  BY DEF vars, delivery
<1>2. History(hist)'
  BY <1>1, HistorySame
<1>3. Now' = Now
  BY <1>1 DEF Now, lattice
<1>4. Agrees(Now) => Agrees(Now)'
  <2>1. PICK now : now = Now
    OBVIOUS
  <2> QED
    BY <1>1, <1>3, <2>1, SameStore
<1>5. Between(hist[k - 1], stream[k].event, hist[k]) =>
        Between(hist[k - 1], stream[k].event, hist[k])'
  <2>1. PICK e : e = stream[k].event
    OBVIOUS
  <2> QED
    BY <1>1, <2>1, SameStore
<1>6. \A w \in Workers : Underway(w, hist[k]) => Underway(w, hist[k])'
  BY <1>1, SameProgress
<1> QED
  BY <1>1, <1>2, <1>4, <1>5, <1>6 DEF From, Busy, Event

AgreeInv == TInv /\ (lost = {} => Known)

(* Every step leaves a history, the same one or one that is longer.        *)
LEMMA NextAgreeInv == OneWorker /\ AgreeInv /\ [Next]_vars => AgreeInv'
<1> SUFFICES ASSUME OneWorker, AgreeInv, [Next]_vars PROVE AgreeInv'
  OBVIOUS
<1>1. TInv /\ TInv'
  BY NextTInv DEF AgreeInv
<1> SUFFICES ASSUME lost' = {} PROVE Known'
  BY <1>1 DEF AgreeInv
<1>2. lost = {}
  <2>1. CASE UNCHANGED vars
    BY <2>1 DEF vars
  <2>2. CASE Environment
    BY <2>2 DEF Environment
  <2>3. ASSUME NEW w \in Workers, Work(w) PROVE lost = {}
    BY <1>1, <2>3, HandleTyped DEF Work, Deliver, Ack
  <2>4. ASSUME NEW w \in Workers, Nack(w) PROVE lost = {}
    BY <2>4 DEF Nack, Again
  <2> QED
    BY <2>1, <2>2, <2>3, <2>4 DEF Next
<1>3. PICK hist \in [0 .. lastSeq -> Views] : InStep(hist)
  BY <1>2 DEF AgreeInv, Known
<1>4. PICK k \in 1 .. lastSeq + 1 : From(hist, k)
  BY <1>3 DEF InStep
<1>5. hist \in [0 .. lastSeq -> Views] /\ History(hist)
  BY <1>3 DEF InStep
<1>6. ASSUME lastSeq' = lastSeq, History(hist)',
             \E i \in 1 .. lastSeq' + 1 : From(hist, i)'
      PROVE  Known'
  <2>1. hist \in [0 .. lastSeq' -> Views]
    BY <1>5, <1>6
  <2> QED
    BY <1>6, <2>1 DEF Known, InStep
<1>7. CASE UNCHANGED vars
  <2>1. lastSeq' = lastSeq
    BY <1>7 DEF vars, delivery
  <2>2. History(hist)' /\ From(hist, k)'
    BY <1>4, <1>5, <1>7, SameKeeps
  <2> QED
    BY <1>4, <1>6, <2>1, <2>2
<1>8. CASE Environment
  <2>1. \E new \in [0 .. lastSeq' -> Views] :
          /\ History(new)' /\ k \in 1 .. lastSeq' + 1 /\ From(new, k)'
    BY <1>1, <1>4, <1>5, <1>8, EnvironmentKeeps
  <2> QED
    BY <2>1 DEF Known, InStep
<1>9. ASSUME NEW w \in Workers, Work(w) PROVE Known'
  <2>1. CASE Deliver(w)
    <3>1. lastSeq' = lastSeq
      BY <2>1 DEF Deliver
    <3>2. History(hist)' /\ From(hist, k)'
      BY <1>1, <1>4, <1>5, <2>1, DeliverKeeps
    <3> QED
      BY <1>4, <1>6, <3>1, <3>2
  <2>2. CASE Handle(w)
    <3>1. lastSeq' = lastSeq
      BY <1>1, <2>2, HandleTyped DEF delivery
    <3>2. History(hist)' /\ From(hist, k)'
      BY <1>1, <1>4, <1>5, <2>2, HandleKeeps
    <3> QED
      BY <1>4, <1>6, <3>1, <3>2
  <2>3. CASE Ack(w)
    <3>1. lastSeq' = lastSeq
      BY <2>3 DEF Ack
    <3>2. History(hist)' /\ k + 1 \in 1 .. lastSeq' + 1 /\ From(hist, k + 1)'
      BY <1>1, <1>4, <1>5, <2>3, AckKeeps
    <3> QED
      BY <1>6, <3>1, <3>2
  <2> QED
    BY <1>9, <2>1, <2>2, <2>3 DEF Work
<1>10. ASSUME NEW w \in Workers, Nack(w) PROVE Known'
  <2>1. lastSeq' = lastSeq
    BY <1>10 DEF Nack
  <2>2. History(hist)' /\ From(hist, k)'
    BY <1>1, <1>4, <1>5, <1>10, NackKeeps
  <2> QED
    BY <1>4, <1>6, <2>1, <2>2
<1> QED
  BY <1>7, <1>8, <1>9, <1>10 DEF Next

(* Once no message is left, the last view is of the hosts as they are.     *)
LEMMA CaughtUpAgrees ==
  ASSUME AgreeInv, CaughtUp
  PROVE  Agrees(Now)
<1>1. lost = {} /\ DOMAIN stream = {}
  BY DEF CaughtUp, Drained
<1>2. PICK hist \in [0 .. lastSeq -> Views] : InStep(hist)
  BY <1>1 DEF AgreeInv, Known
<1>3. PICK k \in 1 .. lastSeq + 1 : From(hist, k)
  BY <1>2 DEF InStep
<1>4. TInv /\ hist \in [0 .. lastSeq -> Views] /\ History(hist)
  BY <1>2 DEF AgreeInv, InStep
<1>5. k > lastSeq
  <2>1. lastSeq \in Nat /\ k \in Nat /\ (k \in DOMAIN stream <=> k <= lastSeq)
    BY <1>3, <1>4, FromFacts
  <2> QED
    BY <1>1, <2>1
<1> QED
  BY <1>3, <1>5 DEF From

(* The inductive invariant behind the four theorems that follow.           *)
LEMMA AgreeInvAlways ==
  ASSUME OneWorker
  PROVE  Spec => []AgreeInv
<1>1. Init => AgreeInv
  BY InitTInv, InitKnown DEF AgreeInv
<1>2. AgreeInv /\ [Next]_vars => AgreeInv'
  BY NextAgreeInv
<1> QED
  BY <1>1, <1>2, PTL DEF Spec

(* One instance that has caught up knows of every host that is up what it  *)
(* runs, and of no other host: whatever failed half-way was repeated from  *)
(* the record that was still stored.                                       *)
THEOREM HostsAreKnown ==
  ASSUME OneWorker
  PROVE  Spec => []HostsAgree
<1>1. AgreeInv => HostsAgree
  <2> SUFFICES ASSUME AgreeInv, CaughtUp, NEW h \in Hosts
               PROVE  IF Up(h) THEN /\ hosts[h] # NoHost
                                    /\ hosts[h].components = {c \in Components : runs[h][c] # Absent}
                                    /\ hosts[h].providers = {p \in Providers : health[h][p] # Absent}
                      ELSE hosts[h] = NoHost
    BY DEF HostsAgree
  <2>1. HostAs(h, Now)
    BY CaughtUpAgrees DEF Agrees, HostsAs
  <2>2. Now.power = power /\ Now.runs = runs /\ Now.health = health
    BY DEF Now
  <2> QED
    BY <2>1, <2>2 DEF HostAs, RecAs, Up
<1> QED
  BY <1>1, AgreeInvAlways, PTL

(* It then counts of every component the instances that run.               *)
THEOREM ComponentsAreCounted ==
  ASSUME OneWorker
  PROVE  Spec => []ComponentsAgree
<1>1. AgreeInv => ComponentsAgree
  <2> SUFFICES ASSUME AgreeInv, CaughtUp, NEW h \in Hosts, NEW c \in Components, NEW a \in Anns
               PROVE  Runs(h, c, a) = IF components[c][h][a] = Absent THEN 0
                                      ELSE components[c][h][a]
    BY DEF ComponentsAgree
  <2>1. CountsAs(components[c], h, c, Now)
    BY CaughtUpAgrees DEF Agrees, ComponentsAs
  <2>2. Runs(h, c, a) = RunsIn(Now, h, c, a)
    BY DEF Now, Runs, RunsIn
  <2> QED
    BY <2>1, <2>2 DEF CountsAs
<1> QED
  BY <1>1, AgreeInvAlways, PTL

(* And it knows where every provider runs and how healthy it is.           *)
THEOREM ProvidersAreKnown ==
  ASSUME OneWorker
  PROVE  Spec => []ProvidersAgree
<1>1. AgreeInv => ProvidersAgree
  <2> SUFFICES ASSUME AgreeInv, CaughtUp, NEW h \in Hosts, NEW p \in Providers
               PROVE  providers[p][h] = health[h][p]
    BY DEF ProvidersAgree
  <2>1. ProvidersAs(providers, Now)
    BY CaughtUpAgrees DEF Agrees
  <2> QED
    BY <2>1 DEF ProvidersAs, Now
<1> QED
  BY <1>1, AgreeInvAlways, PTL

(* A host outlives what it runs, even while the handlers fail half-way:    *)
(* handle_host_stopped deletes it last, the others never write to the      *)
(* components or providers of a host that they have not stored.            *)
THEOREM HostsOutliveContents ==
  ASSUME OneWorker
  PROVE  Spec => []HostOutlivesContents
<1>1. AgreeInv => HostOutlivesContents
  <2> SUFFICES ASSUME AgreeInv, lost = {}, NEW h \in Hosts, hosts[h] = NoHost
               PROVE  /\ \A c \in Components, a \in Anns : components[c][h][a] \in {0, Absent}
                      /\ \A p \in Providers : providers[p][h] = Absent
    BY DEF HostOutlivesContents
  <2>1. PICK hist \in [0 .. lastSeq -> Views] : InStep(hist)
    BY DEF AgreeInv, Known
  <2>2. PICK k \in 1 .. lastSeq + 1 : From(hist, k)
    BY <2>1 DEF InStep
  <2>3. TInv /\ hist \in [0 .. lastSeq -> Views] /\ History(hist)
    BY <2>1 DEF AgreeInv, InStep
  <2>4. lastSeq \in Nat /\ k \in Nat /\ Now \in Views /\ Sane(Now)
    BY <2>2, <2>3, FromFacts
(* It is enough that they are as in some view in which the host is not up. *)
  <2>5. ASSUME NEW v \in Views,
               /\ \A c \in Components : v.runs[h][c] = Absent
               /\ \A p \in Providers : v.health[h][p] = Absent,
               \A c \in Components : CountsAs(components[c], h, c, v),
               \A p \in Providers : providers[p][h] = v.health[h][p]
        PROVE  /\ \A c \in Components, a \in Anns : components[c][h][a] \in {0, Absent}
               /\ \A p \in Providers : providers[p][h] = Absent
    BY <2>5 DEF CountsAs, RunsIn
  <2>6. CASE k > lastSeq
    <3>1. Agrees(Now)
      BY <2>2, <2>6 DEF From
    <3>2. Now.power[h] # "up"
      BY <3>1 DEF Agrees, HostsAs, HostAs, RecAs
    <3> QED
      BY <2>4, <2>5, <3>1, <3>2 DEF Sane, Agrees, ComponentsAs, ProvidersAs
  <2>7. CASE ~(k > lastSeq)
    <3>1. PICK e : e = stream[k].event
      OBVIOUS
    <3> DEFINE v == hist[k - 1]
               new == hist[k]
    <3>2. /\ e \in Events /\ v \in Views /\ new \in Views /\ Leads(v, e, new) /\ Sane(v)
          /\ Between(v, e, new)
      <4>1. k \in DOMAIN stream
        BY <2>2, <2>3, <2>4, <2>7, FromFacts
      <4> QED
        BY <2>2, <2>3, <2>7, <3>1, <4>1, FromFacts DEF From
    <3>3. Sane(new)
      BY <3>2, LeadsSane
    <3> HIDE DEF v, new
    <3>4. CASE h # e.host \/ e.type = "host_started"
      <4>1. \A c \in Components : CountsAs(components[c], h, c, new)
        BY <3>2, <3>4, BetweenElsewhere DEF Touches
      <4>2. \A p \in Providers : providers[p][h] = new.health[h][p]
        BY <3>2, <3>4, BetweenElsewhere DEF Concerns
      <4>3. \/ new.power[h] # "up"
            \/ v.power[h] # "up" /\ new.runs = v.runs /\ new.health = v.health
        <5>1. CASE h # e.host
          BY <3>2, <5>1, BetweenElsewhere DEF HostAs, RecAs
        <5>2. CASE h = e.host /\ e.type = "host_started"
          BY <3>2, <5>2 DEF Leads
        <5> QED
          BY <3>4, <5>1, <5>2
      <4>4. /\ \A c \in Components : new.runs[h][c] = Absent
            /\ \A p \in Providers : new.health[h][p] = Absent
        BY <3>2, <3>3, <4>3 DEF Sane
      <4> QED
        BY <2>5, <3>2, <4>1, <4>2, <4>4
    <3>5. CASE h = e.host /\ e.type = "host_stopped"
      <4>1. ComponentsAs(components, new) /\ ProvidersAs(providers, new)
        BY <3>2, <3>5 DEF Between
      <4>2. /\ \A c \in Components : new.runs[h][c] = Absent
            /\ \A p \in Providers : new.health[h][p] = Absent
        BY <3>2, <3>5, LeadsTo
      <4> QED
        BY <2>5, <3>2, <4>1, <4>2 DEF ComponentsAs, ProvidersAs
    <3>6. CASE h = e.host /\ e.type \notin {"host_started", "host_stopped"}
      BY <3>2, <3>6, BetweenElsewhere
    <3> QED
      BY <3>4, <3>5, <3>6
  <2> QED
    BY <2>6, <2>7
<1> QED
  BY <1>1, AgreeInvAlways, PTL
-----------------------------------------------------------------------------
(* What a heartbeat repairs, also after messages were given up.  A host    *)
(* has one entry for a component if there is one set of annotations.       *)
OneAnn == \A a, b \in Anns : a = b

Repaired(f, e) ==
  \A c \in Components : e.loads[c] # Absent =>
    \A a \in Anns : f[c][e.host][a] =
      IF a = e.loads[c].ann THEN e.loads[c].count ELSE Absent

Repairing(w) ==
  Event(w).type = "host_heartbeat" =>
    \/ proc[w].todo = <<"put_host", "list_providers", "put_providers",
                        "list_components", "put_components">>
    \/ proc[w].todo = <<"list_providers", "put_providers", "list_components", "put_components">>
    \/ proc[w].todo = <<"put_providers", "list_components", "put_components">>
    \/ proc[w].todo = <<"list_components", "put_components">>
    \/ /\ proc[w].todo = <<"put_components">> /\ proc[w].del = {}
       /\ Repaired(ComponentsWritten(w), Event(w))
    \/ proc[w].todo = <<>> /\ Repaired(components, Event(w))

RepairInv == TInv /\ \A w \in Workers : Repairing(w)

LEMMA HandleStays ==
  ASSUME TInv, NEW w \in Workers, Handle(w)
  PROVE  Stays(w)
<1>1. CASE PutHost(w) \/ DelStoppedHost(w)
  BY <1>1, PutHostDoes, DelHostDoes DEF Moves
<1>2. CASE PutComponents(w) \/ DelComponents(w)
  BY <1>2, PutComponentsDoes, DelComponentsDoes DEF Moves
<1>3. CASE PutProviders(w) \/ DelProviders(w)
  BY <1>3, PutProvidersDoes, DelProvidersDoes DEF Moves
<1>4. CASE GetComponent(w)
  BY <1>4, GetComponentDoes
<1>5. CASE GetHost(w)
  <2>1. At(w, "get_host") /\ w \in Procs
    BY <1>5 DEF GetHost, Procs
  <2>2. Done(w) \in ProcRec /\ Done(w).seq = proc[w].seq /\ Done(w).event = proc[w].event
    BY <2>1, DoneFacts DEF Event
  <2>3. \/ proc'[w] = [Done(w) EXCEPT !.todo = Tail(@)]
        \/ \E host : proc'[w] = [Done(w) EXCEPT !.host = host]
    BY <1>5, Becomes DEF GetHost
  <2>4. proc'[w].seq = Done(w).seq /\ proc'[w].event = Done(w).event
    BY <2>2, <2>3, ProcRecTodo
  <2> QED
    BY <2>2, <2>4 DEF Stays, Event
<1>6. CASE GetStoppedHost(w)
  BY <1>6, GetStoppedHostDoes
<1>7. CASE StoppedComponents(w) \/ HeartbeatComponents(w)
  BY <1>7, StoppedComponentsDoes, HeartbeatComponentsDoes DEF Moves
<1>8. CASE StoppedProviders(w) \/ HeartbeatProviders(w)
  BY <1>8, StoppedProvidersDoes, HeartbeatProvidersDoes DEF Moves
<1>9. CASE StartedProvider(w) \/ StoppedProvider(w) \/ CheckedProvider(w)
  BY <1>9, StartedProviderDoes, StoppedProviderDoes, CheckedProviderDoes DEF Moves
<1> QED
  BY <1>1, <1>2, <1>3, <1>4, <1>5, <1>6, <1>7, <1>8, <1>9 DEF Handle

(* The operations of a heartbeat, of which only the last two matter.       *)
LEMMA HandleRepairs ==
  ASSUME OneAnn, TInv, NEW w \in Workers, Handle(w), Repairing(w)
  PROVE  Repairing(w)'
<1>1. Stays(w)
  BY HandleStays
<1> SUFFICES ASSUME Event(w).type = "host_heartbeat" PROVE Repairing(w)'
  BY <1>1 DEF Repairing, Stays
<1>2. PICK e : e = Event(w)
  OBVIOUS
<1>3. proc[w].todo # <<>>
  BY HandleAt
<1>4. CASE proc[w].todo = <<"put_host", "list_providers", "put_providers",
                            "list_components", "put_components">>
  <2>1. /\ PutHost(w)
        /\ Tail(proc[w].todo) = <<"list_providers", "put_providers",
                                  "list_components", "put_components">>
    BY <1>4, HandleAt, HeadAndTail
  <2> QED
    BY <2>1, PutHostDoes DEF Repairing, Moves
<1>5. CASE proc[w].todo = <<"list_providers", "put_providers",
                            "list_components", "put_components">>
  <2>1. /\ HeartbeatProviders(w)
        /\ Tail(proc[w].todo) = <<"put_providers", "list_components", "put_components">>
    BY <1>5, HandleAt, HeadAndTail
  <2> QED
    BY <1>2, <2>1, HeartbeatProvidersDoes DEF Repairing, Moves
<1>6. CASE proc[w].todo = <<"put_providers", "list_components", "put_components">>
  <2>1. /\ PutProviders(w)
        /\ Tail(proc[w].todo) = <<"list_components", "put_components">>
    BY <1>6, HandleAt, HeadAndTail
  <2> QED
    BY <2>1, PutProvidersDoes DEF Repairing, Moves
<1>7. CASE proc[w].todo = <<"list_components", "put_components">>
  <2>1. HeartbeatComponents(w) /\ Tail(proc[w].todo) = <<"put_components">>
    BY <1>7, HandleAt, HeadAndTail
  <2>2. /\ Moves(w) /\ proc'[w].del = {}
        /\ e.host \in Hosts /\ e.loads \in [Components -> Loads \cup {Absent}]
    BY <1>2, <2>1, HeartbeatComponentsDoes
  <2>3. ASSUME NEW c \in Components, e.loads[c] # Absent, NEW a \in Anns
        PROVE  ComponentsWritten(w)'[c][e.host][a] =
                 IF a = e.loads[c].ann THEN e.loads[c].count ELSE Absent
    <3>1. CASE UpToDate(components[c], e.host, e.loads[c])
      <4>1. e.loads[c].ann \in Anns
        BY <2>2, <2>3 DEF Loads
      <4>2. a = e.loads[c].ann
        BY <4>1 DEF OneAnn
      <4>3. ComponentsWritten(w)'[c] = components[c]
        BY <1>2, <2>1, <3>1, HeartbeatComponentsDoes
      <4> QED
        BY <3>1, <4>2, <4>3 DEF UpToDate
    <3>2. CASE ~UpToDate(components[c], e.host, e.loads[c])
      BY <1>2, <2>1, <2>3, <3>2, HeartbeatComponentsDoes
    <3> QED
      BY <3>1, <3>2
  <2>4. Event(w)' = e
    BY <1>2, <2>2 DEF Moves, Stays
  <2>5. Repaired(ComponentsWritten(w), Event(w))'
    BY <2>3, <2>4 DEF Repaired
  <2> QED
    BY <2>1, <2>2, <2>5 DEF Repairing, Moves
<1>8. CASE /\ proc[w].todo = <<"put_components">> /\ proc[w].del = {}
           /\ Repaired(ComponentsWritten(w), Event(w))
  <2>1. PutComponents(w) /\ Tail(proc[w].todo) = <<>>
    BY <1>8, HandleAt, HeadAndTail
  <2>2. Moves(w) /\ \A c \in Components : components'[c] = ComponentsWritten(w)[c]
    BY <1>8, <2>1, PutComponentsDoes
  <2>3. Event(w)' = e
    BY <1>2, <2>2 DEF Moves, Stays
  <2>4. Repaired(components, Event(w))'
    BY <1>2, <1>8, <2>2, <2>3 DEF Repaired
  <2> QED
    BY <2>1, <2>2, <2>4 DEF Repairing, Moves
<1> QED
  BY <1>3, <1>4, <1>5, <1>6, <1>7, <1>8 DEF Repairing

(* A worker that is idle has no heartbeat, one that begins all to do.      *)
LEMMA OthersRepair ==
  ASSUME TInv, NEW w \in Workers, Deliver(w) \/ Ack(w) \/ Nack(w)
  PROVE  Repairing(w)'
<1>1. CASE Become(w, Idle)
  <2>1. proc'[w] = Idle
    BY <1>1, Becomes
  <2> QED
    BY <2>1 DEF Repairing, Event, Idle, NoEvent
<1>2. CASE Deliver(w)
  <2>1. PICK i \in Due :
          Become(w, [Idle EXCEPT !.todo = Steps(stream[i].event), !.seq = i,
                       !.event = stream[i].event, !.host = HostFrom(stream[i].event)])
    BY <1>2 DEF Deliver
  <2>2. PICK e : e = stream[i].event
    OBVIOUS
  <2> DEFINE rec == [Idle EXCEPT !.todo = Steps(e), !.seq = i, !.event = e, !.host = HostFrom(e)]
  <2>3. proc'[w] = rec
    BY <2>1, <2>2, Becomes
  <2>4. rec.todo = Steps(e) /\ rec.event = e
    BY DEF Idle
  <2>5. e.type = "host_heartbeat" =>
          Steps(e) = <<"put_host", "list_providers", "put_providers",
                       "list_components", "put_components">>
    BY DEF Steps
  <2> QED
    BY <2>3, <2>4, <2>5 DEF Repairing, Event
<1> QED
  BY <1>1, <1>2 DEF Ack, Nack

(* The inductive invariant of HeartbeatRepairs.                            *)
LEMMA NextRepairInv == OneWorker /\ OneAnn /\ RepairInv /\ [Next]_vars => RepairInv'
<1> SUFFICES ASSUME OneWorker, OneAnn, RepairInv, [Next]_vars PROVE RepairInv'
  OBVIOUS
<1>1. TInv /\ TInv'
  BY NextTInv DEF RepairInv
<1>2. CASE UNCHANGED <<store, proc>>
  <2>1. components' = components /\ proc' = proc
    BY <1>2 DEF store
  <2>2. ASSUME NEW w \in Workers PROVE Repairing(w)'
    <3>1. Repairing(w)
      BY DEF RepairInv
    <3>2. Event(w)' = Event(w) /\ ComponentsWritten(w)' = ComponentsWritten(w)
      BY <2>1 DEF Event, ComponentsWritten
    <3>3. Repairing(w)' = Repairing(w)
      BY <2>1, <3>2 DEF Repairing, Repaired
    <3> QED
      BY <3>1, <3>3
  <2> QED
    BY <1>1, <2>2 DEF RepairInv
<1>3. ASSUME NEW w \in Workers, Work(w) \/ Nack(w) PROVE RepairInv'
  <2>1. Repairing(w)'
    BY <1>1, <1>3, HandleRepairs, OthersRepair DEF RepairInv, Work
  <2>2. \A u \in Workers : u = w
    BY DEF OneWorker
  <2> QED
    BY <1>1, <2>1, <2>2 DEF RepairInv
<1> QED
  BY <1>2, <1>3 DEF Next, Environment, vars

(* With one set of annotations, what a heartbeat reports of a component is *)
(* what is stored for the host once it is handled, whatever was stored     *)
(* before and however many messages were given up.                         *)
THEOREM HeartbeatsRepair ==
  ASSUME OneWorker, OneAnn
  PROVE  Spec => []HeartbeatRepairs
<1>1. Init => RepairInv
  <2> SUFFICES ASSUME Init PROVE RepairInv
    OBVIOUS
  <2>1. \A w \in Workers : proc[w] = Idle
    BY DEF Init, Procs
  <2> QED
    BY <2>1, InitTInv DEF RepairInv, Repairing, Event, Idle, NoEvent
<1>2. RepairInv /\ [Next]_vars => RepairInv'
  BY NextRepairInv
<1>3. RepairInv => HeartbeatRepairs
  <2> SUFFICES ASSUME RepairInv, NEW w \in Workers, NEW c \in Components,
                      Event(w).type = "host_heartbeat", proc[w].todo = <<>>,
                      Event(w).loads[c] # Absent
               PROVE  \A a \in Anns : components[c][Event(w).host][a] =
                        IF a = Event(w).loads[c].ann THEN Event(w).loads[c].count ELSE Absent
    BY DEF HeartbeatRepairs
  <2>1. Repaired(components, Event(w))
    <3>1. Repairing(w)
      BY DEF RepairInv
    <3>2. /\ \A a : <<a>> # <<>>
          /\ \A a, b : <<a, b>> # <<>>
          /\ \A a, b, c_, d : <<a, b, c_, d>> # <<>>
          /\ \A a, b, c_ : <<a, b, c_>> # <<>>
          /\ \A a, b, c_, d, f : <<a, b, c_, d, f>> # <<>>
      BY HeadAndTail
    <3> QED
      BY <3>1, <3>2 DEF Repairing
  <2> QED
    BY <2>1 DEF Repaired
<1> QED
  BY <1>1, <1>2, <1>3, PTL DEF Spec
-----------------------------------------------------------------------------
(***************************************************************************)
(* Proof that the store settles (LatticeSettle): whatever several wadm     *)
(* instances, crashes, late acknowledgements and lost messages have done   *)
(* to it, a round of heartbeats and a tick of the reaper make it agree     *)
(* with the hosts.  For every set of hosts, workers and reapers, and every *)
(* number of events and faults.                                            *)
(***************************************************************************)

(* A host that is not up runs nothing.                                     *)
GoneRunsNothing ==
  \A h \in Hosts : ~Up(h) => /\ \A c \in Components : runs[h][c] = Absent
                             /\ \A p \in Providers : health[h][p] = Absent

SInv == TInv /\ GoneRunsNothing
-----------------------------------------------------------------------------
(* The operations of the reaper.                                           *)
LEMMA ReapStepsTyped ==
  /\ ReapSteps \in Seq(Ops)
  /\ Len(ReapSteps) = 9
  /\ SubSeq(ReapSteps, 3, 9) \in Seq(Ops) /\ SubSeq(ReapSteps, 7, 9) \in Seq(Ops)
<1>1. ReapSteps \in Seq(Ops) /\ Len(ReapSteps) = 9
  BY DEF ReapSteps, Ops
<1> HIDE DEF ReapSteps
<1>2. \A i \in {3, 7} : SubSeq(ReapSteps, i, 9) \in Seq(Ops)
  <2> SUFFICES ASSUME NEW i \in {3, 7} PROVE SubSeq(ReapSteps, i, 9) \in Seq(Ops)
    OBVIOUS
  <2>1. \A j \in 1 .. 9 : ReapSteps[j] \in Ops
    BY <1>1, ElementOfSeq
  <2>2. i \in Int /\ 9 \in Int /\ \A j \in i .. 9 : ReapSteps[j] \in Ops
    BY <2>1
  <2> QED
    BY <2>2, SubSeqProperties
<1> QED
  BY <1>1, <1>2

LEMMA ReaperIsNoWorker ==
  ASSUME NEW r \in Reapers
  PROVE  r \in Procs /\ r \notin Workers
BY LatticeStateAssumption DEF Procs

(* A reaper's record with one field changed.                               *)
LEMMA ReaperFacts ==
  ASSUME TInv, NEW r \in Reapers, NEW op, At(r, op)
  PROVE  /\ Done(r) \in ProcRec /\ Done(r).todo = Tail(proc[r].todo)
         /\ Done(r).hosts = proc[r].hosts
BY ReaperIsNoWorker, DoneFacts

ReapedComponents(r) ==
  [c \in Components |-> [h \in Hosts |->
     IF KeepsInstance(r, h, c) THEN components[c][h] ELSE NoInstances[h]]]

ReapedProviders(r) ==
  [p \in Providers |-> [h \in Hosts |->
     IF KeepsProvider(r, h, p) THEN providers[p][h] ELSE Absent]]

LEMMA ReapedTyped ==
  ASSUME TInv, NEW r \in Reapers
  PROVE  /\ ReapedComponents(r) \in [Components -> Instances]
         /\ ReapedProviders(r) \in [Providers -> Statuses]
<1>1. components \in [Components -> Instances] /\ providers \in [Providers -> Statuses]
  BY DEF TInv, TypeOK
<1> QED
  BY <1>1 DEF ReapedComponents, ReapedProviders, Instances, Statuses, NoInstances

LEMMA ReapTyped ==
  ASSUME TInv, NEW r \in Reapers, Reap(r) \/ Tick(r)
  PROVE  TInv' /\ UNCHANGED <<lattice, delivery, faults, lost>>
<1>1. r \in Procs /\ r \notin Workers
  BY ReaperIsNoWorker
<1>2. LatticeTyped /\ StoreTyped /\ StreamTyped /\ faults \in 0 .. MaxFaults
  BY TInvParts
<1>3. hosts \in [Hosts -> HostRec \cup {NoHost}]
  BY DEF TInv, TypeOK
<1>4. ASSUME NEW rec \in ProcRec, Become(r, rec) PROVE ProcsTyped'
  BY <1>1, <1>4, BecomeTyped
<1>5. /\ StoreTyped' /\ ProcsTyped'
      /\ UNCHANGED <<lattice, delivery, faults, lost>>
  <2>1. CASE \/ DelHosts(r) \/ PutComponents(r) \/ DelComponents(r)
             \/ PutProviders(r) \/ DelProviders(r)
    BY <1>1, <2>1, WriteTyped
  <2>2. CASE Tick(r) \/ ReapHosts(r) \/ ListHosts(r) \/ ReapComponents(r) \/ ReapProviders(r)
    <3>1. UNCHANGED <<lattice, store, delivery, faults, lost>>
      BY <2>2 DEF Tick, ReapHosts, ListHosts, ReapComponents, ReapProviders
    <3>2. StoreTyped'
      BY <1>2, <3>1 DEF StoreTyped, store
    <3>3. CASE Tick(r)
      <4>1. [Idle EXCEPT !.todo = ReapSteps] \in ProcRec
        BY IdleTyped, ReapStepsTyped, ProcRecTodo
      <4> QED
        BY <1>4, <3>1, <3>2, <3>3, <4>1 DEF Tick
    <3>4. CASE ReapHosts(r)
      <4> DEFINE del_ == {h \in Hosts : hosts[h] # NoHost /\ hosts[h].old}
      <4>1. Done(r) \in ProcRec
        BY <3>4, ReaperFacts DEF ReapHosts
      <4>2. del_ \in SUBSET (Hosts \cup Components \cup Providers)
        OBVIOUS
      <4>3. Become(r, [Done(r) EXCEPT !.del = del_])
        BY <3>4 DEF ReapHosts
      <4> HIDE DEF del_
      <4>4. [Done(r) EXCEPT !.del = del_] \in ProcRec
        BY <4>1, <4>2, ProcRecTodo
      <4> QED
        BY <1>4, <3>1, <3>2, <4>3, <4>4
    <3>5. CASE ListHosts(r)
      <4>1. Done(r) \in ProcRec
        BY <3>5, ReaperFacts DEF ListHosts
      <4>2. [Done(r) EXCEPT !.hosts = hosts] \in ProcRec
        BY <1>3, <4>1, ProcRecTodo
      <4> QED
        BY <1>4, <3>1, <3>2, <3>5, <4>2 DEF ListHosts
    <3>6. CASE ReapComponents(r)
      <4> DEFINE ids == {c \in Components : components[c] # NoInstances}
      <4>1. Become(r, StageComponents(r, ReapedComponents(r), ids))
        BY <3>6 DEF ReapComponents, ReapedComponents
      <4>2. ids \in SUBSET Components
        OBVIOUS
      <4> HIDE DEF ids
      <4>3. StageComponents(r, ReapedComponents(r), ids) \in ProcRec
        BY <1>1, <3>6, <4>2, ReapedTyped, StagedComponents DEF ReapComponents
      <4> QED
        BY <1>4, <3>1, <3>2, <4>1, <4>3
    <3>7. CASE ReapProviders(r)
      <4> DEFINE ids == {p \in Providers : ReapedProviders(r)[p] # providers[p]}
                 rec == StageProviders(r, ReapedProviders(r), ids)
      <4>1. Become(r, [rec EXCEPT !.hosts = Idle.hosts])
        BY <3>7 DEF ReapProviders, ReapedProviders
      <4>2. ids \in SUBSET Providers
        OBVIOUS
      <4> HIDE DEF ids
      <4>3. rec \in ProcRec
        BY <1>1, <3>7, <4>2, ReapedTyped, StagedProviders DEF ReapProviders
      <4> HIDE DEF rec
      <4>4. [rec EXCEPT !.hosts = Idle.hosts] \in ProcRec
        BY <4>3, IdleTyped, ProcRecTodo
      <4> QED
        BY <1>4, <3>1, <3>2, <4>1, <4>4
    <3> QED
      BY <2>2, <3>3, <3>4, <3>5, <3>6, <3>7
  <2> QED
    BY <2>1, <2>2 DEF Reap
<1>6. LatticeTyped' /\ StreamTyped' /\ faults' \in 0 .. MaxFaults
  BY <1>2, <1>5 DEF LatticeTyped, lattice, StreamTyped, Deliverable, delivery
<1>7. TInv'
  BY <1>5, <1>6 DEF TInv, TypeOK, LatticeTyped, StoreTyped, StreamTyped, ProcsTyped
<1> QED
  BY <1>5, <1>7
-----------------------------------------------------------------------------
(* What else may happen.                                                   *)
LEMMA OldTyped ==
  ASSUME NEW host \in HostRec \cup {NoHost}
  PROVE  /\ Old(host) \in HostRec \cup {NoHost}
         /\ Old(host) = NoHost <=> host = NoHost
         /\ Old(host) # NoHost => Old(host).old
<1>1. CASE host = NoHost
  BY <1>1 DEF Old
<1>2. CASE host # NoHost
  <2>1. Old(host) = [host EXCEPT !.old = TRUE] /\ host \in HostRec
    BY <1>2 DEF Old
  <2>2. Old(host) \in HostRec /\ Old(host).old
    BY <2>1 DEF HostRec
  <2>3. Old(host) # NoHost
    BY <2>2, LatticeStateAssumption DEF HostRec
  <2> QED
    BY <1>2, <2>2, <2>3
<1> QED
  BY <1>1, <1>2

LEMMA SilenceTyped ==
  ASSUME TInv, NEW aged \in SUBSET Hosts, Silence(aged)
  PROVE  /\ StoreTyped' /\ ProcsTyped'
         /\ \A w \in Procs : proc'[w].todo = proc[w].todo /\ proc'[w].seq = proc[w].seq
<1>1. StoreTyped /\ proc \in [Procs -> ProcRec]
  BY DEF TInv, TypeOK, StoreTyped
<1>2. StoreTyped'
  <2>1. hosts' = [h \in Hosts |-> IF h \in aged THEN Old(hosts[h]) ELSE hosts[h]]
        /\ UNCHANGED <<components, providers>>
    BY DEF Silence
  <2>2. \A h \in Hosts : hosts'[h] \in HostRec \cup {NoHost}
    BY <1>1, <2>1, OldTyped DEF StoreTyped
  <2> QED
    BY <1>1, <2>1, <2>2 DEF StoreTyped
<1>3. ASSUME NEW w \in Procs
      PROVE  /\ proc'[w] \in ProcRec
             /\ proc'[w].todo = proc[w].todo /\ proc'[w].seq = proc[w].seq
             /\ w \in Workers => WorkOf(proc'[w])
  <2> DEFINE old == proc[w]
             host_ == IF Busy(w) /\ Event(w).host \in aged THEN Old(old.host) ELSE old.host
             hosts_ == [h \in Hosts |-> IF h \in aged THEN Old(old.hosts[h]) ELSE old.hosts[h]]
  <2>1. proc'[w] = [old EXCEPT !.host = host_, !.hosts = hosts_]
    BY <1>1 DEF Silence
  <2>2. old \in ProcRec
    BY <1>1
  <2>3. host_ \in HostRec \cup {NoHost} /\ (host_ = NoHost <=> old.host = NoHost)
    BY <2>2, ProcRecTodo, OldTyped
  <2>4. hosts_ \in [Hosts -> HostRec \cup {NoHost}]
    BY <2>2, ProcRecTodo, OldTyped
  <2> HIDE DEF host_, hosts_, old
  <2>5. /\ proc'[w] \in ProcRec
        /\ proc'[w].todo = old.todo /\ proc'[w].seq = old.seq /\ proc'[w].event = old.event
        /\ proc'[w].host = host_
    BY <2>1, <2>2, <2>3, <2>4, ProcRecTodo
  <2>6. ASSUME w \in Workers PROVE WorkOf(proc'[w])
    <3>1. WorkOf(old)
      BY <2>6 DEF TInv, old
    <3> QED
      BY <2>3, <2>5, <3>1, SameWork
  <2> QED
    BY <2>5, <2>6 DEF old
<1>4. proc' \in [Procs -> ProcRec]
  <2>1. proc' = [w \in Procs |-> proc'[w]]
    BY DEF Silence
  <2> QED
    BY <1>3, <2>1
<1>5. ProcsTyped'
  BY <1>3, <1>4 DEF ProcsTyped, WorkOf, Procs
<1> QED
  BY <1>2, <1>3, <1>5

LEMMA ReapFailsTyped ==
  ASSUME TInv, NEW r \in Reapers, ReapFails(r)
  PROVE  ProcsTyped'
<1>1. r \in Procs /\ r \notin Workers
  BY ReaperIsNoWorker
<1> DEFINE todo_ == RestOfTick(proc[r].todo)
           hosts_ == proc[r].hosts
<1>2. todo_ \in Seq(Ops)
  BY ReapStepsTyped DEF RestOfTick
<1>3. hosts_ \in [Hosts -> HostRec \cup {NoHost}]
  BY <1>1 DEF TInv, TypeOK, ProcRec
<1>4. Become(r, [Idle EXCEPT !.todo = todo_, !.hosts = hosts_])
  BY DEF ReapFails
<1> HIDE DEF todo_, hosts_
<1>5. [Idle EXCEPT !.todo = todo_, !.hosts = hosts_] \in ProcRec
  BY <1>2, <1>3, IdleTyped, ProcRecTodo
<1> QED
  BY <1>1, <1>4, <1>5, BecomeTyped

LEMMA ChaosTyped ==
  ASSUME TInv, Chaos
  PROVE  TInv'
<1>1. LatticeTyped /\ StoreTyped /\ StreamTyped /\ ProcsTyped /\ faults \in 0 .. MaxFaults
  BY TInvParts
<1>2. CASE Environment
  BY <1>2, EnvironmentStep
<1>3. CASE \E h \in Hosts : HostCrash(h)
  <2>1. LatticeTyped' /\ UNCHANGED <<store, delivery, proc, faults, lost>>
    BY <1>3, HaltTyped DEF HostCrash
  <2>2. StoreTyped' /\ StreamTyped' /\ ProcsTyped' /\ faults' \in 0 .. MaxFaults
    BY <1>1, <2>1 DEF StoreTyped, store, StreamTyped, Deliverable, delivery, ProcsTyped, WorkOf
  <2> QED
    BY <2>1, <2>2 DEF TInv, TypeOK, LatticeTyped, StoreTyped, StreamTyped, ProcsTyped
<1>4. CASE \E h \in Hosts : Fault /\ Silence({h})
  <2>1. StoreTyped' /\ ProcsTyped' /\ UNCHANGED <<lattice, delivery, lost>>
        /\ faults' \in 0 .. MaxFaults
    BY <1>1, <1>4, SilenceTyped, FaultTyped DEF Silence
  <2>2. LatticeTyped' /\ StreamTyped'
    BY <1>1, <2>1 DEF LatticeTyped, lattice, StreamTyped, Deliverable, delivery
  <2> QED
    BY <2>1, <2>2 DEF TInv, TypeOK, LatticeTyped, StoreTyped, StreamTyped, ProcsTyped
<1>5. CASE \E w \in Workers : Nack(w)
  BY <1>5, NackStep
<1>6. CASE \E r \in Reapers : Tick(r)
  BY <1>6, ReapTyped
<1>7. CASE (\E r \in Reapers : ReapFails(r)) \/ (\E w \in Procs : Crash(w))
  <2>1. ProcsTyped'
    BY <1>7, ReapFailsTyped, BecomeTyped, IdleTyped DEF Crash, WorkOf
  <2>2. UNCHANGED <<lattice, store, delivery, lost>> /\ faults' \in 0 .. MaxFaults
    BY <1>1, <1>7, FaultTyped DEF ReapFails, Crash
  <2>3. LatticeTyped' /\ StoreTyped' /\ StreamTyped'
    BY <1>1, <2>2 DEF LatticeTyped, lattice, StoreTyped, store, StreamTyped, Deliverable, delivery
  <2> QED
    BY <2>1, <2>2, <2>3 DEF TInv, TypeOK, LatticeTyped, StoreTyped, StreamTyped, ProcsTyped
<1>8. CASE \E i \in DOMAIN stream : Expire(i)
  <2>1. StreamTyped' /\ UNCHANGED <<lattice, store, proc>> /\ faults' \in 0 .. MaxFaults
    BY <1>1, <1>8, AgainTyped, FaultTyped DEF Expire
  <2>2. LatticeTyped' /\ StoreTyped' /\ ProcsTyped'
    BY <1>1, <2>1 DEF LatticeTyped, lattice, StoreTyped, store, ProcsTyped, WorkOf
  <2> QED
    BY <2>1, <2>2 DEF TInv, TypeOK, LatticeTyped, StoreTyped, StreamTyped, ProcsTyped
<1> QED
  BY <1>2, <1>3, <1>4, <1>5, <1>6, <1>7, <1>8 DEF Chaos

LEMMA GoneStep ==
  ASSUME SInv, Chaos \/ Progress
  PROVE  GoneRunsNothing'
<1>1. LatticeTyped /\ GoneRunsNothing
  BY DEF SInv, TInv, TypeOK, LatticeTyped
<1>2. CASE UNCHANGED lattice
  BY <1>1, <1>2 DEF lattice, GoneRunsNothing, Up
<1>3. ASSUME NEW h \in Hosts, Halt(h) PROVE GoneRunsNothing'
  <2>1. \A k \in Hosts : k # h => /\ power'[k] = power[k] /\ runs'[k] = runs[k]
                                  /\ health'[k] = health[k]
    BY <1>1, <1>3 DEF Halt, LatticeTyped
  <2>2. /\ \A c \in Components : runs'[h][c] = Absent
        /\ \A p \in Providers : health'[h][p] = Absent
    BY <1>1, <1>3 DEF Halt, LatticeTyped
  <2> QED
    BY <1>1, <2>1, <2>2 DEF GoneRunsNothing, Up
<1>4. CASE Environment
  <2>1. PICK h \in Hosts :
          \/ HostStart(h) \/ HostStop(h) \/ Heartbeat(h)
          \/ \E c \in Components, a \in Anns, n \in Counts \cup {0} :
               Scale(h, c, [ann |-> a, count |-> n])
          \/ \E p \in Providers : ProviderStart(h, p) \/ ProviderStop(h, p)
          \/ \E p \in Providers, r \in {"status", "passed", "failed"} : HealthCheck(h, p, r)
    BY <1>4 DEF Environment
  <2>2. CASE HostStop(h) \/ Heartbeat(h)
    BY <1>2, <1>3, <2>2 DEF HostStop, Heartbeat
  <2>3. CASE HostStart(h)
    <3>1. \A k \in Hosts : power'[k] = IF k = h THEN "up" ELSE power[k]
      BY <1>1, <2>3 DEF HostStart, LatticeTyped
    <3> QED
      BY <1>1, <2>3, <3>1 DEF HostStart, GoneRunsNothing, Up
  <2>4. CASE /\ Up(h) /\ power' = power
             /\ \A k \in Hosts : k # h => runs'[k] = runs[k] /\ health'[k] = health[k]
    BY <1>1, <2>4 DEF GoneRunsNothing, Up
  <2>5. CASE \E c \in Components, a \in Anns, n \in Counts \cup {0} :
               Scale(h, c, [ann |-> a, count |-> n])
    BY <1>1, <2>4, <2>5 DEF Scale, LatticeTyped
  <2>6. CASE \E p \in Providers : ProviderStart(h, p) \/ ProviderStop(h, p)
    BY <1>1, <2>4, <2>6 DEF ProviderStart, ProviderStop, ProviderEvent, LatticeTyped
  <2>7. CASE \E p \in Providers, r \in {"status", "passed", "failed"} : HealthCheck(h, p, r)
    <3>1. Up(h)
      BY <1>1, <2>7 DEF HealthCheck, GoneRunsNothing
    <3> QED
      BY <1>1, <2>4, <2>7, <3>1 DEF HealthCheck, LatticeTyped
  <2> QED
    BY <2>1, <2>2, <2>3, <2>5, <2>6, <2>7
<1>5. CASE \E h \in Hosts : HostCrash(h)
  BY <1>3, <1>5 DEF HostCrash
<1>6. CASE \/ \E h \in Hosts : Fault /\ Silence({h})
           \/ \E w \in Workers : Nack(w)
           \/ \E r \in Reapers : ReapFails(r)
           \/ \E w \in Procs : Crash(w)
           \/ \E i \in DOMAIN stream : Expire(i)
  BY <1>2, <1>6 DEF Silence, Nack, ReapFails, Crash, Expire
<1>7. CASE (\E w \in Workers : Work(w)) \/ (\E r \in Reapers : Reap(r) \/ Tick(r))
  BY <1>2, <1>7, WorkTyped, ReapTyped DEF SInv
<1> QED
  BY <1>4, <1>5, <1>6, <1>7 DEF Chaos, Progress
-----------------------------------------------------------------------------
(* What the store must say of a host, of the instances on a host and of    *)
(* the providers on a host.  Of the instances it can be said only if all   *)
(* components are started with the same annotations: heartbeats compare    *)
(* numbers of annotation sets, and may take others for up to date.         *)
Count(h, c, a) == IF Runs(h, c, a) = 0 THEN Absent ELSE Runs(h, c, a)

HostExact(h) == hosts[h] = HostFrom(Inventory(h))

InstancesExact(f, h) ==
  OneAnn => \A c \in Components : runs[h][c] # Absent =>
              \A a \in Anns : f[c][h][a] = Count(h, c, a)

ProvidersKnown(f, h) == \A p \in Providers : health[h][p] # Absent => f[p][h] # Absent

Exact(h) == HostExact(h) /\ InstancesExact(components, h) /\ ProvidersKnown(providers, h)

(* What the store will have when w has written what it has staged.         *)
ComponentsAfter(w) ==
  [c \in Components |-> IF c \in proc[w].put THEN proc[w].components[c] ELSE components[c]]

ProvidersAfter(w) ==
  [p \in Providers |-> IF p \in proc[w].put THEN proc[w].providers[p] ELSE providers[p]]

SameBut(f, g, ids, h) == \A i \in ids, k \in Hosts : k # h => f[i][k] = g[i][k]

(* How far w has come with the heartbeat of h.                             *)
Handling(w, h) ==
  /\ Event(w) = Inventory(h)
  /\ \/ /\ proc[w].todo = <<"put_host", "list_providers", "put_providers",
                            "list_components", "put_components">>
        /\ proc[w].host = HostFrom(Inventory(h))
     \/ /\ proc[w].todo = <<"list_providers", "put_providers",
                            "list_components", "put_components">>
        /\ HostExact(h)
     \/ /\ proc[w].todo = <<"put_providers", "list_components", "put_components">>
        /\ HostExact(h)
        /\ ProvidersKnown(ProvidersAfter(w), h)
        /\ SameBut(ProvidersAfter(w), providers, Providers, h)
     \/ /\ proc[w].todo = <<"list_components", "put_components">>
        /\ HostExact(h) /\ ProvidersKnown(providers, h)
     \/ /\ proc[w].todo = <<"put_components">>
        /\ HostExact(h) /\ ProvidersKnown(providers, h)
        /\ InstancesExact(ComponentsAfter(w), h)
        /\ SameBut(ComponentsAfter(w), components, Components, h)
     \/ proc[w].todo = <<>> /\ Exact(h)

AllRest == \A r \in Reapers : Resting(r)
NoneBusy == \A w \in Workers : ~Busy(w)

(* In the round of heartbeats at most one is under way.                    *)
NonePending ==
  DOMAIN stream = {} /\ NoneBusy /\ \A k \in fresh : Exact(k)

OneWaiting(h, i) ==
  /\ DOMAIN stream = {i} /\ NoneBusy
  /\ stream[i].event = Inventory(h) /\ stream[i].state = "due"
  /\ \A k \in fresh : k # h => Exact(k)

OneHandled(h, w) ==
  /\ DOMAIN stream = {proc[w].seq} /\ stream[proc[w].seq].state = "out"
  /\ Busy(w) /\ \A v \in Workers : Busy(v) => v = w
  /\ Handling(w, h)
  /\ \A k \in fresh : k # h => Exact(k)

Heartbeats ==
  /\ AllRest
  /\ \A k \in fresh : k \in Hosts /\ Up(k)
  /\ \/ NonePending
     \/ \E h \in fresh : \E i \in DOMAIN stream : OneWaiting(h, i)
     \/ \E h \in fresh, w \in Workers : OneHandled(h, w)

(* When the others have been silent for long.                              *)
UpExact == \A h \in Hosts : Up(h) => Exact(h)
UpKnown == \A h \in Hosts : Up(h) => ProvidersKnown(providers, h)

Aged ==
  /\ AllRest
  /\ UpExact
  /\ \A h \in Hosts : ~Up(h) => hosts[h] = NoHost \/ hosts[h].old

(* What a tick of the reaper leaves, in the order in which it does it.     *)
HostsRight ==
  \A h \in Hosts : IF Up(h) THEN HostExact(h) ELSE hosts[h] = NoHost

ComponentsRight(f) ==
  \A h \in Hosts, c \in Components, a \in Anns :
    /\ runs[h][c] = Absent => f[c][h][a] = Absent
    /\ OneAnn => f[c][h][a] = Count(h, c, a)

ProvidersRight(f) ==
  \A h \in Hosts, p \in Providers : /\ health[h][p] # Absent => f[p][h] # Absent
                                    /\ f[p][h] # Absent => Up(h)

(* The store when r has put and deleted what it has staged.                *)
(* How far r has come with its tick.                                       *)
ReapingHosts(r) ==
  /\ UpExact
  /\ \/ /\ proc[r].todo = ReapSteps
        /\ \A h \in Hosts : ~Up(h) => hosts[h] = NoHost \/ hosts[h].old
     \/ /\ proc[r].todo = <<"del_hosts", "list_hosts",
                            "reap_components", "put_components", "del_components",
                            "reap_providers", "put_providers", "del_providers">>
        /\ \A h \in Hosts : h \in proc[r].del <=> hosts[h] # NoHost /\ ~Up(h)
     \/ /\ proc[r].todo = <<"list_hosts",
                            "reap_components", "put_components", "del_components",
                            "reap_providers", "put_providers", "del_providers">>
        /\ HostsRight

ReapingComponents(r) ==
  /\ HostsRight /\ proc[r].hosts = hosts /\ UpKnown
  /\ \/ /\ proc[r].todo = <<"reap_components", "put_components", "del_components",
                            "reap_providers", "put_providers", "del_providers">>
        /\ UpExact
     \/ /\ proc[r].todo = <<"put_components", "del_components",
                            "reap_providers", "put_providers", "del_providers">>
        /\ proc[r].put \cap proc[r].del = {}
        /\ ComponentsRight(ComponentsWritten(r))
     \/ /\ proc[r].todo = <<"del_components",
                            "reap_providers", "put_providers", "del_providers">>
        /\ proc[r].put = {}
        /\ ComponentsRight(ComponentsWritten(r))

ReapingProviders(r) ==
  /\ HostsRight /\ ComponentsRight(components)
  /\ \/ /\ proc[r].todo = <<"reap_providers", "put_providers", "del_providers">>
        /\ proc[r].hosts = hosts /\ UpKnown
     \/ /\ proc[r].todo = <<"put_providers", "del_providers">>
        /\ proc[r].put \cap proc[r].del = {}
        /\ ProvidersRight(ProvidersWritten(r))
     \/ /\ proc[r].todo = <<"del_providers">>
        /\ proc[r].put = {}
        /\ ProvidersRight(ProvidersWritten(r))
     \/ /\ proc[r].todo = <<>>
        /\ ProvidersRight(providers)

Reaping(r) ==
  /\ \A q \in Reapers : q # r => Resting(q)
  /\ ReapingHosts(r) \/ ReapingComponents(r) \/ ReapingProviders(r)

StoreRight == HostsRight /\ ComponentsRight(components) /\ ProvidersRight(providers)

NoMessages == DOMAIN stream = {} /\ NoneBusy

SettleInv ==
  /\ SInv
  /\ phase = "busy" => fresh = {}
  /\ phase = "heartbeats" => Heartbeats
  /\ phase = "aged" => NoMessages /\ Aged
  /\ phase = "reaping" => NoMessages /\ \E r \in Reapers : Reaping(r)
  /\ phase = "settled" => NoMessages /\ AllRest /\ StoreRight

LEMMA EventOfInventory ==
  ASSUME TInv, NEW h \in Hosts
  PROVE  /\ Steps(Inventory(h)) = <<"put_host", "list_providers", "put_providers",
                                    "list_components", "put_components">>
         /\ HostFrom(Inventory(h)) =
              [components |-> {c \in Components : runs[h][c] # Absent},
               providers |-> {p \in Providers : health[h][p] # Absent}, old |-> FALSE]
         /\ HostFrom(Inventory(h)) \in HostRec
         /\ HostFrom(Inventory(h)) # NoHost
<1>1. /\ Inventory(h).type = "host_heartbeat"
      /\ Inventory(h).loads = runs[h]
      /\ Inventory(h).providers = {p \in Providers : health[h][p] # Absent}
  BY InventoryIsEvent
<1>2. Steps(Inventory(h)) = <<"put_host", "list_providers", "put_providers",
                              "list_components", "put_components">>
  BY <1>1 DEF Steps
<1>3. HostFrom(Inventory(h)) =
        [components |-> {c \in Components : Inventory(h).loads[c] # Absent},
         providers |-> Inventory(h).providers, old |-> FALSE]
  BY <1>1 DEF HostFrom
<1>4. HostFrom(Inventory(h)) =
        [components |-> {c \in Components : runs[h][c] # Absent},
         providers |-> {p \in Providers : health[h][p] # Absent}, old |-> FALSE]
  BY <1>1, <1>3
<1>5. HostFrom(Inventory(h)) \in HostRec
  BY <1>4 DEF HostRec
<1> QED
  BY <1>2, <1>4, <1>5, LatticeStateAssumption DEF HostRec

-----------------------------------------------------------------------------
(* One heartbeat.  Only what is stored of its host may change.             *)
Elsewhere(h) ==
  \A k \in Hosts : k # h => /\ hosts'[k] = hosts[k]
                            /\ \A c \in Components : components'[c][k] = components[c][k]
                            /\ \A p \in Providers : providers'[p][k] = providers[p][k]

(* And nobody else does anything.                                          *)
OnlySteps(w) ==
  /\ proc'[w].seq = proc[w].seq
  /\ \A v \in Procs : v # w => proc'[v] = proc[v]

LEMMA ExactElsewhere ==
  ASSUME NEW h \in Hosts, NEW k \in Hosts, k # h, Elsewhere(h), UNCHANGED lattice, Exact(k)
  PROVE  Exact(k)'
BY DEF Elsewhere, lattice, Exact, HostExact, InstancesExact, ProvidersKnown, HostFrom, Inventory,
       Count, Runs

LEMMA HandledReads ==
  ASSUME TInv, NEW h \in Hosts, NEW w \in Workers, Handling(w, h),
         HeartbeatProviders(w) \/ HeartbeatComponents(w)
  PROVE  Handling(w, h)' /\ OnlySteps(w)
<1> DEFINE e == Inventory(h)
<1>1. /\ Event(w) = e /\ e.type = "host_heartbeat" /\ e.host = h /\ e.loads = runs[h]
      /\ e.providers = {p \in Providers : health[h][p] # Absent}
  BY InventoryIsEvent DEF Handling
<1>2. /\ w \in Procs /\ proc \in [Procs -> ProcRec]
      /\ components \in [Components -> Instances] /\ providers \in [Providers -> Statuses]
  BY DEF TInv, TypeOK, Procs
<1> HIDE DEF e
<1>3. CASE HeartbeatProviders(w)
  <2> DEFINE missing == {p \in e.providers : providers[p][h] = Absent}
             new == [p \in Providers |-> IF p \in missing
                       THEN [providers[p] EXCEPT ![h] = "pending"] ELSE providers[p]]
  <2>1. At(w, "list_providers") /\ UNCHANGED <<lattice, store>>
    BY <1>3 DEF HeartbeatProviders
  <2>2. PICK filled \in SUBSET (e.providers \ missing) :
          Become(w, StageProviders(w, new, missing \cup filled))
    BY <1>1, <1>3 DEF HeartbeatProviders, MissingProviders
  <2> DEFINE ids == missing \cup filled
             rec == StageProviders(w, new, ids)
  <2>3. new \in [Providers -> Statuses] /\ ids \in SUBSET Providers
    BY <1>1, <1>2 DEF Statuses
  <2>4. /\ \A p \in missing : new[p][h] # Absent
        /\ \A p \in filled : new[p][h] # Absent
        /\ \A p \in e.providers : new[p][h] # Absent
        /\ \A p \in Providers, k \in Hosts : k # h => new[p][k] = providers[p][k]
        /\ \A p \in Providers : p \notin ids => new[p] = providers[p]
    BY <1>1, <1>2, LatticeStateAssumption DEF Statuses
  <2>5. \A p \in ids : new[p] # NoStatuses
    BY <2>4 DEF NoStatuses
  <2> HIDE DEF new, ids
  <2>6. /\ rec \in ProcRec /\ rec.todo = Tail(proc[w].todo) /\ rec.event = Event(w)
        /\ rec.seq = proc[w].seq
        /\ \A p \in Providers : rec.providers[p] =
             IF p \in ids /\ new[p] # NoStatuses THEN new[p] ELSE NoStatuses
        /\ rec.put = {p \in ids : new[p] # NoStatuses}
    BY <1>2, <2>1, <2>3, StagedProviders
  <2>7. proc'[w] = rec /\ \A v \in Procs : v # w => proc'[v] = proc[v]
    BY <1>2, <2>2 DEF Become, ids
  <2> HIDE DEF rec
  <2>8. \A p \in Providers : ProvidersAfter(w)'[p] = new[p]
    BY <2>1, <2>4, <2>5, <2>6, <2>7 DEF ProvidersAfter, store
  <2>9. proc[w].todo = <<"list_providers", "put_providers",
                         "list_components", "put_components">> /\ HostExact(h)
    BY <2>1 DEF Handling, At
  <2>10. Event(w)' = Inventory(h)' /\ HostExact(h)'
    BY <1>1, <2>1, <2>6, <2>7, <2>9 DEF Event, Inventory, HostExact, HostFrom, lattice, store, e
  <2>11. ProvidersKnown(ProvidersAfter(w), h)'
    BY <1>1, <2>1, <2>4, <2>8 DEF ProvidersKnown, lattice
  <2>12. SameBut(ProvidersAfter(w), providers, Providers, h)'
    BY <2>1, <2>4, <2>8 DEF SameBut, store
  <2>13. proc'[w].todo = <<"put_providers", "list_components", "put_components">>
    BY <2>6, <2>7, <2>9
  <2> QED
    BY <2>6, <2>7, <2>10, <2>11, <2>12, <2>13 DEF Handling, OnlySteps
<1>4. CASE HeartbeatComponents(w)
  <2> DEFINE loads == runs[h]
             stale == {c \in Components :
                         loads[c] # Absent /\ ~UpToDate(components[c], h, loads[c])}
             new == [c \in Components |->
                       IF c \in stale
                       THEN [components[c] EXCEPT ![h] =
                              [a \in Anns |-> IF a = loads[c].ann THEN loads[c].count ELSE Absent]]
                       ELSE components[c]]
             rec == StageComponents(w, new, stale)
  <2>1. At(w, "list_components") /\ UNCHANGED <<lattice, store>>
    BY <1>4 DEF HeartbeatComponents
  <2>2. Become(w, rec)
    BY <1>1, <1>4 DEF HeartbeatComponents
  <2>3. \A c \in Components : loads[c] # Absent => loads[c] \in Loads
    BY DEF TInv, TypeOK
  <2>4. \A c \in Components : loads[c] # Absent =>
          /\ loads[c].ann \in Anns /\ loads[c].count \in Counts /\ loads[c].count # 0
          /\ loads[c].count # Absent
    BY <2>3, LatticeStateAssumption DEF Loads
  <2>5. new \in [Components -> Instances] /\ stale \in SUBSET Components
    BY <1>2, <2>4 DEF Instances
  <2>6. /\ \A c \in stale, a \in Anns :
             new[c][h][a] = IF a = loads[c].ann THEN loads[c].count ELSE Absent
        /\ \A c \in Components, k \in Hosts : k # h => new[c][k] = components[c][k]
        /\ \A c \in Components : c \notin stale => new[c] = components[c]
    BY <1>2 DEF Instances
  <2>7. \A c \in stale : new[c] # NoInstances
    BY <2>4, <2>6 DEF NoInstances
  <2>8. \A c \in Components \ stale : loads[c] # Absent =>
          components[c][h][loads[c].ann] = loads[c].count
    BY DEF UpToDate
  <2>9. InstancesExact(new, h)
    <3> SUFFICES ASSUME OneAnn, NEW c \in Components, loads[c] # Absent, NEW a \in Anns
                 PROVE  new[c][h][a] = Count(h, c, a)
      BY DEF InstancesExact
    <3>1. a = loads[c].ann
      BY <2>4 DEF OneAnn
    <3>2. Count(h, c, a) = loads[c].count
      BY <2>4, <3>1 DEF Count, Runs
    <3> QED
      BY <2>6, <2>8, <3>1, <3>2
  <2> HIDE DEF new, stale
  <2>10. /\ rec \in ProcRec /\ rec.todo = Tail(proc[w].todo) /\ rec.event = Event(w)
         /\ rec.seq = proc[w].seq
         /\ \A c \in Components : rec.components[c] =
              IF c \in stale /\ new[c] # NoInstances THEN new[c] ELSE NoInstances
         /\ rec.put = {c \in stale : new[c] # NoInstances}
    BY <1>2, <2>1, <2>5, StagedComponents
  <2>11. proc'[w] = rec /\ \A v \in Procs : v # w => proc'[v] = proc[v]
    BY <1>2, <2>2 DEF Become
  <2> HIDE DEF rec
  <2>12. \A c \in Components : ComponentsAfter(w)'[c] = new[c]
    BY <2>1, <2>6, <2>7, <2>10, <2>11 DEF ComponentsAfter, store
  <2>13. /\ proc[w].todo = <<"list_components", "put_components">>
         /\ HostExact(h) /\ ProvidersKnown(providers, h)
    BY <2>1 DEF Handling, At
  <2>14. Event(w)' = Inventory(h)' /\ HostExact(h)' /\ ProvidersKnown(providers, h)'
    BY <1>1, <2>1, <2>10, <2>11, <2>13
    DEF Event, Inventory, HostExact, HostFrom, ProvidersKnown, lattice, store, e
  <2>15. InstancesExact(ComponentsAfter(w), h)'
    BY <2>1, <2>9, <2>12 DEF InstancesExact, Count, Runs, lattice
  <2>16. SameBut(ComponentsAfter(w), components, Components, h)'
    BY <2>1, <2>6, <2>12 DEF SameBut, store
  <2>17. proc'[w].todo = <<"put_components">>
    BY <2>10, <2>11, <2>13
  <2> QED
    BY <2>10, <2>11, <2>14, <2>15, <2>16, <2>17 DEF Handling, OnlySteps
<1> QED
  BY <1>3, <1>4

LEMMA HandledWrites ==
  ASSUME TInv, NEW h \in Hosts, NEW w \in Workers, Handling(w, h),
         PutHost(w) \/ PutProviders(w) \/ PutComponents(w)
  PROVE  /\ Handling(w, h)' /\ Elsewhere(h)
         /\ OnlySteps(w)
<1> DEFINE e == Inventory(h)
<1>1. Event(w) = e /\ e.type = "host_heartbeat" /\ e.host = h
  BY InventoryIsEvent DEF Handling
<1>2. /\ w \in Procs /\ proc \in [Procs -> ProcRec]
      /\ hosts \in [Hosts -> HostRec \cup {NoHost}]
      /\ components \in [Components -> Instances] /\ providers \in [Providers -> Statuses]
      /\ UNCHANGED lattice
  BY WriteTyped DEF TInv, TypeOK, Procs
<1>3. e' = e
  BY <1>2 DEF lattice, Inventory
<1>4. PICK op : At(w, op) /\ (PutHost(w) => op = "put_host")
                /\ (PutProviders(w) => op = "put_providers")
                /\ (PutComponents(w) => op = "put_components")
  BY DEF PutHost, PutProviders, PutComponents, At
<1>5. /\ Done(w) \in ProcRec /\ Done(w).todo = Tail(proc[w].todo) /\ Done(w).event = e
      /\ Done(w).seq = proc[w].seq
  BY <1>1, <1>2, <1>4, DoneFacts
<1> HIDE DEF e
<1>6. CASE PutHost(w)
  <2> DEFINE rec == [Done(w) EXCEPT !.host = NoHost]
  <2>1. /\ proc'[w] = rec /\ \A v \in Procs : v # w => proc'[v] = proc[v]
        /\ hosts' = [hosts EXCEPT ![h] = proc[w].host]
        /\ UNCHANGED <<components, providers>>
    BY <1>1, <1>2, <1>6 DEF PutHost, Become
  <2>2. rec.todo = Tail(proc[w].todo) /\ rec.event = e /\ rec.seq = proc[w].seq
    BY <1>5, ProcRecTodo
  <2> HIDE DEF rec
  <2>3. /\ proc[w].todo = <<"put_host", "list_providers", "put_providers",
                            "list_components", "put_components">>
        /\ proc[w].host = HostFrom(e)
    BY <1>4, <1>6 DEF Handling, At, e
  <2>4. proc'[w].todo = <<"list_providers", "put_providers",
                          "list_components", "put_components">>
    BY <2>1, <2>2, <2>3
  <2>5. hosts'[h] = HostFrom(e) /\ \A k \in Hosts : k # h => hosts'[k] = hosts[k]
    BY <1>2, <2>1, <2>3
  <2>6. HostExact(h)' /\ Event(w)' = e'
    BY <1>3, <2>1, <2>2, <2>5 DEF HostExact, HostFrom, Event, e
  <2> QED
    BY <1>2, <2>1, <2>2, <2>4, <2>5, <2>6 DEF Handling, Elsewhere, OnlySteps, e
<1>7. CASE PutProviders(w)
  <2> DEFINE rec == [Done(w) EXCEPT !.put = {}, !.providers = Idle.providers]
  <2>1. /\ proc'[w] = rec /\ \A v \in Procs : v # w => proc'[v] = proc[v]
        /\ UNCHANGED <<hosts, components>>
        /\ \A p \in Providers : providers'[p] = ProvidersAfter(w)[p]
    BY <1>2, <1>7 DEF PutProviders, Become, ProvidersAfter
  <2>2. rec.todo = Tail(proc[w].todo) /\ rec.event = e /\ rec.seq = proc[w].seq
    BY <1>5, ProcRecTodo
  <2> HIDE DEF rec
  <2>3. /\ proc[w].todo = <<"put_providers", "list_components", "put_components">>
        /\ HostExact(h) /\ ProvidersKnown(ProvidersAfter(w), h)
        /\ SameBut(ProvidersAfter(w), providers, Providers, h)
    BY <1>4, <1>7 DEF Handling, At
  <2>4. proc'[w].todo = <<"list_components", "put_components">>
    BY <2>1, <2>2, <2>3
  <2>5. HostExact(h)' /\ ProvidersKnown(providers, h)' /\ Event(w)' = e'
    BY <1>2, <1>3, <2>1, <2>2, <2>3
    DEF HostExact, HostFrom, Inventory, ProvidersKnown, lattice, Event
  <2>6. Elsewhere(h)
    BY <2>1, <2>3 DEF Elsewhere, SameBut
  <2> QED
    BY <1>2, <2>1, <2>2, <2>4, <2>5, <2>6 DEF Handling, OnlySteps, e
<1>8. CASE PutComponents(w)
  <2> DEFINE rec == [Done(w) EXCEPT !.put = {}, !.components = Idle.components]
  <2>1. /\ proc'[w] = rec /\ \A v \in Procs : v # w => proc'[v] = proc[v]
        /\ UNCHANGED <<hosts, providers>>
        /\ \A c \in Components : components'[c] = ComponentsAfter(w)[c]
    BY <1>2, <1>8 DEF PutComponents, Become, ComponentsAfter
  <2>2. rec.todo = Tail(proc[w].todo) /\ rec.event = e /\ rec.seq = proc[w].seq
    BY <1>5, ProcRecTodo
  <2> HIDE DEF rec
  <2>3. /\ proc[w].todo = <<"put_components">>
        /\ HostExact(h) /\ ProvidersKnown(providers, h)
        /\ InstancesExact(ComponentsAfter(w), h)
        /\ SameBut(ComponentsAfter(w), components, Components, h)
    BY <1>4, <1>8 DEF Handling, At
  <2>4. proc'[w].todo = <<>>
    BY <2>1, <2>2, <2>3
  <2>5. HostExact(h)' /\ ProvidersKnown(providers, h)' /\ Event(w)' = e'
    BY <1>2, <1>3, <2>1, <2>2, <2>3
    DEF HostExact, HostFrom, Inventory, ProvidersKnown, lattice, Event
  <2>6. InstancesExact(components, h)'
    BY <1>2, <2>1, <2>3 DEF InstancesExact, Count, Runs, lattice
  <2>7. Elsewhere(h)
    BY <2>1, <2>3 DEF Elsewhere, SameBut
  <2> QED
    BY <1>2, <2>1, <2>2, <2>4, <2>5, <2>6, <2>7 DEF Handling, Exact, OnlySteps, e
<1> QED
  BY <1>6, <1>7, <1>8

(* A worker that handles a heartbeat does nothing else.                    *)
LEMMA HandledOps ==
  ASSUME TInv, NEW h \in Hosts, NEW w \in Workers, Handling(w, h), Handle(w)
  PROVE  \/ PutHost(w) \/ PutProviders(w) \/ PutComponents(w)
         \/ HeartbeatProviders(w) \/ HeartbeatComponents(w)
<1>1. Event(w).type = "host_heartbeat"
  BY InventoryIsEvent DEF Handling
<1>2. \A op : At(w, op) => op \in {"put_host", "list_providers", "put_providers",
                                    "list_components", "put_components"}
  BY DEF Handling, At
<1>3. ~DelComponents(w) /\ ~DelProviders(w)
  BY <1>2 DEF DelComponents, DelProviders
<1>4. ~GetComponent(w) /\ ~GetHost(w)
  BY <1>2 DEF GetComponent, GetHost
<1>5. ~GetStoppedHost(w) /\ ~DelStoppedHost(w)
  BY <1>2 DEF GetStoppedHost, DelStoppedHost
<1>6. ~StartedProvider(w)
  BY <1>2 DEF StartedProvider
<1>7. ~StoppedProvider(w)
  BY <1>2 DEF StoppedProvider
<1>8. ~CheckedProvider(w)
  BY <1>2 DEF CheckedProvider
<1>9. ~StoppedComponents(w) /\ ~StoppedProviders(w)
  BY <1>1 DEF StoppedComponents, StoppedProviders
<1> QED
  BY <1>3, <1>4, <1>5, <1>6, <1>7, <1>8, <1>9 DEF Handle

LEMMA HandledStep ==
  ASSUME TInv, NEW h \in Hosts, NEW w \in Workers, Handling(w, h), Handle(w)
  PROVE  /\ Handling(w, h)' /\ Elsewhere(h) /\ OnlySteps(w)
         /\ UNCHANGED <<lattice, delivery>>
<1>1. ASSUME PutHost(w) \/ PutProviders(w) \/ PutComponents(w)
      PROVE  Handling(w, h)' /\ Elsewhere(h) /\ OnlySteps(w)
  BY <1>1, HandledWrites
<1>2. ASSUME HeartbeatProviders(w) \/ HeartbeatComponents(w)
      PROVE  Handling(w, h)' /\ Elsewhere(h) /\ OnlySteps(w)
  <2>1. UNCHANGED <<hosts, components, providers>>
    BY <1>2 DEF HeartbeatProviders, HeartbeatComponents, store
  <2> QED
    BY <1>2, <2>1, HandledReads DEF Elsewhere
<1> QED
  BY <1>1, <1>2, HandledOps, HandleTyped
-----------------------------------------------------------------------------
(* The round of heartbeats.                                                *)
LEMMA NothingToHandle ==
  ASSUME TInv, NEW w \in Workers, ~Busy(w)
  PROVE  ~Handle(w)
<1>1. \A op : ~At(w, op)
  BY DEF TInv, WorkOf, Busy, At
<1> QED
  BY <1>1 DEF Handle, PutHost, PutComponents, DelComponents, PutProviders, DelProviders,
              GetComponent, GetHost, GetStoppedHost, StoppedComponents, StoppedProviders,
              DelStoppedHost, StartedProvider, StoppedProvider, CheckedProvider,
              HeartbeatProviders, HeartbeatComponents

LEMMA ExactSame ==
  ASSUME NEW k \in Hosts, UNCHANGED <<lattice, store>>, Exact(k)
  PROVE  Exact(k)'
BY DEF lattice, store, Exact, HostExact, InstancesExact, ProvidersKnown, HostFrom, Inventory,
       Count, Runs

LEMMA HeartbeatDelivered ==
  ASSUME TInv, Heartbeats, NEW w \in Workers, Deliver(w), UNCHANGED fresh
  PROVE  \E h \in fresh : OneHandled(h, w)'
<1>1. PICK i \in Due :
        /\ stream' = [stream EXCEPT ![i].state = "out", ![i].tries = @ + 1]
        /\ Become(w, [Idle EXCEPT !.todo = Steps(stream[i].event), !.seq = i,
                        !.event = stream[i].event, !.host = HostFrom(stream[i].event)])
  BY DEF Deliver
<1>2. PICK h \in fresh : OneWaiting(h, i)
  <2>1. ~NonePending /\ \A k \in fresh, v \in Workers : ~OneHandled(k, v)
    BY <1>1 DEF Due, NonePending, OneHandled
  <2> QED
    BY <1>1, <2>1 DEF Heartbeats, OneWaiting, Due
<1>3. h \in Hosts /\ UNCHANGED <<lattice, store>> /\ \A k \in fresh : k \in Hosts
  BY DEF Deliver, Heartbeats
<1> DEFINE e == Inventory(h)
           rec == [Idle EXCEPT !.todo = Steps(e), !.seq = i, !.event = e, !.host = HostFrom(e)]
<1>4. e \in Events /\ HostFrom(e) \in HostRec /\ Steps(e) \in Seq(Ops)
      /\ Steps(e) = <<"put_host", "list_providers", "put_providers",
                      "list_components", "put_components">>
  BY <1>3, InventoryIsEvent, EventOfInventory, StepsAllowed, SeqOfAllowed
<1>5. i \in Nat /\ i # 0 /\ DOMAIN stream = {i} /\ stream[i].event = e
  BY <1>1, <1>2 DEF OneWaiting, Due, TInv, TypeOK
<1>6. Become(w, rec)
  BY <1>1, <1>5
<1>7. e' = e
  BY <1>3 DEF Inventory, lattice
<1> HIDE DEF e
<1>8. /\ rec.todo = Steps(e) /\ rec.seq = i /\ rec.event = e /\ rec.host = HostFrom(e)
  BY <1>4, <1>5, IdleTyped, ProcRecTodo
<1> HIDE DEF rec
<1>9. /\ proc'[w] = rec /\ \A v \in Workers : v # w => proc'[v] = proc[v]
  BY <1>6 DEF Become, TInv, TypeOK, Procs
<1>10. Handling(w, h)'
  <2>1. HostFrom(e)' = HostFrom(e)
    BY <1>7 DEF HostFrom
  <2> QED
    BY <1>4, <1>7, <1>8, <1>9, <2>1 DEF Handling, Event, e
<1>11. DOMAIN stream' = {i} /\ stream'[i].state = "out"
  <2>1. stream[i] \in [event : Events, tries : 0 .. MaxDeliver, state : {"due", "out"}]
    BY <1>5 DEF TInv, TypeOK
  <2>2. stream'[i] = [stream[i] EXCEPT !.state = "out", !.tries = @ + 1]
    BY <1>1, <1>5
  <2> QED
    BY <1>1, <1>5, <2>1, <2>2
<1>12. \A v \in Workers : Busy(v)' <=> v = w
  BY <1>2, <1>5, <1>8, <1>9 DEF Busy, OneWaiting, NoneBusy
<1>13. \A k \in fresh' : k # h => Exact(k)'
  BY <1>2, <1>3, ExactSame DEF OneWaiting
<1>14. proc'[w].seq = i
  BY <1>8, <1>9
<1>15. OneHandled(h, w)'
  BY <1>10, <1>11, <1>12, <1>13, <1>14 DEF OneHandled
<1> QED
  BY <1>15

LEMMA HeartbeatsWork ==
  ASSUME TInv, Heartbeats, NEW w \in Workers, Work(w), UNCHANGED fresh
  PROVE  Heartbeats'
<1>1. proc \in [Procs -> ProcRec] /\ Reapers \cap Workers = {} /\ w \in Procs
      /\ UNCHANGED lattice /\ \A k \in fresh : k \in Hosts
  BY WorkTyped, ReaperIsNoWorker DEF TInv, TypeOK, Procs, Heartbeats
<1>2. \A k \in fresh' : k \in Hosts /\ Up(k)'
  BY <1>1 DEF Heartbeats, Up, lattice
<1>3. CASE Deliver(w)
  <2>1. \A r \in Reapers : proc'[r] = proc[r]
    BY <1>1, <1>3 DEF Deliver, Become, Procs
  <2>2. AllRest'
    BY <2>1 DEF Heartbeats, AllRest, Resting
  <2> QED
    BY <1>2, <1>3, <2>2, HeartbeatDelivered DEF Heartbeats
<1>4. CASE ~Deliver(w)
  <2>1. Handle(w) \/ Ack(w)
    BY <1>4 DEF Work
  <2>2. Busy(w)
    BY <2>1, NothingToHandle DEF Ack
  <2>3. PICK h \in fresh : OneHandled(h, w)
    BY <2>2 DEF Heartbeats, NonePending, OneWaiting, NoneBusy, OneHandled
  <2>4. Handling(w, h) /\ h \in Hosts
    BY <1>1, <2>3 DEF OneHandled
  <2>5. CASE Handle(w)
    <3>1. /\ Handling(w, h)' /\ Elsewhere(h) /\ OnlySteps(w)
          /\ UNCHANGED <<lattice, delivery>>
      BY <2>4, <2>5, HandledStep
    <3>2. \A k \in fresh' : k # h => Exact(k)'
      BY <1>1, <2>3, <2>4, <3>1, ExactElsewhere DEF OneHandled
    <3>3. /\ \A v \in Workers : Busy(v)' <=> Busy(v)
          /\ \A r \in Reapers : proc'[r] = proc[r]
      BY <1>1, <3>1 DEF OnlySteps, Busy, Procs
    <3>4. AllRest'
      BY <3>3 DEF Heartbeats, AllRest, Resting
    <3>5. OneHandled(h, w)'
      BY <2>3, <3>1, <3>2, <3>3 DEF OneHandled, OnlySteps, delivery
    <3> QED
      BY <1>2, <2>3, <3>4, <3>5 DEF Heartbeats
  <2>6. CASE Ack(w)
    <3>1. Exact(h) /\ UNCHANGED <<lattice, store>>
      BY <2>4, <2>6 DEF Handling, Ack
    <3>2. \A k \in fresh' : Exact(k)'
      BY <1>1, <2>3, <3>1, ExactSame DEF OneHandled
    <3>3. DOMAIN stream' = {}
      BY <2>3, <2>6 DEF Ack, OneHandled
    <3>4. proc'[w].seq = 0 /\ \A v \in Procs : v # w => proc'[v] = proc[v]
      BY <1>1, <2>6, IdleTyped DEF Ack, Become
    <3>5. NoneBusy' /\ AllRest'
      BY <1>1, <2>3, <3>4
      DEF NoneBusy, Busy, OneHandled, Heartbeats, AllRest, Resting, Procs
    <3> QED
      BY <1>2, <3>2, <3>3, <3>5 DEF Heartbeats, NonePending
  <2> QED
    BY <2>1, <2>5, <2>6
<1> QED
  BY <1>3, <1>4

LEMMA HeartbeatSent ==
  ASSUME TInv, Heartbeats, NEW h \in Hosts, QuietHeartbeat(h)
  PROVE  Heartbeats'
<1>1. /\ Up(h) /\ Publish(Inventory(h)) /\ UNCHANGED <<lattice, store, proc>>
      /\ fresh' = fresh \cup {h} /\ h \notin fresh
      /\ stream = <<>> /\ NoneBusy
  BY DEF QuietHeartbeat, Heartbeat, Drained, NoneBusy
<1>2. \A k \in fresh : Exact(k)
  BY <1>1 DEF Heartbeats, NonePending, OneWaiting, OneHandled, NoneBusy
<1>3. \A k \in fresh' : k \in Hosts /\ Up(k)'
  BY <1>1 DEF Heartbeats, Up, lattice
<1>4. AllRest' /\ NoneBusy'
  BY <1>1 DEF Heartbeats, AllRest, Resting, NoneBusy, Busy
<1>5. /\ DOMAIN stream' = {lastSeq'}
      /\ stream'[lastSeq'].event = Inventory(h) /\ stream'[lastSeq'].state = "due"
  BY <1>1 DEF Publish
<1>6. Inventory(h)' = Inventory(h)
  BY <1>1 DEF Inventory, lattice
<1>7. \A k \in fresh' : k # h => Exact(k)'
  BY <1>1, <1>2, ExactSame DEF Heartbeats
<1>8. OneWaiting(h, lastSeq)'
  BY <1>4, <1>5, <1>6, <1>7 DEF OneWaiting
<1> QED
  BY <1>1, <1>3, <1>4, <1>5, <1>8 DEF Heartbeats
-----------------------------------------------------------------------------
(* The silence, and the tick of the reaper after it.                       *)
LEMMA NoMessagesNoWork ==
  ASSUME TInv, NoMessages, NEW w \in Workers
  PROVE  ~Work(w)
<1>1. ~Busy(w) /\ Due = {}
  BY DEF NoMessages, NoneBusy, Due
<1> QED
  BY <1>1, NothingToHandle DEF Work, Deliver, Ack

LEMMA SilenceAges ==
  ASSUME TInv, Heartbeats, LongAfter
  PROVE  NoMessages' /\ Aged'
<1> DEFINE aged == {h \in Hosts : ~Up(h)}
<1>1. /\ stream = <<>> /\ NoneBusy /\ \A h \in Hosts : Up(h) => h \in fresh
      /\ Silence(aged) /\ UNCHANGED <<lattice, delivery, components, providers>>
      /\ hosts' = [h \in Hosts |-> IF h \in aged THEN Old(hosts[h]) ELSE hosts[h]]
  BY DEF LongAfter, Drained, NoneBusy, Silence
<1>2. \A w \in Procs : proc'[w].todo = proc[w].todo /\ proc'[w].seq = proc[w].seq
  BY <1>1, SilenceTyped
<1>3. NoMessages' /\ AllRest'
  BY <1>1, <1>2 DEF NoMessages, NoneBusy, Busy, Heartbeats, AllRest, Resting, Procs, delivery
<1>4. \A h \in Hosts : Up(h) => Exact(h)
  BY <1>1 DEF Heartbeats, NonePending, OneWaiting, OneHandled, NoneBusy
<1>5. ASSUME NEW h \in Hosts, Up(h)'
      PROVE  Exact(h)'
  <2>1. Exact(h) /\ h \notin aged
    BY <1>1, <1>4, <1>5 DEF Up, lattice
  <2>2. hosts'[h] = hosts[h]
    BY <1>1, <2>1
  <2> QED
    BY <1>1, <2>1, <2>2
    DEF lattice, Exact, HostExact, InstancesExact, ProvidersKnown, HostFrom, Inventory, Count, Runs
<1>6. ASSUME NEW h \in Hosts, ~Up(h)'
      PROVE  hosts'[h] = NoHost \/ hosts'[h].old
  <2>1. h \in aged
    BY <1>1, <1>6 DEF Up, lattice
  <2>2. hosts[h] \in HostRec \cup {NoHost}
    BY DEF TInv, TypeOK
  <2> QED
    BY <1>1, <2>1, <2>2, OldTyped
<1> QED
  BY <1>3, <1>5, <1>6 DEF Aged, UpExact

LEMMA ReaperBecomes ==
  ASSUME TInv, NoMessages, NEW r \in Reapers, Reap(r) \/ Tick(r),
         \A q \in Reapers : q # r => Resting(q)
  PROVE  /\ NoMessages' /\ \A q \in Reapers : q # r => Resting(q)'
         /\ \A rec : Become(r, rec) => proc'[r] = rec
<1>1. proc \in [Procs -> ProcRec] /\ r \in Procs /\ r \notin Workers /\ UNCHANGED delivery
  BY ReaperIsNoWorker, ReapTyped DEF TInv, TypeOK
<1>2. \A rec : Become(r, rec) =>
        proc'[r] = rec /\ \A v \in Procs : v # r => proc'[v] = proc[v]
  BY <1>1 DEF Become
<1>3. \E rec : Become(r, rec)
  BY DEF Reap, Tick, ReapHosts, DelHosts, ListHosts, ReapComponents, PutComponents, DelComponents,
         ReapProviders, PutProviders, DelProviders
<1>4. \A v \in Procs : v # r => proc'[v] = proc[v]
  BY <1>2, <1>3
<1> QED
  BY <1>1, <1>2, <1>4 DEF NoMessages, NoneBusy, Busy, Resting, Procs, delivery

(* What holds of the hosts holds of them later, nothing else may change.   *)
LEMMA RightSame ==
  ASSUME UNCHANGED lattice
  PROVE  /\ UNCHANGED hosts => (HostsRight => HostsRight')
         /\ UNCHANGED components => (ComponentsRight(components) => ComponentsRight(components)')
         /\ UNCHANGED providers => (UpKnown => UpKnown')
         /\ UNCHANGED <<hosts, components, providers>> => (UpExact => UpExact')
BY DEF lattice, HostsRight, ComponentsRight, UpKnown, UpExact, Exact, HostExact, InstancesExact,
       ProvidersKnown, HostFrom, Inventory, Count, Runs, Up

LEMMA TickStarts ==
  ASSUME TInv, NoMessages, Aged, NEW r \in Reapers, Tick(r)
  PROVE  NoMessages' /\ Reaping(r)'
<1>1. [Idle EXCEPT !.todo = ReapSteps].todo = ReapSteps
  BY IdleTyped, ReapStepsTyped, ProcRecTodo
<1>2. NoMessages' /\ (\A q \in Reapers : q # r => Resting(q)')
      /\ proc'[r].todo = ReapSteps
  BY <1>1, ReaperBecomes DEF Tick, Aged, AllRest
<1>3. UNCHANGED <<lattice, hosts, components, providers>>
  BY DEF Tick, store
<1>4. UpExact' /\ \A h \in Hosts : ~Up(h)' => hosts'[h] = NoHost \/ hosts'[h].old
  BY <1>3, RightSame DEF Aged, Up, lattice
<1> QED
  BY <1>2, <1>4 DEF Reaping, ReapingHosts

LEMMA ReapsHosts ==
  ASSUME TInv, NEW r \in Reapers, ReapingHosts(r), ReapHosts(r) \/ DelHosts(r) \/ ListHosts(r),
         NoMessages, \A q \in Reapers : q # r => Resting(q)
  PROVE  ReapingHosts(r)' \/ ReapingComponents(r)'
<1>1. /\ UNCHANGED lattice /\ r \in Procs
      /\ \A rec : Become(r, rec) => proc'[r] = rec
      /\ hosts \in [Hosts -> HostRec \cup {NoHost}]
  BY ReaperIsNoWorker, ReapTyped, ReaperBecomes DEF Reap, TInv, TypeOK
<1>2. CASE ReapHosts(r)
  <2> DEFINE del_ == {h \in Hosts : hosts[h] # NoHost /\ hosts[h].old}
  <2>1. At(r, "reap_hosts") /\ proc'[r] = [Done(r) EXCEPT !.del = del_]
        /\ UNCHANGED <<hosts, components, providers>>
    BY <1>1, <1>2 DEF ReapHosts, store
  <2>2. /\ proc[r].todo = ReapSteps
        /\ \A h \in Hosts : ~Up(h) => hosts[h] = NoHost \/ hosts[h].old
    BY <2>1 DEF ReapingHosts, At
  <2>3. \A h \in Hosts : h \in del_ <=> hosts[h] # NoHost /\ ~Up(h)
    <3> SUFFICES ASSUME NEW h \in Hosts
                 PROVE  h \in del_ <=> hosts[h] # NoHost /\ ~Up(h)
      OBVIOUS
    <3>1. CASE Up(h)
      <4>1. hosts[h] = HostFrom(Inventory(h))
        BY <3>1 DEF ReapingHosts, UpExact, Exact, HostExact
      <4>2. hosts[h].old = FALSE
        BY <4>1, EventOfInventory
      <4> QED
        BY <3>1, <4>2
    <3>2. CASE ~Up(h)
      BY <2>2, <3>2
    <3> QED
      BY <3>1, <3>2
  <2> HIDE DEF del_
  <2>4. Done(r) \in ProcRec /\ Done(r).todo = Tail(proc[r].todo)
    BY <2>1, ReaperFacts
  <2>5. proc'[r].del = del_ /\ proc'[r].todo = Tail(ReapSteps)
    BY <2>1, <2>2, <2>4, ProcRecTodo
  <2>6. proc'[r].todo = <<"del_hosts", "list_hosts",
                          "reap_components", "put_components", "del_components",
                          "reap_providers", "put_providers", "del_providers">>
    BY <2>5 DEF ReapSteps
  <2>7. UpExact' /\ \A h \in Hosts : h \in proc'[r].del <=> hosts'[h] # NoHost /\ ~Up(h)'
    BY <1>1, <2>1, <2>3, <2>5, RightSame DEF ReapingHosts, Up, lattice
  <2> QED
    BY <2>6, <2>7 DEF ReapingHosts
<1>3. CASE DelHosts(r)
  <2>1. /\ At(r, "del_hosts") /\ proc'[r] = [Done(r) EXCEPT !.del = {}]
        /\ hosts' = [h \in Hosts |-> IF h \in proc[r].del THEN NoHost ELSE hosts[h]]
        /\ UNCHANGED <<components, providers>>
    BY <1>1, <1>3 DEF DelHosts
  <2>2. /\ proc[r].todo = <<"del_hosts", "list_hosts",
                            "reap_components", "put_components", "del_components",
                            "reap_providers", "put_providers", "del_providers">>
        /\ \A h \in Hosts : h \in proc[r].del <=> hosts[h] # NoHost /\ ~Up(h)
    BY <2>1 DEF ReapingHosts, At, ReapSteps
  <2>3. Done(r) \in ProcRec /\ Done(r).todo = Tail(proc[r].todo)
    BY <2>1, ReaperFacts
  <2>4. proc'[r].todo = Tail(proc[r].todo)
    BY <2>1, <2>3, ProcRecTodo
  <2>5. proc'[r].todo = <<"list_hosts",
                          "reap_components", "put_components", "del_components",
                          "reap_providers", "put_providers", "del_providers">>
    BY <2>2, <2>4
  <2>6. \A h \in Hosts : IF Up(h) THEN hosts'[h] = hosts[h] ELSE hosts'[h] = NoHost
    BY <2>1, <2>2
  <2>7. ASSUME NEW h \in Hosts, Up(h)'
        PROVE  Exact(h)'
    <3>1. Exact(h) /\ hosts'[h] = hosts[h]
      BY <1>1, <2>6, <2>7 DEF ReapingHosts, UpExact, Up, lattice
    <3> QED
      BY <1>1, <2>1, <3>1
      DEF lattice, Exact, HostExact, InstancesExact, ProvidersKnown, HostFrom, Inventory, Count, Runs
  <2>8. ASSUME NEW h \in Hosts, ~Up(h)'
        PROVE  hosts'[h] = NoHost
    BY <1>1, <2>6, <2>8 DEF Up, lattice
  <2>9. UpExact' /\ HostsRight'
    BY <2>7, <2>8 DEF UpExact, HostsRight, Exact
  <2> QED
    BY <2>5, <2>9 DEF ReapingHosts
<1>4. CASE ListHosts(r)
  <2>1. At(r, "list_hosts") /\ proc'[r] = [Done(r) EXCEPT !.hosts = hosts]
        /\ UNCHANGED <<hosts, components, providers>>
    BY <1>1, <1>4 DEF ListHosts, store
  <2>2. /\ proc[r].todo = <<"list_hosts",
                            "reap_components", "put_components", "del_components",
                            "reap_providers", "put_providers", "del_providers">>
        /\ HostsRight /\ UpExact
    BY <2>1 DEF ReapingHosts, At, ReapSteps
  <2>3. Done(r) \in ProcRec /\ Done(r).todo = Tail(proc[r].todo)
    BY <2>1, ReaperFacts
  <2>4. proc'[r].todo = Tail(proc[r].todo) /\ proc'[r].hosts = hosts
    BY <2>1, <2>3, ProcRecTodo
  <2>5. proc'[r].todo = <<"reap_components", "put_components", "del_components",
                          "reap_providers", "put_providers", "del_providers">>
    BY <2>2, <2>4
  <2>6. UpExact' /\ HostsRight'
    BY <1>1, <2>1, <2>2, RightSame
  <2>7. UpKnown'
    BY <2>6 DEF UpExact, Exact, UpKnown
  <2> QED
    BY <2>1, <2>4, <2>5, <2>6, <2>7 DEF ReapingComponents
<1> QED
  BY <1>2, <1>3, <1>4

(* What the reaper wants to store is right, once it knows the hosts.       *)
LEMMA ReapedRight ==
  ASSUME SInv, NEW r \in Reapers, HostsRight, proc[r].hosts = hosts
  PROVE  /\ UpExact => ComponentsRight(ReapedComponents(r))
         /\ UpKnown => ProvidersRight(ReapedProviders(r))
<1>1. ASSUME NEW h \in Hosts, ~Up(h)
      PROVE  /\ hosts[h] = NoHost
             /\ \A c \in Components : runs[h][c] = Absent
             /\ \A p \in Providers : health[h][p] = Absent
  BY <1>1 DEF SInv, GoneRunsNothing, HostsRight
<1>2. ASSUME NEW h \in Hosts, Up(h)
      PROVE  /\ hosts[h] # NoHost
             /\ hosts[h].components = {c \in Components : runs[h][c] # Absent}
  BY <1>2, EventOfInventory DEF SInv, HostsRight, HostExact
<1>3. ASSUME UpExact, NEW h \in Hosts, NEW c \in Components, NEW a \in Anns
      PROVE  /\ runs[h][c] = Absent => ReapedComponents(r)[c][h][a] = Absent
             /\ OneAnn => ReapedComponents(r)[c][h][a] = Count(h, c, a)
  <2>1. ReapedComponents(r)[c][h] =
          IF KeepsInstance(r, h, c) THEN components[c][h] ELSE NoInstances[h]
    BY DEF ReapedComponents
  <2>2. NoInstances[h][a] = Absent
    BY DEF NoInstances
  <2>3. CASE runs[h][c] = Absent
    <3>1. Count(h, c, a) = Absent
      BY <2>3 DEF Count, Runs
    <3>2. ~KeepsInstance(r, h, c)
      BY <1>1, <1>2, <2>3 DEF KeepsInstance
    <3> QED
      BY <2>1, <2>2, <3>1, <3>2
  <2>4. CASE runs[h][c] # Absent
    <3>1. Up(h)
      BY <1>1, <2>4
    <3>2. KeepsInstance(r, h, c)
      BY <1>2, <2>4, <3>1 DEF KeepsInstance
    <3>3. OneAnn => components[c][h][a] = Count(h, c, a)
      BY <1>3, <2>4, <3>1 DEF UpExact, Exact, InstancesExact
    <3> QED
      BY <2>1, <2>4, <3>2, <3>3
  <2> QED
    BY <2>3, <2>4
<1>4. ASSUME UpKnown, NEW h \in Hosts, NEW p \in Providers
      PROVE  /\ health[h][p] # Absent => ReapedProviders(r)[p][h] # Absent
             /\ ReapedProviders(r)[p][h] # Absent => Up(h)
  <2>1. ReapedProviders(r)[p][h] =
          IF KeepsProvider(r, h, p) THEN providers[p][h] ELSE Absent
    BY DEF ReapedProviders
  <2>2. KeepsProvider(r, h, p) <=> Up(h)
    BY <1>1, <1>2 DEF KeepsProvider
  <2> QED
    BY <1>1, <1>4, <2>1, <2>2 DEF UpKnown, ProvidersKnown
<1> QED
  BY <1>3, <1>4 DEF ComponentsRight, ProvidersRight

LEMMA ReapsComponents ==
  ASSUME SInv, NEW r \in Reapers, ReapingComponents(r),
         ReapComponents(r) \/ PutComponents(r) \/ DelComponents(r),
         NoMessages, \A q \in Reapers : q # r => Resting(q)
  PROVE  ReapingComponents(r)' \/ ReapingProviders(r)'
<1>1. /\ UNCHANGED lattice /\ r \in Procs /\ TInv
      /\ \A rec : Become(r, rec) => proc'[r] = rec
      /\ components \in [Components -> Instances]
  BY ReaperIsNoWorker, ReapTyped, ReaperBecomes DEF Reap, SInv, TInv, TypeOK
<1>2. UNCHANGED <<hosts, providers>>
  BY DEF ReapComponents, PutComponents, DelComponents, store
<1>3. HostsRight' /\ UpKnown'
  BY <1>1, <1>2, RightSame DEF ReapingComponents
<1>4. CASE ReapComponents(r)
  <2> DEFINE new == ReapedComponents(r)
             ids == {c \in Components : components[c] # NoInstances}
             rec == StageComponents(r, new, ids)
  <2>1. At(r, "reap_components") /\ proc'[r] = rec /\ UNCHANGED components
    BY <1>1, <1>4 DEF ReapComponents, ReapedComponents, store
  <2>2. /\ proc[r].todo = <<"reap_components", "put_components", "del_components",
                            "reap_providers", "put_providers", "del_providers">>
        /\ UpExact
    BY <2>1 DEF ReapingComponents, At
  <2>3. new \in [Components -> Instances] /\ ids \in SUBSET Components
        /\ ComponentsRight(new)
    BY <1>1, <2>2, ReapedTyped, ReapedRight DEF ReapingComponents
  <2>4. \A c \in Components \ ids, h \in Hosts : new[c][h] = components[c][h]
    BY DEF ReapedComponents
  <2> HIDE DEF new, ids
  <2>5. /\ rec.todo = Tail(proc[r].todo) /\ rec.hosts = proc[r].hosts
        /\ \A c \in Components : rec.components[c] =
             IF c \in ids /\ new[c] # NoInstances THEN new[c] ELSE NoInstances
        /\ rec.put = {c \in ids : new[c] # NoInstances}
        /\ rec.del = {c \in ids : new[c] = NoInstances}
    BY <1>1, <2>1, <2>3, StagedComponents
  <2> HIDE DEF rec
  <2>6. \A c \in Components, h \in Hosts : ComponentsWritten(r)'[c][h] = new[c][h]
    BY <2>1, <2>4, <2>5 DEF ComponentsWritten
  <2>7. ComponentsRight(ComponentsWritten(r))'
    BY <1>1, <2>3, <2>6 DEF ComponentsRight, Count, Runs, lattice
  <2>8. proc'[r].put \cap proc'[r].del = {}
    BY <2>1, <2>5
  <2>9. proc'[r].todo = <<"put_components", "del_components",
                          "reap_providers", "put_providers", "del_providers">>
    BY <2>1, <2>2, <2>5
  <2> QED
    BY <1>2, <1>3, <2>1, <2>5, <2>7, <2>8, <2>9 DEF ReapingComponents
<1>5. CASE PutComponents(r)
  <2> DEFINE rec == [Done(r) EXCEPT !.put = {}, !.components = Idle.components]
  <2>1. /\ At(r, "put_components") /\ proc'[r] = rec
        /\ components' = [c \in Components |->
             IF c \in proc[r].put THEN proc[r].components[c] ELSE components[c]]
    BY <1>1, <1>5 DEF PutComponents
  <2>2. /\ proc[r].todo = <<"put_components", "del_components",
                            "reap_providers", "put_providers", "del_providers">>
        /\ proc[r].put \cap proc[r].del = {}
        /\ ComponentsRight(ComponentsWritten(r))
    BY <2>1 DEF ReapingComponents, At
  <2>3. /\ Done(r) \in ProcRec /\ Done(r).todo = Tail(proc[r].todo)
        /\ Done(r).hosts = proc[r].hosts /\ Done(r).del = proc[r].del
    BY <1>1, <2>1, DoneFacts
  <2>4. /\ rec.todo = Tail(proc[r].todo) /\ rec.hosts = proc[r].hosts
        /\ rec.put = {} /\ rec.del = proc[r].del
    BY <2>3, ProcRecTodo
  <2> HIDE DEF rec
  <2>5. \A c \in Components : ComponentsWritten(r)'[c] = ComponentsWritten(r)[c]
    BY <2>1, <2>2, <2>4 DEF ComponentsWritten
  <2>6. ComponentsRight(ComponentsWritten(r))'
    BY <1>1, <2>2, <2>5 DEF ComponentsRight, Count, Runs, lattice
  <2>7. proc'[r].todo = <<"del_components",
                          "reap_providers", "put_providers", "del_providers">>
    BY <2>1, <2>2, <2>4
  <2> QED
    BY <1>2, <1>3, <2>1, <2>4, <2>6, <2>7 DEF ReapingComponents
<1>6. CASE DelComponents(r)
  <2> DEFINE rec == [Done(r) EXCEPT !.del = {}]
  <2>1. /\ At(r, "del_components") /\ proc'[r] = rec
        /\ components' = [c \in Components |->
             IF c \in proc[r].del THEN NoInstances ELSE components[c]]
    BY <1>1, <1>6 DEF DelComponents
  <2>2. /\ proc[r].todo = <<"del_components",
                            "reap_providers", "put_providers", "del_providers">>
        /\ proc[r].put = {}
        /\ ComponentsRight(ComponentsWritten(r))
    BY <2>1 DEF ReapingComponents, At
  <2>3. /\ Done(r) \in ProcRec /\ Done(r).todo = Tail(proc[r].todo)
        /\ Done(r).hosts = proc[r].hosts
    BY <1>1, <2>1, DoneFacts
  <2>4. rec.todo = Tail(proc[r].todo) /\ rec.hosts = proc[r].hosts
    BY <2>3, ProcRecTodo
  <2> HIDE DEF rec
  <2>5. \A c \in Components : components'[c] = ComponentsWritten(r)[c]
    BY <2>1, <2>2 DEF ComponentsWritten
  <2>6. ComponentsRight(components)'
    BY <1>1, <2>2, <2>5 DEF ComponentsRight, Count, Runs, lattice
  <2>7. proc'[r].todo = <<"reap_providers", "put_providers", "del_providers">>
    BY <2>1, <2>2, <2>4
  <2> QED
    BY <1>2, <1>3, <2>1, <2>4, <2>6, <2>7 DEF ReapingComponents, ReapingProviders
<1> QED
  BY <1>4, <1>5, <1>6

LEMMA ReapsProviders ==
  ASSUME SInv, NEW r \in Reapers, ReapingProviders(r),
         ReapProviders(r) \/ PutProviders(r) \/ DelProviders(r),
         NoMessages, \A q \in Reapers : q # r => Resting(q)
  PROVE  ReapingProviders(r)'
<1>1. /\ UNCHANGED lattice /\ r \in Procs /\ TInv
      /\ \A rec : Become(r, rec) => proc'[r] = rec
      /\ providers \in [Providers -> Statuses]
  BY ReaperIsNoWorker, ReapTyped, ReaperBecomes DEF Reap, SInv, TInv, TypeOK
<1>2. UNCHANGED <<hosts, components>>
  BY DEF ReapProviders, PutProviders, DelProviders, store
<1>3. HostsRight' /\ ComponentsRight(components)'
  BY <1>1, <1>2, RightSame DEF ReapingProviders
<1>4. CASE ReapProviders(r)
  <2> DEFINE new == ReapedProviders(r)
             ids == {p \in Providers : new[p] # providers[p]}
             staged == StageProviders(r, new, ids)
             rec == [staged EXCEPT !.hosts = Idle.hosts]
  <2>1. At(r, "reap_providers") /\ proc'[r] = rec /\ UNCHANGED providers
    BY <1>1, <1>4 DEF ReapProviders, ReapedProviders, store
  <2>2. /\ proc[r].todo = <<"reap_providers", "put_providers", "del_providers">>
        /\ proc[r].hosts = hosts /\ UpKnown
    BY <2>1 DEF ReapingProviders, At
  <2>3. new \in [Providers -> Statuses] /\ ids \in SUBSET Providers
        /\ ProvidersRight(new)
    BY <1>1, <2>2, ReapedTyped, ReapedRight DEF ReapingProviders
  <2>4. \A p \in Providers \ ids : new[p] = providers[p]
    OBVIOUS
  <2> HIDE DEF new, ids
  <2>5. /\ staged \in ProcRec /\ staged.todo = Tail(proc[r].todo)
        /\ \A p \in Providers : staged.providers[p] =
             IF p \in ids /\ new[p] # NoStatuses THEN new[p] ELSE NoStatuses
        /\ staged.put = {p \in ids : new[p] # NoStatuses}
        /\ staged.del = {p \in ids : new[p] = NoStatuses}
    BY <1>1, <2>1, <2>3, StagedProviders
  <2> HIDE DEF staged
  <2>6. /\ rec.todo = staged.todo /\ rec.providers = staged.providers
        /\ rec.put = staged.put /\ rec.del = staged.del
    BY <2>5, ProcRecTodo
  <2> HIDE DEF rec
  <2>7. \A p \in Providers : ProvidersWritten(r)'[p] = new[p]
    BY <2>1, <2>4, <2>5, <2>6 DEF ProvidersWritten
  <2>8. ProvidersRight(ProvidersWritten(r))'
    BY <1>1, <2>3, <2>7 DEF ProvidersRight, Up, lattice
  <2>9. proc'[r].put \cap proc'[r].del = {}
    BY <2>1, <2>5, <2>6
  <2>10. proc'[r].todo = <<"put_providers", "del_providers">>
    BY <2>1, <2>2, <2>5, <2>6
  <2> QED
    BY <1>3, <2>8, <2>9, <2>10 DEF ReapingProviders
<1>5. CASE PutProviders(r)
  <2> DEFINE rec == [Done(r) EXCEPT !.put = {}, !.providers = Idle.providers]
  <2>1. /\ At(r, "put_providers") /\ proc'[r] = rec
        /\ providers' = [p \in Providers |->
             IF p \in proc[r].put THEN proc[r].providers[p] ELSE providers[p]]
    BY <1>1, <1>5 DEF PutProviders
  <2>2. /\ proc[r].todo = <<"put_providers", "del_providers">>
        /\ proc[r].put \cap proc[r].del = {}
        /\ ProvidersRight(ProvidersWritten(r))
    BY <2>1 DEF ReapingProviders, At
  <2>3. /\ Done(r) \in ProcRec /\ Done(r).todo = Tail(proc[r].todo)
        /\ Done(r).del = proc[r].del
    BY <1>1, <2>1, DoneFacts
  <2>4. rec.todo = Tail(proc[r].todo) /\ rec.put = {} /\ rec.del = proc[r].del
    BY <2>3, ProcRecTodo
  <2> HIDE DEF rec
  <2>5. \A p \in Providers : ProvidersWritten(r)'[p] = ProvidersWritten(r)[p]
    BY <2>1, <2>2, <2>4 DEF ProvidersWritten
  <2>6. ProvidersRight(ProvidersWritten(r))'
    BY <1>1, <2>2, <2>5 DEF ProvidersRight, Up, lattice
  <2>7. proc'[r].todo = <<"del_providers">> /\ proc'[r].put = {}
    BY <2>1, <2>2, <2>4
  <2> QED
    BY <1>3, <2>6, <2>7 DEF ReapingProviders
<1>6. CASE DelProviders(r)
  <2> DEFINE rec == [Done(r) EXCEPT !.del = {}]
  <2>1. /\ At(r, "del_providers") /\ proc'[r] = rec
        /\ providers' = [p \in Providers |->
             IF p \in proc[r].del THEN NoStatuses ELSE providers[p]]
    BY <1>1, <1>6 DEF DelProviders
  <2>2. /\ proc[r].todo = <<"del_providers">>
        /\ proc[r].put = {}
        /\ ProvidersRight(ProvidersWritten(r))
    BY <2>1 DEF ReapingProviders, At
  <2>3. Done(r) \in ProcRec /\ Done(r).todo = Tail(proc[r].todo)
    BY <1>1, <2>1, DoneFacts
  <2>4. rec.todo = Tail(proc[r].todo)
    BY <2>3, ProcRecTodo
  <2> HIDE DEF rec
  <2>5. \A p \in Providers : providers'[p] = ProvidersWritten(r)[p]
    BY <2>1, <2>2 DEF ProvidersWritten
  <2>6. ProvidersRight(providers)'
    BY <1>1, <2>2, <2>5 DEF ProvidersRight, Up, lattice
  <2>7. proc'[r].todo = <<>>
    BY <2>1, <2>2, <2>4
  <2> QED
    BY <1>3, <2>6, <2>7 DEF ReapingProviders
<1> QED
  BY <1>4, <1>5, <1>6

(* Every operation of the tick comes in its turn.                          *)
LEMMA ReapStep ==
  ASSUME SInv, NoMessages, NEW r \in Reapers, Reaping(r), NEW q \in Reapers, Reap(q)
  PROVE  NoMessages' /\ Reaping(r)'
<1>1. q = r
  <2>1. ~Resting(q)
    BY DEF Reap, Resting, At, ReapHosts, DelHosts, ListHosts, ReapComponents, PutComponents,
           DelComponents, ReapProviders, PutProviders, DelProviders
  <2> QED
    BY <2>1 DEF Reaping
<1>2. \A v \in Reapers : v # r => Resting(v)
  BY DEF Reaping
<1>3. NoMessages' /\ \A v \in Reapers : v # r => Resting(v)'
  BY <1>1, <1>2, ReaperBecomes DEF SInv
<1>4. CASE ReapingHosts(r)
  <2>1. \A op : At(r, op) => op \in {"reap_hosts", "del_hosts", "list_hosts"}
    BY <1>4 DEF ReapingHosts, At, ReapSteps
  <2>2. /\ ~At(r, "reap_components") /\ ~At(r, "put_components") /\ ~At(r, "del_components")
        /\ ~At(r, "reap_providers") /\ ~At(r, "put_providers") /\ ~At(r, "del_providers")
    BY <2>1
  <2>3. /\ ~ReapComponents(r) /\ ~PutComponents(r) /\ ~DelComponents(r)
        /\ ~ReapProviders(r) /\ ~PutProviders(r) /\ ~DelProviders(r)
    BY <2>2 DEF ReapComponents, PutComponents, DelComponents, ReapProviders,
                PutProviders, DelProviders
  <2>4. ReapHosts(r) \/ DelHosts(r) \/ ListHosts(r)
    BY <1>1, <2>3 DEF Reap
  <2> QED
    BY <1>2, <1>3, <1>4, <2>4, ReapsHosts DEF SInv, Reaping
<1>5. CASE ReapingComponents(r)
  <2>1. \A op : At(r, op) => op \in {"reap_components", "put_components", "del_components"}
    BY <1>5 DEF ReapingComponents, At
  <2>2. /\ ~At(r, "reap_hosts") /\ ~At(r, "del_hosts") /\ ~At(r, "list_hosts")
        /\ ~At(r, "reap_providers") /\ ~At(r, "put_providers") /\ ~At(r, "del_providers")
    BY <2>1
  <2>3. /\ ~ReapHosts(r) /\ ~DelHosts(r) /\ ~ListHosts(r)
        /\ ~ReapProviders(r) /\ ~PutProviders(r) /\ ~DelProviders(r)
    BY <2>2 DEF ReapHosts, DelHosts, ListHosts, ReapProviders, PutProviders, DelProviders
  <2>4. ReapComponents(r) \/ PutComponents(r) \/ DelComponents(r)
    BY <1>1, <2>3 DEF Reap
  <2> QED
    BY <1>2, <1>3, <1>5, <2>4, ReapsComponents DEF Reaping
<1>6. CASE ReapingProviders(r)
  <2>1. \A op : At(r, op) => op \in {"reap_providers", "put_providers", "del_providers"}
    BY <1>6 DEF ReapingProviders, At
  <2>2. /\ ~At(r, "reap_hosts") /\ ~At(r, "del_hosts") /\ ~At(r, "list_hosts")
        /\ ~At(r, "reap_components") /\ ~At(r, "put_components") /\ ~At(r, "del_components")
    BY <2>1
  <2>3. /\ ~ReapHosts(r) /\ ~DelHosts(r) /\ ~ListHosts(r)
        /\ ~ReapComponents(r) /\ ~PutComponents(r) /\ ~DelComponents(r)
    BY <2>2 DEF ReapHosts, DelHosts, ListHosts, ReapComponents, PutComponents, DelComponents
  <2>4. ReapProviders(r) \/ PutProviders(r) \/ DelProviders(r)
    BY <1>1, <2>3 DEF Reap
  <2> QED
    BY <1>2, <1>3, <1>6, <2>4, ReapsProviders DEF Reaping
<1> QED
  BY <1>4, <1>5, <1>6 DEF Reaping
-----------------------------------------------------------------------------
(* What has been done in a quiet round is still there when it is over.     *)
LEMMA InitSettleInv == SettleInit => SettleInv
<1> SUFFICES ASSUME SettleInit PROVE SettleInv
  OBVIOUS
<1>1. TInv
  <2>1. MaxFaults \in Nat
    BY LatticeStateAssumption
  <2>2. proc \in [Procs -> ProcRec] /\ components \in [Components -> Instances]
        /\ providers \in [Providers -> Statuses]
    BY IdleTyped DEF SettleInit
  <2>3. health \in [Hosts -> [Providers -> {"pending", "running", "failed", Absent}]]
    BY DEF SettleInit
  <2>4. power \in [Hosts -> {"new", "up", "down"}]
    BY DEF SettleInit
  <2>5. TypeOK
    BY <2>1, <2>2, <2>3, <2>4 DEF SettleInit, TypeOK
  <2>6. \A w \in Workers : WorkOf(proc[w])
    BY IdleTyped DEF SettleInit, WorkOf, Procs
  <2> QED
    BY <2>5, <2>6 DEF SettleInit, TInv, Deliverable
<1> QED
  BY <1>1 DEF SettleInit, SettleInv, SInv, GoneRunsNothing

(* The typing goes on in every phase.                                      *)
LEMMA SettleTyped ==
  ASSUME SInv, [SettleNext]_settleVars
  PROVE  SInv'
<1>1. TInv /\ GoneRunsNothing
  BY DEF SInv
<1>2. CASE UNCHANGED vars
  <2>1. UNCHANGED <<power, runs, health, hosts, components, providers, stream, lastSeq, proc,
                    faults, lost>>
    BY <1>2 DEF vars, lattice, store, delivery
  <2> QED
    BY <1>1, <2>1 DEF SInv, TInv, TypeOK, WorkOf, Deliverable, GoneRunsNothing, Up
<1>3. CASE Chaos \/ Progress
  <2>1. ASSUME Chaos PROVE TInv'
    BY <1>1, <2>1, ChaosTyped
  <2>2. ASSUME Progress PROVE TInv'
    BY <1>1, <2>2, WorkTyped, ReapTyped DEF Progress
  <2> QED
    BY <1>3, <2>1, <2>2, GoneStep DEF SInv
<1>4. ASSUME TInv', UNCHANGED lattice
      PROVE  SInv'
  BY <1>1, <1>4 DEF SInv, GoneRunsNothing, Up, lattice
<1>5. CASE \E h \in Hosts : QuietHeartbeat(h)
  <2>1. PICK h \in Hosts : QuietHeartbeat(h)
    BY <1>5
  <2>2. Publish(Inventory(h)) /\ UNCHANGED <<lattice, store, proc, faults, lost>>
    BY <2>1 DEF QuietHeartbeat, Heartbeat
  <2>3. StreamTyped'
    BY <1>1, <2>2, InventoryIsEvent, PublishTyped
  <2>4. TInv'
    BY <1>1, <2>2, <2>3
    DEF TInv, TypeOK, StreamTyped, lattice, store, WorkOf
  <2> QED
    BY <1>4, <2>2, <2>4
<1>6. CASE LongAfter
  <2> DEFINE aged == {h \in Hosts : ~Up(h)}
  <2>1. Silence(aged) /\ UNCHANGED faults /\ aged \in SUBSET Hosts
    BY <1>6 DEF LongAfter
  <2> HIDE DEF aged
  <2>2. StoreTyped' /\ ProcsTyped'
    BY <1>1, <2>1, SilenceTyped
  <2>3. UNCHANGED <<lattice, delivery, faults, lost>>
    BY <2>1 DEF Silence
  <2>4. TInv'
    BY <1>1, <2>2, <2>3
    DEF TInv, TypeOK, StoreTyped, ProcsTyped, lattice, delivery, Deliverable
  <2> QED
    BY <1>4, <2>3, <2>4
<1>7. CASE \E r \in Reapers : QuietTick(r)
  BY <1>1, <1>4, <1>7, ReapTyped DEF QuietTick
<1> QED
  BY <1>2, <1>3, <1>5, <1>6, <1>7
  DEF SettleNext, settleVars, Busily, Quietly, Quieten, Settle

LEMMA NextSettleInv == SettleInv /\ [SettleNext]_settleVars => SettleInv'
<1> SUFFICES ASSUME SettleInv, [SettleNext]_settleVars PROVE SettleInv'
  OBVIOUS
<1>1. SInv /\ SInv' /\ TInv
  BY SettleTyped DEF SettleInv, SInv
<1>2. CASE Busily
  BY <1>1, <1>2 DEF SettleInv, Busily
<1>3. CASE Quietly
  <2>1. phase' = phase /\ fresh' = fresh /\ phase # "busy"
        /\ \/ \E w \in Workers : Work(w)
           \/ \E r \in Reapers : Reap(r)
    BY <1>3 DEF Quietly, Progress
  <2>2. ASSUME NEW r \in Reapers, Reap(r) PROVE ~Resting(r)
    BY <2>2 DEF Reap, Resting, At, ReapHosts, DelHosts, ListHosts, ReapComponents, PutComponents,
                DelComponents, ReapProviders, PutProviders, DelProviders
  <2>3. CASE phase = "heartbeats"
    <3>1. \E w \in Workers : Work(w)
      BY <2>1, <2>2, <2>3 DEF SettleInv, Heartbeats, AllRest
    <3>2. Heartbeats'
      BY <1>1, <2>1, <2>3, <3>1, HeartbeatsWork DEF SettleInv
    <3> QED
      BY <1>1, <2>1, <2>3, <3>2 DEF SettleInv
  <2>4. CASE phase = "reaping"
    <3>1. PICK r \in Reapers : Reaping(r)
      BY <2>4 DEF SettleInv
    <3>2. NoMessages
      BY <2>4 DEF SettleInv
    <3>3. PICK q \in Reapers : Reap(q)
      BY <1>1, <2>1, <3>2, NoMessagesNoWork
    <3>4. NoMessages' /\ Reaping(r)'
      BY <1>1, <3>1, <3>2, <3>3, ReapStep
    <3> QED
      BY <1>1, <2>1, <2>4, <3>4 DEF SettleInv
  <2>5. CASE phase \in {"aged", "settled"}
    BY <1>1, <2>1, <2>2, <2>5, NoMessagesNoWork DEF SettleInv, Aged, AllRest
  <2> QED
    BY <1>1, <2>1, <2>3, <2>4, <2>5 DEF SettleInv
<1>4. CASE Quieten
  <2>1. stream = <<>> /\ NoneBusy /\ AllRest /\ fresh = {}
    BY <1>4 DEF Quieten, Still, Drained, NoneBusy, AllRest, SettleInv
  <2>2. UNCHANGED <<stream, proc, fresh>> /\ phase' = "heartbeats"
    BY <1>4 DEF Quieten, vars, delivery
  <2>3. Heartbeats'
    BY <2>1, <2>2 DEF Heartbeats, AllRest, Resting, NonePending, NoneBusy, Busy
  <2> QED
    BY <1>1, <2>2, <2>3 DEF SettleInv
<1>5. CASE \E h \in Hosts : QuietHeartbeat(h)
  <2>1. phase = "heartbeats" /\ phase' = "heartbeats"
    BY <1>5 DEF QuietHeartbeat
  <2>2. Heartbeats'
    BY <1>1, <1>5, <2>1, HeartbeatSent DEF SettleInv
  <2> QED
    BY <1>1, <2>1, <2>2 DEF SettleInv
<1>6. CASE LongAfter
  <2>1. phase = "heartbeats" /\ phase' = "aged"
    BY <1>6 DEF LongAfter
  <2>2. NoMessages' /\ Aged'
    BY <1>1, <1>6, <2>1, SilenceAges DEF SettleInv
  <2> QED
    BY <1>1, <2>1, <2>2 DEF SettleInv
<1>7. CASE \E r \in Reapers : QuietTick(r)
  <2>1. PICK r \in Reapers : Tick(r) /\ phase = "aged" /\ phase' = "reaping"
    BY <1>7 DEF QuietTick
  <2>2. NoMessages' /\ Reaping(r)'
    BY <1>1, <2>1, TickStarts DEF SettleInv
  <2> QED
    BY <1>1, <2>1, <2>2 DEF SettleInv
<1>8. CASE Settle
  <2>1. phase = "reaping" /\ phase' = "settled" /\ UNCHANGED vars /\ AllRest
    BY <1>8 DEF Settle, Still, AllRest
  <2>2. PICK r \in Reapers : Reaping(r)
    BY <2>1 DEF SettleInv
  <2>3. proc[r].todo = <<>>
    BY <2>1 DEF AllRest, Resting
  <2>4. ~ReapingHosts(r) /\ ~ReapingComponents(r)
    BY <2>3 DEF ReapingHosts, ReapingComponents, ReapSteps
  <2>5. StoreRight /\ NoMessages
    BY <2>1, <2>2, <2>3, <2>4 DEF Reaping, ReapingProviders, StoreRight, SettleInv
  <2>6. NoMessages' /\ AllRest' /\ StoreRight'
    BY <2>1, <2>5 DEF vars, lattice, store, delivery, NoMessages, NoneBusy, Busy, AllRest, Resting,
       StoreRight, HostsRight, ComponentsRight, ProvidersRight, HostExact, HostFrom, Inventory,
       Count, Runs, Up
  <2> QED
    BY <1>1, <2>1, <2>6 DEF SettleInv
<1>9. CASE UNCHANGED settleVars
  <2>1. UNCHANGED <<power, runs, health, hosts, components, providers, stream, lastSeq, proc,
                    faults, lost, phase, fresh>>
    BY <1>9 DEF settleVars, vars, lattice, store, delivery
  <2>2. ASSUME NEW h
        PROVE  /\ Inventory(h)' = Inventory(h)
               /\ HostFrom(Inventory(h))' = HostFrom(Inventory(h))
               /\ HostExact(h)' <=> HostExact(h)
               /\ ProvidersKnown(providers, h)' <=> ProvidersKnown(providers, h)
               /\ InstancesExact(components, h)' <=> InstancesExact(components, h)
    BY <2>1 DEF HostExact, InstancesExact, ProvidersKnown, HostFrom, Inventory, Count, Runs
  <2>3. ASSUME NEW h, NEW w
        PROVE  /\ ProvidersKnown(ProvidersAfter(w), h)' <=> ProvidersKnown(ProvidersAfter(w), h)
               /\ InstancesExact(ComponentsAfter(w), h)' <=> InstancesExact(ComponentsAfter(w), h)
               /\ SameBut(ProvidersAfter(w), providers, Providers, h)'
                    <=> SameBut(ProvidersAfter(w), providers, Providers, h)
               /\ SameBut(ComponentsAfter(w), components, Components, h)'
                    <=> SameBut(ComponentsAfter(w), components, Components, h)
    BY <2>1 DEF InstancesExact, ProvidersKnown, SameBut, ComponentsAfter, ProvidersAfter, Count, Runs
  <2>4. ASSUME NEW h
        PROVE  Exact(h)' <=> Exact(h)
    BY <2>2 DEF Exact
  <2>5. ASSUME NEW h, NEW w
        PROVE  Handling(w, h)' <=> Handling(w, h)
    BY <2>1, <2>2, <2>3, <2>4 DEF Handling, Event
  <2>6. Heartbeats => Heartbeats'
    <3>1. NonePending => NonePending'
      BY <2>1, <2>4 DEF NonePending, NoneBusy, Busy
    <3>2. ASSUME NEW h, NEW i PROVE OneWaiting(h, i) => OneWaiting(h, i)'
      BY <2>1, <2>2, <2>4 DEF OneWaiting, NoneBusy, Busy
    <3>3. ASSUME NEW h, NEW w PROVE OneHandled(h, w) => OneHandled(h, w)'
      BY <2>1, <2>4, <2>5 DEF OneHandled, Busy
    <3> QED
      BY <2>1, <3>1, <3>2, <3>3 DEF Heartbeats, AllRest, Resting, Up
  <2>7. NoMessages => NoMessages'
    BY <2>1 DEF NoMessages, NoneBusy, Busy
  <2>8. Aged => Aged'
    BY <2>1, <2>4 DEF Aged, AllRest, Resting, UpExact, Up
  <2>9. /\ HostsRight' <=> HostsRight
        /\ UpKnown' <=> UpKnown
        /\ UpExact' <=> UpExact
        /\ ComponentsRight(components)' <=> ComponentsRight(components)
        /\ ProvidersRight(providers)' <=> ProvidersRight(providers)
    BY <2>1, <2>2, <2>4 DEF HostsRight, UpKnown, UpExact, ComponentsRight, ProvidersRight,
                            Count, Runs, Up
  <2>10. ASSUME NEW r
         PROVE  /\ ComponentsRight(ComponentsWritten(r))' <=> ComponentsRight(ComponentsWritten(r))
                /\ ProvidersRight(ProvidersWritten(r))' <=> ProvidersRight(ProvidersWritten(r))
    BY <2>1 DEF ComponentsRight, ProvidersRight, ComponentsWritten, ProvidersWritten,
                Count, Runs, Up
  <2>11. ASSUME NEW r, Reaping(r)
         PROVE  Reaping(r)'
    <3>1. ReapingHosts(r) => ReapingHosts(r)'
      BY <2>1, <2>9 DEF ReapingHosts, Up
    <3>2. ReapingComponents(r) => ReapingComponents(r)'
      BY <2>1, <2>9, <2>10 DEF ReapingComponents
    <3>3. ReapingProviders(r) => ReapingProviders(r)'
      BY <2>1, <2>9, <2>10 DEF ReapingProviders
    <3> QED
      BY <2>1, <2>11, <3>1, <3>2, <3>3 DEF Reaping, Resting
  <2>12. AllRest /\ StoreRight => AllRest' /\ StoreRight'
    BY <2>1, <2>9 DEF AllRest, Resting, StoreRight
  <2> QED
    BY <1>1, <2>1, <2>6, <2>7, <2>8, <2>11, <2>12 DEF SettleInv
<1> QED
  BY <1>2, <1>3, <1>4, <1>5, <1>6, <1>7, <1>8, <1>9 DEF SettleNext

LEMMA SettleInvariant == SettleSpec => []SettleInv
BY InitSettleInv, NextSettleInv, PTL DEF SettleSpec

LEMMA StoreSettles ==
  ASSUME SettleInv, Settled
  PROVE  StoreRight /\ TInv
BY DEF SettleInv, SInv, Settled

(* Whatever happened before, after a quiet round the store has exactly the *)
(* hosts that are up, each with the components and providers that it runs: *)
(* for any number of hosts, instances of wadm, reapers, events and faults. *)
THEOREM StoreKnowsTheHosts == SettleSpec => []HostsSettle
<1>1. SettleInv => HostsSettle
  <2> SUFFICES ASSUME SettleInv, Settled, NEW h \in Hosts
               PROVE  IF Up(h) THEN
                        /\ hosts[h] # NoHost
                        /\ hosts[h].components = {c \in Components : runs[h][c] # Absent}
                        /\ hosts[h].providers = {p \in Providers : health[h][p] # Absent}
                      ELSE hosts[h] = NoHost
    BY DEF HostsSettle
  <2>1. TInv /\ IF Up(h) THEN hosts[h] = HostFrom(Inventory(h)) ELSE hosts[h] = NoHost
    BY StoreSettles DEF StoreRight, HostsRight, HostExact
  <2> QED
    BY <2>1, EventOfInventory
<1> QED
  BY <1>1, SettleInvariant, PTL

(* It then knows every provider that runs, and none of a host that is gone.*)
THEOREM StoreKnowsTheProviders == SettleSpec => []ProvidersSettle
<1>1. SettleInv => ProvidersSettle
  <2> SUFFICES ASSUME SettleInv, Settled, NEW h \in Hosts, NEW p \in Providers
               PROVE  /\ health[h][p] # Absent => providers[p][h] # Absent
                      /\ providers[p][h] # Absent => Up(h)
    BY DEF ProvidersSettle
  <2>1. ProvidersRight(providers)
    BY StoreSettles DEF StoreRight
  <2> QED
    BY <2>1 DEF ProvidersRight
<1> QED
  BY <1>1, SettleInvariant, PTL

(* And it has of every component the instances that run and no others, as  *)
(* long as all of them are started with the same annotations.  (Without    *)
(* that a heartbeat takes a wrong entry for up to date: it compares the    *)
(* number of annotation sets with the number of hosts.)                    *)
THEOREM StoreKnowsTheInstances ==
  ASSUME \A a, b \in Anns : a = b
  PROVE  SettleSpec => []ComponentsSettle
<1>1. SettleInv => ComponentsSettle
  <2> SUFFICES ASSUME SettleInv, Settled, NEW h \in Hosts, NEW c \in Components, NEW a \in Anns
               PROVE  components[c][h][a] = Count(h, c, a)
    BY DEF ComponentsSettle, Count
  <2>1. ComponentsRight(components) /\ OneAnn
    BY StoreSettles DEF StoreRight, OneAnn
  <2> QED
    BY <2>1 DEF ComponentsRight
<1> QED
  BY <1>1, SettleInvariant, PTL

(* Whatever the annotations: no instance is left in the store of a         *)
(* component that its host does not run, so that the scalers count none    *)
(* that is gone.                                                           *)
NoneLeft ==
  Settled => \A h \in Hosts, c \in Components, a \in Anns :
    runs[h][c] = Absent => components[c][h][a] = Absent

(* The same for every number of annotations: nothing that is gone counts.  *)
THEOREM NoInstanceIsLeft == SettleSpec => []NoneLeft
<1>1. SettleInv => NoneLeft
  <2> SUFFICES ASSUME SettleInv, Settled, NEW h \in Hosts, NEW c \in Components, NEW a \in Anns,
                      runs[h][c] = Absent
               PROVE  components[c][h][a] = Absent
    BY DEF NoneLeft
  <2>1. ComponentsRight(components)
    BY StoreSettles DEF StoreRight
  <2> QED
    BY <2>1 DEF ComponentsRight
<1> QED
  BY <1>1, SettleInvariant, PTL

(* The types of the lattice state are kept in all of this.                 *)
THEOREM SettlingIsTyped == SettleSpec => []TypeOK
<1>1. SettleInv => TypeOK
  BY DEF SettleInv, SInv, TInv
<1> QED
  BY <1>1, SettleInvariant, PTL
=============================================================================
