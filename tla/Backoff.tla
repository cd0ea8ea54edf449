------------------------------ MODULE Backoff -------------------------------
(***************************************************************************)
(* How a scaler that runs on every wadm instance keeps from issuing a      *)
(* command again and again (BackoffWrapper, crates/wadm/src/scaler/mod.rs, *)
(* and the notify loop of crates/wadm/src/scaler/manager.rs).              *)
(*                                                                         *)
(* An event of the lattice is handled by one instance. If its scaler       *)
(* computes commands, it expects their events and ignores all others until *)
(* they have come or a time has passed (5 seconds for components, 60 for   *)
(* providers, see convert.rs). The other instances must expect the same:   *)
(* both notifications, "register expected events" and "remove expected     *)
(* event", carry the event, and every instance hands it to its own scaler  *)
(* as if it were its own, dropping the commands.                           *)
(*                                                                         *)
(* The wrapped scaler wants each of Units to run and starts, whatever the  *)
(* event, those that do not run in its snapshot of the stored state.       *)
(***************************************************************************)
EXTENDS Integers, FiniteSets, SequencesExt

CONSTANTS
  Instances,   \* of wadm
  Units,       \* what the scaler starts: a component or a provider on a host
  MaxInbox,    \* bound: notifications unhandled when a worker takes an event
  MaxFaults    \* bound: by the number of instances that run, how many times
               \* a unit stops or fails to start, a wait ends too early, a
               \* publication fails or an instance restarts

ASSUME BackoffAssumption ==
  /\ IsFiniteSet(Instances)
  /\ MaxInbox \in Nat
  /\ MaxFaults \in [1 .. Cardinality(Instances) -> Nat]

VARIABLES
  alive,       \* instances that run, as many as were started
  running,     \* units that run
  orders,      \* start commands on their way to a host: who sent them, what
  events,      \* the event stream, in order
  listed,      \* units that their host lists, in the stored state
  store,       \* units that run according to the stored state
  snap,        \* the same in each instance's snapshot
  expected,    \* units whose start each instance's scaler expects
  failed,      \* instances whose scaler has a backoff status
  inbox,       \* notifications that each instance has still to handle
  call,        \* of an instance's worker and of its notifier: the event they
               \* handle, where they are, the commands they have computed
  faults       \* faults that may still happen

lattice == <<alive, running, orders, events>>
state == <<listed, store>>
vars == <<lattice, state, snap, expected, failed, inbox, call, faults>>

Started(u) == [type |-> "started", unit |-> u]
Failed(u)  == [type |-> "failed", unit |-> u]
Stopped(u) == [type |-> "stopped", unit |-> u]
Heartbeat(U) == [type |-> "heartbeat", runs |-> U]

Event == {Started(u) : u \in Units} \cup {Failed(u) : u \in Units}
           \cup {Stopped(u) : u \in Units} \cup {Heartbeat(U) : U \in SUBSET Units}

Handlers == Instances \X {"worker", "notifier"}
Worker(i) == <<i, "worker">>
Notifier(i) == <<i, "notifier">>

Idle == [at |-> "idle", event |-> Heartbeat({}), commands |-> {}]

Init ==
  /\ alive \in (SUBSET Instances) \ {{}}
  /\ running = {}
  /\ orders = {}
  /\ events = <<>>
  /\ listed = {}
  /\ store = {}
  /\ snap = [i \in Instances |-> {}]
  /\ expected = [i \in Instances |-> {}]
  /\ failed = {}
  /\ inbox = [i \in Instances |-> <<>>]
  /\ call = [p \in Handlers |-> Idle]
  /\ faults = MaxFaults[Cardinality(alive)]

Fault ==
  /\ faults > 0
  /\ faults' = faults - 1

At(p, where) == call[p].at = where

Goto(p, where) == call' = [call EXCEPT ![p].at = where]

ReturnCommands(p) == Goto(p, "idle")    \* mutant: a notifier keeps the commands

Return(p) == call' = [call EXCEPT ![p] = Idle]

(* A worker still has to publish the commands and to acknowledge.          *)
Leave(p) == IF p[2] = "worker" THEN Goto(p, "send") ELSE Return(p)
-----------------------------------------------------------------------------
(* handle_event_internal, for a worker and for a notifier.                 *)
Awaited(i, e) == expected[i] \cap (IF e.type \in {"started", "failed"} THEN {e.unit} ELSE {})

(* The event is one the scaler expects: it stops expecting it, backs off   *)
(* if it is a failure, and tells everyone.                                 *)
RemoveEvent(p) ==
  LET i == p[1]
      e == call[p].event
  IN  /\ At(p, "handle")
      /\ Awaited(i, e) # {}
      /\ expected' = [expected EXCEPT ![i] = @ \ Awaited(i, e)]
      /\ failed' = failed \cup (IF e.type = "failed" THEN {i} ELSE {})
      /\ Goto(p, "tell")
      /\ UNCHANGED <<lattice, state, snap, inbox, faults>>

(* It expects others, or backs off: nothing is done.                       *)
WaitingIfFailed(i) == i \in failed    \* mutant: expected events do not count

Waiting(i) == expected[i] # {} \/ i \in failed

Ignore(p) ==
  /\ At(p, "handle")
  /\ Awaited(p[1], call[p].event) = {}
  /\ Waiting(p[1])
  /\ Leave(p)
  /\ UNCHANGED <<lattice, state, snap, expected, failed, inbox, faults>>

(* Otherwise the wrapped scaler computes commands, which do not depend on  *)
(* the event; only a failure to start is nothing to it.                    *)
Compute(p) ==
  LET e == call[p].event
  IN  /\ At(p, "handle")
      /\ Awaited(p[1], e) = {}
      /\ ~Waiting(p[1])
      /\ call' = [call EXCEPT ![p].at = "add", ![p].commands =
                    IF e.type = "failed" THEN {} ELSE Units \ snap[p[1]]]
      /\ UNCHANGED <<lattice, state, snap, expected, failed, inbox, faults>>

(* Every instance gets a notification, this one too.  To the scaler all    *)
(* events but the answers to a command are alike.                          *)
ForScaler(e) == IF e.type \in {"started", "failed"} THEN e ELSE Heartbeat({})

Publish(p) ==
  inbox' = [i \in Instances |->
    inbox[i] \o (IF i \in alive THEN <<ForScaler(call[p].event)>> ELSE <<>>)]

Tell(p) ==
  /\ At(p, "tell")
  /\ Publish(p)
  /\ Leave(p)
  /\ UNCHANGED <<lattice, state, snap, expected, failed, faults>>

(* The scaler expects the events of the commands as well as what it        *)
(* expects by now, and tells everyone.                                     *)
ToExpect(p) == expected[p[1]] \cup call[p].commands

AddEvents(p) ==
  /\ At(p, "add")
  /\ expected' = [expected EXCEPT ![p[1]] = ToExpect(p)]
  /\ IF ToExpect(p) # {} THEN Publish(p) ELSE UNCHANGED inbox
  /\ Leave(p)
  /\ UNCHANGED <<lattice, state, snap, failed, faults>>

(* The notification is not published: there are no commands then, and a    *)
(* worker's event comes again.                                             *)
TellFails(p) ==
  /\ At(p, "tell") \/ (At(p, "add") /\ ToExpect(p) # {})
  /\ Fault
  /\ expected' = [expected EXCEPT ![p[1]] = ToExpect(p)]
  /\ Return(p)
  /\ events' = events \o (IF p[2] = "worker" THEN <<call[p].event>> ELSE <<>>)
  /\ UNCHANGED <<alive, running, orders, state, snap, failed, inbox>>

HandleEvent(p) == RemoveEvent(p) \/ Ignore(p) \/ Compute(p) \/ AddEvents(p) \/ Tell(p)
-----------------------------------------------------------------------------
(* The worker: the event's handler brings the store up to date, and the    *)
(* snapshot is refreshed, before the scaler gets the event.                *)
AfterEvent(e) ==
  CASE e.type = "started" ->
         listed' = listed \cup {e.unit} /\ store' = store \cup {e.unit}
    [] e.type = "stopped" ->
         listed' = listed \ {e.unit} /\ store' = store \ {e.unit}
    [] e.type = "heartbeat" ->
         listed' = e.runs /\ store' = store \cup e.runs
    [] OTHER -> UNCHANGED state

(* The reaper, not the heartbeat, removes what no host lists.              *)
Reap ==
  /\ store' = store \cap listed
  /\ UNCHANGED <<lattice, listed, snap, expected, failed, inbox, call, faults>>

DoWork(i) ==
  /\ i \in alive
  /\ At(Worker(i), "idle")
  /\ events # <<>>
  /\ \A j \in Instances : Len(inbox[j]) <= MaxInbox
  /\ events' = Tail(events)
  /\ AfterEvent(Head(events))
  /\ call' = [call EXCEPT ![Worker(i)] =
                [at |-> "refresh", event |-> Head(events), commands |-> {}]]
  /\ UNCHANGED <<alive, running, orders, snap, expected, failed, inbox, faults>>

Refresh(i) ==
  /\ At(Worker(i), "refresh")
  /\ snap' = [snap EXCEPT ![i] = store]
  /\ Goto(Worker(i), "handle")
  /\ UNCHANGED <<lattice, state, expected, failed, inbox, faults>>

PublishCommands(i) ==
  /\ At(Worker(i), "send")
  /\ orders' = orders \cup ({i} \X call[Worker(i)].commands)
  /\ Return(Worker(i))
  /\ UNCHANGED <<alive, running, events, state, snap, expected, failed, inbox, faults>>

(* Some commands are published and some are not: the event comes again.    *)
PublishFails(i) ==
  /\ At(Worker(i), "send")
  /\ call[Worker(i)].commands # {}
  /\ Fault
  /\ \E sent \in SUBSET call[Worker(i)].commands :
       orders' = orders \cup ({i} \X sent)
  /\ events' = Append(events, call[Worker(i)].event)
  /\ Return(Worker(i))
  /\ UNCHANGED <<alive, running, state, snap, expected, failed, inbox>>

(* The notifier: no refresh, and no commands.                              *)
Notify(i) ==
  /\ At(Notifier(i), "idle")
  /\ inbox[i] # <<>>
  /\ \A j \in Instances : Len(inbox[j]) <= Max({MaxInbox, Len(inbox[i])})
  /\ inbox' = [inbox EXCEPT ![i] = Tail(@)]
  /\ call' = [call EXCEPT ![Notifier(i)] =
                [at |-> "handle", event |-> Head(inbox[i]), commands |-> {}]]
  /\ UNCHANGED <<lattice, state, snap, expected, failed, faults>>
-----------------------------------------------------------------------------
(* The timers.  The time of Timeout is enough for everything that is on its*)
(* way to arrive and be handled, unless a host is slow.                    *)
Notified == \A i \in Instances : inbox[i] = <<>> /\ At(Notifier(i), "idle")

Quiet ==
  /\ Notified
  /\ events = <<>> /\ orders = {}
  /\ \A i \in Instances : At(Worker(i), "idle")

CleanEvents(i) ==
  /\ expected[i] # {}
  /\ expected' = [expected EXCEPT ![i] = {}]
  /\ UNCHANGED <<lattice, state, snap, failed, inbox, call>>

Timeout(i) ==
  /\ Quiet
  /\ CleanEvents(i)
  /\ UNCHANGED faults

TimeoutTooEarly(i) == ~Quiet /\ Fault /\ CleanEvents(i)

CleanStatusNever(i) == FALSE    \* mutant: the status is never cleaned up

(* 5 seconds are enough for the notifications.                             *)
CleanStatus(i) ==
  /\ i \in failed
  /\ Notified
  /\ failed' = failed \ {i}
  /\ UNCHANGED <<lattice, state, snap, expected, inbox, call, faults>>
-----------------------------------------------------------------------------
(* The lattice.  A host answers a command, also if it runs the unit.       *)
Start(o) ==
  /\ o \in orders
  /\ orders' = orders \ {o}
  /\ running' = running \cup {o[2]}
  /\ events' = Append(events, Started(o[2]))
  /\ UNCHANGED <<alive, state, snap, expected, failed, inbox, call, faults>>

StartFails(o) ==
  /\ o \in orders
  /\ o[2] \notin running
  /\ Fault
  /\ orders' = orders \ {o}
  /\ events' = Append(events, Failed(o[2]))
  /\ UNCHANGED <<alive, running, state, snap, expected, failed, inbox, call>>

Stop(u) ==
  /\ u \in running
  /\ Fault
  /\ running' = running \ {u}
  /\ events' = Append(events, Stopped(u))
  /\ UNCHANGED <<alive, orders, state, snap, expected, failed, inbox, call>>

(* The next heartbeat comes 30 seconds later.                              *)
SendHeartbeat ==
  /\ events = <<>>
  /\ \A i \in Instances : At(Worker(i), "idle")
  /\ events' = <<Heartbeat(running)>>
  /\ UNCHANGED <<alive, running, orders, state, snap, expected, failed, inbox, call, faults>>

(* An instance is killed and starts again.  The event that its worker was  *)
(* at is delivered again; the snapshot and what the scaler expected are    *)
(* lost.                                                                   *)
Restart(i) ==
  /\ i \in alive
  /\ Fault
  /\ events' = events \o (IF At(Worker(i), "idle") THEN <<>> ELSE <<call[Worker(i)].event>>)
  /\ call' = [p \in Handlers |-> IF p[1] = i THEN Idle ELSE call[p]]
  /\ snap' = [snap EXCEPT ![i] = {}]
  /\ expected' = [expected EXCEPT ![i] = {}]
  /\ failed' = failed \ {i}
  /\ inbox' = [inbox EXCEPT ![i] = <<>>]
  /\ UNCHANGED <<alive, running, orders, state>>
-----------------------------------------------------------------------------
Working(i) == DoWork(i) \/ Refresh(i) \/ HandleEvent(Worker(i)) \/ PublishCommands(i)
Listening(i) == Notify(i) \/ HandleEvent(Notifier(i))

Next ==
  \/ \E i \in Instances :
       \/ Working(i) \/ Listening(i) \/ PublishFails(i)
       \/ Timeout(i) \/ TimeoutTooEarly(i) \/ CleanStatus(i)
       \/ Restart(i)
  \/ \E p \in Handlers : TellFails(p)
  \/ \E o \in orders : Start(o) \/ StartFails(o)
  \/ \E u \in Units : Stop(u)
  \/ SendHeartbeat
  \/ Reap

(* Whoever has something to do goes on doing it, hosts send heartbeats,    *)
(* and timers run: a wait for an answer that does not come ends.           *)
Fairness ==
  /\ \A i \in Instances : WF_vars(Working(i)) /\ WF_vars(Listening(i))
  /\ \A i \in Instances : SF_vars(Timeout(i)) /\ SF_vars(CleanStatus(i))
  /\ \A o \in Instances \X Units : WF_vars(Start(o))
  /\ WF_vars(SendHeartbeat) /\ WF_vars(Reap)

Spec == Init /\ [][Next]_vars /\ Fairness
-----------------------------------------------------------------------------
(* Everything has its type, and whoever has commands is to expect their    *)
(* events or, a worker, to publish them.                                   *)
TypeOK ==
  /\ alive \in SUBSET Instances
  /\ running \in SUBSET Units
  /\ orders \in SUBSET (Instances \X Units)
  /\ events \in Seq(Event)
  /\ listed \in SUBSET Units
  /\ store \in SUBSET Units
  /\ snap \in [Instances -> SUBSET Units]
  /\ expected \in [Instances -> SUBSET Units]
  /\ failed \in SUBSET Instances
  /\ inbox \in [Instances -> Seq(Event)]
  /\ call \in [Handlers -> [at : {"idle", "refresh", "handle", "add", "tell", "send"},
                            event : Event, commands : SUBSET Units]]
  /\ \A p \in Handlers : call[p].commands # {} => call[p].at \in {"add", "send"}
  /\ faults \in 0 .. MaxFaults[Cardinality(alive)]

(* While nothing goes wrong, a wadm that runs alone does not issue a       *)
(* command again that a host has still to carry out or has just done: its  *)
(* worker and its notifier hand events to one scaler at the same time.     *)
NoRepeat ==
  faults = MaxFaults[Cardinality(alive)] => \A i \in Instances, u \in Units :
    alive = {i} /\ u \in call[Worker(i)].commands =>
      <<i, u>> \notin orders /\ u \notin running

(* Every instance, the sender among them, handles a notification like an   *)
(* event, and may publish another: with snapshots that differ they need    *)
(* never end.                                                              *)
Calms == []<>Notified

(* If they do, everything runs in the end, and keeps running: no instance  *)
(* expects or backs off for ever.                                          *)
Converges == Calms => <>[](running = Units)
=============================================================================
