--------------------------- MODULE Backoff_proofs ---------------------------
(***************************************************************************)
(* Proofs about Backoff, for every set of instances and of units: its type *)
(* correctness, and that a wadm that runs alone repeats no command.        *)
(***************************************************************************)
EXTENDS Backoff, TLAPS, SequenceTheorems, FiniteSetTheorems

(* As long as nothing has gone wrong and only instance i runs.             *)
Fine(i) == alive = {i} /\ faults = MaxFaults[Cardinality(alive)]

In(e, s) == \E k \in 1 .. Len(s) : s[k] = e

(* The start of u was ordered, and its answer is still to be handled.      *)
Pending(u) == In(Started(u), events)
InFlight(i, u) == <<i, u>> \in orders \/ Pending(u)

(* The answer was taken, but is still on its way through wadm.             *)
Answered(i, u) ==
  \/ call[Worker(i)].event = Started(u) \/ call[Notifier(i)].event = Started(u)
  \/ In(Started(u), inbox[i])

(* The store has u, and so has the snapshot unless it is to be refreshed.  *)
Known(i, u) ==
  u \in listed /\ u \in store /\ (At(Worker(i), "refresh") \/ u \in snap[i])

(* The others do nothing, and there are no answers but good ones.          *)
Alone(i) ==
  /\ i \in Instances
  /\ \A o \in orders : o[1] = i
  /\ \A p \in Handlers : p[1] # i => call[p].at = "idle"
  /\ \A j \in Instances : j # i => inbox[j] = <<>>

GoodEvent(e) == e.type \in {"started", "heartbeat"}

NoneFails(i) ==
  /\ \A k \in 1 .. Len(events) : GoodEvent(events[k])
  /\ \A k \in 1 .. Len(inbox[i]) : GoodEvent(inbox[i][k])
  /\ GoodEvent(call[Worker(i)].event) /\ GoodEvent(call[Notifier(i)].event)

(* A unit is started once, and a heartbeat that does not have it comes     *)
(* before the answer.                                                      *)
StartedOnce(i, u) ==
  /\ <<i, u>> \in orders => u \notin running
  /\ Pending(u) => u \in running
  /\ Answered(i, u) => u \in running /\ ~Pending(u)
  /\ \A k, l \in 1 .. Len(events) :
       events[k] = Started(u) /\ events[l] = Started(u) => k = l

Remembered(i, u) ==
  /\ u \in running => Pending(u) \/ Known(i, u)
  /\ \A k \in 1 .. Len(events) :
       events[k].type = "heartbeat" /\ u \in running /\ u \notin events[k].runs =>
         \E l \in k + 1 .. Len(events) : events[l] = Started(u)

(* What is in flight is expected, and so is what will be sent; nothing     *)
(* else is sent.                                                           *)
Expecting(i, u) ==
  /\ InFlight(i, u) => u \in expected[i]
  /\ u \in call[Worker(i)].commands =>
       /\ <<i, u>> \notin orders /\ u \notin running
       /\ At(Worker(i), "send") => u \in expected[i]

Careful ==
  \A i \in Instances : Fine(i) =>
    /\ Alone(i) /\ NoneFails(i)
    /\ \A u \in Units : StartedOnce(i, u) /\ Remembered(i, u) /\ Expecting(i, u)
-----------------------------------------------------------------------------
(* Sequences.                                                              *)
LEMMA SeqAppend ==
  ASSUME NEW S, NEW s \in Seq(S), NEW x \in S
  PROVE  /\ Append(s, x) \in Seq(S) /\ s \o <<x>> = Append(s, x) /\ s \o <<>> = s
         /\ Len(Append(s, x)) = Len(s) + 1 /\ Len(s) \in Nat
         /\ Append(s, x)[Len(s) + 1] = x
         /\ \A k \in 1 .. Len(s) : Append(s, x)[k] = s[k]
         /\ \A e : In(e, Append(s, x)) <=> In(e, s) \/ e = x
<1>1. /\ Append(s, x) \in Seq(S) /\ Len(Append(s, x)) = Len(s) + 1 /\ Len(s) \in Nat
      /\ Append(s, x)[Len(s) + 1] = x
      /\ \A k \in 1 .. Len(s) : Append(s, x)[k] = s[k]
  OBVIOUS
<1>2. s \o <<x>> = Append(s, x) /\ s \o <<>> = s
  BY AppendIsConcat, ConcatEmptySeq
<1>3. \A e : In(e, Append(s, x)) <=> In(e, s) \/ e = x
  BY <1>1 DEF In
<1> QED
  BY <1>1, <1>2, <1>3

LEMMA SeqTail ==
  ASSUME NEW S, NEW s \in Seq(S), s # <<>>
  PROVE  /\ Tail(s) \in Seq(S) /\ Head(s) \in S /\ Head(s) = s[1]
         /\ Len(Tail(s)) = Len(s) - 1 /\ Len(s) \in Nat \ {0}
         /\ \A k \in 1 .. Len(s) - 1 : Tail(s)[k] = s[k + 1]
         /\ \A e : In(e, s) <=> In(e, Tail(s)) \/ e = Head(s)
<1>1. /\ Tail(s) \in Seq(S) /\ Head(s) \in S /\ Head(s) = s[1]
      /\ Len(Tail(s)) = Len(s) - 1 /\ Len(s) \in Nat \ {0}
      /\ \A k \in 1 .. Len(s) - 1 : Tail(s)[k] = s[k + 1]
  OBVIOUS
<1>2. ASSUME NEW e, In(e, s) PROVE In(e, Tail(s)) \/ e = Head(s)
  <2>1. PICK k \in 1 .. Len(s) : s[k] = e
    BY <1>2 DEF In
  <2>2. CASE k = 1
    BY <1>1, <2>1, <2>2
  <2>3. CASE k # 1
    <3>1. k - 1 \in 1 .. Len(s) - 1 /\ (k - 1) + 1 = k
      BY <1>1, <2>3
    <3>2. Tail(s)[k - 1] = e
      BY <1>1, <2>1, <3>1
    <3> QED
      BY <1>1, <3>1, <3>2 DEF In
  <2> QED
    BY <2>2, <2>3
<1>3. ASSUME NEW e, In(e, Tail(s)) \/ e = Head(s) PROVE In(e, s)
  <2>1. CASE e = Head(s)
    BY <1>1, <2>1 DEF In
  <2>2. CASE In(e, Tail(s))
    <3>1. PICK k \in 1 .. Len(s) - 1 : Tail(s)[k] = e
      BY <1>1, <2>2 DEF In
    <3>2. k + 1 \in 1 .. Len(s) /\ s[k + 1] = e
      BY <1>1, <3>1
    <3> QED
      BY <3>2 DEF In
  <2> QED
    BY <1>3, <2>1, <2>2
<1> QED
  BY <1>1, <1>2, <1>3
-----------------------------------------------------------------------------
(* Type correctness.                                                       *)
Call == [at : {"idle", "refresh", "handle", "add", "tell", "send"},
         event : Event, commands : SUBSET Units]

CallTyped ==
  /\ call \in [Handlers -> Call]
  /\ \A p \in Handlers : call[p].commands # {} => call[p].at \in {"add", "send"}

LatticeTyped ==
  /\ alive \in SUBSET Instances
  /\ running \in SUBSET Units
  /\ orders \in SUBSET (Instances \X Units)
  /\ events \in Seq(Event)

ScalerTyped ==
  /\ expected \in [Instances -> SUBSET Units]
  /\ failed \in SUBSET Instances
  /\ inbox \in [Instances -> Seq(Event)]

StateTyped ==
  /\ listed \in SUBSET Units /\ store \in SUBSET Units
  /\ snap \in [Instances -> SUBSET Units]

FaultsTyped == faults \in Int /\ 0 <= faults /\ faults <= MaxFaults[Cardinality(alive)]

LEMMA TypeParts ==
  ASSUME MaxFaults[Cardinality(alive)] \in Nat
  PROVE  TypeOK <=> LatticeTyped /\ StateTyped /\ ScalerTyped /\ CallTyped /\ FaultsTyped
BY DEF TypeOK, LatticeTyped, StateTyped, ScalerTyped, CallTyped, FaultsTyped, Call

LEMMA EventFacts ==
  /\ \A u \in Units : Started(u) \in Event /\ Failed(u) \in Event /\ Stopped(u) \in Event
  /\ \A U \in SUBSET Units : Heartbeat(U) \in Event
  /\ \A e \in Event : /\ e.type \in {"started", "failed", "stopped", "heartbeat"}
                      /\ e.type \in {"started", "failed", "stopped"} => e.unit \in Units
                      /\ e.type = "heartbeat" => e.runs \in SUBSET Units
                      /\ ForScaler(e) \in Event
<1>1. /\ \A u \in Units : Started(u) \in Event /\ Failed(u) \in Event /\ Stopped(u) \in Event
      /\ \A U \in SUBSET Units : Heartbeat(U) \in Event
  BY DEF Event
<1>2. \A e \in Event : /\ e.type \in {"started", "failed", "stopped", "heartbeat"}
                       /\ e.type \in {"started", "failed", "stopped"} => e.unit \in Units
                       /\ e.type = "heartbeat" => e.runs \in SUBSET Units
  BY DEF Event, Started, Failed, Stopped, Heartbeat
<1> QED
  BY <1>1, <1>2 DEF ForScaler

LEMMA HandlerFacts ==
  /\ \A i \in Instances : Worker(i) \in Handlers /\ Notifier(i) \in Handlers
                          /\ Worker(i) # Notifier(i)
  /\ \A p \in Handlers : p[1] \in Instances /\ (p = Worker(p[1]) \/ p = Notifier(p[1]))
                         /\ (p[2] = "worker" <=> p = Worker(p[1]))
BY DEF Handlers, Worker, Notifier

LEMMA IdleTyped == Idle \in Call /\ Idle.commands = {} /\ Idle.at = "idle"
                   /\ Idle.event = Heartbeat({})
BY EventFacts DEF Idle, Call

(* Where a handler goes.                                                   *)
LEMMA Goes ==
  ASSUME CallTyped, NEW p \in Handlers
  PROVE  /\ \A where \in {"handle", "add", "tell", "send"} :
              Goto(p, where) /\ (call[p].commands = {} \/ where \in {"add", "send"}) =>
              /\ CallTyped' /\ call'[p].at = where
              /\ call'[p].event = call[p].event /\ call'[p].commands = call[p].commands
         /\ Return(p) => CallTyped' /\ call'[p] = Idle
         /\ \A where : Goto(p, where) \/ Return(p) =>
              \A q \in Handlers : q # p => call'[q] = call[q]
<1>1. call \in [Handlers -> Call]
  BY DEF CallTyped
<1>2. ASSUME NEW where \in {"handle", "add", "tell", "send"}, Goto(p, where),
             call[p].commands = {} \/ where \in {"add", "send"}
      PROVE  /\ CallTyped' /\ call'[p].at = where
             /\ call'[p].event = call[p].event /\ call'[p].commands = call[p].commands
  <2>1. /\ call'[p] = [call[p] EXCEPT !.at = where] /\ DOMAIN call' = Handlers
        /\ call' = [q \in Handlers |-> call'[q]]
        /\ \A q \in Handlers : q # p => call'[q] = call[q]
    BY <1>1, <1>2 DEF Goto
  <2>2. call[p] \in Call
    BY <1>1
  <2>3. /\ call'[p] \in Call /\ call'[p].at = where
        /\ call'[p].event = call[p].event /\ call'[p].commands = call[p].commands
    BY <2>1, <2>2 DEF Call
  <2> QED
    BY <1>1, <1>2, <2>1, <2>3 DEF CallTyped
<1>3. ASSUME Return(p) PROVE CallTyped' /\ call'[p] = Idle
  BY <1>1, <1>3, IdleTyped DEF Return, CallTyped
<1>4. ASSUME NEW where, Goto(p, where) \/ Return(p), NEW q \in Handlers, q # p
      PROVE  call'[q] = call[q]
  BY <1>1, <1>4 DEF Goto, Return
<1> QED
  BY <1>2, <1>3, <1>4

LEMMA Leaves ==
  ASSUME CallTyped, NEW p \in Handlers, Leave(p)
  PROVE  /\ CallTyped'
         /\ \A q \in Handlers : q # p => call'[q] = call[q]
         /\ p[2] = "worker" => /\ call'[p].at = "send"
                               /\ call'[p].event = call[p].event
                               /\ call'[p].commands = call[p].commands
         /\ p[2] # "worker" => call'[p] = Idle
<1>1. CASE p[2] = "worker"
  BY <1>1, Goes DEF Leave
<1>2. CASE p[2] # "worker"
  BY <1>2, Goes DEF Leave
<1> QED
  BY <1>1, <1>2

(* A notification reaches whoever runs.                                    *)
LEMMA Publishes ==
  ASSUME ScalerTyped, CallTyped, NEW p \in Handlers, Publish(p)
  PROVE  /\ inbox' \in [Instances -> Seq(Event)]
         /\ \A i \in Instances : inbox'[i] =
              IF i \in alive THEN Append(inbox[i], ForScaler(call[p].event)) ELSE inbox[i]
<1>1. ForScaler(call[p].event) \in Event
  BY EventFacts DEF CallTyped, Call
<1>2. ASSUME NEW i \in Instances
      PROVE  /\ inbox'[i] =
                  IF i \in alive THEN Append(inbox[i], ForScaler(call[p].event)) ELSE inbox[i]
             /\ inbox'[i] \in Seq(Event)
  <2>1. inbox[i] \in Seq(Event)
    BY DEF ScalerTyped
  <2>2. /\ inbox[i] \o <<ForScaler(call[p].event)>> = Append(inbox[i], ForScaler(call[p].event))
        /\ inbox[i] \o <<>> = inbox[i]
        /\ Append(inbox[i], ForScaler(call[p].event)) \in Seq(Event)
    BY <1>1, <2>1, SeqAppend
  <2> QED
    BY <2>1, <2>2 DEF Publish
<1>3. inbox' = [i \in Instances |-> inbox'[i]]
  BY DEF Publish
<1> QED
  BY <1>2, <1>3

LEMMA AwaitedFacts ==
  ASSUME ScalerTyped, CallTyped, NEW p \in Handlers
  PROVE  /\ Awaited(p[1], call[p].event) \in SUBSET expected[p[1]]
         /\ expected[p[1]] \in SUBSET Units
         /\ \A u \in Awaited(p[1], call[p].event) :
              call[p].event.type \in {"started", "failed"} /\ call[p].event.unit = u
BY HandlerFacts DEF Awaited, ScalerTyped

LEMMA HandleEventTyped ==
  ASSUME TypeOK, MaxFaults[Cardinality(alive)] \in Nat,
         NEW p \in Handlers, HandleEvent(p)
  PROVE  ScalerTyped' /\ CallTyped' /\ UNCHANGED <<lattice, state, snap, faults>>
<1>1. ScalerTyped /\ CallTyped /\ p[1] \in Instances
  BY TypeParts, HandlerFacts
<1>2. CASE RemoveEvent(p)
  <2>1. /\ expected' = [expected EXCEPT ![p[1]] = @ \ Awaited(p[1], call[p].event)]
        /\ failed' = failed \cup (IF call[p].event.type = "failed" THEN {p[1]} ELSE {})
        /\ call[p].at = "handle" /\ Goto(p, "tell")
        /\ UNCHANGED <<lattice, state, snap, inbox, faults>>
    BY <1>2 DEF RemoveEvent, At
  <2>2. CallTyped'
    BY <1>1, <2>1, Goes DEF CallTyped
  <2>3. ScalerTyped'
    BY <1>1, <2>1, AwaitedFacts DEF ScalerTyped
  <2> QED
    BY <2>1, <2>2, <2>3
<1>3. CASE Ignore(p)
  BY <1>1, <1>3, Leaves DEF Ignore, ScalerTyped
<1>4. CASE Compute(p)
  <2>1. /\ call' = [call EXCEPT ![p].at = "add", ![p].commands =
                      IF call[p].event.type = "failed" THEN {} ELSE Units \ snap[p[1]]]
        /\ UNCHANGED <<lattice, state, snap, expected, failed, inbox, faults>>
    BY <1>4 DEF Compute
  <2>2. call[p] \in Call /\ call \in [Handlers -> Call]
    BY <1>1 DEF CallTyped
  <2> DEFINE cmds == IF call[p].event.type = "failed" THEN {} ELSE Units \ snap[p[1]]
  <2>3. cmds \in SUBSET Units
    OBVIOUS
  <2>4. call' = [call EXCEPT ![p] = [call[p] EXCEPT !.at = "add", !.commands = cmds]]
    BY <2>1
  <2> HIDE DEF cmds
  <2>5. [call[p] EXCEPT !.at = "add", !.commands = cmds] \in Call
        /\ [call[p] EXCEPT !.at = "add", !.commands = cmds].at = "add"
    BY <2>2, <2>3 DEF Call
  <2>6. CallTyped'
    BY <1>1, <2>2, <2>4, <2>5 DEF CallTyped
  <2> QED
    BY <1>1, <2>1, <2>6 DEF ScalerTyped
<1>5. CASE AddEvents(p)
  <2>1. /\ expected' = [expected EXCEPT ![p[1]] = ToExpect(p)]
        /\ IF ToExpect(p) # {} THEN Publish(p) ELSE UNCHANGED inbox
        /\ Leave(p)
        /\ UNCHANGED <<lattice, state, snap, failed, faults>>
    BY <1>5 DEF AddEvents
  <2>2. ToExpect(p) \in SUBSET Units
    BY <1>1 DEF ToExpect, ScalerTyped, CallTyped, Call
  <2>3. inbox' \in [Instances -> Seq(Event)]
    BY <1>1, <2>1, Publishes DEF ScalerTyped
  <2> QED
    BY <1>1, <2>1, <2>2, <2>3, Leaves DEF ScalerTyped
<1>6. CASE Tell(p)
  BY <1>1, <1>6, Publishes, Leaves DEF Tell, ScalerTyped
<1> QED
  BY <1>2, <1>3, <1>4, <1>5, <1>6 DEF HandleEvent

LEMMA FaultTyped ==
  ASSUME FaultsTyped, MaxFaults[Cardinality(alive)] \in Nat, Fault, alive' = alive
  PROVE  FaultsTyped'
BY DEF FaultsTyped, Fault

(* The steps of a worker and of a notifier besides.                        *)
LEMMA WorkTyped ==
  ASSUME TypeOK, MaxFaults[Cardinality(alive)] \in Nat, NEW i \in Instances,
         DoWork(i) \/ Refresh(i) \/ PublishCommands(i) \/ PublishFails(i) \/ Notify(i)
  PROVE  LatticeTyped' /\ StateTyped' /\ ScalerTyped' /\ CallTyped' /\ FaultsTyped'
<1>1. /\ LatticeTyped /\ StateTyped /\ ScalerTyped /\ CallTyped /\ FaultsTyped
      /\ Worker(i) \in Handlers /\ Notifier(i) \in Handlers
  BY TypeParts, HandlerFacts
<1>2. ASSUME NEW p \in Handlers, NEW e \in Event, NEW where \in {"refresh", "handle"},
             call' = [call EXCEPT ![p] = [at |-> where, event |-> e, commands |-> {}]]
      PROVE  CallTyped'
  BY <1>1, <1>2 DEF CallTyped, Call
<1>3. CASE DoWork(i)
  <2> DEFINE e == Head(events)
  <2>1. /\ events # <<>> /\ events' = Tail(events) /\ AfterEvent(e)
        /\ call' = [call EXCEPT ![Worker(i)] =
                      [at |-> "refresh", event |-> e, commands |-> {}]]
        /\ UNCHANGED <<alive, running, orders, snap, expected, failed, inbox, faults>>
    BY <1>3 DEF DoWork
  <2>2. e \in Event /\ events' \in Seq(Event)
    BY <1>1, <2>1, SeqTail DEF LatticeTyped
  <2> HIDE DEF e
  <2>3. CallTyped'
    BY <1>1, <1>2, <2>1, <2>2
  <2>4. listed' \in SUBSET Units /\ store' \in SUBSET Units
    <3>1. CASE e.type = "started"
      BY <1>1, <2>1, <2>2, <3>1, EventFacts DEF AfterEvent, StateTyped
    <3>2. CASE e.type = "stopped"
      BY <1>1, <2>1, <2>2, <3>2, EventFacts DEF AfterEvent, StateTyped
    <3>3. CASE e.type = "heartbeat"
      BY <1>1, <2>1, <2>2, <3>3, EventFacts DEF AfterEvent, StateTyped
    <3>4. CASE e.type = "failed"
      BY <1>1, <2>1, <2>2, <3>4, EventFacts DEF AfterEvent, StateTyped, state
    <3> QED
      BY <2>2, <3>1, <3>2, <3>3, <3>4, EventFacts
  <2> QED
    BY <1>1, <2>1, <2>2, <2>3, <2>4 DEF LatticeTyped, StateTyped, ScalerTyped, FaultsTyped
<1>4. CASE Refresh(i)
  <2>1. /\ snap' = [snap EXCEPT ![i] = store] /\ Goto(Worker(i), "handle")
        /\ call[Worker(i)].at = "refresh"
        /\ UNCHANGED <<lattice, state, expected, failed, inbox, faults>>
    BY <1>4 DEF Refresh, At
  <2>2. CallTyped'
    BY <1>1, <2>1, Goes DEF CallTyped
  <2> QED
    BY <1>1, <2>1, <2>2
    DEF lattice, state, LatticeTyped, StateTyped, ScalerTyped, FaultsTyped
<1>5. CASE PublishCommands(i) \/ PublishFails(i)
  <2>1. /\ orders' \in SUBSET (Instances \X Units) /\ events' \in Seq(Event)
    <3>1. call[Worker(i)].commands \in SUBSET Units /\ call[Worker(i)].event \in Event
      BY <1>1 DEF CallTyped, Call
    <3>2. CASE PublishCommands(i)
      BY <1>1, <3>1, <3>2 DEF PublishCommands, LatticeTyped
    <3>3. CASE PublishFails(i)
      <4>1. events' = Append(events, call[Worker(i)].event)
        BY <3>3 DEF PublishFails
      <4>2. events' \in Seq(Event)
        BY <1>1, <3>1, <4>1, SeqAppend DEF LatticeTyped
      <4> QED
        BY <1>1, <3>1, <3>3, <4>2 DEF PublishFails, LatticeTyped
    <3> QED
      BY <1>5, <3>2, <3>3
  <2>2. /\ Return(Worker(i)) /\ alive' = alive /\ FaultsTyped'
        /\ UNCHANGED <<alive, running, state, snap, expected, failed, inbox>>
    BY <1>1, <1>5, FaultTyped DEF PublishCommands, PublishFails, FaultsTyped
  <2> QED
    BY <1>1, <2>1, <2>2, Goes DEF state, LatticeTyped, StateTyped, ScalerTyped
<1>6. CASE Notify(i)
  <2>1. /\ inbox[i] # <<>> /\ inbox' = [inbox EXCEPT ![i] = Tail(@)]
        /\ call' = [call EXCEPT ![Notifier(i)] =
                      [at |-> "handle", event |-> Head(inbox[i]), commands |-> {}]]
        /\ UNCHANGED <<lattice, state, snap, expected, failed, faults>>
    BY <1>6 DEF Notify
  <2>2. Head(inbox[i]) \in Event /\ Tail(inbox[i]) \in Seq(Event)
    BY <1>1, <2>1, SeqTail DEF ScalerTyped
  <2>3. CallTyped'
    BY <1>1, <1>2, <2>1, <2>2
  <2> QED
    BY <1>1, <2>1, <2>2, <2>3
    DEF lattice, state, LatticeTyped, StateTyped, ScalerTyped, FaultsTyped
<1> QED
  BY <1>3, <1>4, <1>5, <1>6

(* The timers, the lattice, and an instance that starts again.             *)
LEMMA OtherTyped ==
  ASSUME TypeOK, MaxFaults[Cardinality(alive)] \in Nat,
         \/ \E i \in Instances : Timeout(i) \/ TimeoutTooEarly(i) \/ CleanStatus(i) \/ Restart(i)
         \/ \E p \in Handlers : TellFails(p)
         \/ \E o \in orders : Start(o) \/ StartFails(o)
         \/ \E u \in Units : Stop(u)
         \/ SendHeartbeat \/ Reap
  PROVE  LatticeTyped' /\ StateTyped' /\ ScalerTyped' /\ CallTyped' /\ FaultsTyped'
<1>1. LatticeTyped /\ StateTyped /\ ScalerTyped /\ CallTyped /\ FaultsTyped
  BY TypeParts
<1>2. CASE \E i \in Instances : Timeout(i) \/ TimeoutTooEarly(i) \/ CleanStatus(i)
  <2>1. PICK i \in Instances : Timeout(i) \/ TimeoutTooEarly(i) \/ CleanStatus(i)
    BY <1>2
  <2>2. FaultsTyped'
    BY <1>1, <2>1, FaultTyped
    DEF Timeout, TimeoutTooEarly, CleanStatus, CleanEvents, FaultsTyped, lattice
  <2>3. ScalerTyped' /\ UNCHANGED <<lattice, state, snap, call>>
    BY <1>1, <2>1 DEF Timeout, TimeoutTooEarly, CleanStatus, CleanEvents, ScalerTyped
  <2> QED
    BY <1>1, <2>2, <2>3 DEF lattice, state, LatticeTyped, StateTyped, CallTyped
<1>3. CASE \E i \in Instances : Restart(i)
  <2>1. PICK i \in Instances : Restart(i)
    BY <1>3
  <2>2. /\ FaultsTyped'
        /\ call' = [p \in Handlers |-> IF p[1] = i THEN Idle ELSE call[p]]
        /\ snap' = [snap EXCEPT ![i] = {}] /\ expected' = [expected EXCEPT ![i] = {}]
        /\ failed' = failed \ {i} /\ inbox' = [inbox EXCEPT ![i] = <<>>]
        /\ UNCHANGED <<alive, running, orders, state>>
    BY <1>1, <2>1, FaultTyped DEF Restart
  <2>3. call[Worker(i)].event \in Event
    BY <1>1, HandlerFacts DEF CallTyped, Call
  <2>4. events' = events \/ events' = Append(events, call[Worker(i)].event)
    BY <1>1, <2>1, <2>3, SeqAppend DEF Restart, LatticeTyped
  <2>5. events' \in Seq(Event)
    BY <1>1, <2>3, <2>4, SeqAppend DEF LatticeTyped
  <2>6. CallTyped'
    BY <1>1, <2>2, IdleTyped DEF CallTyped
  <2>7. inbox' \in [Instances -> Seq(Event)]
    <3>1. <<>> \in Seq(Event)
      OBVIOUS
    <3> QED
      BY <1>1, <2>2, <3>1 DEF ScalerTyped
  <2> QED
    BY <1>1, <2>2, <2>5, <2>6, <2>7 DEF state, LatticeTyped, StateTyped, ScalerTyped
<1>4. CASE \E p \in Handlers : TellFails(p)
  <2>1. PICK p \in Handlers : TellFails(p)
    BY <1>4
  <2>2. /\ FaultsTyped' /\ Return(p) /\ expected' = [expected EXCEPT ![p[1]] = ToExpect(p)]
        /\ UNCHANGED <<alive, running, orders, state, snap, failed, inbox>>
    BY <1>1, <2>1, FaultTyped DEF TellFails
  <2>3. call[p].event \in Event /\ ToExpect(p) \in SUBSET Units /\ p[1] \in Instances
    BY <1>1, HandlerFacts DEF ToExpect, ScalerTyped, CallTyped, Call
  <2>4. events' = events \/ events' = Append(events, call[p].event)
    BY <1>1, <2>1, <2>3, SeqAppend DEF TellFails, LatticeTyped
  <2>5. events' \in Seq(Event)
    BY <1>1, <2>3, <2>4, SeqAppend DEF LatticeTyped
  <2> QED
    BY <1>1, <2>2, <2>3, <2>5, Goes DEF state, LatticeTyped, StateTyped, ScalerTyped
<1>5. CASE (\E o \in orders : Start(o) \/ StartFails(o)) \/ \E u \in Units : Stop(u)
  <2>1. /\ FaultsTyped'
        /\ UNCHANGED <<alive, state, snap, expected, failed, inbox, call>>
    BY <1>1, <1>5, FaultTyped DEF Start, StartFails, Stop, FaultsTyped
  <2>2. PICK u \in Units :
          /\ running' \in {running, running \cup {u}, running \ {u}}
          /\ orders' \in SUBSET orders
          /\ \E e \in {Started(u), Failed(u), Stopped(u)} : events' = Append(events, e)
    <3>1. \A o \in orders : o[2] \in Units
      BY <1>1 DEF LatticeTyped
    <3> QED
      BY <1>5, <3>1 DEF Start, StartFails, Stop
  <2>3. events' \in Seq(Event)
    BY <1>1, <2>2, SeqAppend, EventFacts DEF LatticeTyped
  <2> QED
    BY <1>1, <2>1, <2>2, <2>3 DEF state, LatticeTyped, StateTyped, ScalerTyped, CallTyped
<1>6. CASE SendHeartbeat
  <2>1. Heartbeat(running) \in Event
    BY <1>1, EventFacts DEF LatticeTyped
  <2>2. events' \in Seq(Event)
    BY <1>6, <2>1 DEF SendHeartbeat
  <2> QED
    BY <1>1, <1>6, <2>2
    DEF SendHeartbeat, state, LatticeTyped, StateTyped, ScalerTyped, CallTyped, FaultsTyped
<1>7. CASE Reap
  BY <1>1, <1>7
  DEF Reap, lattice, LatticeTyped, StateTyped, ScalerTyped, CallTyped, FaultsTyped
<1> QED
  BY <1>2, <1>3, <1>4, <1>5, <1>6, <1>7

LEMMA AliveUnchanged ==
  ASSUME [Next]_vars
  PROVE  alive' = alive
<1>1. CASE UNCHANGED vars
  BY <1>1 DEF vars, lattice
<1>2. CASE \E i \in Instances :
             \/ DoWork(i) \/ Refresh(i) \/ PublishCommands(i) \/ Notify(i) \/ PublishFails(i)
             \/ Timeout(i) \/ TimeoutTooEarly(i) \/ CleanStatus(i) \/ Restart(i)
  BY <1>2 DEF DoWork, Refresh, PublishCommands, Notify, PublishFails, Timeout, TimeoutTooEarly,
              CleanStatus, CleanEvents, Restart, lattice
<1>3. CASE \E p \in Handlers : HandleEvent(p) \/ TellFails(p)
  BY <1>3 DEF HandleEvent, RemoveEvent, Ignore, Compute, AddEvents, Tell, TellFails, lattice
<1>4. CASE \/ \E o \in orders : Start(o) \/ StartFails(o)
           \/ \E u \in Units : Stop(u)
           \/ SendHeartbeat \/ Reap
  BY <1>4 DEF Start, StartFails, Stop, SendHeartbeat, Reap, lattice
<1> QED
  BY <1>1, <1>2, <1>3, <1>4, HandlerFacts DEF Next, Working, Listening

(* The bound of the faults is a number for whoever runs.                   *)
Bounded == MaxFaults[Cardinality(alive)] \in Nat

TInv == Bounded /\ TypeOK

LEMMA InitTInv == Init => TInv
<1> SUFFICES ASSUME Init PROVE TInv
  OBVIOUS
<1>1. alive \in SUBSET Instances /\ alive # {}
  BY DEF Init
<1>2. IsFiniteSet(alive) /\ Cardinality(alive) <= Cardinality(Instances)
  BY <1>1, FS_Subset, BackoffAssumption
<1>3. Cardinality(alive) \in Nat /\ Cardinality(alive) # 0
  BY <1>1, <1>2, FS_CardinalityType, FS_EmptySet
<1>4. Bounded
  BY <1>2, <1>3, FS_CardinalityType, BackoffAssumption DEF Bounded
<1>5. CallTyped
  BY IdleTyped DEF Init, CallTyped
<1>6. inbox \in [Instances -> Seq(Event)] /\ events \in Seq(Event)
  BY DEF Init
<1>7. FaultsTyped
  BY <1>4 DEF Init, FaultsTyped, Bounded
<1>8. LatticeTyped /\ StateTyped /\ ScalerTyped
  BY <1>1, <1>6 DEF Init, LatticeTyped, StateTyped, ScalerTyped
<1> QED
  BY <1>4, <1>5, <1>7, <1>8, TypeParts DEF TInv, Bounded

LEMMA NextTInv == TInv /\ [Next]_vars => TInv'
<1> SUFFICES ASSUME TInv, [Next]_vars PROVE TInv'
  OBVIOUS
<1>1. TypeOK /\ MaxFaults[Cardinality(alive)] \in Nat /\ alive' = alive
  BY AliveUnchanged DEF TInv, Bounded
<1>2. LatticeTyped /\ StateTyped /\ ScalerTyped /\ CallTyped /\ FaultsTyped
  BY <1>1, TypeParts
<1>3. LatticeTyped' /\ StateTyped' /\ ScalerTyped' /\ CallTyped' /\ FaultsTyped'
  <2>1. CASE UNCHANGED vars
    BY <1>2, <2>1
    DEF vars, lattice, state, LatticeTyped, StateTyped, ScalerTyped, CallTyped, FaultsTyped
  <2>2. ASSUME NEW p \in Handlers, HandleEvent(p)
        PROVE  LatticeTyped' /\ StateTyped' /\ ScalerTyped' /\ CallTyped' /\ FaultsTyped'
    BY <1>1, <1>2, <2>2, HandleEventTyped
    DEF lattice, state, LatticeTyped, StateTyped, FaultsTyped
  <2>3. CASE \E i \in Instances :
               \/ DoWork(i) \/ Refresh(i) \/ PublishCommands(i) \/ Notify(i) \/ PublishFails(i)
    BY <1>1, <2>3, WorkTyped
  <2>4. CASE \/ \E i \in Instances :
                  Timeout(i) \/ TimeoutTooEarly(i) \/ CleanStatus(i) \/ Restart(i)
             \/ \E p \in Handlers : TellFails(p)
             \/ \E o \in orders : Start(o) \/ StartFails(o)
             \/ \E u \in Units : Stop(u)
             \/ SendHeartbeat \/ Reap
    BY <1>1, <2>4, OtherTyped
  <2> QED
    BY <2>1, <2>2, <2>3, <2>4, HandlerFacts DEF Next, Working, Listening
<1>4. Bounded'
  BY <1>1 DEF Bounded
<1>5. TypeOK'
  BY <1>3, <1>4
  DEF TypeOK, LatticeTyped, StateTyped, ScalerTyped, CallTyped, FaultsTyped, Call, Bounded
<1> QED
  BY <1>4, <1>5 DEF TInv

(* The types are kept, and nobody has commands but who is to expect their  *)
(* events or to publish them: a notifier drops what it computes, and a     *)
(* worker that was interrupted starts without any.                         *)
THEOREM BackoffTypeCorrect == Spec => []TypeOK
<1>1. TInv => TypeOK
  BY DEF TInv
<1> QED
  BY <1>1, InitTInv, NextTInv, PTL DEF Spec
-----------------------------------------------------------------------------
(* No command is repeated.                                                 *)
StepsKeep(i) == Alone(i) /\ NoneFails(i)
                /\ \A u \in Units : StartedOnce(i, u) /\ Remembered(i, u) /\ Expecting(i, u)

LEMMA CarefulIs == Careful <=> \A i \in Instances : Fine(i) => StepsKeep(i)
BY DEF Careful, StepsKeep

LEMMA AnswerFacts ==
  /\ \A u : Started(u).type = "started" /\ Started(u).unit = u /\ GoodEvent(Started(u))
  /\ \A U : Heartbeat(U).type = "heartbeat" /\ Heartbeat(U).runs = U /\ GoodEvent(Heartbeat(U))
  /\ \A u, U : Heartbeat(U) # Started(u)
  /\ \A u, v : Started(u) = Started(v) => u = v
  /\ \A e \in Event : e.type = "started" => e = Started(e.unit)
  /\ \A e, u : ForScaler(e) = Started(u) => e = Started(u)
  /\ \A e : GoodEvent(e) => GoodEvent(ForScaler(e))
  /\ \A u : Idle.event # Started(u) /\ GoodEvent(Idle.event)
<1>1. /\ \A u : Started(u).type = "started" /\ Started(u).unit = u /\ GoodEvent(Started(u))
      /\ \A U : Heartbeat(U).type = "heartbeat" /\ Heartbeat(U).runs = U
                /\ GoodEvent(Heartbeat(U))
  BY DEF Started, Heartbeat, GoodEvent
<1>2. \A u, U : Heartbeat(U) # Started(u)
  <2>1. \A u, U : Heartbeat(U).type # Started(u).type
    BY <1>1
  <2> QED
    BY <2>1
<1>3. \A u, v : Started(u) = Started(v) => u = v
  <2>1. \A u, v : Started(u) = Started(v) => Started(u).unit = Started(v).unit
    OBVIOUS
  <2> QED
    BY <1>1, <2>1
<1>4. \A e \in Event : e.type = "started" => e = Started(e.unit)
  BY DEF Event, Started, Failed, Stopped, Heartbeat
<1>5. \A e, u : ForScaler(e) = Started(u) => e = Started(u)
  BY <1>2 DEF ForScaler
<1>6. \A e : GoodEvent(e) => GoodEvent(ForScaler(e))
  BY <1>1 DEF ForScaler
<1>7. \A u : Idle.event # Started(u) /\ GoodEvent(Idle.event)
  BY <1>1, <1>2, IdleTyped
<1> QED
  BY <1>1, <1>2, <1>3, <1>4, <1>5, <1>6, <1>7

LEMMA CallFacts ==
  ASSUME TInv, NEW i \in Instances
  PROVE  /\ LatticeTyped /\ StateTyped /\ ScalerTyped /\ CallTyped /\ FaultsTyped
         /\ Worker(i) \in Handlers /\ Notifier(i) \in Handlers /\ Worker(i) # Notifier(i)
         /\ call[Worker(i)] \in Call /\ call[Notifier(i)] \in Call
         /\ \A u \in call[Worker(i)].commands : At(Worker(i), "add") \/ At(Worker(i), "send")
         /\ events \in Seq(Event) /\ inbox[i] \in Seq(Event)
<1>1. LatticeTyped /\ StateTyped /\ ScalerTyped /\ CallTyped /\ FaultsTyped
  BY TypeParts DEF TInv, Bounded
<1> QED
  BY <1>1, HandlerFacts DEF LatticeTyped, ScalerTyped, CallTyped, At

(* The worker takes an event.                                              *)
LEMMA DoWorkKeeps ==
  ASSUME TInv, NEW i \in Instances, StepsKeep(i), DoWork(i)
  PROVE  StepsKeep(i)'
<1> DEFINE e == Head(events)
<1>1. /\ events # <<>> /\ events' = Tail(events) /\ AfterEvent(e)
      /\ call' = [call EXCEPT ![Worker(i)] =
                    [at |-> "refresh", event |-> e, commands |-> {}]]
      /\ UNCHANGED <<alive, running, orders, snap, expected, failed, inbox, faults>>
  BY DEF DoWork
<1>2. /\ CallTyped /\ StateTyped /\ events \in Seq(Event)
      /\ Worker(i) \in Handlers /\ Notifier(i) \in Handlers /\ Worker(i) # Notifier(i)
  BY CallFacts
<1>3. /\ e = events[1] /\ e \in Event /\ Len(events) \in Nat \ {0}
      /\ Len(events') = Len(events) - 1
      /\ \A k \in 1 .. Len(events) - 1 : events'[k] = events[k + 1]
      /\ \A x : In(x, events) <=> In(x, events') \/ x = e
  BY <1>1, <1>2, SeqTail
<1> HIDE DEF e
<1>4. /\ call'[Worker(i)].at = "refresh" /\ call'[Worker(i)].event = e
      /\ call'[Worker(i)].commands = {}
      /\ \A p \in Handlers : p # Worker(i) => call'[p] = call[p]
  BY <1>1, <1>2 DEF CallTyped
<1>5. GoodEvent(e)
  BY <1>3 DEF StepsKeep, NoneFails
<1>6. Alone(i)'
  <2>1. \A p \in Handlers : p[1] # i => p # Worker(i)
    BY DEF Worker
  <2> QED
    BY <1>1, <1>4, <2>1 DEF StepsKeep, Alone
<1>7. NoneFails(i)'
  BY <1>1, <1>2, <1>3, <1>4, <1>5 DEF StepsKeep, NoneFails
<1>8. ASSUME NEW u \in Units PROVE StartedOnce(i, u)' /\ Remembered(i, u)' /\ Expecting(i, u)'
  <2>1. StartedOnce(i, u) /\ Remembered(i, u) /\ Expecting(i, u)
    BY DEF StepsKeep
  <2>2. /\ Pending(u) <=> Pending(u)' \/ e = Started(u)
        /\ Answered(i, u)' => Answered(i, u) \/ e = Started(u)
    BY <1>1, <1>2, <1>3, <1>4 DEF Pending, Answered
  <2>3. \A k, l \in 1 .. Len(events') :
          events'[k] = Started(u) /\ events'[l] = Started(u) => k = l
    BY <1>3, <2>1 DEF StartedOnce
  <2>4. e = Started(u) => ~Pending(u)'
    <3>1. ASSUME NEW k \in 1 .. Len(events'), events'[k] = Started(u), e = Started(u)
          PROVE  FALSE
      <4>1. /\ k + 1 \in 1 .. Len(events) /\ 1 \in 1 .. Len(events) /\ k + 1 # 1
            /\ events[k + 1] = Started(u) /\ events[1] = Started(u)
        BY <1>3, <3>1
      <4> QED
        BY <2>1, <4>1 DEF StartedOnce
    <3> QED
      BY <3>1 DEF Pending, In
  <2>5. StartedOnce(i, u)'
    BY <1>1, <2>1, <2>2, <2>3, <2>4 DEF StartedOnce
  <2>6. u \in running /\ ~Pending(u)' => u \in listed' /\ u \in store'
    <3> SUFFICES ASSUME u \in running, ~Pending(u)' PROVE u \in listed' /\ u \in store'
      OBVIOUS
    <3>1. CASE e = Started(u)
      BY <1>1, <3>1, AnswerFacts DEF AfterEvent
    <3>2. CASE e # Started(u)
      <4>1. ~Pending(u) /\ u \in listed /\ u \in store
        BY <2>1, <2>2, <3>2 DEF Remembered, Known
      <4>2. CASE e.type = "started"
        BY <1>1, <4>1, <4>2 DEF AfterEvent
      <4>3. CASE e.type = "heartbeat"
        <5>1. u \in e.runs
          <6>1. 1 \in 1 .. Len(events) /\ events[1] = e
            BY <1>3
          <6>2. \A l \in 1 + 1 .. Len(events) : l \in 1 .. Len(events)
            BY <1>3
          <6>3. \A l \in 1 + 1 .. Len(events) : events[l] # Started(u)
            BY <4>1, <6>2 DEF Pending, In
          <6> QED
            BY <2>1, <4>3, <6>1, <6>3 DEF Remembered
        <5> QED
          BY <1>1, <4>1, <4>3, <5>1 DEF AfterEvent
      <4> QED
        BY <1>5, <4>2, <4>3 DEF GoodEvent
    <3> QED
      BY <3>1, <3>2
  <2>7. ASSUME NEW k \in 1 .. Len(events'), events'[k].type = "heartbeat",
               u \in running, u \notin events'[k].runs
        PROVE  \E l \in k + 1 .. Len(events') : events'[l] = Started(u)
    <3>1. k + 1 \in 1 .. Len(events) /\ events[k + 1] = events'[k]
      BY <1>3
    <3>2. PICK l \in (k + 1) + 1 .. Len(events) : events[l] = Started(u)
      BY <2>1, <2>7, <3>1 DEF Remembered
    <3>3. l - 1 \in k + 1 .. Len(events') /\ events'[l - 1] = events[l]
      BY <1>3, <3>2
    <3> QED
      BY <3>2, <3>3
  <2>8. Remembered(i, u)'
    BY <1>1, <1>4, <2>6, <2>7 DEF Remembered, Known, At
  <2>9. Expecting(i, u)'
    BY <1>1, <1>4, <2>1, <2>2 DEF Expecting, InFlight
  <2> QED
    BY <2>5, <2>8, <2>9
<1> QED
  BY <1>6, <1>7, <1>8 DEF StepsKeep

(* It refreshes the snapshot, publishes commands, or the notifier takes a  *)
(* notification.                                                           *)
LEMMA RefreshKeeps ==
  ASSUME TInv, NEW i \in Instances, StepsKeep(i), Refresh(i)
  PROVE  StepsKeep(i)'
<1>1. /\ call[Worker(i)].at = "refresh" /\ snap' = [snap EXCEPT ![i] = store]
      /\ Goto(Worker(i), "handle")
      /\ UNCHANGED <<alive, running, orders, events, listed, store, expected, inbox>>
  BY DEF Refresh, At, lattice, state
<1>2. /\ CallTyped /\ StateTyped
      /\ Worker(i) \in Handlers /\ Notifier(i) \in Handlers /\ Worker(i) # Notifier(i)
  BY CallFacts
<1>3. /\ call'[Worker(i)].at = "handle" /\ call'[Worker(i)].event = call[Worker(i)].event
      /\ call'[Worker(i)].commands = {}
      /\ \A p \in Handlers : p # Worker(i) => call'[p] = call[p]
  BY <1>1, <1>2, Goes DEF CallTyped
<1>4. Alone(i)'
  <2>1. \A p \in Handlers : p[1] # i => p # Worker(i)
    BY DEF Worker
  <2> QED
    BY <1>1, <1>3, <2>1 DEF StepsKeep, Alone
<1>5. NoneFails(i)'
  BY <1>1, <1>2, <1>3 DEF StepsKeep, NoneFails
<1>6. ASSUME NEW u \in Units PROVE StartedOnce(i, u)' /\ Remembered(i, u)' /\ Expecting(i, u)'
  <2>1. StartedOnce(i, u) /\ Remembered(i, u) /\ Expecting(i, u)
    BY DEF StepsKeep
  <2>2. (Pending(u)' <=> Pending(u)) /\ (Answered(i, u)' <=> Answered(i, u))
    BY <1>1, <1>2, <1>3 DEF Pending, Answered
  <2>3. StartedOnce(i, u)'
    BY <1>1, <2>1, <2>2 DEF StartedOnce
  <2>4. Known(i, u) => Known(i, u)'
    BY <1>1, <1>2 DEF Known, StateTyped
  <2>5. Remembered(i, u)'
    BY <1>1, <2>1, <2>2, <2>4 DEF Remembered
  <2>6. Expecting(i, u)'
    BY <1>1, <1>3, <2>1, <2>2 DEF Expecting, InFlight
  <2> QED
    BY <2>3, <2>5, <2>6
<1> QED
  BY <1>4, <1>5, <1>6 DEF StepsKeep

LEMMA PublishCommandsKeeps ==
  ASSUME TInv, NEW i \in Instances, StepsKeep(i), PublishCommands(i)
  PROVE  StepsKeep(i)'
<1>1. /\ call[Worker(i)].at = "send"
      /\ orders' = orders \cup ({i} \X call[Worker(i)].commands) /\ Return(Worker(i))
      /\ UNCHANGED <<alive, running, events, listed, store, snap, expected, inbox>>
  BY DEF PublishCommands, At, state
<1>2. /\ CallTyped /\ StateTyped
      /\ Worker(i) \in Handlers /\ Notifier(i) \in Handlers /\ Worker(i) # Notifier(i)
  BY CallFacts
<1>3. /\ call'[Worker(i)] = Idle
      /\ \A p \in Handlers : p # Worker(i) => call'[p] = call[p]
  BY <1>2, Goes, <1>1
<1>4. Alone(i)'
  <2>1. \A p \in Handlers : p[1] # i => p # Worker(i)
    BY DEF Worker
  <2> QED
    BY <1>1, <1>3, <2>1 DEF StepsKeep, Alone
<1>5. NoneFails(i)'
  BY <1>1, <1>2, <1>3, AnswerFacts DEF StepsKeep, NoneFails
<1>6. ASSUME NEW u \in Units PROVE StartedOnce(i, u)' /\ Remembered(i, u)' /\ Expecting(i, u)'
  <2>1. StartedOnce(i, u) /\ Remembered(i, u) /\ Expecting(i, u)
    BY DEF StepsKeep
  <2>2. (Pending(u)' <=> Pending(u)) /\ (Answered(i, u)' => Answered(i, u))
    BY <1>1, <1>2, <1>3, AnswerFacts DEF Pending, Answered
  <2>3. <<i, u>> \in orders' <=> <<i, u>> \in orders \/ u \in call[Worker(i)].commands
    BY <1>1
  <2>4. StartedOnce(i, u)'
    BY <1>1, <2>1, <2>2, <2>3 DEF StartedOnce, Expecting
  <2>5. Known(i, u) => Known(i, u)'
    BY <1>1 DEF Known, At
  <2>6. Remembered(i, u)'
    BY <1>1, <2>1, <2>2, <2>5 DEF Remembered
  <2>7. Expecting(i, u)'
    BY <1>1, <1>3, <2>1, <2>2, <2>3, IdleTyped DEF Expecting, InFlight, At
  <2> QED
    BY <2>4, <2>6, <2>7
<1> QED
  BY <1>4, <1>5, <1>6 DEF StepsKeep

LEMMA NotifyKeeps ==
  ASSUME TInv, NEW i \in Instances, StepsKeep(i), Notify(i)
  PROVE  StepsKeep(i)'
<1>1. /\ inbox[i] # <<>> /\ inbox' = [inbox EXCEPT ![i] = Tail(@)]
      /\ call' = [call EXCEPT ![Notifier(i)] =
                    [at |-> "handle", event |-> Head(inbox[i]), commands |-> {}]]
      /\ UNCHANGED <<alive, running, orders, events, listed, store, snap, expected>>
  BY DEF Notify, lattice, state
<1>2. /\ CallTyped /\ ScalerTyped /\ inbox[i] \in Seq(Event)
      /\ Worker(i) \in Handlers /\ Notifier(i) \in Handlers /\ Worker(i) # Notifier(i)
  BY CallFacts
<1>3. /\ call'[Notifier(i)].event = Head(inbox[i])
      /\ \A p \in Handlers : p # Notifier(i) => call'[p] = call[p]
      /\ inbox'[i] = Tail(inbox[i])
      /\ \A j \in Instances : j # i => inbox'[j] = inbox[j]
  BY <1>1, <1>2 DEF CallTyped, ScalerTyped
<1>4. /\ Head(inbox[i]) = inbox[i][1] /\ Len(inbox[i]) \in Nat \ {0}
      /\ Len(inbox'[i]) = Len(inbox[i]) - 1
      /\ \A k \in 1 .. Len(inbox[i]) - 1 : inbox'[i][k] = inbox[i][k + 1]
      /\ \A e : In(e, inbox[i]) <=> In(e, inbox'[i]) \/ e = Head(inbox[i])
  <2> DEFINE s == inbox[i]
  <2>1. s \in Seq(Event) /\ s # <<>>
    BY <1>1, <1>2
  <2> HIDE DEF s
  <2>2. /\ Head(s) = s[1] /\ Len(s) \in Nat \ {0} /\ Len(Tail(s)) = Len(s) - 1
        /\ \A k \in 1 .. Len(s) - 1 : Tail(s)[k] = s[k + 1]
        /\ \A e : In(e, s) <=> In(e, Tail(s)) \/ e = Head(s)
    BY <2>1, SeqTail
  <2> QED
    BY <1>3, <2>2 DEF s
<1>5. Alone(i)'
  <2>1. \A p \in Handlers : p[1] # i => p # Notifier(i)
    BY DEF Notifier
  <2> QED
    BY <1>1, <1>3, <2>1 DEF StepsKeep, Alone
<1>6. NoneFails(i)'
  BY <1>1, <1>2, <1>3, <1>4 DEF StepsKeep, NoneFails
<1>7. ASSUME NEW u \in Units PROVE StartedOnce(i, u)' /\ Remembered(i, u)' /\ Expecting(i, u)'
  <2>1. StartedOnce(i, u) /\ Remembered(i, u) /\ Expecting(i, u)
    BY DEF StepsKeep
  <2>2. (Pending(u)' <=> Pending(u)) /\ (Answered(i, u)' => Answered(i, u))
    BY <1>1, <1>2, <1>3, <1>4 DEF Pending, Answered
  <2>3. StartedOnce(i, u)'
    BY <1>1, <2>1, <2>2 DEF StartedOnce
  <2>4. Remembered(i, u)'
    BY <1>1, <1>2, <1>3, <2>1, <2>2 DEF Remembered, Known, At
  <2>5. Expecting(i, u)'
    BY <1>1, <1>2, <1>3, <2>1, <2>2 DEF Expecting, InFlight, At
  <2> QED
    BY <2>3, <2>4, <2>5
<1> QED
  BY <1>5, <1>6, <1>7 DEF StepsKeep

(* The scaler gets an event, from the worker or from the notifier.  What   *)
(* the store and the lattice know stays as it is, and no answer is new.    *)
LEMMA HandleEventRest ==
  ASSUME TInv, NEW i \in Instances, Fine(i), StepsKeep(i), NEW p \in Handlers, p[1] = i,
         HandleEvent(p)
  PROVE  /\ Alone(i)' /\ NoneFails(i)'
         /\ \A u \in Units : /\ StartedOnce(i, u)' /\ Remembered(i, u)'
                             /\ InFlight(i, u)' <=> InFlight(i, u)
         /\ \A q \in Handlers : q # p => call'[q] = call[q]
<1>1. /\ LatticeTyped /\ ScalerTyped /\ CallTyped
      /\ Worker(i) \in Handlers /\ Notifier(i) \in Handlers /\ Worker(i) # Notifier(i)
  BY CallFacts
<1>2. UNCHANGED <<alive, running, orders, events, listed, store, snap>>
  BY HandleEventTyped DEF lattice, state, TInv, Bounded
<1> DEFINE e == call[p].event
<1>3. /\ call[p].at \in {"handle", "add", "tell"}
      /\ \A q \in Handlers : q # p => call'[q] = call[q]
      /\ call'[p].at # "refresh"
      /\ call'[p].event \in {e, Idle.event}
  <2>1. CASE RemoveEvent(p)
    <3>1. call[p].at = "handle" /\ Goto(p, "tell")
      BY <2>1 DEF RemoveEvent, At
    <3>2. call[p].commands = {}
      BY <1>1, <3>1 DEF CallTyped
    <3> QED
      BY <1>1, <3>1, <3>2, Goes
  <2>2. CASE Ignore(p) \/ AddEvents(p) \/ Tell(p)
    <3>1. call[p].at \in {"handle", "add", "tell"} /\ Leave(p)
      BY <2>2 DEF Ignore, AddEvents, Tell, At
    <3> QED
      BY <1>1, <3>1, Leaves, IdleTyped
  <2>3. CASE Compute(p)
    BY <1>1, <2>3 DEF Compute, At, CallTyped, Call
  <2> QED
    BY <2>1, <2>2, <2>3 DEF HandleEvent
<1>4. /\ inbox'[i] = inbox[i] \/ inbox'[i] = Append(inbox[i], ForScaler(e))
      /\ \A j \in Instances : j # i => inbox'[j] = inbox[j]
  <2>1. CASE Publish(p)
    BY <1>1, <2>1, Publishes DEF Fine
  <2>2. CASE UNCHANGED inbox
    BY <2>2
  <2> QED
    BY <2>1, <2>2 DEF HandleEvent, RemoveEvent, Ignore, Compute, AddEvents, Tell
<1>5. e \in Event /\ ForScaler(e) \in Event
  BY <1>1, EventFacts DEF CallTyped, Call
<1>6. GoodEvent(e) /\ (p = Worker(i) \/ p = Notifier(i))
  BY HandlerFacts DEF StepsKeep, NoneFails
<1> HIDE DEF e
<1>7. Alone(i)'
  BY <1>2, <1>3, <1>4 DEF StepsKeep, Alone
<1>8. \A k \in 1 .. Len(inbox'[i]) : GoodEvent(inbox'[i][k])
  <2>1. CASE inbox'[i] = inbox[i]
    BY <2>1 DEF StepsKeep, NoneFails
  <2>2. CASE inbox'[i] = Append(inbox[i], ForScaler(e))
    <3> DEFINE s == inbox[i]
               x == ForScaler(e)
    <3>1. s \in Seq(Event) /\ x \in Event /\ GoodEvent(x)
      BY <1>1, <1>5, <1>6, AnswerFacts DEF ScalerTyped
    <3>2. \A k \in 1 .. Len(s) : GoodEvent(s[k])
      BY DEF StepsKeep, NoneFails
    <3>3. inbox'[i] = Append(s, x)
      BY <2>2
    <3> HIDE DEF s, x
    <3>4. /\ Len(Append(s, x)) = Len(s) + 1 /\ Len(s) \in Nat /\ Append(s, x)[Len(s) + 1] = x
          /\ \A k \in 1 .. Len(s) : Append(s, x)[k] = s[k]
      BY <3>1, SeqAppend
    <3> QED
      BY <3>1, <3>2, <3>3, <3>4
  <2> QED
    BY <1>4, <2>1, <2>2
<1>9. NoneFails(i)'
  <2>1. GoodEvent(call'[p].event)
    BY <1>3, <1>6, AnswerFacts
  <2> QED
    BY <1>1, <1>2, <1>3, <1>8, <2>1 DEF StepsKeep, NoneFails
<1>10. ASSUME NEW u \in Units
       PROVE  StartedOnce(i, u)' /\ Remembered(i, u)' /\ (InFlight(i, u)' <=> InFlight(i, u))
  <2>1. StartedOnce(i, u) /\ Remembered(i, u)
    BY DEF StepsKeep
  <2>2. Pending(u)' <=> Pending(u)
    BY <1>2 DEF Pending
  <2>3. In(Started(u), inbox'[i]) => In(Started(u), inbox[i]) \/ e = Started(u)
    <3>1. CASE inbox'[i] = inbox[i]
      BY <3>1
    <3>2. CASE inbox'[i] = Append(inbox[i], ForScaler(e))
      <4>1. inbox[i] \in Seq(Event)
        BY <1>1 DEF ScalerTyped
      <4>2. In(Started(u), Append(inbox[i], ForScaler(e))) =>
              In(Started(u), inbox[i]) \/ Started(u) = ForScaler(e)
        BY <1>5, <4>1, SeqAppend
      <4> QED
        BY <3>2, <4>2, AnswerFacts
    <3> QED
      BY <1>4, <3>1, <3>2
  <2>4. Answered(i, u)' => Answered(i, u)
    <3>1. \A q \in Handlers : call'[q].event = Started(u) =>
            call[q].event = Started(u)
      BY <1>3, AnswerFacts DEF e
    <3>2. e = Started(u) => Answered(i, u)
      BY <1>6 DEF e, Answered
    <3> QED
      BY <1>1, <2>3, <3>1, <3>2 DEF Answered
  <2>5. StartedOnce(i, u)'
    BY <1>2, <2>1, <2>2, <2>4 DEF StartedOnce
  <2>6. At(Worker(i), "refresh") => At(Worker(i), "refresh")'
    BY <1>1, <1>3 DEF At
  <2>7. Remembered(i, u)'
    BY <1>2, <2>1, <2>2, <2>6 DEF Remembered, Known
  <2> QED
    BY <1>2, <2>2, <2>5, <2>7 DEF InFlight
<1> QED
  BY <1>3, <1>7, <1>9, <1>10

LEMMA HandleEventKeeps ==
  ASSUME TInv, NEW i \in Instances, Fine(i), StepsKeep(i), NEW p \in Handlers, p[1] = i,
         HandleEvent(p)
  PROVE  StepsKeep(i)'
<1>1. /\ LatticeTyped /\ ScalerTyped /\ CallTyped
      /\ Worker(i) \in Handlers /\ Notifier(i) \in Handlers /\ Worker(i) # Notifier(i)
      /\ p = Worker(i) \/ p = Notifier(i)
      /\ p[2] = "worker" <=> p = Worker(i)
  BY CallFacts, HandlerFacts
<1>2. /\ Alone(i)' /\ NoneFails(i)'
      /\ \A u \in Units : StartedOnce(i, u)' /\ Remembered(i, u)'
      /\ \A u \in Units : InFlight(i, u)' <=> InFlight(i, u)
      /\ \A q \in Handlers : q # p => call'[q] = call[q]
  BY HandleEventRest
<1>3. UNCHANGED <<running, orders>>
  BY HandleEventTyped DEF lattice, TInv, Bounded
<1>4. ASSUME NEW u \in Units PROVE Expecting(i, u)'
  <2>1. StartedOnce(i, u) /\ Remembered(i, u) /\ Expecting(i, u) /\ (InFlight(i, u)' <=> InFlight(i, u))
    BY <1>2 DEF StepsKeep
  <2>2. CASE RemoveEvent(p)
    <3>1. /\ call[p].at = "handle" /\ Goto(p, "tell")
          /\ expected' = [expected EXCEPT ![i] = @ \ Awaited(i, call[p].event)]
      BY <2>2 DEF RemoveEvent, At
    <3>2. call[p].commands = {}
      BY <1>1, <3>1 DEF CallTyped
    <3>3. call'[p].commands = {}
      BY <1>1, <3>1, <3>2, Goes
    <3>4. expected'[i] = expected[i] \ Awaited(i, call[p].event)
      BY <1>1, <3>1 DEF ScalerTyped
    <3>5. u \in Awaited(i, call[p].event) => u \in running /\ ~Pending(u)
      <4> SUFFICES ASSUME u \in Awaited(i, call[p].event) PROVE u \in running /\ ~Pending(u)
        OBVIOUS
      <4>1. call[p].event.type \in {"started", "failed"} /\ call[p].event.unit = u
        BY <1>1, AwaitedFacts
      <4>2. GoodEvent(call[p].event) /\ call[p].event \in Event
        BY <1>1 DEF StepsKeep, NoneFails, CallTyped, Call
      <4>3. call[p].event = Started(u)
        BY <4>1, <4>2, AnswerFacts DEF GoodEvent
      <4>4. Answered(i, u)
        BY <1>1, <4>3 DEF Answered
      <4> QED
        BY <2>1, <4>4 DEF StartedOnce
    <3>6. u \in call'[Worker(i)].commands => call'[Worker(i)] = call[Worker(i)]
      BY <1>1, <1>2, <3>3
    <3>7. InFlight(i, u)' => u \in expected'[i]
      BY <2>1, <3>4, <3>5 DEF Expecting, StartedOnce, InFlight
    <3>8. ASSUME u \in call'[Worker(i)].commands
          PROVE  /\ <<i, u>> \notin orders' /\ u \notin running'
                 /\ call'[Worker(i)].at = "send" => u \in expected'[i]
      BY <1>3, <2>1, <3>4, <3>5, <3>6, <3>8 DEF Expecting, At
    <3> QED
      BY <3>7, <3>8 DEF Expecting, At
  <2>3. CASE Ignore(p) \/ Tell(p)
    <3>1. call[p].at \in {"handle", "tell"} /\ Leave(p) /\ UNCHANGED expected
      BY <2>3 DEF Ignore, Tell, At
    <3>2. call[p].commands = {}
      BY <1>1, <3>1 DEF CallTyped
    <3>3. call'[p].commands = {}
      BY <1>1, <3>1, <3>2, Leaves, IdleTyped
    <3>4. u \in call'[Worker(i)].commands => call'[Worker(i)] = call[Worker(i)]
      BY <1>1, <1>2, <3>3
    <3> QED
      BY <1>3, <2>1, <3>1, <3>4 DEF Expecting, At
  <2>4. CASE Compute(p)
    <3>1. /\ call[p].at = "handle" /\ UNCHANGED expected /\ expected[i] = {}
          /\ call' = [call EXCEPT ![p].at = "add", ![p].commands =
                        IF call[p].event.type = "failed" THEN {} ELSE Units \ snap[i]]
      BY <2>4 DEF Compute, At, Waiting
    <3>2. call'[p].at = "add" /\ call'[p].commands \in SUBSET (Units \ snap[i])
      BY <1>1, <3>1 DEF CallTyped, Call
    <3>3. ~InFlight(i, u)
      BY <2>1, <3>1 DEF Expecting
    <3>4. CASE p = Worker(i)
      <4>1. u \notin snap[i] => u \notin running
        BY <2>1, <3>1, <3>3, <3>4 DEF Remembered, Known, InFlight, At
      <4> QED
        BY <1>3, <2>1, <3>2, <3>3, <3>4, <4>1 DEF Expecting, InFlight, At
    <3>5. CASE p = Notifier(i)
      BY <1>1, <1>2, <1>3, <2>1, <3>1, <3>5 DEF Expecting, At
    <3> QED
      BY <1>1, <3>4, <3>5
  <2>5. CASE AddEvents(p)
    <3>1. Leave(p) /\ expected' = [expected EXCEPT ![i] = expected[i] \cup call[p].commands]
      BY <2>5 DEF AddEvents, ToExpect
    <3>2. expected'[i] = expected[i] \cup call[p].commands
      BY <1>1, <3>1 DEF ScalerTyped
    <3>3. CASE p = Worker(i)
      <4>1. call'[Worker(i)].commands = call[Worker(i)].commands
        BY <1>1, <3>1, <3>3, Leaves
      <4> QED
        BY <1>3, <2>1, <3>2, <3>3, <4>1 DEF Expecting, At
    <3>4. CASE p = Notifier(i)
      <4>1. call'[Worker(i)] = call[Worker(i)]
        BY <1>1, <1>2, <3>4
      <4> QED
        BY <1>3, <2>1, <3>2, <4>1 DEF Expecting, At
    <3> QED
      BY <1>1, <3>3, <3>4
  <2> QED
    BY <2>2, <2>3, <2>4, <2>5 DEF HandleEvent
<1> QED
  BY <1>2, <1>4 DEF StepsKeep

(* A host starts what it was told to start, and says so.                   *)
LEMMA StartKeeps ==
  ASSUME TInv, NEW i \in Instances, StepsKeep(i), NEW o \in orders, Start(o)
  PROVE  StepsKeep(i)'
<1> DEFINE v == o[2]
<1>1. LatticeTyped /\ CallTyped /\ o[1] = i /\ o = <<i, v>> /\ v \in Units
  BY CallFacts DEF StepsKeep, Alone, LatticeTyped
<1> HIDE DEF v
<1>2. /\ orders' = orders \ {<<i, v>>} /\ running' = running \cup {v}
      /\ events' = Append(events, Started(v)) /\ <<i, v>> \in orders
      /\ UNCHANGED <<alive, listed, store, snap, expected, inbox, call>>
  BY <1>1 DEF Start, state, v
<1>3. /\ Len(events') = Len(events) + 1 /\ Len(events) \in Nat
      /\ events'[Len(events) + 1] = Started(v)
      /\ \A k \in 1 .. Len(events) : events'[k] = events[k]
      /\ \A e : In(e, events') <=> In(e, events) \/ e = Started(v)
  BY <1>1, <1>2, SeqAppend, EventFacts DEF LatticeTyped
<1>4. Alone(i)'
  BY <1>2 DEF StepsKeep, Alone
<1>5. NoneFails(i)'
  <2>1. \A k \in 1 .. Len(events') : k \in 1 .. Len(events) \/ k = Len(events) + 1
    BY <1>3
  <2>2. \A k \in 1 .. Len(events') : GoodEvent(events'[k])
    BY <1>3, <2>1, AnswerFacts DEF StepsKeep, NoneFails
  <2> QED
    BY <1>2, <2>2 DEF StepsKeep, NoneFails
<1>6. ASSUME NEW u \in Units PROVE StartedOnce(i, u)' /\ Remembered(i, u)' /\ Expecting(i, u)'
  <2>1. StartedOnce(i, u) /\ Remembered(i, u) /\ Expecting(i, u)
    BY DEF StepsKeep
  <2>2. /\ Pending(u)' <=> Pending(u) \/ u = v
        /\ Answered(i, u)' <=> Answered(i, u)
    BY <1>2, <1>3, AnswerFacts DEF Pending, Answered
  <2>3. Known(i, u)' <=> Known(i, u)
    BY <1>2 DEF Known, At
  <2>4. u = v => u \notin running /\ ~Pending(u) /\ ~Answered(i, u)
    BY <1>2, <2>1 DEF StartedOnce
  <2>5. <<i, u>> \in orders' <=> <<i, u>> \in orders /\ u # v
    BY <1>2
  <2>6. \A k, l \in 1 .. Len(events') :
          events'[k] = Started(u) /\ events'[l] = Started(u) => k = l
    <3>1. CASE u = v
      <4>1. \A k \in 1 .. Len(events) : events[k] # Started(u)
        BY <2>4, <3>1 DEF Pending, In
      <4>2. \A k \in 1 .. Len(events') : events'[k] = Started(u) => k = Len(events) + 1
        BY <1>3, <4>1
      <4> QED
        BY <4>2
    <3>2. CASE u # v
      <4>1. events'[Len(events) + 1] # Started(u)
        BY <1>3, <3>2, AnswerFacts
      <4>2. \A k \in 1 .. Len(events') : events'[k] = Started(u) =>
              k \in 1 .. Len(events) /\ events[k] = Started(u)
        BY <1>3, <4>1
      <4> QED
        BY <2>1, <4>2 DEF StartedOnce
    <3> QED
      BY <3>1, <3>2
  <2>7. StartedOnce(i, u)'
    <3>1. <<i, u>> \in orders' => u \notin running'
      BY <1>2, <2>1, <2>5 DEF StartedOnce
    <3>2. (Pending(u) \/ u = v => u \in running') /\ (Answered(i, u) => u \in running' /\ u # v /\ ~Pending(u))
      BY <1>2, <2>1, <2>4 DEF StartedOnce
    <3> QED
      BY <2>2, <2>6, <3>1, <3>2 DEF StartedOnce
  <2>8. ASSUME NEW k \in 1 .. Len(events'), events'[k].type = "heartbeat",
               u \in running', u \notin events'[k].runs
        PROVE  \E l \in k + 1 .. Len(events') : events'[l] = Started(u)
    <3>1. k \in 1 .. Len(events) /\ events'[k] = events[k]
      <4>1. k # Len(events) + 1
        BY <1>3, <2>8, AnswerFacts
      <4> QED
        BY <1>3, <4>1
    <3>2. CASE u = v
      <4>1. Len(events) + 1 \in k + 1 .. Len(events') /\ events'[Len(events) + 1] = Started(u)
        BY <1>3, <3>1, <3>2
      <4> QED
        BY <4>1
    <3>3. CASE u # v
      <4>1. PICK l \in k + 1 .. Len(events) : events[l] = Started(u)
        BY <1>2, <2>1, <2>8, <3>1, <3>3 DEF Remembered
      <4>2. l \in k + 1 .. Len(events') /\ l \in 1 .. Len(events)
        BY <1>3, <3>1
      <4>3. events'[l] = Started(u)
        BY <1>3, <4>1, <4>2
      <4> QED
        BY <4>2, <4>3
    <3> QED
      BY <3>2, <3>3
  <2>9. Remembered(i, u)'
    <3>1. u \in running' => Pending(u)' \/ Known(i, u)'
      BY <1>2, <2>1, <2>2, <2>3 DEF Remembered
    <3> QED
      BY <2>8, <3>1 DEF Remembered
  <2>10. Expecting(i, u)'
    <3>1. InFlight(i, u)' => u \in expected[i]
      BY <1>2, <2>1, <2>2, <2>5 DEF Expecting, InFlight
    <3>2. u \in call[Worker(i)].commands => u # v
      BY <1>2, <2>1 DEF Expecting
    <3> QED
      BY <1>2, <2>1, <3>1, <3>2 DEF Expecting, At
  <2> QED
    BY <2>7, <2>9, <2>10
<1> QED
  BY <1>4, <1>5, <1>6 DEF StepsKeep

(* A heartbeat of the host has what runs.                                  *)
LEMMA SendHeartbeatKeeps ==
  ASSUME TInv, NEW i \in Instances, StepsKeep(i), SendHeartbeat
  PROVE  StepsKeep(i)'
<1>1. /\ events = <<>> /\ events' = <<Heartbeat(running)>>
      /\ UNCHANGED <<alive, running, orders, listed, store, snap, expected, inbox, call>>
  BY DEF SendHeartbeat, state
<1>2. /\ Len(events) = 0 /\ Len(events') = 1
      /\ \A k \in 1 .. Len(events') : events'[k] = Heartbeat(running)
  BY <1>1
<1>3. Alone(i)'
  BY <1>1 DEF StepsKeep, Alone
<1>4. NoneFails(i)'
  BY <1>1, <1>2, AnswerFacts DEF StepsKeep, NoneFails
<1>5. ASSUME NEW u \in Units PROVE StartedOnce(i, u)' /\ Remembered(i, u)' /\ Expecting(i, u)'
  <2>1. StartedOnce(i, u) /\ Remembered(i, u) /\ Expecting(i, u)
    BY DEF StepsKeep
  <2>2. ~Pending(u) /\ ~Pending(u)' /\ (Answered(i, u)' <=> Answered(i, u))
        /\ (Known(i, u)' <=> Known(i, u))
    BY <1>1, <1>2, AnswerFacts DEF Pending, In, Answered, Known, At
  <2>3. \A k \in 1 .. Len(events') : events'[k] # Started(u) /\ (u \in running => u \in events'[k].runs)
    BY <1>2, AnswerFacts
  <2>4. StartedOnce(i, u)'
    BY <1>1, <2>1, <2>2, <2>3 DEF StartedOnce
  <2>5. Remembered(i, u)'
    BY <1>1, <2>1, <2>2, <2>3 DEF Remembered
  <2>6. Expecting(i, u)'
    BY <1>1, <2>1, <2>2 DEF Expecting, InFlight, At
  <2> QED
    BY <2>4, <2>5, <2>6
<1> QED
  BY <1>3, <1>4, <1>5 DEF StepsKeep

(* The wait for answers ends when there are none to come.                  *)
LEMMA TimeoutKeeps ==
  ASSUME TInv, NEW i \in Instances, StepsKeep(i), NEW j \in Instances, Timeout(j)
  PROVE  StepsKeep(i)'
<1>1. /\ events = <<>> /\ orders = {} /\ call[Worker(i)].at = "idle"
      /\ UNCHANGED <<alive, running, orders, events, listed, store, snap, inbox, call>>
  BY DEF Timeout, Quiet, CleanEvents, At, lattice, state
<1>2. call[Worker(i)].commands = {}
  BY <1>1, CallFacts DEF At
<1>3. ASSUME NEW u \in Units PROVE Expecting(i, u)'
  BY <1>1, <1>2 DEF Expecting, InFlight, Pending, In
<1>4. Alone(i)' /\ NoneFails(i)'
  BY <1>1 DEF StepsKeep, Alone, NoneFails
<1>5. ASSUME NEW u \in Units PROVE StartedOnce(i, u)' /\ Remembered(i, u)'
  <2>1. StartedOnce(i, u) /\ Remembered(i, u)
    BY DEF StepsKeep
  <2>2. (Pending(u)' <=> Pending(u)) /\ (Answered(i, u)' <=> Answered(i, u))
        /\ (Known(i, u)' <=> Known(i, u))
    BY <1>1 DEF Pending, Answered, Known, At
  <2> QED
    BY <1>1, <2>1, <2>2 DEF StartedOnce, Remembered
<1> QED
  BY <1>3, <1>4, <1>5 DEF StepsKeep

(* The reaper leaves what a host lists; the status is of no account here.  *)
LEMMA RestKeeps ==
  ASSUME TInv, NEW i \in Instances, StepsKeep(i),
         Reap \/ UNCHANGED vars \/ \E j \in Instances : CleanStatus(j)
  PROVE  StepsKeep(i)'
<1>1. /\ UNCHANGED <<alive, running, orders, events, listed, snap, expected, inbox, call>>
      /\ store' = store \cap listed \/ store' = store
  BY DEF Reap, CleanStatus, vars, lattice, state
<1>2. Alone(i)' /\ NoneFails(i)'
  BY <1>1 DEF StepsKeep, Alone, NoneFails
<1>3. ASSUME NEW u \in Units PROVE StartedOnce(i, u)' /\ Remembered(i, u)' /\ Expecting(i, u)'
  <2>1. StartedOnce(i, u) /\ Remembered(i, u) /\ Expecting(i, u)
    BY DEF StepsKeep
  <2>2. (Pending(u)' <=> Pending(u)) /\ (Answered(i, u)' <=> Answered(i, u))
        /\ (Known(i, u)' <=> Known(i, u))
    BY <1>1 DEF Pending, Answered, Known, At
  <2>3. Expecting(i, u)'
    BY <1>1, <2>1, <2>2 DEF Expecting, InFlight, At
  <2> QED
    BY <1>1, <2>1, <2>2, <2>3 DEF StartedOnce, Remembered
<1> QED
  BY <1>2, <1>3 DEF StepsKeep

LEMMA InitCareful == Init => Careful
<1> SUFFICES ASSUME Init, NEW i \in Instances PROVE StepsKeep(i)
  BY CarefulIs
<1>1. /\ running = {} /\ orders = {} /\ events = <<>> /\ expected = [j \in Instances |-> {}]
      /\ inbox = [j \in Instances |-> <<>>] /\ call = [p \in Handlers |-> Idle]
  BY DEF Init
<1>2. /\ Worker(i) \in Handlers /\ Notifier(i) \in Handlers
      /\ \A p \in Handlers : call[p].at = "idle" /\ call[p].commands = {}
      /\ \A p \in Handlers, u \in Units :
           GoodEvent(call[p].event) /\ call[p].event # Started(u)
      /\ inbox[i] = <<>>
  BY <1>1, HandlerFacts, IdleTyped, AnswerFacts
<1>3. Alone(i) /\ NoneFails(i)
  <2>1. Len(events) = 0 /\ Len(inbox[i]) = 0
    BY <1>1, <1>2
  <2>2. GoodEvent(call[Worker(i)].event) /\ GoodEvent(call[Notifier(i)].event)
    BY <1>1, <1>2, AnswerFacts
  <2>3. Alone(i)
    BY <1>1, <1>2 DEF Alone
  <2>4. NoneFails(i)
    BY <2>1, <2>2 DEF NoneFails
  <2> QED
    BY <2>3, <2>4
<1>4. ASSUME NEW u \in Units PROVE StartedOnce(i, u) /\ Remembered(i, u) /\ Expecting(i, u)
  <2>1. ~Pending(u) /\ ~Answered(i, u)
    BY <1>1, <1>2 DEF Pending, Answered, In
  <2> QED
    BY <1>1, <1>2, <2>1 DEF StartedOnce, Remembered, Expecting, InFlight
<1> QED
  BY <1>3, <1>4 DEF StepsKeep

(* Faults grow fewer, so that a step to where none has happened is none.   *)
LEMMA FineBefore ==
  ASSUME TInv, [Next]_vars, NEW i \in Instances, Fine(i)'
  PROVE  Fine(i) /\ ~Fault
<1>1. alive' = alive
  BY AliveUnchanged
<1>2. faults \in Int /\ faults <= MaxFaults[Cardinality(alive)] /\ Bounded
  BY CallFacts DEF FaultsTyped, TInv
<1>3. faults' = MaxFaults[Cardinality(alive)] /\ alive = {i}
  BY <1>1 DEF Fine
<1>4. Fault \/ faults' = faults
  <2>1. CASE UNCHANGED vars
    BY <2>1 DEF vars
  <2>2. CASE \E j \in Instances :
               \/ DoWork(j) \/ Refresh(j) \/ PublishCommands(j) \/ Notify(j) \/ PublishFails(j)
               \/ Timeout(j) \/ TimeoutTooEarly(j) \/ CleanStatus(j) \/ Restart(j)
    BY <2>2 DEF DoWork, Refresh, PublishCommands, Notify, PublishFails, Timeout,
                TimeoutTooEarly, CleanStatus, Restart
  <2>3. CASE \E p \in Handlers : HandleEvent(p) \/ TellFails(p)
    BY <2>3 DEF HandleEvent, RemoveEvent, Ignore, Compute, AddEvents, Tell, TellFails
  <2>4. CASE \/ \E o \in orders : Start(o) \/ StartFails(o)
             \/ \E u \in Units : Stop(u)
             \/ SendHeartbeat \/ Reap
    BY <2>4 DEF Start, StartFails, Stop, SendHeartbeat, Reap
  <2> QED
    BY <2>1, <2>2, <2>3, <2>4, HandlerFacts DEF Next, Working, Listening
<1>5. ~Fault
  BY <1>2, <1>3 DEF Fault, Bounded
<1> QED
  BY <1>3, <1>4, <1>5 DEF Fine

LEMMA NextCareful == TInv /\ Careful /\ [Next]_vars => Careful'
<1> SUFFICES ASSUME TInv, Careful, [Next]_vars, NEW i \in Instances, Fine(i)'
             PROVE  StepsKeep(i)'
  BY DEF Careful, StepsKeep
<1>1. Fine(i) /\ ~Fault
  BY FineBefore
<1>2. StepsKeep(i)
  BY <1>1, CarefulIs
<1>3. /\ \A p \in Handlers : call[p].at # "idle" => p[1] = i
      /\ \A j \in Instances : inbox[j] # <<>> => j = i
      /\ \A j \in Instances : j \in alive => j = i
      /\ \A j \in Instances : Worker(j) \in Handlers /\ Worker(j)[1] = j
  BY <1>1, <1>2, HandlerFacts DEF StepsKeep, Alone, Fine, Worker
<1>4. CASE Reap \/ UNCHANGED vars \/ \E j \in Instances : CleanStatus(j)
  BY <1>2, <1>4, RestKeeps
<1>5. CASE \E j \in Instances : DoWork(j) \/ Refresh(j) \/ PublishCommands(j) \/ Notify(j)
  <2>1. PICK j \in Instances : DoWork(j) \/ Refresh(j) \/ PublishCommands(j) \/ Notify(j)
    BY <1>5
  <2>2. j = i
    BY <1>3, <2>1 DEF DoWork, Refresh, PublishCommands, Notify, At
  <2> QED
    BY <1>2, <2>1, <2>2, DoWorkKeeps, RefreshKeeps, PublishCommandsKeeps, NotifyKeeps
<1>6. CASE \E p \in Handlers : HandleEvent(p)
  <2>1. PICK p \in Handlers : HandleEvent(p)
    BY <1>6
  <2>2. p[1] = i
    BY <1>3, <2>1 DEF HandleEvent, RemoveEvent, Ignore, Compute, AddEvents, Tell, At
  <2> QED
    BY <1>1, <1>2, <2>1, <2>2, HandleEventKeeps
<1>7. CASE \E o \in orders : Start(o)
  BY <1>2, <1>7, StartKeeps
<1>8. CASE SendHeartbeat
  BY <1>2, <1>8, SendHeartbeatKeeps
<1>9. CASE \E j \in Instances : Timeout(j)
  BY <1>2, <1>9, TimeoutKeeps
<1>10. CASE \/ \E j \in Instances : PublishFails(j) \/ TimeoutTooEarly(j) \/ Restart(j)
            \/ \E p \in Handlers : TellFails(p)
            \/ \E o \in orders : StartFails(o)
            \/ \E u \in Units : Stop(u)
  BY <1>1, <1>10 DEF PublishFails, TimeoutTooEarly, Restart, TellFails, StartFails, Stop
<1> QED
  BY <1>4, <1>5, <1>6, <1>7, <1>8, <1>9, <1>10, HandlerFacts DEF Next, Working, Listening

(* A wadm that runs alone, and for which nothing has gone wrong, issues no *)
(* command that a host has still to carry out or has just carried out:     *)
(* what it may have sent is expected until the answer was handled, and by  *)
(* then the snapshot has the unit.  The worker and the notifier that hand  *)
(* events to one scaler at a time do not disturb that.                     *)
THEOREM NoCommandIsRepeated == Spec => []NoRepeat
<1> DEFINE NInv == TInv /\ Careful
<1>1. Init => NInv
  BY InitTInv, InitCareful
<1>2. NInv /\ [Next]_vars => NInv'
  BY NextTInv, NextCareful
<1>3. NInv => NoRepeat
  <2> SUFFICES ASSUME Careful, NEW i \in Instances, NEW u \in Units,
                      faults = MaxFaults[Cardinality(alive)], alive = {i},
                      u \in call[Worker(i)].commands
               PROVE  <<i, u>> \notin orders /\ u \notin running
    BY DEF NoRepeat
  <2> QED
    BY DEF Careful, Fine, Expecting
<1> QED
  BY <1>1, <1>2, <1>3, PTL DEF Spec
=============================================================================
