---------------------------- MODULE ScalerManager ----------------------------
(***************************************************************************)
(* The scalers of the deployed manifests, as several instances of wadm     *)
(* keep them (crates/wadm/src/scaler/manager.rs, and the handling of       *)
(* manifest_published and manifest_unpublished in workers/event.rs).       *)
(*                                                                         *)
(* A deploy or undeploy is stored and then published as an event, which    *)
(* one of the instances handles.  It replaces or removes its own scalers,  *)
(* commands what has to start and to stop, and notifies all instances,     *)
(* itself too, each of which has a notifier that follows.  An instance     *)
(* that starts reads the stored manifests.  The version of a manifest      *)
(* stands for the list of its scalers, and a scaler for the resource (a    *)
(* component, a provider, a link) that it looks after.                     *)
(***************************************************************************)
EXTENDS Naturals, FiniteSets, SequencesExt, FiniteSetsExt

CONSTANTS
  Instances,
  Manifests,
  Versions,
  Ids,         \* [Versions -> the ids of its scalers]
  None,        \* no version
  Upgrades,    \* pairs: which version (or None) may replace which
  First,       \* the version of every manifest that is deployed at first
  MaxDeliver,  \* deliveries of an event
  MaxChanges,  \* bound: deploys and undeploys
  MaxFaults    \* bound: crashes, failures, late acknowledgements

ASSUME ScalerManagerAssumption ==
  /\ None \notin Manifests
  /\ First \in Versions \cup {None}
  /\ MaxDeliver \in Nat \ {0}
  /\ MaxChanges \in Nat
  /\ MaxFaults \in Nat

VARIABLES
  deployed,  \* the version of each manifest that is stored as deployed
  changes,   \* how many there were
  queue,     \* the events that no instance handles
  status,    \* of each instance: "up", "starting", "down"
  scalers,   \* per instance, the version whose scalers it has of a manifest
  work,      \* per instance, the event its worker handles, and how far it is
  notes,     \* per instance, the notifications it has not handled
  cleaning,  \* per instance, the scalers its notifier is cleaning up
  sent,      \* the command stream, in order
  running,   \* the resources in the lattice, by manifest
  reported,  \* the status of each manifest, as last published
  faults,
  aux_last,  \* per manifest, the last event whose handling began
  aux_spoiled  \* per manifest, what went wrong with it

lattice == <<sent, running>>
vars == <<deployed, changes, queue, status, scalers, work, notes, cleaning,
          lattice, reported, faults, aux_last, aux_spoiled>>

Deployments == Versions \cup {None}
IdsOf(v) == IF v = None THEN {} ELSE Ids[v]
AllIds == UNION {Ids[v] : v \in Versions}

Event(m, v, n) == [manifest |-> m, version |-> v, number |-> n, tries |-> 1]
NoEvent == [manifest |-> None, version |-> None, number |-> 0, tries |-> 0]

Idle == [step |-> "idle", event |-> NoEvent, old |-> None, cleanup |-> {}, late |-> FALSE]

Create(m, v) == [type |-> "create", manifest |-> m, version |-> v]
Delete(m) == [type |-> "delete", manifest |-> m, version |-> None]

Batch(make, m, ids) == [make |-> make, manifest |-> m, ids |-> ids]

Steps == {"idle", "refresh", "tell", "reconcile"}
Reasons == {"overtaken", "given up", "not retried", "forgotten", "started late", "in flight",
            "behind", "revived"}

(* Everything has its type.                                                *)
TypeOK ==
  /\ deployed \in [Manifests -> Deployments]
  /\ changes \in 0 .. MaxChanges
  /\ \A k \in DOMAIN queue : queue[k].tries \in 1 .. MaxDeliver
  /\ status \in [Instances -> {"up", "starting", "down"}]
  /\ scalers \in [Instances -> [Manifests -> Deployments]]
  /\ \A i \in Instances :
       /\ work[i].step \in Steps /\ work[i].late \in BOOLEAN
       /\ work[i].step = "idle" <=> work[i].event = NoEvent
       /\ work[i].event.tries \in 0 .. MaxDeliver
       /\ work[i].old \in Deployments /\ work[i].cleanup \subseteq AllIds
       /\ status[i] # "up" => work[i] = Idle /\ cleaning[i] = None
       /\ status[i] = "down" => notes[i] = <<>>
       /\ \A k \in DOMAIN notes[i] : notes[i][k].version = None <=> notes[i][k].type = "delete"
  /\ cleaning \in [Instances -> Deployments]
  /\ \A k \in DOMAIN sent : sent[k].ids \subseteq AllIds /\ sent[k].ids # {}
  /\ running \in [Manifests -> SUBSET AllIds]
  /\ reported \in [Manifests -> {"undeployed", "deployed"}]
  /\ faults \in 0 .. MaxFaults
  /\ aux_spoiled \in [Manifests -> SUBSET Reasons]

Init ==
  /\ deployed = [m \in Manifests |-> First]
  /\ changes = 0
  /\ queue = <<>>
  /\ status = [i \in Instances |-> "up"]
  /\ scalers = [i \in Instances |-> deployed]
  /\ work = [i \in Instances |-> Idle]
  /\ notes = [i \in Instances |-> <<>>]
  /\ cleaning = [i \in Instances |-> None]
  /\ sent = <<>>
  /\ running = [m \in Manifests |-> IdsOf(First)]
  /\ reported = [m \in Manifests |-> IF First = None THEN "undeployed" ELSE "deployed"]
  /\ faults = 0
  /\ aux_last = [m \in Manifests |-> 0]
  /\ aux_spoiled = [m \in Manifests |-> {}]

Fault ==
  /\ faults < MaxFaults
  /\ faults' = faults + 1

Spoil(m, why) == aux_spoiled' = [aux_spoiled EXCEPT ![m] = @ \cup why]
-----------------------------------------------------------------------------
(* The server of the API stores the manifest before it publishes the       *)
(* event; here in one step.                                                *)
Change(m, v) ==
  /\ changes < MaxChanges
  /\ <<deployed[m], v>> \in Upgrades
  /\ changes' = changes + 1
  /\ deployed' = [deployed EXCEPT ![m] = v]
  /\ queue' = Append(queue, Event(m, v, changes'))
  /\ UNCHANGED <<status, scalers, work, notes, cleaning, lattice, reported, faults,
                 aux_last, aux_spoiled>>

(* Commands are carried out in order.                                      *)
Execute ==
  LET batch == Head(sent)
  IN  /\ sent # <<>>
      /\ sent' = Tail(sent)
      /\ running' = [running EXCEPT ![batch.manifest] =
                       IF batch.make THEN @ \cup batch.ids ELSE @ \ batch.ids]
      /\ UNCHANGED <<deployed, changes, queue, status, scalers, work, notes, cleaning,
                     reported, faults, aux_last, aux_spoiled>>

(* What runs may stop, with its host or by itself.                         *)
Stops(m) ==
  /\ Fault
  /\ \E x \in running[m] : running' = [running EXCEPT ![m] = @ \ {x}]
  /\ UNCHANGED <<deployed, changes, queue, status, scalers, work, notes, cleaning, sent,
                 reported, aux_last, aux_spoiled>>

PublishAll(b) == <<b>>    \* mutant: a batch of no commands too

Publish(b) == IF b.ids = {} THEN <<>> ELSE <<b>>

(* What scalers command: what is missing, and what is there.               *)
ToMake(m, v) == Batch(TRUE, m, IdsOf(v) \ running[m])
ToStop(m, ids) == Batch(FALSE, m, ids \cap running[m])

OnItsWay(m, ids) ==
  \E k \in DOMAIN sent : sent[k].make /\ sent[k].manifest = m /\ sent[k].ids \cap ids # {}
-----------------------------------------------------------------------------
(* The notifier of an instance is behind: its scalers may not be those of  *)
(* the last version.                                                       *)
Behind(i, m) == \E k \in DOMAIN notes[i] : notes[i][k].manifest = m

Lag(i, m) == IF Behind(i, m) THEN {"behind"} ELSE {}

(* The worker of an instance takes one event after the other.              *)
Busy(i) == work[i].step # "idle"

Unpublished(e) == e.version = None

InWork(m) == {i \in Instances : work[i].event.manifest = m}

(* It begins by taking the scalers out (remove_raw_scalers).               *)
Take(i) ==
  LET e == Head(queue)
      m == e.manifest
      old == scalers[i][m]
  IN  /\ status[i] = "up" /\ ~Busy(i)
      /\ queue # <<>>
      /\ queue' = Tail(queue)
      /\ scalers' = [scalers EXCEPT ![i][m] = None]
      /\ work' = [work EXCEPT ![i] = [Idle EXCEPT !.event = e, !.old = old,
                     !.step = IF Unpublished(e) /\ old = None THEN "tell" ELSE "refresh"]]
      /\ aux_last' = [aux_last EXCEPT ![m] = Max({@, e.number})]
      /\ Spoil(m, Lag(i, m) \cup IF InWork(m) # {} \/ e.number < aux_last[m]
                                 THEN {"overtaken"} ELSE {})
      /\ UNCHANGED <<deployed, changes, status, notes, cleaning, lattice, reported, faults>>

(* An event that is not acknowledged comes again, before later ones, or is *)
(* given up.                                                               *)
Requeue(e) == IF e.tries < MaxDeliver THEN <<[e EXCEPT !.tries = @ + 1]>> \o queue ELSE queue

GivenUp(e) == IF e.tries < MaxDeliver THEN {} ELSE {"given up"}

NackForgets(i, why) ==    \* mutant: the event does not come again
  /\ work' = [work EXCEPT ![i] = Idle]
  /\ UNCHANGED queue
  /\ Spoil(work[i].event.manifest, why)

Nack(i, why) ==
  LET w == work[i]
  IN  /\ work' = [work EXCEPT ![i] = Idle]
      /\ queue' = IF w.late THEN queue ELSE Requeue(w.event)
      /\ Spoil(w.event.manifest, why \cup IF w.late THEN {} ELSE GivenUp(w.event))

(* An event is in the stream once: acknowledged, it does not come again.   *)
Without(q, n) ==
  IF \E k \in DOMAIN q : q[k].number = n
  THEN RemoveAt(q, CHOOSE k \in DOMAIN q : q[k].number = n)
  ELSE q

Ack(i) ==
  /\ work' = [work EXCEPT ![i] = Idle]
  /\ queue' = Without(queue, work[i].event.number)

(* The worker takes longer than the time to acknowledge.                   *)
Late(i) ==
  LET e == work[i].event
  IN  /\ Busy(i) /\ ~work[i].late
      /\ Fault
      /\ work' = [work EXCEPT ![i].late = TRUE]
      /\ queue' = Requeue(e)
      /\ Spoil(e.manifest, GivenUp(e))
      /\ UNCHANGED <<deployed, changes, status, scalers, notes, cleaning, lattice, reported,
                     aux_last>>

At(i, step) == status[i] = "up" /\ work[i].step = step

(* Scalers of the old version that the new one has not, by their ids.      *)
OutdatedIfUnpublished(i) ==    \* mutant: an upgrade cleans nothing up
  IF work[i].event.version = None THEN IdsOf(work[i].old) ELSE {}

Outdated(i) == IdsOf(work[i].old) \ IdsOf(work[i].event.version)

(* For an undeployed manifest the commands come before the notification,   *)
(* for a deployed one after everything else.                               *)
Refresh(i) ==
  LET e == work[i].event
      m == e.manifest
      stop == ToStop(m, Outdated(i))
  IN  /\ At(i, "refresh")
      /\ work' = [work EXCEPT ![i].step = "tell",
                              ![i].cleanup = IF Unpublished(e) THEN {} ELSE stop.ids]
      /\ scalers' = [scalers EXCEPT ![i][m] = e.version]
      /\ sent' = IF Unpublished(e) THEN sent \o Publish(stop) ELSE sent
      /\ Spoil(m, IF OnItsWay(m, Outdated(i)) THEN {"in flight"} ELSE {})
      /\ UNCHANGED <<deployed, changes, queue, status, notes, cleaning, running, reported,
                     faults, aux_last>>

(* The removed scalers are not put back.                                   *)
RefreshFails(i) ==
  /\ At(i, "refresh")
  /\ Fault
  /\ Nack(i, IF Outdated(i) = {} THEN {} ELSE {"forgotten"})
  /\ UNCHANGED <<deployed, changes, status, scalers, notes, cleaning, lattice, reported,
                 aux_last>>

PutBack(i) ==
  scalers' = IF work[i].old = None THEN scalers
             ELSE [scalers EXCEPT ![i][work[i].event.manifest] = work[i].old]

CleanUpFails(i) ==
  /\ At(i, "refresh") /\ Unpublished(work[i].event)
  /\ Fault
  /\ PutBack(i)
  /\ Nack(i, {})
  /\ UNCHANGED <<deployed, changes, status, notes, cleaning, lattice, reported, aux_last>>

Listens(j) == status[j] # "down"

Notification(e) ==
  IF Unpublished(e) THEN Delete(e.manifest) ELSE Create(e.manifest, e.version)

TellAll(note) ==
  notes' = [j \in Instances |-> IF Listens(j) THEN Append(notes[j], note) ELSE notes[j]]

(* add_scalers goes on with the new scalers, remove_scalers is done.       *)
Tell(i) ==
  LET e == work[i].event
  IN  /\ At(i, "tell")
      /\ TellAll(Notification(e))
      /\ IF Unpublished(e) THEN Ack(i)
         ELSE work' = [work EXCEPT ![i].step = "reconcile"] /\ UNCHANGED queue
      /\ UNCHANGED <<deployed, changes, status, scalers, cleaning, lattice, reported, faults,
                     aux_last, aux_spoiled>>

(* Only an undeploy puts the scalers back; what a deploy had to clean up   *)
(* is forgotten.                                                           *)
TellFails(i) ==
  LET e == work[i].event
  IN  /\ At(i, "tell")
      /\ Fault
      /\ IF Unpublished(e) THEN PutBack(i) ELSE UNCHANGED scalers
      /\ Nack(i, IF Unpublished(e) \/ Outdated(i) = {} THEN {} ELSE {"forgotten"})
      /\ UNCHANGED <<deployed, changes, status, notes, cleaning, lattice, reported, aux_last>>

(* The first reconciliation uses whatever scalers are there by now.  The   *)
(* commands of the new ones come before those that clean up.               *)
Present(i) == scalers[i][work[i].event.manifest]

Reconcile(i) ==
  LET w == work[i]
      m == w.event.manifest
  IN  /\ At(i, "reconcile")
      /\ Present(i) # None
      /\ reported' = [reported EXCEPT ![m] = "deployed"]
      /\ sent' = sent \o Publish(ToMake(m, Present(i))) \o Publish(Batch(FALSE, m, w.cleanup))
      /\ Ack(i)
      /\ UNCHANGED <<deployed, changes, status, scalers, notes, cleaning, running, faults,
                     aux_last, aux_spoiled>>

Lost(i) == IF work[i].cleanup = {} THEN {} ELSE {"forgotten"}

CommandsFail(i) ==
  LET m == work[i].event.manifest
  IN  /\ At(i, "reconcile")
      /\ Present(i) # None
      /\ Fault
      /\ reported' = [reported EXCEPT ![m] = "deployed"]
      /\ Nack(i, Lost(i))
      /\ UNCHANGED <<deployed, changes, status, scalers, notes, cleaning, lattice, aux_last>>

(* That nothing is cleaned up is no more than a warning.                   *)
CleanupCommandsFail(i) ==
  LET m == work[i].event.manifest
  IN  /\ At(i, "reconcile")
      /\ Present(i) # None /\ work[i].cleanup # {}
      /\ Fault
      /\ reported' = [reported EXCEPT ![m] = "deployed"]
      /\ sent' = sent \o Publish(ToMake(m, Present(i)))
      /\ Ack(i)
      /\ Spoil(m, Lost(i))
      /\ UNCHANGED <<deployed, changes, status, scalers, notes, cleaning, running, aux_last>>

(* A notification removed the scalers as soon as they were there.          *)
ScalersGone(i) ==
  /\ At(i, "reconcile")
  /\ Present(i) = None
  /\ Nack(i, Lost(i))
  /\ UNCHANGED <<deployed, changes, status, scalers, notes, cleaning, lattice, reported, faults,
                 aux_last>>

(* What an event at work elsewhere cleans up is started again before the   *)
(* notification comes.                                                     *)
Revived(m, ids) ==
  IF \E j \in InWork(m) : ~Unpublished(work[j].event) /\ ids \cap Outdated(j) # {}
  THEN {"revived"} ELSE {}

(* Any other event lets an idle worker run all scalers it has; they do not *)
(* repeat commands under way.                                              *)
HandleEvent(i, m) ==
  LET v == scalers[i][m]
      make == ToMake(m, v)
  IN  /\ status[i] = "up" /\ ~Busy(i)
      /\ v # None
      /\ ~OnItsWay(m, make.ids)
      /\ make.ids # {} \/ reported[m] # "deployed"
      /\ sent' = sent \o Publish(make)
      /\ reported' = [reported EXCEPT ![m] = "deployed"]
      /\ Spoil(m, Lag(i, m) \cup Revived(m, make.ids))
      /\ UNCHANGED <<deployed, changes, queue, status, scalers, work, notes, cleaning, running,
                     faults, aux_last>>
-----------------------------------------------------------------------------
(* The notifier of an instance.                                            *)
Note(j) == Head(notes[j])

Noted(j) == notes' = [notes EXCEPT ![j] = Tail(@)]

Listening(j, type) ==
  status[j] = "up" /\ cleaning[j] = None /\ notes[j] # <<>> /\ Note(j).type = type

CreateScalers(j) ==
  /\ Listening(j, "create")
  /\ scalers' = [scalers EXCEPT ![j][Note(j).manifest] = Note(j).version]
  /\ Noted(j)
  /\ UNCHANGED <<deployed, changes, queue, status, work, cleaning, lattice, reported, faults,
                 aux_last, aux_spoiled>>

RemoveScalers(j) ==
  LET m == Note(j).manifest
      old == scalers[j][m]
  IN  /\ Listening(j, "delete")
      /\ scalers' = [scalers EXCEPT ![j][m] = None]
      /\ cleaning' = [cleaning EXCEPT ![j] = old]
      /\ IF old = None
         THEN Noted(j) /\ reported' = [reported EXCEPT ![m] = "undeployed"]
         ELSE UNCHANGED <<notes, reported>>
      /\ UNCHANGED <<deployed, changes, queue, status, work, lattice, faults, aux_last,
                     aux_spoiled>>

Cleaning(j) == status[j] = "up" /\ cleaning[j] # None

RemovalDoneQuietly(j) ==    \* mutant: the status is not published again
  LET m == Note(j).manifest
      ids == IdsOf(cleaning[j])
  IN  /\ Cleaning(j)
      /\ cleaning' = [cleaning EXCEPT ![j] = None]
      /\ sent' = sent \o Publish(ToStop(m, ids))
      /\ Noted(j)
      /\ Spoil(m, IF OnItsWay(m, ids) THEN {"in flight"} ELSE {})
      /\ UNCHANGED <<deployed, changes, queue, status, scalers, work, running, reported, faults,
                     aux_last>>

RemovalDone(j) ==
  LET m == Note(j).manifest
      ids == IdsOf(cleaning[j])
  IN  /\ Cleaning(j)
      /\ cleaning' = [cleaning EXCEPT ![j] = None]
      /\ sent' = sent \o Publish(ToStop(m, ids))
      /\ reported' = [reported EXCEPT ![m] = "undeployed"]
      /\ Noted(j)
      /\ Spoil(m, IF OnItsWay(m, ids) THEN {"in flight"} ELSE {})
      /\ UNCHANGED <<deployed, changes, queue, status, scalers, work, running, faults, aux_last>>

(* A notification that fails is nacked and then acknowledged all the same: *)
(* it may come again before the acknowledgement, or never.                 *)
Renack(j, m, why) ==
  \/ UNCHANGED notes /\ Spoil(m, why)
  \/ Noted(j) /\ Spoil(m, why \cup {"not retried"})

RemovalFails(j) ==
  LET m == Note(j).manifest
  IN  /\ Cleaning(j)
      /\ Fault
      /\ cleaning' = [cleaning EXCEPT ![j] = None]
      /\ \/ scalers' = [scalers EXCEPT ![j][m] = cleaning[j]] /\ Renack(j, m, {})
         \/ UNCHANGED scalers /\ Renack(j, m, {"forgotten"})
      /\ UNCHANGED <<deployed, changes, queue, status, work, lattice, reported, aux_last>>
-----------------------------------------------------------------------------
(* Instances crash, when they have something to lose.  What one was        *)
(* handling comes again after a while.                                     *)
Crash(i) ==
  LET e == work[i].event
      again == Busy(i) /\ ~work[i].late
  IN  /\ status[i] = "up"
      /\ Busy(i) \/ notes[i] # <<>> \/ scalers[i] # deployed
      /\ Fault
      /\ status' = [status EXCEPT ![i] = "down"]
      /\ scalers' = [scalers EXCEPT ![i] = [m \in Manifests |-> None]]
      /\ notes' = [notes EXCEPT ![i] = <<>>]
      /\ cleaning' = [cleaning EXCEPT ![i] = None]
      /\ work' = [work EXCEPT ![i] = Idle]
      /\ queue' = IF again THEN Requeue(e) ELSE queue
      /\ aux_spoiled' = [m \in Manifests |-> aux_spoiled[m] \cup
                           (IF again /\ e.manifest = m THEN GivenUp(e) ELSE {}) \cup
                           (IF scalers[i][m] # deployed[m] \/ Behind(i, m) \/ e.manifest = m
                            THEN {"forgotten"} ELSE {})]
      /\ UNCHANGED <<deployed, changes, lattice, reported, aux_last>>

(* ScalerManager::new: first the consumer, which gets what others have not *)
(* acknowledged yet, then the stored manifests.                            *)
Subscribe(i) ==
  /\ status[i] = "down"
  /\ status' = [status EXCEPT ![i] = "starting"]
  /\ \E j \in Instances :
       /\ \A k \in Instances : Len(notes[k]) <= Len(notes[j])
       /\ notes' = [notes EXCEPT ![i] = notes[j]]
  /\ UNCHANGED <<deployed, changes, queue, scalers, work, cleaning, lattice, reported,
                 faults, aux_last, aux_spoiled>>

Pending(m) == InWork(m) # {} \/ \E k \in DOMAIN queue : queue[k].manifest = m

LoadManifests(i) ==
  /\ status[i] = "starting"
  /\ status' = [status EXCEPT ![i] = "up"]
  /\ scalers' = [scalers EXCEPT ![i] = deployed]
  /\ aux_spoiled' = [m \in Manifests |-> aux_spoiled[m] \cup
                       (IF Pending(m) THEN {"started late"} ELSE {})]
  /\ UNCHANGED <<deployed, changes, queue, work, notes, cleaning, lattice, reported, faults,
                 aux_last>>
-----------------------------------------------------------------------------
Worker(i) ==
  \/ Take(i) \/ Refresh(i) \/ Tell(i) \/ Reconcile(i) \/ ScalersGone(i)

Notifier(i) == CreateScalers(i) \/ RemoveScalers(i) \/ RemovalDone(i)

Faults(i) ==
  \/ Late(i) \/ RefreshFails(i) \/ CleanUpFails(i) \/ TellFails(i) \/ CommandsFail(i)
  \/ CleanupCommandsFail(i) \/ RemovalFails(i) \/ Crash(i)

Next ==
  \/ \E m \in Manifests, v \in Deployments : Change(m, v)
  \/ Execute \/ \E m \in Manifests : Stops(m)
  \/ \E i \in Instances : Worker(i) \/ Notifier(i) \/ Faults(i) \/ Subscribe(i) \/ LoadManifests(i)
  \/ \E i \in Instances, m \in Manifests : HandleEvent(i, m)

(* Tasks run, messages arrive, instances are restarted, and events (there  *)
(* are always heartbeats) reach every instance.                            *)
Fairness ==
  /\ WF_vars(Execute)
  /\ \A i \in Instances :
       /\ WF_vars(Worker(i)) /\ WF_vars(Notifier(i))
       /\ WF_vars(Subscribe(i)) /\ WF_vars(LoadManifests(i))
       /\ \A m \in Manifests : SF_vars(HandleEvent(i, m))

Spec == Init /\ [][Next]_vars /\ Fairness
-----------------------------------------------------------------------------
(* Every change has been handled, and every instance knows.                *)
Handled(m) ==
  /\ ~Pending(m)
  /\ \A i \in Instances :
       /\ status[i] = "up" /\ cleaning[i] = None
       /\ \A k \in DOMAIN notes[i] : notes[i][k].manifest # m

(* Unless events about one manifest are handled at the same time or out of *)
(* order, are given up, or the notifier drops one, all instances have the  *)
(* scalers of what is stored as deployed.                                  *)
ScalersAgree ==
  \A m \in Manifests :
    Handled(m) /\ aux_spoiled[m] \cap {"overtaken", "given up", "not retried"} = {} =>
      \A i \in Instances : scalers[i][m] = deployed[m]

(* If nothing of what it was to clean up was lost either, nothing runs     *)
(* that the deployed version has not.                                      *)
NothingLeft ==
  \A m \in Manifests :
    Handled(m) /\ sent = <<>> /\ aux_spoiled[m] = {} => running[m] \subseteq IdsOf(deployed[m])

(* In the end all that is deployed runs, and the status of a manifest is   *)
(* the right one, even if an instance reported on it that had not yet      *)
(* removed its scalers.                                                    *)
Settles ==
  <>[](\A m \in Manifests :
         /\ aux_spoiled[m] = {} => running[m] = IdsOf(deployed[m])
         /\ aux_spoiled[m] \subseteq {"behind", "in flight", "revived"} =>
              reported[m] = IF deployed[m] = None THEN "undeployed" ELSE "deployed")

(* All instances have the same scalers even if a notifier fails once,      *)
(* because it is told again.                                               *)
RemovalIsRetried ==
  \A m \in Manifests :
    Handled(m) /\ aux_spoiled[m] \cap {"overtaken", "given up"} = {} =>
      \A i \in Instances : scalers[i][m] = deployed[m]
=============================================================================
