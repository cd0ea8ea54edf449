---------------------------- MODULE Requirements -----------------------------
(***************************************************************************)
(* Links, and the named configs and secrets that scalers require: the link *)
(* scaler (crates/wadm/src/scaler/spreadscaler/link.rs), the config and    *)
(* secret scalers (scaler/configscaler.rs, scaler/secretscaler.rs) in the  *)
(* wrapper of each scaler (scaler/mod.rs), the worker that carries out     *)
(* commands (workers/command.rs), and what an upgrade of the manifest does *)
(* (workers/event.rs).  A secret is a config with an owner of its own.     *)
(*                                                                         *)
(* One instance of wadm handles one event at a time, and what it reads in  *)
(* doing so is read in one step.  The scalers of components and providers  *)
(* may command something whenever the wrapper asks them; the wrapper then  *)
(* waits for events (SpreadScaler, ProviderScaler and Backoff say when).   *)
(***************************************************************************)
EXTENDS Manifests

CONSTANTS
  Candidates,  \* the manifests that clients send
  Deployable,  \* bound: the manifests whose deployment is followed
  Providers,   \* the ids of those that check in: capability providers
  Elsewhere,   \* the configs that someone else manages, with their value
  MaxDeliver,  \* deliveries of a command
  MaxEvents,   \* bound: the events on their way
  MaxBacklog,  \* bound: the batches of commands under way when a host beats
  MaxScales,   \* bound: commands to scale
  MaxChanges,  \* bound: deploys and undeploys
  MaxFaults    \* bound: failures, losses and meddling

ASSUME CandidatesAssumption == \A m \in Candidates : IsParsed(m)

ASSUME DeployableAssumption == \A m \in Deployable : m \in Candidates /\ Valid(m)

ASSUME BoundsAssumption ==
  MaxDeliver \in Nat \ {0} /\ {MaxScales, MaxChanges, MaxFaults} \subseteq Nat

VARIABLES
  manifest,  \* as stored
  wraps,     \* of each scaler: is the wrapper busy, and what the config
             \* scalers have seen
  known,     \* the links, as last read
  configs,   \* the named configs in the lattice
  links,     \* the links in the lattice
  sent,      \* the command stream: sets of commands published together
  told,      \* the events on their way to wadm, in order
  scales, changes, faults,
  aux_missed  \* the configs of which an event was lost or ignored

lattice == <<configs, links>>
vars == <<manifest, wraps, known, lattice, sent, told, scales, changes, faults, aux_missed>>

IsLinkScaler(s) == s.id.kind = "link"

LinkOf(s) == [source |-> s.id.source, target |-> s.id.target, name |-> s.id.name, wit |-> s.id.wit]
SameKey(k, l) == k.source = l.source /\ k.name = l.name /\ k.wit = l.wit

OwnOf(s) == {r \in s.requires : r.value # None}

Accepted == {m \in Candidates : Valid(m)}

(* Those of components and providers that require nothing are left out.    *)
Scalers ==
  [m \in Deployable |-> {s \in ToSet(ScalersOf(m)) : IsLinkScaler(s) \/ s.requires # {}}]

Required == UNION {UNION {s.requires : s \in Scalers[m]} : m \in Deployable}
ConfigNames == {r.name : r \in Required}

(* Nobody else uses the names that wadm makes up for the configs of a      *)
(* manifest.  Configs that no manifest asks for are left out.              *)
ASSUME ElsewhereAssumption ==
  /\ DOMAIN Elsewhere \subseteq ConfigNames
  /\ \A r \in Required : r.value # None => r.name \notin DOMAIN Elsewhere

Statuses == {"reconciling", "deployed", "failed"}

Command(type, what) == [type |-> type, what |-> what, tries |-> 1]
PutConfig(r) == Command("put config", <<r.name, r.value>>)
DeleteConfig(r) == Command("delete config", r.name)
PutLink(s) == Command("put link", LinkOf(s))
DeleteLink(s) == Command("delete link", LinkOf(s))
Scale(s) == Command("scale", s.id.component)

Event(type, what) == [type |-> type, what |-> what]

Fault ==
  /\ faults < MaxFaults
  /\ faults' = faults + 1
-----------------------------------------------------------------------------
(* The config scaler of a requirement.                                     *)
Fetched(r, available) ==
  CASE ~available -> "failed"
    [] available /\ r.value = None -> IF configs[r.name] = None THEN "failed" ELSE "deployed"
    [] OTHER -> IF configs[r.name] = r.value THEN "deployed" ELSE "reconciling"

ConcernedByItsEvents(r, e, seen) ==    \* mutant: heartbeats do not repair
  e.type \in {"config set", "config deleted"} /\ e.what = r.name

(* The events that make it fetch the config; on a heartbeat only if it has *)
(* not seen it deployed.                                                   *)
Concerned(r, e, seen) ==
  \/ e.type \in {"config set", "config deleted"} /\ e.what = r.name
  \/ e.type = "heartbeat" /\ seen # "deployed"

(* A link counts as present whatever its package is.                       *)
Exists(l, ls) == \E k \in ls : k.source = l.source /\ k.target = l.target /\ k.name = l.name

WakesBySource(s, e) ==    \* mutant: the target does not count
  LET l == LinkOf(s)
  IN  \/ e.type = "workload" /\ e.what = l.source
      \/ e.type = "link deleted" /\ SameKey(e.what, l)

Wakes(s, e) ==
  LET l == LinkOf(s)
  IN  \/ e.type = "workload" /\ e.what \in {l.source, l.target}
      \/ e.type = "link deleted" /\ SameKey(e.what, l)

(* What the scaler itself commands, if the wrapper lets it.                *)
Inner(s, woken, ls, scaled) ==
  IF IsLinkScaler(s)
  THEN IF woken /\ ~Exists(LinkOf(s), ls) THEN {PutLink(s)} ELSE {}
  ELSE IF s \in scaled THEN {Scale(s)} ELSE {}

(* The wrapper has the requirements in R looked at.  Only if that gives no *)
(* commands the scaler is asked.                                           *)
Wrapped(s, w, R, available, woken, ls, scaled) ==
  LET puts == {PutConfig(r) : r \in {r \in R : Fetched(r, available) = "reconciling"}}
      inner == IF puts = {} THEN Inner(s, woken, ls, scaled) ELSE {}
  IN  [commands |-> puts \cup inner,
       wrap |-> [busy |-> w.busy \/ (inner # {} /\ ~IsLinkScaler(s)),
                 seen |-> [r \in s.requires |->
                             IF r \in R THEN Fetched(r, available) ELSE w.seen[r]]]]

Untouched(w) == [commands |-> {}, wrap |-> w]

HandleEvent(s, e, available, ls, scaled) ==
  LET w == wraps[s]
      R == {r \in s.requires : Concerned(r, e, w.seen[r])}
  IN  IF w.busy THEN Untouched(w)
      ELSE Wrapped(s, w, R, available, IsLinkScaler(s) /\ Wakes(s, e), ls, scaled)

NewWrap(s) == [busy |-> FALSE, seen |-> [r \in s.requires |-> "reconciling"]]

Reconcile(s, available, ls, scaled) ==
  Wrapped(s, NewWrap(s), s.requires, available, TRUE, ls, scaled)

CleanupAll(s) ==    \* mutant: configs of others too
  (IF IsLinkScaler(s) THEN {DeleteLink(s)} ELSE {}) \cup {DeleteConfig(r) : r \in s.requires}

(* The commands that stop components and providers are left out.           *)
Cleanup(s) ==
  (IF IsLinkScaler(s) THEN {DeleteLink(s)} ELSE {}) \cup {DeleteConfig(r) : r \in OwnOf(s)}

PublishAlways(cmds) == <<cmds>>    \* mutant: a message without a command

(* Commands that are published together come in any order.                 *)
Publish(cmds) == IF cmds = {} THEN <<>> ELSE <<cmds>>

Workloads(S) == {s \in S : ~IsLinkScaler(s)}

(* The links are read; if that fails, those read before count.             *)
Refresh(available) == known' = IF available THEN links ELSE known

Scaled(cmds) ==
  /\ scales' = scales + Cardinality({c \in cmds : c.type = "scale"})
  /\ scales' <= MaxScales
-----------------------------------------------------------------------------
Init ==
  /\ manifest \in Accepted
  /\ wraps = <<>>
  /\ known = {}
  /\ configs = [n \in ConfigNames |-> None]
  /\ links = {}
  /\ sent = <<>>
  /\ told = <<>>
  /\ scales = 0 /\ changes = 0 /\ faults = 0
  /\ aux_missed = {}

(* A manifest is deployed: the stored one, or the next after it.  The      *)
(* scalers that it no longer has are cleaned up.                           *)
Deploy(m, available, scaled) ==
  LET new == Scalers[m]
      outdated == {s \in DOMAIN wraps : \A n \in new : n.id # s.id}
      outcome == [s \in new |-> Reconcile(s, available, known', scaled)]
      commands == UNION {outcome[s].commands : s \in new}
  IN  /\ changes = 0 => m = manifest
      /\ changes > 0 => m # manifest
      /\ changes < MaxChanges /\ changes' = changes + 1
      /\ scaled \subseteq new
      /\ manifest' = m
      /\ Refresh(available)
      /\ wraps' = [s \in new |-> outcome[s].wrap]
      /\ sent' = sent \o Publish(commands) \o Publish(UNION {Cleanup(s) : s \in outdated})
      /\ Scaled(commands)
      /\ aux_missed' = {}
      /\ UNCHANGED <<lattice, told>>

Undeploy ==
  /\ wraps # <<>>
  /\ changes < MaxChanges /\ changes' = changes + 1
  /\ wraps' = <<>>
  /\ sent' = sent \o Publish(UNION {Cleanup(s) : s \in DOMAIN wraps})
  /\ UNCHANGED <<manifest, known, lattice, told, scales, faults, aux_missed>>

Ignored(e) ==
  LET concerned == {s \in DOMAIN wraps : \E r \in s.requires : r.name = e.what}
  IN  IF /\ e.type \in {"config set", "config deleted"}
         /\ \A s \in concerned : wraps[s].busy
      THEN {e.what}
      ELSE {}

(* An event is handled by all scalers.                                     *)
Handle(available, scaled) ==
  LET e == Head(told)
      outcome == [s \in DOMAIN wraps |-> HandleEvent(s, e, available, known', scaled)]
      commands == UNION {outcome[s].commands : s \in DOMAIN wraps}
  IN  /\ told # <<>>
      /\ told' = Tail(told)
      /\ scaled \subseteq DOMAIN wraps
      /\ Refresh(available)
      /\ wraps' = [s \in DOMAIN wraps |-> outcome[s].wrap]
      /\ sent' = sent \o Publish(commands)
      /\ Scaled(commands)
      /\ aux_missed' = aux_missed \cup Ignored(e)
      /\ UNCHANGED <<manifest, lattice, changes>>

(* The events that the wrapper waits for came, or its wait or its back-off *)
(* is over.                                                                *)
Free(s) ==
  /\ s \in DOMAIN wraps /\ wraps[s].busy
  /\ wraps' = [wraps EXCEPT ![s].busy = FALSE]
  /\ UNCHANGED <<manifest, known, lattice, sent, told, scales, changes, faults, aux_missed>>
-----------------------------------------------------------------------------
(* The lattice (external).  A link replaces one with its key.              *)
Carry(c) ==
  CASE c.type = "put config" ->
         /\ configs' = [configs EXCEPT ![c.what[1]] = c.what[2]]
         /\ told' = Append(told, Event("config set", c.what[1]))
         /\ UNCHANGED links
    [] c.type = "delete config" ->
         /\ configs' = [configs EXCEPT ![c.what] = None]
         /\ told' = Append(told, Event("config deleted", c.what))
         /\ UNCHANGED links
    [] c.type = "put link" ->
         /\ links' = {k \in links : ~SameKey(k, c.what)} \cup {c.what}
         /\ UNCHANGED <<configs, told>>
    [] c.type = "delete link" ->
         /\ links' = {k \in links : ~SameKey(k, c.what)}
         /\ told' = Append(told, Event("link deleted", c.what))
         /\ UNCHANGED configs
    [] OTHER ->
         /\ told' = Append(told, Event("workload", c.what))
         /\ UNCHANGED <<configs, links>>

Room == Len(told) < MaxEvents

Deliverable == IF sent = <<>> THEN {} ELSE Head(sent)

Without(c) ==
  IF Head(sent) = {c} THEN Tail(sent) ELSE <<Head(sent) \ {c}>> \o Tail(sent)

(* The worker takes a command.  One that fails is delivered again, but not *)
(* for ever; one whose acknowledgement is late is carried out twice.       *)
Execute(c) ==
  /\ Room
  /\ Carry(c)
  /\ sent' = Without(c)
  /\ UNCHANGED <<manifest, wraps, known, scales, changes, faults, aux_missed>>

ExecuteTwice(c) ==
  /\ Room
  /\ Fault
  /\ Carry(c)
  /\ UNCHANGED <<manifest, wraps, known, sent, scales, changes, aux_missed>>

TriesAgain(c) == IF c.tries < MaxDeliver THEN <<{[c EXCEPT !.tries = @ + 1]}>> ELSE <<>>

ExecuteFails(c) ==
  /\ Fault
  /\ sent' = Without(c) \o TriesAgain(c)
  /\ UNCHANGED <<manifest, wraps, known, lattice, told, scales, changes, aux_missed>>

(* Someone deletes a config, puts one that is theirs, or deletes a link.   *)
Meddle ==
  /\ Room /\ Fault
  /\ \/ \E n \in ConfigNames : /\ configs[n] # None
                               /\ Carry(Command("delete config", n))
     \/ \E n \in DOMAIN Elsewhere : /\ configs[n] = None
                                    /\ Carry(Command("put config", <<n, Elsewhere[n]>>))
     \/ \E l \in links : Carry(Command("delete link", l))
  /\ UNCHANGED <<manifest, wraps, known, sent, scales, changes, aux_missed>>

LoseEvent ==
  /\ told # <<>>
  /\ Fault
  /\ told' = Tail(told)
  /\ aux_missed' = aux_missed \cup
       IF Head(told).type \in {"config set", "config deleted"} THEN {Head(told).what} ELSE {}
  /\ UNCHANGED <<manifest, wraps, known, lattice, sent, scales, changes>>

(* Hosts beat and providers check in, when there is no other event.        *)
Beat(e) ==
  /\ told = <<>>
  /\ Len(sent) <= MaxBacklog
  /\ wraps # <<>>
  /\ told' = <<e>>
  /\ UNCHANGED <<manifest, wraps, known, lattice, sent, scales, changes, faults, aux_missed>>

Beats == {Event("heartbeat", None)} \cup {Event("workload", p) : p \in Providers}

DeployUp(m, scaled) == Deploy(m, TRUE, scaled) /\ UNCHANGED faults
DeployDown(m, scaled) == Deploy(m, FALSE, scaled) /\ Fault
HandleUp(scaled) == Handle(TRUE, scaled) /\ UNCHANGED faults
HandleDown(scaled) == Handle(FALSE, scaled) /\ Fault

Next ==
  \/ \E m \in Deployable : \E scaled \in SUBSET Workloads(Scalers[m]) :
       DeployUp(m, scaled) \/ DeployDown(m, scaled)
  \/ Undeploy
  \/ \E scaled \in SUBSET Workloads(DOMAIN wraps) : HandleUp(scaled) \/ HandleDown(scaled)
  \/ \E s \in DOMAIN wraps : Free(s)
  \/ \E c \in Deliverable : Execute(c) \/ ExecuteTwice(c) \/ ExecuteFails(c)
  \/ Meddle
  \/ LoseEvent
  \/ \E e \in Beats : Beat(e)

(* Instances work through events and commands, waits end, hosts beat and   *)
(* providers check in again and again.                                     *)
Fairness ==
  /\ WF_vars(\E scaled \in SUBSET Workloads(DOMAIN wraps) : HandleUp(scaled))
  /\ WF_vars(\E s \in DOMAIN wraps : Free(s))
  /\ WF_vars(\E c \in Deliverable : Execute(c))
  /\ \A e \in Beats : SF_vars(Beat(e))

Spec == Init /\ [][Next]_vars /\ Fairness
-----------------------------------------------------------------------------
(* Everything has its type.                                                *)
TypeOK ==
  /\ manifest \in Candidates
  /\ DOMAIN wraps # {} => manifest \in Deployable
  /\ \A s \in DOMAIN wraps : /\ s.id.kind # "status"
                             /\ wraps[s].busy \in BOOLEAN
                             /\ wraps[s].seen \in [s.requires -> Statuses]
  /\ configs \in [ConfigNames -> {None} \cup {r.value : r \in Required}
                                   \cup {Elsewhere[n] : n \in DOMAIN Elsewhere}]
  /\ \A k, l \in links : SameKey(k, l) => k = l
  /\ \A k \in DOMAIN sent : sent[k] # {} /\ \A c \in sent[k] : c.tries \in 1 .. MaxDeliver
  /\ scales \in 0 .. MaxScales /\ changes \in 0 .. MaxChanges /\ faults \in 0 .. MaxFaults
  /\ aux_missed \subseteq ConfigNames

(* A manifest that was accepted can be converted to scalers: nothing that  *)
(* the conversion takes for impossible (convert.rs: "These two cases       *)
(* should both be unreachable") is possible.                               *)
StoredConverts == changes = 0 => Converts(manifest)

(* A manifest that was accepted says of each call through a link where it  *)
(* goes, and once.                                                         *)
StoredRoutes == changes = 0 => Routes(manifest)

(* The links of a manifest that was accepted do not fight over a config,   *)
(* if names that differ make ids that do.                                  *)
StoredConfigsAgree == changes = 0 /\ IdsApart(manifest) => LinkConfigsAgree(manifest)

(* wadm never commands anything about a config that someone else manages.  *)
ElsewhereIsKept ==
  \A k \in DOMAIN sent : \A c \in sent[k] :
    /\ c.type = "put config" => c.what[1] \notin DOMAIN Elsewhere
    /\ c.type = "delete config" => c.what \notin DOMAIN Elsewhere

(* Every config that the deployed manifest brings along is in the lattice  *)
(* in the end, whatever deletes or overwrites it, unless no scaler heard   *)
(* of that.                                                                *)
ConfigsSettle ==
  <>[](\A s \in DOMAIN wraps : \A r \in OwnOf(s) :
         configs[r.name] = r.value \/ r.name \in aux_missed)

(* And so is every link with a provider at one of its ends.                *)
LinksSettle ==
  <>[](\A s \in DOMAIN wraps :
         (IsLinkScaler(s) /\ {s.id.source, s.id.target} \cap Providers # {}) => LinkOf(s) \in links)

(* A config that the manifest brings along is in the lattice in the end:   *)
(* the new scalers react to what the cleanup of the old ones takes away.   *)
ConfigsComeBack ==
  <>[](\A s \in DOMAIN wraps : \A r \in OwnOf(s) : configs[r.name] = r.value)
=============================================================================
