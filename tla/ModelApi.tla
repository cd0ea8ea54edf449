------------------------------ MODULE ModelApi ------------------------------
(***************************************************************************)
(* The manifest API of wadm (crates/wadm/src/server): put, delete, deploy  *)
(* and undeploy of an application, executed by several wadm instances that *)
(* share one NATS KV bucket.  A server handles one request at a time; the  *)
(* servers interleave at every access to the bucket.                       *)
(*                                                                         *)
(* The bucket holds one entry per model (its versions and the deployed     *)
(* one) and one entry with the set of model names.  A revision is a        *)
(* sequence number of the bucket's stream, so it grows over all keys.      *)
(***************************************************************************)
EXTENDS Naturals, Sequences

CONSTANTS
  Servers,      \* wadm instances in the queue group "wadm_server"
  Models,       \* application names
  Versions,     \* manifest versions
  NoVersion,    \* "no version": not deployed, or none given in a request
  Settled,      \* value of owed[m]: nothing left to announce
  Ids,          \* explicit component and provider ids
  IdsOf,        \* ids declared by a version of a model
  SharedApp,    \* the <<model, version>> pairs annotated as shared
  Needs,        \* the applications a version takes shared components from
  MaxTries,     \* attempts of retry_model_update (3 in the code)
  MaxRequests,  \* bound: requests the clients send
  MaxFaults     \* bound: bucket or publish operations that fail

ASSUME ModelApiAssumption ==
  /\ NoVersion \notin Versions
  /\ Settled \notin Versions \cup {NoVersion}
  /\ IdsOf \in [Models \X Versions -> SUBSET Ids]
  /\ SharedApp \subseteq Models \X Versions
  /\ Needs \in [Models \X Versions -> SUBSET Models]
  /\ MaxTries \in Nat \ {0}
  /\ MaxRequests \in Nat
  /\ MaxFaults \in Nat

VARIABLES
  kv,         \* kv[m] = [rev, val], the entry of model m
  nameSet,    \* [rev, val], the entry with the names of all models
  lastSeq,    \* the last sequence number the bucket's stream has given out
  srv,        \* srv[s], the request server s is handling and its locals
  requests,   \* requests sent so far
  faults,     \* faults so far
  owed,       \* aux: the deployment stored last and not yet announced
  broken      \* aux: models with an operation that failed half-way

bucket == <<kv, nameSet, lastSeq>>
aux == <<owed, broken>>
vars == <<bucket, srv, requests, faults, aux>>
-----------------------------------------------------------------------------
(* StoredManifest: versions in order of insertion and the deployed one.    *)
(* The empty manifest is never stored; as a value of kv it says that the   *)
(* key does not exist or that its last operation is a purge.               *)
Maybe == Versions \cup {NoVersion}
Manifest == [versions : Seq(Versions), deployed : Maybe]
Entry == [rev : Nat, val : Manifest]
NoManifest == [versions |-> <<>>, deployed |-> NoVersion]

VersionsIn(man) == {man.versions[i] : i \in DOMAIN man.versions}
Live(man) == man.versions # <<>>
CurrentVersion(man) == man.versions[Len(man.versions)]

AddVersion(man, v) == [man EXCEPT !.versions = Append(@, v)]

Without(seq, v) ==
  LET k == CHOOSE i \in DOMAIN seq : seq[i] = v
  IN  [i \in 1 .. Len(seq) - 1 |-> IF i < k THEN seq[i] ELSE seq[i + 1]]

DeleteVersionOnly(man, v) ==    \* mutant: what is deployed is not looked at
  [man EXCEPT !.versions = Without(@, v)]

(* delete_version, and the undeploy that delete_model adds when the        *)
(* version it removed was the deployed one.                                *)
DeleteVersion(man, v) ==
  [versions |-> Without(man.versions, v),
   deployed |-> IF man.deployed = v THEN NoVersion ELSE man.deployed]

Deploy(man, v) == [man EXCEPT !.deployed = v]
Undeploy(man) == [man EXCEPT !.deployed = NoVersion]

(* The version a deploy request asks for; none or "latest" is the last.    *)
Requested(man, v) == IF v = NoVersion THEN CurrentVersion(man) ELSE v
-----------------------------------------------------------------------------
Requests ==
       [op : {"put"}, model : Models, version : Versions]
  \cup [op : {"delete", "deploy"}, model : Models, version : Maybe]
  \cup [op : {"undeploy"}, model : Models, version : {NoVersion}]

NoRequest == [op |-> "none"]

PCs == {"idle", "get", "list", "list_get", "check_get", "store", "enlist",
        "enlist_write", "unlist", "unlist_write", "purge", "notify",
        "panicked"}

(* What a server keeps between two accesses to the bucket.                 *)
Server ==
  [pc : PCs,
   req : Requests \cup {NoRequest},
   read : Entry,           \* the entry of the request's model as read
   next : Manifest,        \* the manifest it is going to store
   names : [rev : Nat, val : SUBSET Models],   \* the name set as read
   tries : 0 .. MaxTries - 1,   \* failed attempts at the name set
   todo : SUBSET Models,   \* entries still to be fetched
   apps : SUBSET Models,   \* deployed applications found by list
   shared : SUBSET Models, \* those of them that are shared
   ids : SUBSET Ids]       \* ids that deployed applications use

NoNames == [rev |-> 0, val |-> {}]

Fresh(req) ==
  [pc |-> "get", req |-> req, read |-> [rev |-> 0, val |-> NoManifest],
   next |-> NoManifest, names |-> NoNames, tries |-> 0, todo |-> {},
   apps |-> {}, shared |-> {}, ids |-> {}]

IdleServer == [Fresh(NoRequest) EXCEPT !.pc = "idle"]

Init ==
  /\ kv = [m \in Models |-> [rev |-> 0, val |-> NoManifest]]
  /\ nameSet = NoNames
  /\ lastSeq = 0
  /\ srv = [s \in Servers |-> IdleServer]
  /\ requests = 0
  /\ faults = 0
  /\ owed = [m \in Models |-> Settled]
  /\ broken = {}
-----------------------------------------------------------------------------
(* ModelStorage::get: a missing or purged entry reads as revision 0.       *)
Read(m) ==
  IF Live(kv[m].val) THEN kv[m] ELSE [rev |-> 0, val |-> NoManifest]

At(s, pc) == srv[s].pc = pc
Model(s) == srv[s].req.model
Become(s, rec) == srv' = [srv EXCEPT ![s] = rec]
Goto(s, pc) == Become(s, [srv[s] EXCEPT !.pc = pc])

(* The reply ends a request, whatever it says.                             *)
Reply(s) == Become(s, IdleServer)

(* An error reply after the bucket may have been changed.                  *)
ReplyBroken(s) == Reply(s) /\ broken' = broken \cup {Model(s)}

Fault ==
  /\ faults < MaxFaults
  /\ faults' = faults + 1

(* The next message of the queue group goes to an idle server.             *)
Receive(s) ==
  /\ At(s, "idle")
  /\ requests < MaxRequests
  /\ requests' = requests + 1
  /\ \E r \in Requests : Become(s, Fresh(r))
  /\ UNCHANGED <<bucket, faults, aux>>
-----------------------------------------------------------------------------
(* The first access of each handler: get the request's model.              *)
StartStore(s, entry, man) ==
  Become(s, [srv[s] EXCEPT !.pc = "store", !.read = entry, !.next = man])

PutGet(s) ==
  LET entry == Read(Model(s))
      v == srv[s].req.version
  IN  /\ At(s, "get")
      /\ srv[s].req.op = "put"
      /\ IF v \in VersionsIn(entry.val)
         THEN Reply(s)                     \* the version already exists
         ELSE StartStore(s, entry, AddVersion(entry.val, v))
      /\ UNCHANGED <<bucket, requests, faults, aux>>

(* A noop still sends the undeploy notification; deleting the last version *)
(* or all of them deletes the model; deleting another one updates it.      *)
DeleteGet(s) ==
  LET entry == Read(Model(s))
      v == srv[s].req.version
      noop == ~Live(entry.val) \/ v \notin VersionsIn(entry.val) \cup {NoVersion}
      last == v = NoVersion \/ VersionsIn(entry.val) = {v}
  IN  /\ At(s, "get")
      /\ srv[s].req.op = "delete"
      /\ \/ noop /\ Goto(s, "notify")
         \/ ~noop /\ last /\ Goto(s, "unlist")
         \/ ~noop /\ ~last /\ StartStore(s, entry, DeleteVersion(entry.val, v))
      /\ UNCHANGED <<bucket, requests, faults, aux>>

(* Not found, or no such version: a reply and nothing else (the code makes *)
(* the second check after its list, which changes nothing).                *)
DeployGet(s) ==
  LET entry == Read(Model(s))
      v == srv[s].req.version
  IN  /\ At(s, "get")
      /\ srv[s].req.op = "deploy"
      /\ IF ~Live(entry.val) \/ v \notin VersionsIn(entry.val) \cup {NoVersion}
         THEN Reply(s)
         ELSE Become(s, [srv[s] EXCEPT !.pc = "list", !.read = entry,
                           !.next = Deploy(entry.val, Requested(entry.val, v))])
      /\ UNCHANGED <<bucket, requests, faults, aux>>

(* Undeploying what is not deployed is acknowledged and announced again.   *)
UndeployGet(s) ==
  LET entry == Read(Model(s))
  IN  /\ At(s, "get")
      /\ srv[s].req.op = "undeploy"
      /\ \/ ~Live(entry.val) /\ Reply(s)
         \/ Live(entry.val) /\ entry.val.deployed = NoVersion /\ Goto(s, "notify")
         \/ /\ Live(entry.val) /\ entry.val.deployed # NoVersion
            /\ StartStore(s, entry, Undeploy(entry.val))
      /\ UNCHANGED <<bucket, requests, faults, aux>>
-----------------------------------------------------------------------------
(* deploy_model validates the version it is going to deploy.  First        *)
(* ModelStorage::list: the names, then one get for each of them.           *)
ListNames(s) ==
  /\ At(s, "list")
  /\ Become(s, [srv[s] EXCEPT !.pc = "list_get", !.todo = nameSet.val])
  /\ UNCHANGED <<bucket, requests, faults, aux>>

(* An application counts as shared by its current version, deployed or not *)
ListGet(s) ==
  /\ At(s, "list_get")
  /\ \E m \in srv[s].todo :
       LET man == Read(m).val
           deployed == man.deployed # NoVersion
       IN  Become(s, [srv[s] EXCEPT
             !.todo = @ \ {m},
             !.apps = IF deployed THEN @ \cup {m} ELSE @,
             !.shared = IF deployed /\ <<m, CurrentVersion(man)>> \in SharedApp
                        THEN @ \cup {m} ELSE @])
  /\ UNCHANGED <<bucket, requests, faults, aux>>

ListDone(s) ==
  /\ At(s, "list_get")
  /\ srv[s].todo = {}
  /\ Become(s, [srv[s] EXCEPT !.pc = "check_get", !.todo = srv[s].apps])
  /\ UNCHANGED <<bucket, requests, faults, aux>>

CheckGetShadows(s) ==    \* mutant: the revision fetched last is kept
  /\ At(s, "check_get")
  /\ \E m \in srv[s].todo :
       /\ Live(Read(m).val)
       /\ Become(s, [srv[s] EXCEPT !.todo = @ \ {m}, !.read.rev = Read(m).rev])
  /\ UNCHANGED <<bucket, requests, faults, aux>>

(* Each listed deployment is fetched a second time for its ids.            *)
CheckGet(s) ==
  /\ At(s, "check_get")
  /\ \E m \in srv[s].todo :
       LET man == Read(m).val
           used == IF m # Model(s) /\ man.deployed # NoVersion
                   THEN IdsOf[<<m, man.deployed>>] ELSE {}
       IN  /\ Live(man)
           /\ Become(s, [srv[s] EXCEPT !.todo = @ \ {m}, !.ids = @ \cup used])
  /\ UNCHANGED <<bucket, requests, faults, aux>>

(* A model deleted in between reads as the empty manifest, which has no    *)
(* current version to take the name from: the server's task panics.        *)
CheckPanics(s) ==
  /\ At(s, "check_get")
  /\ \E m \in srv[s].todo : ~Live(Read(m).val)
  /\ Goto(s, "panicked")
  /\ UNCHANGED <<bucket, requests, faults, aux>>

(* Duplicate ids and missing shared applications are error replies.        *)
CheckDone(s) ==
  LET staged == <<Model(s), srv[s].next.deployed>>
      accepted == /\ IdsOf[staged] \cap srv[s].ids = {}
                  /\ Needs[staged] \subseteq srv[s].shared
  IN  /\ At(s, "check_get")
      /\ srv[s].todo = {}
      /\ IF accepted THEN Goto(s, "store") ELSE Reply(s)
      /\ UNCHANGED <<bucket, requests, faults, aux>>
-----------------------------------------------------------------------------
(* ModelStorage::set, first half.  A revision above 0 makes it an update   *)
(* that the bucket accepts only at that revision, 0 an unconditional put.  *)
CanStoreAlways(s) == TRUE    \* mutant: put, whatever revision was read

CanStore(s) == srv[s].read.rev \in {0, kv[Model(s)].rev}

Changes(s) == srv[s].next.deployed # srv[s].read.val.deployed

(* What is done when either half of set has failed: deploy_model goes on   *)
(* to its notification, the others reply with an error.                    *)
SetFailed(s) ==
  IF srv[s].req.op = "deploy" THEN Goto(s, "notify") ELSE Reply(s)

Store(s) ==
  LET m == Model(s)
  IN  /\ At(s, "store")
      /\ CanStore(s)
      /\ lastSeq' = lastSeq + 1
      /\ kv' = [kv EXCEPT ![m] = [rev |-> lastSeq + 1, val |-> srv[s].next]]
      /\ owed' = IF Changes(s) THEN [owed EXCEPT ![m] = srv[s].next.deployed]
                 ELSE owed
      /\ Goto(s, "enlist")
      /\ UNCHANGED <<nameSet, requests, faults, broken>>

StoreConflict(s) ==
  /\ At(s, "store")
  /\ ~CanStore(s)
  /\ SetFailed(s)
  /\ UNCHANGED <<bucket, requests, faults, aux>>

StoreFault(s) ==
  /\ At(s, "store")
  /\ Fault
  /\ SetFailed(s)
  /\ UNCHANGED <<bucket, requests, aux>>
-----------------------------------------------------------------------------
(* retry_model_update adds the name after a store ("enlist") and removes   *)
(* it before a purge ("unlist").                                           *)
EnlistedSilently(s) ==    \* mutant: a delete does not announce an undeploy
  IF srv[s].req.op \in {"put", "delete"} THEN Reply(s) ELSE Goto(s, "notify")

Enlisted(s) ==
  IF srv[s].req.op = "put" \/ (srv[s].req.op = "delete" /\ ~Changes(s))
  THEN Reply(s) ELSE Goto(s, "notify")

ReadNames(s, pc) ==
  Become(s, [srv[s] EXCEPT !.pc = pc, !.names = nameSet])

Enlist(s) ==
  /\ At(s, "enlist")
  /\ IF Model(s) \in nameSet.val THEN Enlisted(s) ELSE ReadNames(s, "enlist_write")
  /\ UNCHANGED <<bucket, requests, faults, aux>>

Unlist(s) ==
  /\ At(s, "unlist")
  /\ IF Model(s) \in nameSet.val THEN ReadNames(s, "unlist_write") ELSE Goto(s, "purge")
  /\ UNCHANGED <<bucket, requests, faults, aux>>

UpdateNamesBlindly(s, names) ==    \* mutant: put instead of update
  /\ lastSeq' = lastSeq + 1
  /\ nameSet' = [rev |-> lastSeq + 1, val |-> names]
  /\ UNCHANGED kv

UpdateNames(s, names) ==
  /\ srv[s].names.rev = nameSet.rev
  /\ lastSeq' = lastSeq + 1
  /\ nameSet' = [rev |-> lastSeq + 1, val |-> names]
  /\ UNCHANGED kv

EnlistWrite(s) ==
  /\ At(s, "enlist_write")
  /\ UpdateNames(s, srv[s].names.val \cup {Model(s)})
  /\ Enlisted(s)
  /\ UNCHANGED <<requests, faults, aux>>

UnlistWrite(s) ==
  /\ At(s, "unlist_write")
  /\ UpdateNames(s, srv[s].names.val \ {Model(s)})
  /\ Goto(s, "purge")
  /\ UNCHANGED <<requests, faults, aux>>

NamesRetryForever(s) ==    \* mutant: the attempts are not counted
  /\ srv[s].pc \in {"enlist_write", "unlist_write"}
  /\ srv[s].names.rev # nameSet.rev
  /\ Become(s, [srv[s] EXCEPT
       !.pc = IF @ = "enlist_write" THEN "enlist" ELSE "unlist",
       !.names = NoNames, !.tries = @ + 1])
  /\ UNCHANGED <<bucket, requests, faults, aux>>

(* "wrong last sequence": read again, at most MaxTries times in all.       *)
NamesRetry(s) ==
  /\ srv[s].pc \in {"enlist_write", "unlist_write"}
  /\ srv[s].names.rev # nameSet.rev
  /\ srv[s].tries + 1 < MaxTries
  /\ Become(s, [srv[s] EXCEPT
       !.pc = IF @ = "enlist_write" THEN "enlist" ELSE "unlist",
       !.names = NoNames, !.tries = @ + 1])
  /\ UNCHANGED <<bucket, requests, faults, aux>>

(* The retries are used up, or an access to the name set failed.           *)
EnlistFails(s) ==
  /\ srv[s].pc \in {"enlist", "enlist_write"}
  /\ \/ /\ At(s, "enlist_write")
        /\ srv[s].names.rev # nameSet.rev
        /\ srv[s].tries + 1 = MaxTries
        /\ UNCHANGED faults
     \/ Fault
  /\ SetFailed(s)
  /\ broken' = broken \cup {Model(s)}
  /\ UNCHANGED <<bucket, requests, owed>>

UnlistFails(s) ==
  /\ srv[s].pc \in {"unlist", "unlist_write"}
  /\ \/ /\ At(s, "unlist_write")
        /\ srv[s].names.rev # nameSet.rev
        /\ srv[s].tries + 1 = MaxTries
        /\ UNCHANGED faults
     \/ Fault
  /\ Reply(s)
  /\ UNCHANGED <<bucket, requests, aux>>

(* ModelStorage::delete, second half: no revision is compared.             *)
Purge(s) ==
  LET m == Model(s)
  IN  /\ At(s, "purge")
      /\ lastSeq' = lastSeq + 1
      /\ kv' = [kv EXCEPT ![m] = [rev |-> lastSeq + 1, val |-> NoManifest]]
      /\ owed' = IF kv[m].val.deployed # NoVersion
                 THEN [owed EXCEPT ![m] = NoVersion] ELSE owed
      /\ Goto(s, "notify")
      /\ UNCHANGED <<nameSet, requests, faults, broken>>

PurgeFault(s) ==
  /\ At(s, "purge")
  /\ Fault
  /\ ReplyBroken(s)
  /\ UNCHANGED <<bucket, requests, owed>>
-----------------------------------------------------------------------------
(* ManifestNotifier: deploy announces the version it meant to store, the   *)
(* other handlers that nothing is deployed.                                *)
Note(s) == IF srv[s].req.op = "deploy" THEN srv[s].next.deployed ELSE NoVersion

Notify(s) ==
  /\ At(s, "notify")
  /\ owed' = [owed EXCEPT ![Model(s)] = IF @ = Note(s) THEN Settled ELSE @]
  /\ Reply(s)
  /\ UNCHANGED <<bucket, requests, faults, broken>>

NotifyFault(s) ==
  /\ At(s, "notify")
  /\ Fault
  /\ ReplyBroken(s)
  /\ UNCHANGED <<bucket, requests, owed>>

(* Any access before the store may fail: an error reply and nothing else.  *)
ReadFault(s) ==
  /\ srv[s].pc \in {"get", "list", "list_get", "check_get"}
  /\ Fault
  /\ Reply(s)
  /\ UNCHANGED <<bucket, requests, aux>>

Handle(s) ==
  \/ PutGet(s) \/ DeleteGet(s) \/ DeployGet(s) \/ UndeployGet(s)
  \/ ListNames(s) \/ ListGet(s) \/ ListDone(s)
  \/ CheckGet(s) \/ CheckPanics(s) \/ CheckDone(s) \/ ReadFault(s)
  \/ Store(s) \/ StoreConflict(s) \/ StoreFault(s)
  \/ Enlist(s) \/ EnlistWrite(s) \/ EnlistFails(s) \/ NamesRetry(s)
  \/ Unlist(s) \/ UnlistWrite(s) \/ UnlistFails(s)
  \/ Purge(s) \/ PurgeFault(s) \/ Notify(s) \/ NotifyFault(s)

Next == \E s \in Servers : Receive(s) \/ Handle(s)

Spec == Init /\ [][Next]_vars

(* Properties.                                                             *)

TypeOK ==
  /\ kv \in [Models -> Entry]
  /\ nameSet \in [rev : Nat, val : SUBSET Models]
  /\ lastSeq \in Nat
  /\ srv \in [Servers -> Server]
  /\ requests \in 0 .. MaxRequests
  /\ faults \in 0 .. MaxFaults
  /\ owed \in [Models -> Maybe \cup {Settled}]
  /\ broken \in SUBSET Models

WellFormed(man) ==
  /\ \A i, j \in DOMAIN man.versions :
       man.versions[i] = man.versions[j] => i = j
  /\ man.deployed \in VersionsIn(man) \cup {NoVersion}

(* What is deployed exists: no order of puts, deletes and deploys by any   *)
(* number of servers leaves a model whose deployed version is not one of   *)
(* its versions, or with a version twice (get_deployed would find nothing, *)
(* while deployed_version says that the application runs).                 *)
DeployedExists == \A m \in Models : WellFormed(kv[m].val)

(* A server that is going to update at the entry's present revision has    *)
(* computed the new manifest from the entry's present content: a revision  *)
(* check is as good as comparing the manifests (put, delete, deploy and    *)
(* undeploy rely on it for not undoing each other).                        *)
Reading == {"list", "list_get", "check_get", "store"}

RevisionIdentifiesManifest ==
  \A s \in Servers :
    (srv[s].pc \in Reading /\ srv[s].read.rev # 0) =>
      (srv[s].read.rev = kv[Model(s)].rev => srv[s].read.val = kv[Model(s)].val)

(* A stored version disappears in a step of a delete request for it, in    *)
(* the purge of its model, or when the first put of a model, which         *)
(* compares no revision, is one of several: in no other step of any server *)
Deletes(s, m, v) ==
  /\ Model(s) = m
  /\ \/ At(s, "store") /\ srv[s].req.op = "delete" /\ srv[s].req.version = v
     \/ At(s, "purge")

Creates(s, m) == Model(s) = m /\ At(s, "store") /\ srv[s].read.rev = 0

Busy(s) == ~At(s, "idle")

Disappears(m, v) == v \in VersionsIn(kv[m].val) /\ v \notin VersionsIn(kv'[m].val)

VersionsAreKept ==
  [][\A m \in Models, v \in Versions : Disappears(m, v) =>
       \E s \in Servers : Busy(s) /\ (Deletes(s, m, v) \/ Creates(s, m))]_kv

(* The name set does not forget a model: one that is stored is listed,     *)
(* unless a server is between the two halves of its set or delete, or one  *)
(* of those failed half-way (list, and the duplicate check of a deploy,    *)
(* see listed models only).                                                *)
LiveModelsAreListed ==
  \A m \in Models :
    Live(kv[m].val) /\ m \notin nameSet.val /\ m \notin broken =>
      \E s \in Servers : /\ srv[s].pc \in {"enlist", "enlist_write", "purge"}
                         /\ Model(s) = m

(* A change of the deployed version, by deploy, undeploy or delete, is     *)
(* always announced to the scalers afterwards: by the server that made it, *)
(* if it has not answered its client with an error.                        *)
WillNotify(s) ==
  \/ At(s, "notify")
  \/ srv[s].pc \in {"enlist", "enlist_write"} /\ srv[s].req.op # "put"

ChangesAreAnnounced ==
  \A m \in Models :
    owed[m] # Settled /\ m \notin broken =>
      \E s \in Servers : WillNotify(s) /\ Model(s) = m /\ Note(s) = owed[m]

(* Servers that read a manifest, compute the next and store it if the      *)
(* revision is the same do what ManifestStore does in one step, and no     *)
(* step of theirs changes what it does not: a request is handled as if it  *)
(* were the only one.                                                      *)
App(man) == [versions |-> VersionsIn(man), deployed |-> man.deployed]

Atomic == INSTANCE ManifestStore WITH app <- [m \in Models |-> App(kv[m].val)]

RequestsAreAtomic == Atomic!Spec

(* The inductive invariant behind the theorems of ModelApi_proofs.  The    *)
(* strengthening says what a server holds between its read and its store:  *)
(* revisions are never given out again, the manifest to be stored is well  *)
(* formed, and it drops no version of the manifest read but the one that a *)
(* delete asks for.                                                        *)
KvInv == \A m \in Models : WellFormed(kv[m].val) /\ kv[m].rev <= lastSeq

KeepsVersions(s) ==
  \A v \in VersionsIn(srv[s].read.val) :
    v \in VersionsIn(srv[s].next) \/ (srv[s].req.op = "delete" /\ srv[s].req.version = v)

ReadInv ==
  \A s \in Servers : srv[s].pc \in Reading =>
    /\ srv[s].read.rev <= lastSeq
    /\ srv[s].read.rev # 0 /\ srv[s].read.rev = kv[Model(s)].rev =>
         srv[s].read.val = kv[Model(s)].val
    /\ WellFormed(srv[s].next)
    /\ KeepsVersions(s)

BusyInv == \A s \in Servers : Busy(s) => srv[s].req \in Requests

IInv == TypeOK /\ KvInv /\ ReadInv /\ BusyInv

(* The promise of server/mod.rs: two clients that update one manifest do   *)
(* not overwrite each other (a version only disappears in a delete).       *)
NeverOverwritten ==
  [][\A m \in Models, v \in Versions : Disappears(m, v) =>
       \E s \in Servers : Busy(s) /\ Deletes(s, m, v)]_kv
=============================================================================
