-------------------------- MODULE ModelApi_proofs ---------------------------
(***************************************************************************)
(* Proofs about ModelApi, for every set of servers, models and versions:   *)
(* that it keeps its invariants, that it implements ManifestStore, and     *)
(* that what a stored change makes necessary is done.                      *)
(***************************************************************************)
EXTENDS ModelApi, TLAPS

(* What the edits of a manifest keep: its type, that its versions are      *)
(* distinct and that the deployed one is among them; and which versions    *)
(* they keep.                                                              *)
LEMMA AddVersionWellFormed ==
  ASSUME NEW man \in Manifest, WellFormed(man), NEW v \in Versions,
         v \notin VersionsIn(man)
  PROVE  /\ AddVersion(man, v) \in Manifest
         /\ WellFormed(AddVersion(man, v))
         /\ VersionsIn(man) \subseteq VersionsIn(AddVersion(man, v))
<1> DEFINE new == AddVersion(man, v)
<1>1. new \in Manifest /\ new.versions = Append(man.versions, v)
                       /\ new.deployed = man.deployed
  BY DEF AddVersion, Manifest
<1>2. \A i \in DOMAIN man.versions : new.versions[i] = man.versions[i]
  BY <1>1 DEF Manifest
<1>3. DOMAIN new.versions = 1 .. Len(man.versions) + 1
      /\ DOMAIN man.versions = 1 .. Len(man.versions)
      /\ new.versions[Len(man.versions) + 1] = v
      /\ Len(man.versions) \in Nat
  BY <1>1 DEF Manifest
<1>4. VersionsIn(man) \subseteq VersionsIn(new)
  BY <1>2, <1>3 DEF VersionsIn
<1>5. ASSUME NEW i \in DOMAIN new.versions, NEW j \in DOMAIN new.versions,
             new.versions[i] = new.versions[j]
      PROVE  i = j
  BY <1>2, <1>3, <1>5 DEF WellFormed, VersionsIn
<1> QED
  BY <1>1, <1>4, <1>5 DEF WellFormed

LEMMA WithoutFacts ==
  ASSUME NEW seq \in Seq(Versions), NEW v,
         \E i \in DOMAIN seq : seq[i] = v,
         \A i, j \in DOMAIN seq : seq[i] = seq[j] => i = j
  PROVE  /\ Without(seq, v) \in Seq(Versions)
         /\ \A i, j \in DOMAIN Without(seq, v) :
              Without(seq, v)[i] = Without(seq, v)[j] => i = j
         /\ \A i \in DOMAIN seq : seq[i] # v =>
              \E j \in DOMAIN Without(seq, v) : Without(seq, v)[j] = seq[i]
<1> DEFINE k == CHOOSE i \in DOMAIN seq : seq[i] = v
           new == [i \in 1 .. Len(seq) - 1 |-> IF i < k THEN seq[i] ELSE seq[i + 1]]
<1>1. k \in DOMAIN seq /\ seq[k] = v
  OBVIOUS
<1>2. Len(seq) \in Nat /\ DOMAIN seq = 1 .. Len(seq) /\ k \in 1 .. Len(seq)
  BY <1>1
<1> HIDE DEF k
<1>3. new \in Seq(Versions) /\ DOMAIN new = 1 .. Len(seq) - 1
  BY <1>2
<1>4. \A i, j \in DOMAIN new : new[i] = new[j] => i = j
  BY <1>2
<1>5. ASSUME NEW i \in DOMAIN seq, seq[i] # v
      PROVE  \E j \in DOMAIN new : new[j] = seq[i]
  <2>1. CASE i < k
    BY <2>1, <1>2, <1>3
  <2>2. CASE i > k
    <3>1. i - 1 \in DOMAIN new /\ new[i - 1] = seq[i]
      BY <2>2, <1>2, <1>3
    <3> QED
      BY <3>1
  <2> QED
    BY <2>1, <2>2, <1>1, <1>2, <1>5
<1>6. Without(seq, v) = new
  BY DEF Without, k
<1> HIDE DEF new
<1> QED
  BY <1>3, <1>4, <1>5, <1>6

LEMMA DeleteVersionWellFormed ==
  ASSUME NEW man \in Manifest, WellFormed(man), NEW v \in VersionsIn(man)
  PROVE  /\ DeleteVersion(man, v) \in Manifest
         /\ WellFormed(DeleteVersion(man, v))
         /\ VersionsIn(man) \ {v} \subseteq VersionsIn(DeleteVersion(man, v))
<1> DEFINE new == DeleteVersion(man, v)
<1>1. man.versions \in Seq(Versions) /\ man.deployed \in Maybe
  BY DEF Manifest
<1>2. \E i \in DOMAIN man.versions : man.versions[i] = v
  BY DEF VersionsIn
<1>3. /\ Without(man.versions, v) \in Seq(Versions)
      /\ \A i, j \in DOMAIN Without(man.versions, v) :
           Without(man.versions, v)[i] = Without(man.versions, v)[j] => i = j
      /\ \A i \in DOMAIN man.versions : man.versions[i] # v =>
           \E j \in DOMAIN Without(man.versions, v) :
             Without(man.versions, v)[j] = man.versions[i]
  <2> DEFINE seq == man.versions
  <2>1. seq \in Seq(Versions) /\ \E i \in DOMAIN seq : seq[i] = v
    BY <1>1, <1>2
  <2>2. \A i, j \in DOMAIN seq : seq[i] = seq[j] => i = j
    BY DEF WellFormed
  <2> HIDE DEF seq
  <2>3. /\ Without(seq, v) \in Seq(Versions)
        /\ \A i, j \in DOMAIN Without(seq, v) :
             Without(seq, v)[i] = Without(seq, v)[j] => i = j
        /\ \A i \in DOMAIN seq : seq[i] # v =>
             \E j \in DOMAIN Without(seq, v) : Without(seq, v)[j] = seq[i]
    BY <2>1, <2>2, WithoutFacts
  <2> QED
    BY <2>3 DEF seq
<1>4. new.versions = Without(man.versions, v)
      /\ new.deployed = IF man.deployed = v THEN NoVersion ELSE man.deployed
  BY DEF DeleteVersion
<1>5. new \in Manifest
  BY <1>1, <1>3 DEF DeleteVersion, Manifest, Maybe
<1>6. VersionsIn(man) \ {v} \subseteq VersionsIn(new)
  BY <1>3, <1>4 DEF VersionsIn
<1>7. new.deployed \in VersionsIn(new) \cup {NoVersion}
  BY <1>4, <1>6 DEF WellFormed
<1> QED
  BY <1>3, <1>4, <1>5, <1>6, <1>7 DEF WellFormed

LEMMA DeployWellFormed ==
  ASSUME NEW man \in Manifest, WellFormed(man), Live(man),
         NEW v \in VersionsIn(man) \cup {NoVersion}
  PROVE  /\ Deploy(man, Requested(man, v)) \in Manifest
         /\ WellFormed(Deploy(man, Requested(man, v)))
         /\ VersionsIn(Deploy(man, Requested(man, v))) = VersionsIn(man)
         /\ Requested(man, v) \in VersionsIn(man)
<1>1. man.versions \in Seq(Versions) /\ man.deployed \in Maybe
  BY DEF Manifest
<1>2. Len(man.versions) \in DOMAIN man.versions
  BY <1>1 DEF Live
<1>3. Requested(man, v) \in VersionsIn(man)
  BY <1>2 DEF Requested, CurrentVersion, VersionsIn
<1>4. VersionsIn(man) \subseteq Versions
  BY <1>1 DEF VersionsIn
<1> DEFINE new == Deploy(man, Requested(man, v))
<1>5. new.versions = man.versions /\ new.deployed = Requested(man, v)
      /\ new \in Manifest
  BY <1>1, <1>3, <1>4 DEF Deploy, Manifest, Maybe
<1> QED
  BY <1>3, <1>5 DEF WellFormed, VersionsIn

LEMMA UndeployWellFormed ==
  ASSUME NEW man \in Manifest, WellFormed(man)
  PROVE  /\ Undeploy(man) \in Manifest
         /\ WellFormed(Undeploy(man))
         /\ VersionsIn(Undeploy(man)) = VersionsIn(man)
BY DEF Undeploy, Manifest, WellFormed, VersionsIn, Maybe

LEMMA NoManifestWellFormed ==
  /\ NoManifest \in Manifest
  /\ WellFormed(NoManifest)
  /\ VersionsIn(NoManifest) = {}
BY DEF NoManifest, Manifest, Maybe, WellFormed, VersionsIn
-----------------------------------------------------------------------------
(* What the accesses of a handler give it, given the inductive invariant.  *)
LEMMA ReadFacts ==
  ASSUME IInv, NEW m \in Models
  PROVE  /\ Read(m) \in Entry
         /\ WellFormed(Read(m).val)
         /\ Read(m).rev <= lastSeq
         /\ Read(m).rev # 0 => Read(m) = kv[m]
<1>1. kv[m] \in Entry /\ WellFormed(kv[m].val) /\ kv[m].rev <= lastSeq
  BY DEF IInv, TypeOK, KvInv
<1>2. lastSeq \in Nat
  BY DEF IInv, TypeOK
<1> DEFINE none == [rev |-> 0, val |-> NoManifest]
<1>3. none \in Entry /\ none.val = NoManifest /\ none.rev = 0
  BY NoManifestWellFormed DEF Entry
<1>4. Read(m) = kv[m] \/ Read(m) = none
  BY DEF Read
<1> QED
  BY <1>1, <1>2, <1>3, <1>4, NoManifestWellFormed

LEMMA ServerFacts ==
  ASSUME IInv, NEW s \in Servers, Busy(s)
  PROVE  /\ srv[s] \in Server
         /\ srv[s].req \in Requests
         /\ Model(s) \in Models
         /\ srv[s].req.version \in Maybe
         /\ srv[s].req.op \in {"put", "delete", "deploy", "undeploy"}
         /\ srv[s].req.op = "put" => srv[s].req.version \in Versions
<1>1. srv[s] \in Server /\ srv[s].req \in Requests
  BY DEF IInv, TypeOK, BusyInv
<1> QED
  BY <1>1 DEF Requests, Model, Maybe

LEMMA FreshTyped ==
  /\ \A r \in Requests : Fresh(r) \in Server /\ Fresh(r).pc = "get" /\ Fresh(r).req = r
  /\ IdleServer \in Server
  /\ IdleServer.pc = "idle"
<1>1. NoNames \in [rev : Nat, val : SUBSET Models]
  BY DEF NoNames
<1>2. [rev |-> 0, val |-> NoManifest] \in Entry
  BY NoManifestWellFormed DEF Entry
<1>3. 0 \in 0 .. MaxTries - 1
  BY ModelApiAssumption
<1>4. \A r \in Requests \cup {NoRequest} : Fresh(r) \in Server
  BY <1>1, <1>2, <1>3, NoManifestWellFormed DEF Fresh, Server, PCs
<1> QED
  BY <1>4 DEF Fresh, IdleServer, Server, PCs
-----------------------------------------------------------------------------
(* What ReadInv says of one server, of a record rec it could hold.         *)
HoldsRead(rec) ==
  /\ rec.read.rev <= lastSeq
  /\ rec.read.rev # 0 /\ rec.read.rev = kv[rec.req.model].rev =>
       rec.read.val = kv[rec.req.model].val
  /\ WellFormed(rec.next)
  /\ \A v \in VersionsIn(rec.read.val) :
       v \in VersionsIn(rec.next) \/ (rec.req.op = "delete" /\ rec.req.version = v)

LEMMA HoldsReadIsReadInv ==
  ReadInv <=> \A s \in Servers : srv[s].pc \in Reading => HoldsRead(srv[s])
BY DEF ReadInv, HoldsRead, KeepsVersions, Model

(* A step of one server that does not touch the models' entries preserves  *)
(* the invariant if the server's new record satisfies its part of it.      *)
LEMMA LocalStep ==
  ASSUME IInv, NEW s \in Servers, NEW rec \in Server, Become(s, rec),
         kv' = kv, lastSeq' \in Nat, lastSeq' >= lastSeq,
         rec.pc # "idle" => rec.req \in Requests,
         rec.pc \in Reading => HoldsRead(rec)
  PROVE  /\ srv' \in [Servers -> Server]
         /\ KvInv' /\ ReadInv' /\ BusyInv'
<1>1. srv \in [Servers -> Server] /\ lastSeq \in Nat /\ kv \in [Models -> Entry]
  BY DEF IInv, TypeOK
<1>2. srv' = [srv EXCEPT ![s] = rec]
  BY DEF Become
<1>3. srv' \in [Servers -> Server] /\ srv'[s] = rec
      /\ \A t \in Servers : t # s => srv'[t] = srv[t]
  BY <1>1, <1>2
<1>4. KvInv'
  <2> SUFFICES ASSUME NEW m \in Models
               PROVE  WellFormed(kv[m].val)' /\ (kv[m].rev <= lastSeq)'
    BY DEF KvInv
  <2>1. WellFormed(kv[m].val) /\ kv[m].rev <= lastSeq /\ kv[m].rev \in Nat
    BY <1>1 DEF IInv, KvInv, Entry
  <2> QED
    BY <2>1, <1>1 DEF WellFormed, VersionsIn
<1>5. ASSUME NEW t \in Servers, srv'[t].pc \in Reading
      PROVE  HoldsRead(srv[t])'
  <2>1. HoldsRead(srv'[t])
    BY <1>3, <1>5, HoldsReadIsReadInv DEF IInv
  <2>2. srv'[t].read.rev \in Nat
    BY <1>3 DEF Server, Entry
  <2> QED
    BY <2>1, <2>2, <1>1 DEF HoldsRead, WellFormed, VersionsIn
<1>6. ReadInv'
  BY <1>5 DEF ReadInv, HoldsRead, KeepsVersions, Model
<1>7. BusyInv'
  BY <1>3 DEF IInv, BusyInv, Busy, At
<1> QED
  BY <1>3, <1>4, <1>6, <1>7
-----------------------------------------------------------------------------
(* The steps of a handler that only move it on, and its reply.             *)
LEMMA GotoStep ==
  ASSUME IInv, NEW s \in Servers, Busy(s), NEW pc \in PCs \ {"idle"},
         pc \in Reading => srv[s].pc \in Reading,
         Goto(s, pc), kv' = kv, lastSeq' \in Nat, lastSeq' >= lastSeq
  PROVE  /\ srv' \in [Servers -> Server]
         /\ KvInv' /\ ReadInv' /\ BusyInv'
<1> DEFINE rec == [srv[s] EXCEPT !.pc = pc]
<1>1. srv[s] \in Server /\ srv[s].req \in Requests
  BY ServerFacts
<1>2. /\ rec \in Server /\ rec.pc = pc /\ rec.req = srv[s].req
      /\ rec.read = srv[s].read /\ rec.next = srv[s].next
  BY <1>1 DEF Server
<1>3. rec.pc \in Reading => HoldsRead(rec)
  <2> SUFFICES ASSUME rec.pc \in Reading PROVE HoldsRead(rec)
    OBVIOUS
  <2>1. HoldsRead(srv[s])
    BY <1>2, HoldsReadIsReadInv DEF IInv
  <2> QED
    BY <2>1, <1>2 DEF HoldsRead
<1>4. Become(s, rec)
  BY DEF Goto
<1> HIDE DEF rec
<1> QED
  BY <1>1, <1>2, <1>3, <1>4, LocalStep

LEMMA ReplyStep ==
  ASSUME IInv, NEW s \in Servers, Reply(s),
         kv' = kv, lastSeq' \in Nat, lastSeq' >= lastSeq
  PROVE  /\ srv' \in [Servers -> Server]
         /\ KvInv' /\ ReadInv' /\ BusyInv'
<1>1. IdleServer \in Server /\ IdleServer.pc = "idle"
  BY FreshTyped
<1>2. Become(s, IdleServer)
  BY DEF Reply
<1>3. IdleServer.pc \notin Reading
  BY <1>1 DEF Reading
<1> QED
  BY <1>1, <1>2, <1>3, LocalStep

(* A get that leads to a store keeps what the store relies on.             *)
StartsFrom(s, pc, man) ==
  Become(s, [srv[s] EXCEPT !.pc = pc, !.read = Read(Model(s)), !.next = man])

LEMMA ReadingStep ==
  ASSUME IInv, NEW s \in Servers, Busy(s), NEW man \in Manifest,
         NEW pc \in Reading,
         WellFormed(man),
         \A v \in VersionsIn(Read(Model(s)).val) :
           v \in VersionsIn(man) \/ (srv[s].req.op = "delete" /\ srv[s].req.version = v),
         StartsFrom(s, pc, man),
         kv' = kv, lastSeq' \in Nat, lastSeq' >= lastSeq
  PROVE  /\ srv' \in [Servers -> Server]
         /\ KvInv' /\ ReadInv' /\ BusyInv'
<1> DEFINE entry == Read(Model(s))
           rec == [srv[s] EXCEPT !.pc = pc, !.read = entry, !.next = man]
<1>1. srv[s] \in Server /\ srv[s].req \in Requests /\ Model(s) \in Models
  BY ServerFacts
<1>2. /\ entry \in Entry /\ entry.rev <= lastSeq
      /\ entry.rev # 0 => entry = kv[Model(s)]
  BY <1>1, ReadFacts
<1>3. /\ rec \in Server /\ rec.pc = pc /\ rec.req = srv[s].req
      /\ rec.read = entry /\ rec.next = man
  BY <1>1, <1>2 DEF Server, Reading, PCs
<1> HIDE DEF rec
<1>4. HoldsRead(rec)
  BY <1>2, <1>3 DEF HoldsRead, Model
<1> QED
  BY <1>1, <1>3, <1>4, LocalStep DEF rec, StartsFrom

-----------------------------------------------------------------------------
(* The invariant's step, one lemma per group of actions.                   *)
LEMMA ReceiveStep ==
  ASSUME IInv, NEW s \in Servers, Receive(s)
  PROVE  /\ srv' \in [Servers -> Server]
         /\ KvInv' /\ ReadInv' /\ BusyInv'
<1>1. PICK r \in Requests : Become(s, Fresh(r))
  BY DEF Receive
<1>2. Fresh(r) \in Server /\ Fresh(r).pc = "get" /\ Fresh(r).req = r
  BY FreshTyped
<1>3. kv' = kv /\ lastSeq' = lastSeq /\ lastSeq \in Nat
  BY DEF Receive, bucket, IInv, TypeOK
<1> QED
  BY <1>1, <1>2, <1>3, LocalStep DEF Reading

LEMMA GetStep ==
  ASSUME IInv, NEW s \in Servers,
         PutGet(s) \/ DeleteGet(s) \/ DeployGet(s) \/ UndeployGet(s)
  PROVE  /\ srv' \in [Servers -> Server]
         /\ KvInv' /\ ReadInv' /\ BusyInv'
<1> DEFINE entry == Read(Model(s))
           v == srv[s].req.version
<1>1. kv' = kv /\ lastSeq' = lastSeq /\ lastSeq \in Nat /\ At(s, "get")
  BY DEF PutGet, DeleteGet, DeployGet, UndeployGet, bucket, IInv, TypeOK
<1>2. Busy(s)
  BY <1>1 DEF Busy, At
<1>3. /\ Model(s) \in Models /\ v \in Maybe
      /\ srv[s].req.op = "put" => v \in Versions
  BY <1>2, ServerFacts
<1>4. entry.val \in Manifest /\ WellFormed(entry.val)
  BY <1>3, ReadFacts DEF Entry
<1> HIDE DEF entry, v
<1>5. CASE Reply(s)
  BY <1>1, <1>5, ReplyStep
<1>6. CASE Goto(s, "notify") \/ Goto(s, "unlist")
  BY <1>1, <1>2, <1>6, GotoStep DEF PCs, Reading
<1>7. CASE /\ srv[s].req.op = "put" /\ v \notin VersionsIn(entry.val)
           /\ StartStore(s, entry, AddVersion(entry.val, v))
  <2>1. /\ AddVersion(entry.val, v) \in Manifest
        /\ WellFormed(AddVersion(entry.val, v))
        /\ VersionsIn(entry.val) \subseteq VersionsIn(AddVersion(entry.val, v))
    BY <1>3, <1>4, <1>7, AddVersionWellFormed
  <2>2. StartsFrom(s, "store", AddVersion(entry.val, v))
    BY <1>7 DEF StartsFrom, entry, StartStore
  <2> QED
    BY <1>1, <1>2, <1>7, <2>1, <2>2, ReadingStep DEF entry, Reading
<1>8. CASE /\ srv[s].req.op = "delete" /\ v \in VersionsIn(entry.val)
           /\ StartStore(s, entry, DeleteVersion(entry.val, v))
  <2>1. /\ DeleteVersion(entry.val, v) \in Manifest
        /\ WellFormed(DeleteVersion(entry.val, v))
        /\ VersionsIn(entry.val) \ {v} \subseteq VersionsIn(DeleteVersion(entry.val, v))
    BY <1>4, <1>8, DeleteVersionWellFormed
  <2>2. \A w \in VersionsIn(entry.val) :
          w \in VersionsIn(DeleteVersion(entry.val, v)) \/ v = w
    BY <2>1
  <2>3. StartsFrom(s, "store", DeleteVersion(entry.val, v))
    BY <1>8 DEF StartsFrom, entry, StartStore
  <2> QED
    BY <1>1, <1>2, <1>8, <2>1, <2>2, <2>3, ReadingStep DEF entry, Reading, v
<1>9. CASE /\ Live(entry.val) /\ v \in VersionsIn(entry.val) \cup {NoVersion}
           /\ Become(s, [srv[s] EXCEPT !.pc = "list", !.read = entry,
                           !.next = Deploy(entry.val, Requested(entry.val, v))])
  <2>1. /\ Deploy(entry.val, Requested(entry.val, v)) \in Manifest
        /\ WellFormed(Deploy(entry.val, Requested(entry.val, v)))
        /\ VersionsIn(Deploy(entry.val, Requested(entry.val, v))) = VersionsIn(entry.val)
    BY <1>4, <1>9, DeployWellFormed
  <2>2. StartsFrom(s, "list", Deploy(entry.val, Requested(entry.val, v)))
    BY <1>9 DEF StartsFrom, entry
  <2> QED
    BY <1>1, <1>2, <1>9, <2>1, <2>2, ReadingStep DEF entry, Reading
<1>10. CASE StartStore(s, entry, Undeploy(entry.val))
  <2>1. /\ Undeploy(entry.val) \in Manifest
        /\ WellFormed(Undeploy(entry.val))
        /\ VersionsIn(Undeploy(entry.val)) = VersionsIn(entry.val)
    BY <1>4, UndeployWellFormed
  <2>2. StartsFrom(s, "store", Undeploy(entry.val))
    BY <1>10 DEF StartsFrom, entry, StartStore
  <2> QED
    BY <1>1, <1>2, <1>10, <2>1, <2>2, ReadingStep DEF entry, Reading
<1>11. CASE PutGet(s)
  BY <1>5, <1>7, <1>11 DEF PutGet, entry, v
<1>12. CASE DeleteGet(s)
  <2>1. DeleteGet(s) =>
          \/ Goto(s, "notify") \/ Goto(s, "unlist")
          \/ /\ v \in VersionsIn(entry.val) /\ srv[s].req.op = "delete"
             /\ StartStore(s, entry, DeleteVersion(entry.val, v))
    BY DEF DeleteGet, entry, v
  <2> QED
    BY <1>6, <1>8, <1>12, <2>1
<1>13. CASE DeployGet(s)
  BY <1>5, <1>9, <1>13 DEF DeployGet, entry, v
<1>14. CASE UndeployGet(s)
  BY <1>5, <1>6, <1>10, <1>14 DEF UndeployGet, entry
<1> QED
  BY <1>11, <1>12, <1>13, <1>14

(* The checks of a deploy keep the entry read and the manifest to store.   *)
LEMMA CheckStep ==
  ASSUME IInv, NEW s \in Servers,
         \/ ListNames(s) \/ ListGet(s) \/ ListDone(s)
         \/ CheckGet(s) \/ CheckPanics(s) \/ CheckDone(s)
  PROVE  /\ srv' \in [Servers -> Server]
         /\ KvInv' /\ ReadInv' /\ BusyInv'
<1>1. kv' = kv /\ lastSeq' = lastSeq /\ lastSeq \in Nat /\ nameSet.val \in SUBSET Models
  BY DEF ListNames, ListGet, ListDone, CheckGet, CheckPanics, CheckDone,
         bucket, IInv, TypeOK
<1>2. Busy(s) /\ srv[s].pc \in Reading
  BY DEF ListNames, ListGet, ListDone, CheckGet, CheckPanics, CheckDone,
         Busy, At, Reading
<1>3. srv[s] \in Server /\ srv[s].req \in Requests
  BY <1>2, ServerFacts
<1>4. ASSUME NEW rec \in Server, Become(s, rec), rec.req = srv[s].req,
             rec.read = srv[s].read, rec.next = srv[s].next
      PROVE  /\ srv' \in [Servers -> Server]
             /\ KvInv' /\ ReadInv' /\ BusyInv'
  <2>1. HoldsRead(srv[s])
    BY <1>2, HoldsReadIsReadInv DEF IInv
  <2>2. HoldsRead(rec)
    BY <2>1, <1>4 DEF HoldsRead
  <2> QED
    BY <1>1, <1>3, <1>4, <2>2, LocalStep
<1>5. CASE ListNames(s)
  <2> DEFINE rec == [srv[s] EXCEPT !.pc = "list_get", !.todo = nameSet.val]
  <2>1. /\ rec \in Server /\ rec.req = srv[s].req
        /\ rec.read = srv[s].read /\ rec.next = srv[s].next
    BY <1>1, <1>3 DEF Server, PCs
  <2>2. Become(s, rec)
    BY <1>5 DEF ListNames
  <2> HIDE DEF rec
  <2> QED
    BY <1>4, <2>1, <2>2
<1>6. CASE ListGet(s)
  <2>1. PICK m \in srv[s].todo, apps \in SUBSET Models, shared \in SUBSET Models :
          Become(s, [srv[s] EXCEPT !.todo = @ \ {m}, !.apps = apps, !.shared = shared])
    <3>1. srv[s].apps \in SUBSET Models /\ srv[s].shared \in SUBSET Models
          /\ srv[s].todo \in SUBSET Models
      BY <1>3 DEF Server
    <3> QED
      BY <1>6, <3>1 DEF ListGet
  <2> DEFINE rec == [srv[s] EXCEPT !.todo = @ \ {m}, !.apps = apps, !.shared = shared]
  <2>2. /\ rec \in Server /\ rec.req = srv[s].req
        /\ rec.read = srv[s].read /\ rec.next = srv[s].next
    BY <1>3 DEF Server
  <2>3. Become(s, rec)
    BY <2>1
  <2> HIDE DEF rec
  <2> QED
    BY <1>4, <2>2, <2>3
<1>7. CASE ListDone(s)
  <2> DEFINE rec == [srv[s] EXCEPT !.pc = "check_get", !.todo = srv[s].apps]
  <2>1. /\ rec \in Server /\ rec.req = srv[s].req
        /\ rec.read = srv[s].read /\ rec.next = srv[s].next
    BY <1>3 DEF Server, PCs
  <2>2. Become(s, rec)
    BY <1>7 DEF ListDone
  <2> HIDE DEF rec
  <2> QED
    BY <1>4, <2>1, <2>2
<1>8. CASE CheckGet(s)
  <2>1. PICK m \in srv[s].todo, ids \in SUBSET Ids :
          Become(s, [srv[s] EXCEPT !.todo = @ \ {m}, !.ids = ids])
    <3>1. PICK m \in srv[s].todo :
            /\ Live(Read(m).val)
            /\ Become(s, [srv[s] EXCEPT !.todo = @ \ {m},
                 !.ids = @ \cup (IF m # Model(s) /\ Read(m).val.deployed # NoVersion
                                 THEN IdsOf[<<m, Read(m).val.deployed>>] ELSE {})])
      BY <1>8 DEF CheckGet
    <3>2. m \in Models /\ srv[s].ids \in SUBSET Ids
      BY <1>3 DEF Server
    <3>3. Read(m).val.deployed \in Versions \cup {NoVersion}
      BY <3>2, ReadFacts DEF Entry, Manifest, Maybe
    <3>4. Read(m).val.deployed # NoVersion => IdsOf[<<m, Read(m).val.deployed>>] \in SUBSET Ids
      BY <3>2, <3>3, ModelApiAssumption
    <3> QED
      BY <3>1, <3>2, <3>4
  <2> DEFINE rec == [srv[s] EXCEPT !.todo = @ \ {m}, !.ids = ids]
  <2>2. /\ rec \in Server /\ rec.req = srv[s].req
        /\ rec.read = srv[s].read /\ rec.next = srv[s].next
    BY <1>3 DEF Server
  <2>3. Become(s, rec)
    BY <2>1
  <2> HIDE DEF rec
  <2> QED
    BY <1>4, <2>2, <2>3
<1>9. CASE CheckPanics(s)
  BY <1>1, <1>2, <1>9, GotoStep DEF CheckPanics, PCs, Reading
<1>10. CASE CheckDone(s)
  <2>1. Goto(s, "store") \/ Reply(s)
    BY <1>10 DEF CheckDone
  <2> QED
    BY <1>1, <1>2, <2>1, GotoStep, ReplyStep DEF PCs, Reading
<1> QED
  BY <1>5, <1>6, <1>7, <1>8, <1>9, <1>10


(* The other steps that leave the models' entries alone.                   *)
LEMMA RestStep ==
  ASSUME IInv, NEW s \in Servers,
         \/ StoreConflict(s) \/ StoreFault(s) \/ ReadFault(s)
         \/ Enlist(s) \/ EnlistWrite(s) \/ EnlistFails(s) \/ NamesRetry(s)
         \/ Unlist(s) \/ UnlistWrite(s) \/ UnlistFails(s)
         \/ PurgeFault(s) \/ Notify(s) \/ NotifyFault(s)
  PROVE  /\ srv' \in [Servers -> Server]
         /\ KvInv' /\ ReadInv' /\ BusyInv'
         /\ kv' = kv /\ lastSeq' \in Nat
         /\ nameSet' \in [rev : Nat, val : SUBSET Models]
<1>1. Busy(s)
  BY DEF StoreConflict, StoreFault, ReadFault, Enlist, EnlistWrite, EnlistFails, NamesRetry,
         Unlist, UnlistWrite, UnlistFails, PurgeFault, Notify, NotifyFault, Busy, At
<1>2. srv[s] \in Server /\ srv[s].req \in Requests /\ Model(s) \in Models
  BY <1>1, ServerFacts
<1>3. lastSeq \in Nat /\ nameSet \in [rev : Nat, val : SUBSET Models]
  BY DEF IInv, TypeOK
<1>4. srv[s].names.val \in SUBSET Models
  BY <1>2 DEF Server
<1>5. /\ kv' = kv /\ lastSeq' \in Nat /\ lastSeq' >= lastSeq
      /\ nameSet' \in [rev : Nat, val : SUBSET Models]
  <2>1. CASE EnlistWrite(s)
    BY <2>1, <1>2, <1>3, <1>4 DEF EnlistWrite, UpdateNames
  <2>2. CASE UnlistWrite(s)
    BY <2>2, <1>2, <1>3, <1>4 DEF UnlistWrite, UpdateNames
  <2>3. CASE ~EnlistWrite(s) /\ ~UnlistWrite(s)
    <3>1. UNCHANGED bucket
      BY <2>3 DEF StoreConflict, StoreFault, ReadFault, Enlist, EnlistFails, NamesRetry,
                  Unlist, UnlistFails, PurgeFault, Notify, NotifyFault
    <3> QED
      BY <3>1, <1>3 DEF bucket
  <2> QED
    BY <2>1, <2>2, <2>3
<1>6. CASE Reply(s)
  BY <1>5, <1>6, ReplyStep
<1>7. CASE Goto(s, "notify") \/ Goto(s, "purge")
  BY <1>1, <1>5, <1>7, GotoStep DEF PCs, Reading
<1>8. CASE ReadNames(s, "enlist_write") \/ ReadNames(s, "unlist_write")
  <2>1. PICK pc \in {"enlist_write", "unlist_write"} : ReadNames(s, pc)
    BY <1>8
  <2> DEFINE rec == [srv[s] EXCEPT !.pc = pc, !.names = nameSet]
  <2>2. rec \in Server /\ rec.req = srv[s].req /\ rec.pc = pc
    BY <1>2, <1>3 DEF Server, PCs
  <2>3. Become(s, rec)
    BY <2>1 DEF ReadNames
  <2> HIDE DEF rec
  <2> QED
    BY <1>2, <1>5, <2>2, <2>3, LocalStep DEF Reading
<1>9. CASE NamesRetry(s)
  <2>1. NoNames \in [rev : Nat, val : SUBSET Models]
    BY DEF NoNames
  <2>2. PICK pc \in {"enlist", "unlist"}, n \in 0 .. MaxTries - 1 :
          Become(s, [srv[s] EXCEPT !.pc = pc, !.names = NoNames, !.tries = n])
    <3>1. srv[s].tries + 1 \in 0 .. MaxTries - 1
      BY <1>2, <1>9, ModelApiAssumption DEF Server, NamesRetry
    <3> QED
      BY <1>9, <3>1 DEF NamesRetry
  <2> DEFINE rec == [srv[s] EXCEPT !.pc = pc, !.names = NoNames, !.tries = n]
  <2>3. rec \in Server /\ rec.req = srv[s].req /\ rec.pc = pc
    BY <1>2, <2>1 DEF Server, PCs
  <2>4. Become(s, rec)
    BY <2>2
  <2> HIDE DEF rec
  <2> QED
    BY <1>2, <1>5, <2>3, <2>4, LocalStep DEF Reading
<1>10. \/ Reply(s) \/ Goto(s, "notify") \/ Goto(s, "purge") \/ NamesRetry(s)
       \/ ReadNames(s, "enlist_write") \/ ReadNames(s, "unlist_write")
  BY DEF StoreConflict, StoreFault, ReadFault, Enlist, EnlistWrite, EnlistFails, Unlist,
         UnlistWrite, UnlistFails, PurgeFault, Notify, NotifyFault,
         SetFailed, Enlisted, ReplyBroken
<1> QED
  BY <1>5, <1>6, <1>7, <1>8, <1>9, <1>10

(* A write of a model's entry has a revision that no server has read.      *)
LEMMA WriteStep ==
  ASSUME IInv, NEW s \in Servers, Store(s) \/ Purge(s)
  PROVE  /\ srv' \in [Servers -> Server]
         /\ KvInv' /\ ReadInv' /\ BusyInv'
         /\ kv' \in [Models -> Entry] /\ lastSeq' \in Nat
<1> DEFINE m == Model(s)
<1>1. Busy(s)
  BY DEF Store, Purge, Busy, At
<1>2. srv[s] \in Server /\ srv[s].req \in Requests /\ m \in Models
  BY <1>1, ServerFacts
<1>3. lastSeq \in Nat /\ kv \in [Models -> Entry] /\ srv \in [Servers -> Server]
  BY DEF IInv, TypeOK
<1>4. PICK man \in Manifest, pc \in {"enlist", "notify"} :
        /\ WellFormed(man)
        /\ kv' = [kv EXCEPT ![m] = [rev |-> lastSeq + 1, val |-> man]]
        /\ Goto(s, pc)
  <2>1. CASE Store(s)
    <3>1. srv[s].next \in Manifest
      BY <1>2 DEF Server
    <3>2. WellFormed(srv[s].next)
      BY <2>1 DEF Store, At, IInv, ReadInv, Reading
    <3> QED
      BY <2>1, <3>1, <3>2 DEF Store
  <2>2. CASE Purge(s)
    BY <2>2, NoManifestWellFormed DEF Purge
  <2> QED
    BY <2>1, <2>2
<1> HIDE DEF m
<1>5. lastSeq' = lastSeq + 1
  BY DEF Store, Purge
<1>6. [rev |-> lastSeq + 1, val |-> man] \in Entry
  BY <1>3, <1>4 DEF Entry
<1>7. /\ kv' \in [Models -> Entry]
      /\ kv'[m].rev = lastSeq + 1 /\ kv'[m].val = man
      /\ \A n \in Models : n # m => kv'[n] = kv[n]
  BY <1>2, <1>3, <1>4, <1>6
<1>8. /\ srv' \in [Servers -> Server]
      /\ srv'[s].pc = pc /\ srv'[s].req = srv[s].req
      /\ \A t \in Servers : t # s => srv'[t] = srv[t]
  <2> DEFINE rec == [srv[s] EXCEPT !.pc = pc]
  <2>1. rec \in Server /\ rec.pc = pc /\ rec.req = srv[s].req
    BY <1>2 DEF Server, PCs
  <2>2. srv' = [srv EXCEPT ![s] = rec]
    BY <1>4 DEF Goto, Become
  <2> HIDE DEF rec
  <2> QED
    BY <1>3, <2>1, <2>2
<1>9. KvInv'
  <2> SUFFICES ASSUME NEW n \in Models
               PROVE  WellFormed(kv[n].val)' /\ (kv[n].rev <= lastSeq)'
    BY DEF KvInv
  <2>1. CASE n = m
    BY <2>1, <1>3, <1>4, <1>5, <1>7 DEF WellFormed, VersionsIn
  <2>2. CASE n # m
    <3>1. WellFormed(kv[n].val) /\ kv[n].rev <= lastSeq /\ kv[n].rev \in Nat
      BY <1>3 DEF IInv, KvInv, Entry
    <3> QED
      BY <2>2, <3>1, <1>3, <1>5, <1>7 DEF WellFormed, VersionsIn
  <2> QED
    BY <2>1, <2>2
<1>10. ASSUME NEW t \in Servers, srv'[t].pc \in Reading
       PROVE  HoldsRead(srv[t])'
  <2>1. t # s /\ srv'[t] = srv[t]
    BY <1>4, <1>8, <1>10 DEF Reading
  <2>2. HoldsRead(srv[t])
    BY <2>1, <1>10, HoldsReadIsReadInv DEF IInv
  <2>3. srv[t].read.rev \in Nat /\ Model(t) \in Models /\ srv[t].req.model = Model(t)
    <3>1. Busy(t)
      BY <2>1, <1>10 DEF Reading, Busy, At
    <3> QED
      BY <3>1, <1>3, ServerFacts DEF Server, Entry, Model
  <2>4. srv[t].read.rev <= lastSeq
    BY <2>2 DEF HoldsRead
  <2>5. srv[t].read.rev # 0 /\ srv[t].read.rev = kv'[Model(t)].rev =>
          srv[t].read.val = kv'[Model(t)].val
    <3>1. CASE Model(t) = m
      BY <3>1, <2>3, <2>4, <1>3, <1>7
    <3>2. CASE Model(t) # m
      BY <3>2, <2>2, <2>3, <1>7 DEF HoldsRead
    <3> QED
      BY <3>1, <3>2
  <2> QED
    BY <2>1, <2>2, <2>3, <2>4, <2>5, <1>3, <1>5 DEF HoldsRead, WellFormed, VersionsIn
<1>11. ReadInv'
  BY <1>10 DEF ReadInv, HoldsRead, KeepsVersions, Model
<1>12. BusyInv'
  BY <1>2, <1>8 DEF IInv, BusyInv, Busy, At
<1> QED
  BY <1>3, <1>5, <1>7, <1>8, <1>9, <1>11, <1>12

-----------------------------------------------------------------------------
LEMMA InitIInv == Init => IInv
<1> SUFFICES ASSUME Init PROVE IInv
  OBVIOUS
<1>1. IdleServer \in Server /\ IdleServer.pc = "idle"
  BY FreshTyped
<1>2. \A s \in Servers : srv[s] = IdleServer
  BY DEF Init
<1>3. [rev |-> 0, val |-> NoManifest] \in Entry
  BY NoManifestWellFormed DEF Entry
<1>4. TypeOK
  <2>1. MaxRequests \in Nat /\ MaxFaults \in Nat
    BY ModelApiAssumption
  <2> QED
    BY <1>1, <1>3, <2>1 DEF Init, TypeOK, NoNames
<1>5. KvInv
  BY NoManifestWellFormed DEF Init, KvInv
<1>6. ReadInv
  BY <1>1, <1>2 DEF ReadInv, Reading
<1>7. BusyInv
  BY <1>1, <1>2 DEF BusyInv, Busy, At
<1> QED
  BY <1>4, <1>5, <1>6, <1>7 DEF IInv

LEMMA NextIInv == IInv /\ [Next]_vars => IInv'
<1> SUFFICES ASSUME IInv, [Next]_vars PROVE IInv'
  OBVIOUS
<1>1. CASE UNCHANGED vars
  <2>1. /\ kv' = kv /\ nameSet' = nameSet /\ lastSeq' = lastSeq /\ srv' = srv
        /\ requests' = requests /\ faults' = faults /\ owed' = owed /\ broken' = broken
    BY <1>1 DEF vars, bucket, aux
  <2>2. TypeOK'
    BY <2>1 DEF IInv, TypeOK
  <2>3. KvInv'
    BY <2>1 DEF IInv, KvInv
  <2>4. ReadInv'
    BY <2>1 DEF IInv, ReadInv, KeepsVersions, Model
  <2>5. BusyInv'
    BY <2>1 DEF IInv, BusyInv, Busy, At
  <2> QED
    BY <2>2, <2>3, <2>4, <2>5 DEF IInv
<1>2. CASE Next
  <2>1. PICK s \in Servers : Receive(s) \/ Handle(s)
    BY <1>2 DEF Next
  <2> DEFINE Local == \/ Receive(s)
                      \/ PutGet(s) \/ DeleteGet(s) \/ DeployGet(s) \/ UndeployGet(s)
                      \/ ListNames(s) \/ ListGet(s) \/ ListDone(s)
                      \/ CheckGet(s) \/ CheckPanics(s) \/ CheckDone(s)
             Rest == \/ StoreConflict(s) \/ StoreFault(s) \/ ReadFault(s)
                     \/ Enlist(s) \/ EnlistWrite(s) \/ EnlistFails(s) \/ NamesRetry(s)
                     \/ Unlist(s) \/ UnlistWrite(s) \/ UnlistFails(s)
                     \/ PurgeFault(s) \/ Notify(s) \/ NotifyFault(s)
             Write == Store(s) \/ Purge(s)
  <2>2. Local \/ Rest \/ Write
    BY <2>1 DEF Handle
  <2>3. /\ kv \in [Models -> Entry] /\ nameSet \in [rev : Nat, val : SUBSET Models]
        /\ lastSeq \in Nat /\ requests \in 0 .. MaxRequests /\ faults \in 0 .. MaxFaults
        /\ owed \in [Models -> Maybe \cup {Settled}] /\ broken \in SUBSET Models
    BY DEF IInv, TypeOK
  <2>4. /\ srv' \in [Servers -> Server] /\ KvInv' /\ ReadInv' /\ BusyInv'
        /\ kv' \in [Models -> Entry] /\ lastSeq' \in Nat
        /\ nameSet' \in [rev : Nat, val : SUBSET Models]
    <3>1. CASE Local
      <4>1. UNCHANGED bucket
        BY <3>1 DEF Receive, PutGet, DeleteGet, DeployGet, UndeployGet, ListNames,
                    ListGet, ListDone, CheckGet, CheckPanics, CheckDone
      <4> QED
        BY <3>1, <4>1, <2>3, ReceiveStep, GetStep, CheckStep DEF bucket
    <3>2. CASE Rest
      BY <3>2, <2>3, RestStep
    <3>3. CASE Write
      <4>1. nameSet' = nameSet
        BY <3>3 DEF Store, Purge
      <4> QED
        BY <3>3, <4>1, <2>3, WriteStep
    <3> QED
      BY <2>2, <3>1, <3>2, <3>3
  <2>5. requests' \in 0 .. MaxRequests /\ faults' \in 0 .. MaxFaults
    <3>1. requests' = requests \/ (requests < MaxRequests /\ requests' = requests + 1)
      BY <2>2 DEF Receive, PutGet, DeleteGet, DeployGet, UndeployGet, ListNames,
           ListGet, ListDone, CheckGet, CheckPanics, CheckDone, StoreConflict,
           StoreFault, ReadFault, Enlist, EnlistWrite, EnlistFails, NamesRetry, Unlist,
           UnlistWrite, UnlistFails, PurgeFault, Notify, NotifyFault, Store, Purge
    <3>2. faults' = faults \/ (faults < MaxFaults /\ faults' = faults + 1)
      BY <2>2 DEF Receive, PutGet, DeleteGet, DeployGet, UndeployGet, ListNames,
           ListGet, ListDone, CheckGet, CheckPanics, CheckDone, StoreConflict,
           StoreFault, ReadFault, Enlist, EnlistWrite, EnlistFails, NamesRetry, Unlist,
           UnlistWrite, UnlistFails, PurgeFault, Notify, NotifyFault, Store, Purge,
           Fault
    <3>3. MaxRequests \in Nat /\ MaxFaults \in Nat
      BY ModelApiAssumption
    <3> QED
      BY <3>1, <3>2, <3>3, <2>3
  <2>6. owed' \in [Models -> Maybe \cup {Settled}] /\ broken' \in SUBSET Models
    <3>1. CASE Local
      BY <3>1, <2>3 DEF Receive, PutGet, DeleteGet, DeployGet, UndeployGet,
           ListNames, ListGet, ListDone, CheckGet, CheckPanics, CheckDone, aux
    <3>2. CASE Rest \/ Write
      <4>1. Busy(s)
        BY <3>2 DEF StoreConflict, StoreFault, ReadFault, Enlist, EnlistWrite, EnlistFails,
             NamesRetry, Unlist, UnlistWrite, UnlistFails, PurgeFault, Notify,
             NotifyFault, Store, Purge, Busy, At
      <4>2. Model(s) \in Models /\ srv[s].next.deployed \in Maybe
        BY <4>1, ServerFacts DEF Server, Manifest
      <4>3. broken' = broken \/ broken' = broken \cup {Model(s)}
        BY <3>2 DEF StoreConflict, StoreFault, ReadFault, Enlist, EnlistWrite, EnlistFails,
             NamesRetry, Unlist, UnlistWrite, UnlistFails, PurgeFault, Notify,
             NotifyFault, Store, Purge, ReplyBroken, aux
      <4>4. \/ owed' = owed
            \/ \E o \in Maybe \cup {Settled} : owed' = [owed EXCEPT ![Model(s)] = o]
        <5>1. CASE Store(s)
          BY <5>1, <4>2 DEF Store
        <5>2. CASE Purge(s)
          BY <5>2, <4>2 DEF Purge, Maybe
        <5>3. CASE Notify(s)
          BY <5>3, <4>2, <2>3 DEF Notify
        <5>4. CASE ~Store(s) /\ ~Purge(s) /\ ~Notify(s)
          BY <5>4, <3>2 DEF StoreConflict, StoreFault, ReadFault, Enlist, EnlistWrite,
               EnlistFails, NamesRetry, Unlist, UnlistWrite, UnlistFails,
               PurgeFault, NotifyFault, aux
        <5> QED
          BY <5>1, <5>2, <5>3, <5>4
      <4> QED
        BY <4>2, <4>3, <4>4, <2>3
    <3> QED
      BY <2>2, <3>1, <3>2
  <2> QED
    BY <2>4, <2>5, <2>6 DEF IInv, TypeOK
<1> QED
  BY <1>1, <1>2

(* The inductive invariant holds of every reachable state.                 *)
THEOREM Invariance == Spec => []IInv
BY InitIInv, NextIInv, PTL DEF Spec

(* Every reachable state is well typed.                                    *)
THEOREM TypeCorrect == Spec => []TypeOK
<1>1. IInv => TypeOK
  BY DEF IInv
<1> QED
  BY <1>1, Invariance, PTL

(* Whatever the servers do, and however their accesses interleave, the     *)
(* deployed version of a model is one of its versions, and no version of a *)
(* model is stored twice.                                                  *)
THEOREM DeployedExistsAlways == Spec => []DeployedExists
<1>1. IInv => DeployedExists
  BY DEF IInv, KvInv, DeployedExists
<1> QED
  BY <1>1, Invariance, PTL

(* An update accepted at a revision was computed from the entry's present  *)
(* content: comparing revisions is as good as comparing manifests.         *)
THEOREM RevisionsIdentify == Spec => []RevisionIdentifiesManifest
<1>1. IInv => RevisionIdentifiesManifest
  BY DEF IInv, ReadInv, RevisionIdentifiesManifest
<1> QED
  BY <1>1, Invariance, PTL

(* No step loses a stored version but those that are asked to, and the     *)
(* first put of a model, which overwrites what another first put stored.   *)
THEOREM VersionsKept == Spec => VersionsAreKept
<1> DEFINE Kept == \A m \in Models, v \in Versions : Disappears(m, v) =>
                     \E s \in Servers : Busy(s) /\ (Deletes(s, m, v) \/ Creates(s, m))
<1>1. IInv /\ [Next]_vars => [Kept]_kv
  <2> SUFFICES ASSUME IInv, [Next]_vars, kv' # kv,
                      NEW m \in Models, NEW v \in Versions, Disappears(m, v)
               PROVE  \E s \in Servers : Busy(s) /\ (Deletes(s, m, v) \/ Creates(s, m))
    OBVIOUS
  <2>1. PICK s \in Servers : Store(s) \/ Purge(s)
    <3>1. Next
      BY DEF vars, bucket
    <3>2. PICK s \in Servers : Receive(s) \/ Handle(s)
      BY <3>1 DEF Next
    <3>3. kv' = kv \/ Store(s) \/ Purge(s)
      BY <3>2 DEF Handle, bucket, Receive, PutGet, DeleteGet, DeployGet, UndeployGet,
           ListNames, ListGet, ListDone, CheckGet, CheckPanics, CheckDone,
           StoreConflict, StoreFault, ReadFault, Enlist, EnlistWrite, EnlistFails, NamesRetry,
           Unlist, UnlistWrite, UnlistFails, PurgeFault, Notify, NotifyFault,
           UpdateNames
    <3> QED
      BY <3>2, <3>3
  <2>2. Busy(s)
    BY <2>1 DEF Store, Purge, Busy, At
  <2>3. srv[s] \in Server /\ Model(s) \in Models /\ kv \in [Models -> Entry]
    BY <2>2, ServerFacts DEF IInv, TypeOK
  <2>4. Model(s) = m
    BY <2>1, <2>3 DEF Store, Purge, Disappears
  <2>5. CASE Purge(s)
    BY <2>2, <2>4, <2>5 DEF Purge, Deletes
  <2>6. CASE Store(s)
    <3>1. CASE srv[s].read.rev = 0
      BY <2>2, <2>4, <2>6, <3>1 DEF Store, Creates
    <3>2. CASE srv[s].read.rev # 0
      <4>1. srv[s].read.val = kv[m].val /\ KeepsVersions(s) /\ kv'[m].val = srv[s].next
        BY <2>3, <2>4, <2>6, <3>2 DEF Store, CanStore, IInv, ReadInv, Reading, At
      <4>2. srv[s].req.op = "delete" /\ srv[s].req.version = v
        BY <4>1 DEF KeepsVersions, Disappears
      <4> QED
        BY <2>2, <2>4, <2>6, <4>2 DEF Deletes, Store
    <3> QED
      BY <3>1, <3>2
  <2> QED
    BY <2>1, <2>5, <2>6
<1> QED
  BY <1>1, Invariance, PTL DEF Spec, VersionsAreKept

-----------------------------------------------------------------------------
(* ModelApi implements ManifestStore: what the servers do to the bucket is *)
(* a sequence of atomic requests.                                          *)
apps == [m \in Models |-> App(kv[m].val)]

(* What a server that is about to store has staged: the request applied to *)
(* the manifest it has read.  Only a put works on a model that is missing. *)
StagedPut(rec) ==
  /\ rec.req.op = "put"
  /\ rec.req.version \notin VersionsIn(rec.read.val)
  /\ rec.next = AddVersion(rec.read.val, rec.req.version)
  /\ rec.read.rev = 0 => rec.read.val = NoManifest

StagedDelete(rec) ==
  /\ rec.read.rev # 0
  /\ rec.req.op = "delete"
  /\ rec.req.version \in VersionsIn(rec.read.val)
  /\ rec.next = DeleteVersion(rec.read.val, rec.req.version)

StagedDeploy(rec) ==
  /\ rec.read.rev # 0
  /\ rec.req.op = "deploy"
  /\ \E v \in VersionsIn(rec.read.val) : rec.next = Deploy(rec.read.val, v)

StagedUndeploy(rec) ==
  /\ rec.read.rev # 0
  /\ rec.req.op = "undeploy"
  /\ rec.next = Undeploy(rec.read.val)

StagedFor(rec) ==
  StagedPut(rec) \/ StagedDelete(rec) \/ StagedDeploy(rec) \/ StagedUndeploy(rec)

Staged == \A s \in Servers : srv[s].pc \in Reading => StagedFor(srv[s])

(* A revision of 0 means that there is no manifest.                        *)
Numbered == \A m \in Models : Live(kv[m].val) => kv[m].rev # 0

AInv == IInv /\ Numbered /\ Staged
-----------------------------------------------------------------------------
(* What the edits of a manifest do to the application.                     *)
LEMMA AppOfPut ==
  ASSUME NEW man \in Manifest, NEW v \in Versions
  PROVE  App(AddVersion(man, v)) =
           [versions |-> VersionsIn(man) \cup {v}, deployed |-> man.deployed]
<1> DEFINE new == AddVersion(man, v)
<1>1. new.versions = Append(man.versions, v) /\ new.deployed = man.deployed
  BY DEF AddVersion, Manifest
<1>2. /\ DOMAIN man.versions = 1 .. Len(man.versions) /\ Len(man.versions) \in Nat
      /\ DOMAIN new.versions = 1 .. Len(man.versions) + 1
      /\ new.versions[Len(man.versions) + 1] = v
      /\ \A i \in DOMAIN man.versions : new.versions[i] = man.versions[i]
  BY <1>1 DEF Manifest
<1>3. VersionsIn(new) = VersionsIn(man) \cup {v}
  <2>1. ASSUME NEW i \in DOMAIN new.versions PROVE new.versions[i] \in VersionsIn(man) \cup {v}
    BY <1>2 DEF VersionsIn
  <2>2. ASSUME NEW i \in DOMAIN man.versions PROVE man.versions[i] \in VersionsIn(new)
    <3>1. i \in DOMAIN new.versions /\ new.versions[i] = man.versions[i]
      BY <1>2
    <3> QED
      BY <3>1 DEF VersionsIn
  <2>3. v \in VersionsIn(new)
    <3>1. Len(man.versions) + 1 \in DOMAIN new.versions
      BY <1>2
    <3> QED
      BY <1>2, <3>1 DEF VersionsIn
  <2> QED
    BY <2>1, <2>2, <2>3 DEF VersionsIn
<1> QED
  BY <1>1, <1>3 DEF App

LEMMA AppOfDelete ==
  ASSUME NEW man \in Manifest, WellFormed(man), NEW v \in VersionsIn(man)
  PROVE  App(DeleteVersion(man, v)) =
           [versions |-> VersionsIn(man) \ {v},
            deployed |-> IF man.deployed = v THEN NoVersion ELSE man.deployed]
<1> DEFINE seq == man.versions
           k == CHOOSE i \in DOMAIN seq : seq[i] = v
           new == [i \in 1 .. Len(seq) - 1 |-> IF i < k THEN seq[i] ELSE seq[i + 1]]
<1>1. k \in DOMAIN seq /\ seq[k] = v
  BY DEF VersionsIn
<1>2. Len(seq) \in Nat /\ DOMAIN seq = 1 .. Len(seq) /\ k \in 1 .. Len(seq)
  BY <1>1 DEF Manifest
<1>3. DeleteVersion(man, v).versions = new
  BY DEF DeleteVersion, Without
<1>4. \A i, j \in DOMAIN seq : seq[i] = seq[j] => i = j
  BY DEF WellFormed
<1> HIDE DEF k
<1>5. ASSUME NEW i \in DOMAIN new PROVE new[i] \in VersionsIn(man) \ {v}
  <2>1. CASE i < k
    <3>1. i \in DOMAIN seq /\ i # k /\ new[i] = seq[i]
      BY <2>1, <1>2
    <3> QED
      BY <3>1, <1>1, <1>4 DEF VersionsIn
  <2>2. CASE ~(i < k)
    <3>1. i + 1 \in DOMAIN seq /\ i + 1 # k /\ new[i] = seq[i + 1]
      BY <2>2, <1>2
    <3> QED
      BY <3>1, <1>1, <1>4 DEF VersionsIn
  <2> QED
    BY <2>1, <2>2
<1>6. VersionsIn(man) \ {v} \subseteq VersionsIn(DeleteVersion(man, v))
  BY DeleteVersionWellFormed
<1>7. VersionsIn(DeleteVersion(man, v)) = VersionsIn(man) \ {v}
  <2>1. VersionsIn(DeleteVersion(man, v)) = {new[i] : i \in DOMAIN new}
    BY <1>3 DEF VersionsIn
  <2> HIDE DEF new
  <2>2. {new[i] : i \in DOMAIN new} \subseteq VersionsIn(man) \ {v}
    BY <1>5
  <2> QED
    BY <1>6, <2>1, <2>2
<1>8. DeleteVersion(man, v).deployed = IF man.deployed = v THEN NoVersion ELSE man.deployed
  BY DEF DeleteVersion
<1> QED
  BY <1>7, <1>8 DEF App

LEMMA AppOfDeploy ==
  ASSUME NEW man \in Manifest, NEW v \in VersionsIn(man)
  PROVE  App(Deploy(man, v)) = [versions |-> VersionsIn(man), deployed |-> v]
BY DEF App, Deploy, VersionsIn, Manifest

LEMMA AppOfUndeploy ==
  ASSUME NEW man \in Manifest
  PROVE  App(Undeploy(man)) = [versions |-> VersionsIn(man), deployed |-> NoVersion]
BY DEF App, Undeploy, VersionsIn, Manifest

LEMMA AppOfNothing == App(NoManifest) = Atomic!Missing
BY NoManifestWellFormed DEF App, NoManifest, Atomic!Missing
-----------------------------------------------------------------------------
(* The steps of one server keep what the others have staged.               *)
LEMMA OthersStaged ==
  ASSUME AInv, NEW s \in Servers, NEW rec, Become(s, rec),
         rec.pc \in Reading => StagedFor(rec)
  PROVE  Staged'
<1>1. srv \in [Servers -> Server] /\ srv' = [srv EXCEPT ![s] = rec]
  BY DEF AInv, IInv, TypeOK, Become
<1>2. \A t \in Servers : srv'[t] = IF t = s THEN rec ELSE srv[t]
  BY <1>1
<1> QED
  BY <1>2 DEF AInv, Staged

LEMMA MovesStaged ==
  ASSUME AInv, NEW s \in Servers, srv[s].pc \in Reading, NEW rec, Become(s, rec),
         rec.req = srv[s].req, rec.read = srv[s].read, rec.next = srv[s].next
  PROVE  Staged'
<1>1. StagedFor(srv[s])
  BY DEF AInv, Staged
<1>2. StagedFor(rec)
  BY <1>1 DEF StagedFor, StagedPut, StagedDelete, StagedDeploy, StagedUndeploy
<1> QED
  BY <1>2, OthersStaged

(* A server that goes where nothing is staged.                             *)
LEMMA LeavesStaged ==
  ASSUME AInv, NEW s \in Servers,
         \/ Reply(s)
         \/ \E pc \in PCs \ Reading : Goto(s, pc)
         \/ \E pc \in PCs \ Reading : ReadNames(s, pc)
         \/ Receive(s)
         \/ NamesRetry(s)
  PROVE  Staged'
<1>1. srv[s] \in Server
  BY DEF AInv, IInv, TypeOK
<1>2. CASE Reply(s)
  BY <1>2, FreshTyped, OthersStaged DEF Reply, Reading
<1>3. CASE \E pc \in PCs \ Reading : Goto(s, pc)
  <2>1. PICK pc \in PCs \ Reading : Become(s, [srv[s] EXCEPT !.pc = pc])
    BY <1>3 DEF Goto
  <2>2. [srv[s] EXCEPT !.pc = pc].pc = pc
    BY <1>1 DEF Server
  <2> QED
    BY <2>1, <2>2, OthersStaged
<1>4. CASE \E pc \in PCs \ Reading : ReadNames(s, pc)
  <2>1. PICK pc \in PCs \ Reading : Become(s, [srv[s] EXCEPT !.pc = pc, !.names = nameSet])
    BY <1>4 DEF ReadNames
  <2>2. [srv[s] EXCEPT !.pc = pc, !.names = nameSet].pc = pc
    BY <1>1 DEF Server
  <2> QED
    BY <2>1, <2>2, OthersStaged
<1>5. CASE Receive(s)
  <2>1. PICK r \in Requests : Become(s, Fresh(r))
    BY <1>5 DEF Receive
  <2> QED
    BY <2>1, FreshTyped, OthersStaged DEF Reading
<1>6. CASE NamesRetry(s)
  <2>1. PICK pc \in {"enlist", "unlist"} :
          Become(s, [srv[s] EXCEPT !.pc = pc, !.names = NoNames, !.tries = @ + 1])
    BY <1>6 DEF NamesRetry
  <2>2. [srv[s] EXCEPT !.pc = pc, !.names = NoNames, !.tries = @ + 1].pc = pc
    BY <1>1 DEF Server
  <2> QED
    BY <2>1, <2>2, OthersStaged DEF Reading
<1> QED
  BY <1>2, <1>3, <1>4, <1>5, <1>6

(* A get that leads to a store stages the request.                         *)
LEMMA GetStaged ==
  ASSUME AInv, NEW s \in Servers,
         PutGet(s) \/ DeleteGet(s) \/ DeployGet(s) \/ UndeployGet(s)
  PROVE  Staged'
<1> DEFINE entry == Read(Model(s))
           v == srv[s].req.version
<1>1. IInv /\ Busy(s)
  BY DEF AInv, PutGet, DeleteGet, DeployGet, UndeployGet, Busy, At
<1>2. srv[s] \in Server /\ Model(s) \in Models /\ v \in Maybe
  BY <1>1, ServerFacts
<1>3. entry.val \in Manifest /\ entry \in Entry
  BY <1>1, <1>2, ReadFacts DEF Entry
<1>4. /\ Live(entry.val) => entry.rev # 0
      /\ entry.rev = 0 => entry.val = NoManifest
  BY <1>2 DEF Read, AInv, Numbered, Live, NoManifest
<1> HIDE DEF entry
<1>5. ASSUME NEW pc \in Reading, NEW man,
             Become(s, [srv[s] EXCEPT !.pc = pc, !.read = entry, !.next = man]),
             \A rec : /\ rec.req = srv[s].req /\ rec.read = entry /\ rec.next = man
                     => StagedFor(rec)
      PROVE  Staged'
  <2> DEFINE rec == [srv[s] EXCEPT !.pc = pc, !.read = entry, !.next = man]
  <2>1. rec.req = srv[s].req /\ rec.read = entry /\ rec.next = man
    BY <1>2 DEF Server
  <2>2. StagedFor(rec)
    BY <1>5, <2>1
  <2> QED
    BY <1>5, <2>2, OthersStaged
<1>6. \A pc \in {"notify", "unlist"} : pc \in PCs \ Reading
  BY DEF PCs, Reading
<1>7. "store" \in Reading /\ "list" \in Reading
  BY DEF Reading
<1>8. CASE PutGet(s)
  <2>1. CASE Reply(s)
    BY <2>1, LeavesStaged
  <2>2. CASE v \notin VersionsIn(entry.val) /\ StartStore(s, entry, AddVersion(entry.val, v))
    BY <1>4, <1>5, <1>7, <1>8, <2>2 DEF PutGet, StartStore, StagedFor, StagedPut
  <2> QED
    BY <1>8, <2>1, <2>2 DEF PutGet, entry
<1>9. CASE DeleteGet(s)
  <2>1. CASE Goto(s, "notify") \/ Goto(s, "unlist")
    BY <1>6, <2>1, LeavesStaged
  <2>2. CASE /\ Live(entry.val) /\ v \in VersionsIn(entry.val)
             /\ StartStore(s, entry, DeleteVersion(entry.val, v))
    BY <1>4, <1>5, <1>7, <1>9, <2>2 DEF DeleteGet, StartStore, StagedFor, StagedDelete
  <2> QED
    BY <1>9, <2>1, <2>2 DEF DeleteGet, entry
<1>10. CASE DeployGet(s)
  <2>1. CASE Reply(s)
    BY <2>1, LeavesStaged
  <2>2. CASE /\ Live(entry.val) /\ v \in VersionsIn(entry.val) \cup {NoVersion}
             /\ Become(s, [srv[s] EXCEPT !.pc = "list", !.read = entry,
                             !.next = Deploy(entry.val, Requested(entry.val, v))])
    <3>1. Requested(entry.val, v) \in VersionsIn(entry.val)
      <4>1. WellFormed(entry.val)
        BY <1>1, <1>2, ReadFacts DEF entry
      <4> QED
        BY <1>3, <2>2, <4>1, DeployWellFormed
    <3> QED
      BY <1>4, <1>5, <1>7, <1>10, <2>2, <3>1 DEF DeployGet, StagedFor, StagedDeploy
  <2> QED
    BY <1>10, <2>1, <2>2 DEF DeployGet, entry
<1>11. CASE UndeployGet(s)
  <2>1. CASE Reply(s) \/ Goto(s, "notify")
    BY <1>6, <2>1, LeavesStaged
  <2>2. CASE Live(entry.val) /\ StartStore(s, entry, Undeploy(entry.val))
    BY <1>4, <1>5, <1>7, <1>11, <2>2 DEF UndeployGet, StartStore, StagedFor, StagedUndeploy
  <2> QED
    BY <1>11, <2>1, <2>2 DEF UndeployGet, entry
<1> QED
  BY <1>8, <1>9, <1>10, <1>11

(* The checks of a deploy keep what is staged.                             *)
LEMMA CheckStaged ==
  ASSUME AInv, NEW s \in Servers,
         \/ ListNames(s) \/ ListGet(s) \/ ListDone(s)
         \/ CheckGet(s) \/ CheckPanics(s) \/ CheckDone(s)
  PROVE  Staged'
<1>1. srv[s] \in Server
  BY DEF AInv, IInv, TypeOK
<1>2. srv[s].pc \in Reading
  BY DEF ListNames, ListGet, ListDone, CheckGet, CheckPanics, CheckDone, At, Reading
<1>3. CASE ListNames(s)
  <2> DEFINE rec == [srv[s] EXCEPT !.pc = "list_get", !.todo = nameSet.val]
  <2>1. /\ Become(s, rec)
        /\ rec.req = srv[s].req /\ rec.read = srv[s].read /\ rec.next = srv[s].next
    BY <1>1, <1>3 DEF ListNames, Server
  <2> HIDE DEF rec
  <2> QED
    BY <1>2, <2>1, MovesStaged
<1>4. CASE ListGet(s)
  <2>1. PICK m, apps_, shared_ :
          Become(s, [srv[s] EXCEPT !.todo = @ \ {m}, !.apps = apps_, !.shared = shared_])
    BY <1>4 DEF ListGet
  <2> DEFINE rec == [srv[s] EXCEPT !.todo = @ \ {m}, !.apps = apps_, !.shared = shared_]
  <2>2. rec.req = srv[s].req /\ rec.read = srv[s].read /\ rec.next = srv[s].next
    BY <1>1 DEF Server
  <2>3. Become(s, rec)
    BY <2>1
  <2> HIDE DEF rec
  <2> QED
    BY <1>2, <2>2, <2>3, MovesStaged
<1>5. CASE ListDone(s)
  <2> DEFINE rec == [srv[s] EXCEPT !.pc = "check_get", !.todo = srv[s].apps]
  <2>1. /\ Become(s, rec)
        /\ rec.req = srv[s].req /\ rec.read = srv[s].read /\ rec.next = srv[s].next
    BY <1>1, <1>5 DEF ListDone, Server
  <2> HIDE DEF rec
  <2> QED
    BY <1>2, <2>1, MovesStaged
<1>6. CASE CheckGet(s)
  <2>1. PICK m, ids_ :
          Become(s, [srv[s] EXCEPT !.todo = @ \ {m}, !.ids = ids_])
    BY <1>6 DEF CheckGet
  <2> DEFINE rec == [srv[s] EXCEPT !.todo = @ \ {m}, !.ids = ids_]
  <2>2. rec.req = srv[s].req /\ rec.read = srv[s].read /\ rec.next = srv[s].next
    BY <1>1 DEF Server
  <2>3. Become(s, rec)
    BY <2>1
  <2> HIDE DEF rec
  <2> QED
    BY <1>2, <2>2, <2>3, MovesStaged
<1>7. CASE CheckPanics(s)
  BY <1>7, LeavesStaged DEF CheckPanics, PCs, Reading
<1>8. CASE CheckDone(s)
  <2>1. CASE Reply(s)
    BY <2>1, LeavesStaged
  <2>2. CASE Goto(s, "store")
    <3> DEFINE rec == [srv[s] EXCEPT !.pc = "store"]
    <3>1. /\ Become(s, rec)
          /\ rec.req = srv[s].req /\ rec.read = srv[s].read /\ rec.next = srv[s].next
      BY <1>1, <2>2 DEF Goto, Server
    <3> HIDE DEF rec
    <3> QED
      BY <1>2, <3>1, MovesStaged
  <2> QED
    BY <1>8, <2>1, <2>2 DEF CheckDone
<1> QED
  BY <1>3, <1>4, <1>5, <1>6, <1>7, <1>8

LEMMA RestStaged ==
  ASSUME AInv, NEW s \in Servers,
         \/ Store(s) \/ StoreConflict(s) \/ StoreFault(s) \/ ReadFault(s)
         \/ Enlist(s) \/ EnlistWrite(s) \/ EnlistFails(s) \/ NamesRetry(s)
         \/ Unlist(s) \/ UnlistWrite(s) \/ UnlistFails(s)
         \/ Purge(s) \/ PurgeFault(s) \/ Notify(s) \/ NotifyFault(s)
  PROVE  Staged'
<1>1. \/ Reply(s) \/ NamesRetry(s)
      \/ \E pc \in {"enlist", "notify", "purge"} : Goto(s, pc)
      \/ \E pc \in {"enlist_write", "unlist_write"} : ReadNames(s, pc)
  BY DEF Store, StoreConflict, StoreFault, ReadFault, Enlist, EnlistWrite, EnlistFails,
         Unlist, UnlistWrite, UnlistFails, Purge, PurgeFault, Notify, NotifyFault,
         SetFailed, Enlisted, ReplyBroken
<1>2. {"enlist", "notify", "purge", "enlist_write", "unlist_write"} \subseteq PCs \ Reading
  BY DEF PCs, Reading
<1> QED
  BY <1>1, <1>2, LeavesStaged
-----------------------------------------------------------------------------
(* A step that changes a manifest is a store or a purge.                   *)
LEMMA WhoWrites ==
  ASSUME NEW s \in Servers, Receive(s) \/ Handle(s)
  PROVE  kv' = kv \/ Store(s) \/ Purge(s)
BY DEF Handle, bucket, Receive, PutGet, DeleteGet, DeployGet, UndeployGet,
       ListNames, ListGet, ListDone, CheckGet, CheckPanics, CheckDone,
       StoreConflict, StoreFault, ReadFault, Enlist, EnlistWrite, EnlistFails, NamesRetry,
       Unlist, UnlistWrite, UnlistFails, PurgeFault, Notify, NotifyFault, UpdateNames

LEMMA NumberedStep ==
  ASSUME AInv, NEW s \in Servers, Receive(s) \/ Handle(s)
  PROVE  Numbered'
<1>1. kv \in [Models -> Entry] /\ lastSeq \in Nat /\ Numbered
  BY DEF AInv, IInv, TypeOK
<1>2. CASE kv' = kv
  BY <1>1, <1>2 DEF Numbered, Live
<1>3. CASE Store(s) \/ Purge(s)
  <2>1. PICK man : kv' = [kv EXCEPT ![Model(s)] = [rev |-> lastSeq + 1, val |-> man]]
    BY <1>3 DEF Store, Purge
  <2>2. \A m \in Models : kv'[m] = kv[m] \/ kv'[m].rev = lastSeq + 1
    BY <1>1, <2>1
  <2>3. lastSeq + 1 # 0
    BY <1>1
  <2> QED
    BY <1>1, <2>2, <2>3 DEF Numbered, Live
<1> QED
  BY <1>2, <1>3, WhoWrites

LEMMA NextAInv == AInv /\ [Next]_vars => AInv'
<1> SUFFICES ASSUME AInv, [Next]_vars PROVE AInv'
  OBVIOUS
<1>1. IInv'
  BY NextIInv DEF AInv
<1>2. CASE UNCHANGED vars
  BY <1>1, <1>2 DEF AInv, Staged, Numbered, Live, vars, bucket
<1>3. CASE Next
  <2>1. PICK s \in Servers : Receive(s) \/ Handle(s)
    BY <1>3 DEF Next
  <2>2. Staged'
    BY <2>1, GetStaged, CheckStaged, RestStaged, LeavesStaged DEF Handle
  <2> QED
    BY <1>1, <2>1, <2>2, NumberedStep DEF AInv
<1> QED
  BY <1>2, <1>3
-----------------------------------------------------------------------------
(* A store is the request that was staged, a purge deletes the model.      *)
LEMMA StoreIsAtomic ==
  ASSUME AInv, NEW s \in Servers, Store(s)
  PROVE  Atomic!Next
<1> DEFINE m == Model(s)
           rec == srv[s]
           v == rec.req.version
<1>1. IInv /\ Busy(s) /\ srv[s].pc \in Reading
  BY DEF AInv, Store, At, Busy, Reading
<1>2. rec \in Server /\ m \in Models /\ kv \in [Models -> Entry]
      /\ rec.req.version \in Maybe /\ (rec.req.op = "put" => v \in Versions)
  BY <1>1, ServerFacts DEF IInv, TypeOK
<1>3. kv' = [kv EXCEPT ![m] = [rev |-> lastSeq + 1, val |-> rec.next]]
  BY DEF Store
<1>4. apps' = [apps EXCEPT ![m] = App(rec.next)] /\ apps[m] = App(kv[m].val)
      /\ m \in DOMAIN apps
  BY <1>2, <1>3 DEF apps
<1>5. StagedFor(rec)
  BY <1>1 DEF AInv, Staged
<1>6. rec.read.rev # 0 => rec.read.val = kv[m].val
  BY <1>1, <1>2 DEF Store, CanStore, IInv, ReadInv
<1>7. kv[m].val \in Manifest /\ WellFormed(kv[m].val)
      /\ VersionsIn(kv[m].val) \subseteq Versions
  BY <1>1, <1>2 DEF IInv, KvInv, Entry, Manifest, VersionsIn
<1>8. apps[m].versions = VersionsIn(kv[m].val) /\ apps[m].deployed = kv[m].val.deployed
  BY <1>4 DEF App
<1> HIDE DEF m, rec, v
<1>9. CASE StagedPut(rec)
  <2>1. v \in Versions
    BY <1>2, <1>9 DEF StagedPut
  <2>2. CASE rec.read.rev = 0
    <3>1. App(rec.next) = [versions |-> {v}, deployed |-> NoVersion]
      BY <1>9, <2>1, <2>2, AppOfPut, NoManifestWellFormed DEF StagedPut, v, NoManifest
    <3>2. Atomic!PutFirst(m, v)
      BY <1>4, <3>1 DEF Atomic!PutFirst, apps
    <3> QED
      BY <1>2, <2>1, <3>2 DEF Atomic!Next
  <2>3. CASE rec.read.rev # 0
    <3>1. /\ v \notin apps[m].versions
          /\ App(rec.next) = [versions |-> apps[m].versions \cup {v},
                             deployed |-> apps[m].deployed]
      BY <1>6, <1>7, <1>8, <1>9, <2>1, <2>3, AppOfPut DEF StagedPut, v
    <3>2. apps' = [apps EXCEPT ![m].versions = @ \cup {v}]
      BY <1>4, <3>1 DEF App
    <3>3. Atomic!Put(m, v)
      BY <3>1, <3>2 DEF Atomic!Put, apps
    <3> QED
      BY <1>2, <2>1, <3>3 DEF Atomic!Next
  <2> QED
    BY <2>2, <2>3
<1>10. CASE StagedDelete(rec)
  <2>1. /\ v \in VersionsIn(kv[m].val)
        /\ rec.next = DeleteVersion(kv[m].val, v)
    BY <1>6, <1>10 DEF StagedDelete, v
  <2>2. App(rec.next) =
          [versions |-> VersionsIn(kv[m].val) \ {v},
           deployed |-> IF kv[m].val.deployed = v THEN NoVersion
                        ELSE kv[m].val.deployed]
    BY <1>7, <2>1, AppOfDelete
  <2>3. v \in apps[m].versions /\ v \in Versions
    BY <1>7, <1>8, <2>1
  <2>4. Atomic!Delete(m, v)
    BY <1>4, <1>8, <2>2, <2>3 DEF Atomic!Delete, apps
  <2> QED
    BY <1>2, <2>3, <2>4 DEF Atomic!Next
<1>11. CASE StagedDeploy(rec)
  <2>1. PICK w \in VersionsIn(rec.read.val) : rec.next = Deploy(rec.read.val, w)
    BY <1>11 DEF StagedDeploy
  <2>2. /\ w \in apps[m].versions /\ w \in Versions
        /\ App(rec.next) = [versions |-> apps[m].versions, deployed |-> w]
    BY <1>6, <1>7, <1>8, <1>11, <2>1, AppOfDeploy DEF StagedDeploy
  <2>3. apps' = [apps EXCEPT ![m].deployed = w]
    BY <1>4, <2>2 DEF App
  <2>4. Atomic!Deploy(m, w)
    BY <2>2, <2>3 DEF Atomic!Deploy, apps
  <2> QED
    BY <1>2, <2>2, <2>4 DEF Atomic!Next
<1>12. CASE StagedUndeploy(rec)
  <2>1. App(rec.next) = [versions |-> apps[m].versions, deployed |-> NoVersion]
    BY <1>6, <1>7, <1>8, <1>12, AppOfUndeploy DEF StagedUndeploy
  <2>2. apps' = [apps EXCEPT ![m].deployed = NoVersion]
    BY <1>4, <2>1 DEF App
  <2>3. Atomic!Undeploy(m)
    BY <2>2 DEF Atomic!Undeploy, apps
  <2> QED
    BY <1>2, <2>3 DEF Atomic!Next
<1> QED
  BY <1>5, <1>9, <1>10, <1>11, <1>12 DEF StagedFor

LEMMA PurgeIsAtomic ==
  ASSUME AInv, NEW s \in Servers, Purge(s)
  PROVE  Atomic!Next
<1>1. Model(s) \in Models /\ kv \in [Models -> Entry]
  <2>1. Busy(s) /\ IInv
    BY DEF Purge, At, Busy, AInv
  <2> QED
    BY <2>1, ServerFacts DEF IInv, TypeOK
<1>2. apps' = [apps EXCEPT ![Model(s)] = Atomic!Missing]
  BY <1>1, AppOfNothing DEF Purge, apps
<1>3. Atomic!DeleteAll(Model(s))
  BY <1>2 DEF Atomic!DeleteAll, apps
<1> QED
  BY <1>1, <1>3 DEF Atomic!Next

(* Every request is handled as if it were the only one: whatever the       *)
(* servers do, in whatever order, the manifests change by one atomic       *)
(* request after the other, each applied to the manifest as it is then.    *)
THEOREM ImplementsManifestStore == Spec => RequestsAreAtomic
<1>1. Init => Atomic!Init
  BY AppOfNothing DEF Init, Atomic!Init
<1>2. Init => AInv
  <2> SUFFICES ASSUME Init PROVE Numbered /\ Staged
    BY InitIInv DEF AInv
  <2>1. \A s \in Servers : srv[s].pc = "idle"
    BY FreshTyped DEF Init
  <2>2. \A m \in Models : ~Live(kv[m].val)
    BY DEF Init, Live, NoManifest
  <2> QED
    BY <2>1, <2>2 DEF Numbered, Staged, Reading
<1>3. AInv /\ [Next]_vars => [Atomic!Next]_apps
  <2> SUFFICES ASSUME AInv, [Next]_vars PROVE Atomic!Next \/ apps' = apps
    OBVIOUS
  <2>1. kv' = kv => apps' = apps
    BY DEF apps
  <2>2. CASE UNCHANGED vars
    BY <2>1, <2>2 DEF vars, bucket
  <2>3. CASE Next
    BY <2>1, <2>3, WhoWrites, StoreIsAtomic, PurgeIsAtomic DEF Next
  <2> QED
    BY <2>2, <2>3
<1> QED
  BY <1>1, <1>2, <1>3, NextAInv, PTL DEF Spec, RequestsAreAtomic, Atomic!Spec, apps

-----------------------------------------------------------------------------
(* What a server still has to do once the bucket has changed: add the      *)
(* model's name to the name set, announce the change of its deployment.    *)

(* A step of a server leaves the records of the others alone.              *)
LEMMA Others ==
  ASSUME AInv, NEW s \in Servers, NEW rec, Become(s, rec)
  PROVE  srv'[s] = rec /\ \A t \in Servers : t # s => srv'[t] = srv[t]
BY DEF AInv, IInv, TypeOK, Become

(* What a step that only moves a server on, or ends its request, makes of  *)
(* the server's record.                                                    *)
LEMMA Moved ==
  ASSUME AInv, NEW s \in Servers, NEW pc, Goto(s, pc)
  PROVE  \E rec : /\ Become(s, rec) /\ rec.pc = pc /\ rec.req = srv[s].req
                  /\ rec.read = srv[s].read /\ rec.next = srv[s].next
<1> DEFINE rec == [srv[s] EXCEPT !.pc = pc]
<1>1. Become(s, rec)
  BY DEF Goto
<1>2. /\ rec.pc = pc /\ rec.req = srv[s].req
      /\ rec.read = srv[s].read /\ rec.next = srv[s].next
  BY DEF AInv, IInv, TypeOK, Server
<1> QED
  BY <1>1, <1>2

LEMMA Replied ==
  ASSUME NEW s \in Servers, Reply(s)
  PROVE  \E rec : Become(s, rec) /\ rec.pc = "idle"
BY FreshTyped DEF Reply

(* The steps between the first get of a request and its store, and the     *)
(* last step of a request that has nothing left to do.                     *)
Prepares(s) ==
  \/ Receive(s)
  \/ PutGet(s) \/ DeleteGet(s) \/ DeployGet(s) \/ UndeployGet(s)
  \/ ListNames(s) \/ ListGet(s) \/ ListDone(s)
  \/ CheckGet(s) \/ CheckPanics(s) \/ CheckDone(s) \/ ReadFault(s)
  \/ StoreConflict(s) \/ StoreFault(s)

LEMMA PreparesFacts ==
  ASSUME AInv, NEW s \in Servers, Prepares(s)
  PROVE  /\ srv[s].pc \in Reading \cup {"idle", "get"}
         /\ UNCHANGED <<kv, nameSet, lastSeq, owed, broken>>
         /\ \E rec : /\ Become(s, rec)
                     /\ rec.pc \notin {"enlist", "enlist_write", "unlist_write", "purge"}
                     /\ rec.pc = "unlist" => rec.req.op = "delete"
<1>1. srv[s].pc \in Reading \cup {"idle", "get"}
  BY DEF Prepares, Receive, PutGet, DeleteGet, DeployGet, UndeployGet, ListNames, ListGet,
         ListDone, CheckGet, CheckPanics, CheckDone, ReadFault, StoreConflict, StoreFault,
         At, Reading
<1>2. UNCHANGED <<kv, nameSet, lastSeq, owed, broken>>
  BY DEF Prepares, Receive, PutGet, DeleteGet, DeployGet, UndeployGet, ListNames, ListGet,
         ListDone, CheckGet, CheckPanics, CheckDone, ReadFault, StoreConflict, StoreFault,
         bucket, aux
<1> DEFINE Fits(rec) == /\ rec.pc \notin {"enlist", "enlist_write", "unlist_write", "purge"}
                        /\ rec.pc = "unlist" => rec.req.op = "delete"
<1>3. \E rec : Become(s, rec) /\ Fits(rec)
  <2>1. CASE Reply(s)
    BY <2>1, Replied
  <2>2. CASE Receive(s)
    BY <2>2, FreshTyped DEF Receive
  <2>3. CASE \E pc \in {"notify", "panicked", "store"} : Goto(s, pc)
    BY <2>3, Moved
  <2>4. CASE srv[s].req.op = "delete" /\ Goto(s, "unlist")
    BY <2>4, Moved
  <2>5. srv[s] \in Server
    BY DEF AInv, IInv, TypeOK
  <2>6. CASE \E pc \in {"list", "store"} : \E entry, man :
               Become(s, [srv[s] EXCEPT !.pc = pc, !.read = entry, !.next = man])
    <3>0. PICK pc \in {"list", "store"} : \E entry, man :
            Become(s, [srv[s] EXCEPT !.pc = pc, !.read = entry, !.next = man])
      BY <2>6
    <3>1. PICK entry, man :
            Become(s, [srv[s] EXCEPT !.pc = pc, !.read = entry, !.next = man])
      BY <3>0
    <3>2. [srv[s] EXCEPT !.pc = pc, !.read = entry, !.next = man].pc = pc
      BY <2>5 DEF Server
    <3> QED
      BY <3>1, <3>2
  <2>7. CASE ListNames(s) \/ ListDone(s)
    <3>0. PICK pc \in {"list_get", "check_get"} : \E todo_ :
            Become(s, [srv[s] EXCEPT !.pc = pc, !.todo = todo_])
      BY <2>7 DEF ListNames, ListDone
    <3>1. PICK todo_ : Become(s, [srv[s] EXCEPT !.pc = pc, !.todo = todo_])
      BY <3>0
    <3>2. [srv[s] EXCEPT !.pc = pc, !.todo = todo_].pc = pc
      BY <2>5 DEF Server
    <3> QED
      BY <3>1, <3>2
  <2>8. CASE ListGet(s)
    <3>1. PICK m, apps_, shared_ :
            Become(s, [srv[s] EXCEPT !.todo = @ \ {m}, !.apps = apps_, !.shared = shared_])
      BY <2>8 DEF ListGet
    <3>2. /\ [srv[s] EXCEPT !.todo = @ \ {m}, !.apps = apps_, !.shared = shared_].pc = srv[s].pc
          /\ srv[s].pc = "list_get"
      BY <2>5, <2>8 DEF Server, ListGet, At
    <3> QED
      BY <3>1, <3>2
  <2>9. CASE CheckGet(s)
    <3>1. PICK m, ids_ : Become(s, [srv[s] EXCEPT !.todo = @ \ {m}, !.ids = ids_])
      BY <2>9 DEF CheckGet
    <3>2. /\ [srv[s] EXCEPT !.todo = @ \ {m}, !.ids = ids_].pc = srv[s].pc
          /\ srv[s].pc = "check_get"
      BY <2>5, <2>9 DEF Server, CheckGet, At
    <3> QED
      BY <3>1, <3>2
  <2>10. CASE PutGet(s)
    BY <2>10, <2>1, <2>6 DEF PutGet, StartStore
  <2>11. CASE DeleteGet(s)
    BY <2>11, <2>3, <2>4, <2>6 DEF DeleteGet, StartStore
  <2>12. CASE DeployGet(s)
    BY <2>12, <2>1, <2>6 DEF DeployGet
  <2>13. CASE UndeployGet(s)
    BY <2>13, <2>1, <2>3, <2>6 DEF UndeployGet, StartStore
  <2>14. CASE CheckPanics(s) \/ CheckDone(s) \/ ReadFault(s) \/ StoreConflict(s) \/ StoreFault(s)
    BY <2>14, <2>1, <2>3 DEF CheckPanics, CheckDone, ReadFault, StoreConflict, StoreFault,
       SetFailed
  <2> QED
    BY <2>2, <2>7, <2>8, <2>9, <2>10, <2>11, <2>12, <2>13, <2>14 DEF Prepares
<1> QED
  BY <1>1, <1>2, <1>3
-----------------------------------------------------------------------------
(* The name set.  What a server has read of it is its present content if   *)
(* its revision is the present one.                                        *)
HoldsNames(rec) ==
  rec.pc \in {"enlist_write", "unlist_write"} =>
    /\ rec.names.rev <= lastSeq
    /\ rec.names.rev = nameSet.rev => rec.names.val = nameSet.val

NamesInv ==
  /\ nameSet.rev <= lastSeq
  /\ \A s \in Servers : HoldsNames(srv[s])

LInv == AInv /\ NamesInv /\ LiveModelsAreListed

(* A server that is going to list its model, or to purge it.               *)
Lists(rec) == rec.pc \in {"enlist", "enlist_write", "purge"}

LEMMA LocalListed ==
  ASSUME LInv, NEW s \in Servers, NEW rec, Become(s, rec), HoldsNames(rec),
         UNCHANGED <<kv, nameSet, lastSeq>>, broken \subseteq broken',
         Lists(srv[s]) => \/ Lists(rec) /\ rec.req = srv[s].req
                          \/ Model(s) \in nameSet.val \cup broken'
  PROVE  (NamesInv /\ LiveModelsAreListed)'
<1>1. srv'[s] = rec /\ \A t \in Servers : t # s => srv'[t] = srv[t]
  BY Others DEF LInv
<1>2. NamesInv'
  BY <1>1 DEF LInv, NamesInv, HoldsNames
<1>3. LiveModelsAreListed'
  <2> SUFFICES ASSUME NEW m \in Models, Live(kv[m].val), m \notin nameSet.val, m \notin broken'
               PROVE  \E t \in Servers : Lists(srv'[t]) /\ srv'[t].req.model = m
    BY DEF LiveModelsAreListed, Live, Lists, Model
  <2>1. PICK t \in Servers : Lists(srv[t]) /\ Model(t) = m
    BY DEF LInv, LiveModelsAreListed, Lists
  <2> QED
    BY <1>1, <2>1 DEF Model
<1> QED
  BY <1>2, <1>3

(* A write of the name set has a revision that no server has read.         *)
LEMMA NamesWritten ==
  ASSUME LInv, NEW s \in Servers, EnlistWrite(s) \/ UnlistWrite(s)
  PROVE  (NamesInv /\ LiveModelsAreListed)'
<1>1. AInv /\ lastSeq \in Nat /\ srv[s] \in Server /\ nameSet \in [rev : Nat, val : SUBSET Models]
  BY DEF LInv, AInv, IInv, TypeOK
<1>2. PICK names : UpdateNames(s, names)
  BY DEF EnlistWrite, UnlistWrite
<1>3. /\ nameSet' = [rev |-> lastSeq + 1, val |-> names]
      /\ lastSeq' = lastSeq + 1 /\ kv' = kv
  BY <1>2 DEF UpdateNames
<1>4. srv[s].names.val = nameSet.val
  BY <1>2 DEF EnlistWrite, UnlistWrite, UpdateNames, At, LInv, NamesInv, HoldsNames
<1>5. broken' = broken
  BY DEF EnlistWrite, UnlistWrite, aux
<1>5a. PICK pc \in {"idle", "notify", "purge"} : \E rec :
         /\ Become(s, rec) /\ rec.pc = pc
         /\ UnlistWrite(s) => pc = "purge" /\ rec.req = srv[s].req
  <2>1. CASE EnlistWrite(s)
    <3>1. (Reply(s) \/ Goto(s, "notify")) /\ ~UnlistWrite(s)
      BY <2>1 DEF EnlistWrite, UnlistWrite, At, Enlisted
    <3> QED
      BY <1>1, <3>1, Moved, Replied
  <2>2. CASE UnlistWrite(s)
    BY <2>2, <1>1, Moved DEF UnlistWrite
  <2> QED
    BY <2>1, <2>2
<1>6. PICK rec : /\ Become(s, rec) /\ rec.pc = pc
                 /\ UnlistWrite(s) => pc = "purge" /\ rec.req = srv[s].req
  BY <1>5a
<1>7. srv'[s] = rec /\ \A t \in Servers : t # s => srv'[t] = srv[t]
  BY <1>1, <1>6, Others
<1>8. ASSUME NEW t \in Servers PROVE HoldsNames(srv[t])'
  <2>1. CASE t = s
    BY <2>1, <1>6, <1>7 DEF HoldsNames
  <2>2. CASE t # s
    <3>1. HoldsNames(srv[t]) /\ srv[t] \in Server
      BY DEF LInv, NamesInv, AInv, IInv, TypeOK
    <3>2. srv[t].names.rev \in Nat
      BY <3>1 DEF Server
    <3> QED
      BY <2>2, <3>1, <3>2, <1>1, <1>3, <1>7 DEF HoldsNames
  <2> QED
    BY <2>1, <2>2
<1>9. NamesInv'
  BY <1>1, <1>3, <1>8 DEF NamesInv
<1>10. ASSUME NEW m \in Models, Live(kv[m].val), m \notin nameSet'.val, m \notin broken
       PROVE  \E t \in Servers : Lists(srv'[t]) /\ srv'[t].req.model = m
  <2>1. CASE EnlistWrite(s)
    <3>1. nameSet'.val = nameSet.val \cup {Model(s)}
      BY <2>1, <1>4 DEF EnlistWrite, UpdateNames
    <3>2. PICK t \in Servers : Lists(srv[t]) /\ Model(t) = m
      BY <1>10, <3>1 DEF LInv, LiveModelsAreListed, Lists
    <3> QED
      BY <1>7, <1>10, <3>1, <3>2 DEF Model
  <2>2. CASE UnlistWrite(s)
    <3>1. nameSet'.val = nameSet.val \ {Model(s)}
      BY <2>2, <1>4 DEF UnlistWrite, UpdateNames
    <3>2. CASE m = Model(s)
      BY <2>2, <3>2, <1>6, <1>7 DEF Lists, Model
    <3>3. CASE m # Model(s)
      <4>1. PICK t \in Servers : Lists(srv[t]) /\ Model(t) = m
        BY <1>10, <3>1, <3>3 DEF LInv, LiveModelsAreListed, Lists
      <4> QED
        BY <1>7, <3>3, <4>1 DEF Model
    <3> QED
      BY <3>2, <3>3
  <2> QED
    BY <2>1, <2>2
<1>11. LiveModelsAreListed'
  BY <1>3, <1>5, <1>10 DEF LiveModelsAreListed, Live, Lists, Model
<1> QED
  BY <1>9, <1>11

(* A write of a model's entry leaves only its writer with a name to add.   *)
LEMMA ModelWritten ==
  ASSUME LInv, NEW s \in Servers, Store(s) \/ Purge(s)
  PROVE  (NamesInv /\ LiveModelsAreListed)'
<1>1. AInv /\ lastSeq \in Nat /\ nameSet \in [rev : Nat, val : SUBSET Models]
      /\ kv \in [Models -> Entry]
  BY DEF LInv, AInv, IInv, TypeOK
<1>2. nameSet' = nameSet /\ lastSeq' = lastSeq + 1 /\ broken' = broken
  BY DEF Store, Purge
<1>3. \A m \in Models : m # Model(s) => kv'[m] = kv[m]
  BY <1>1 DEF Store, Purge
<1>4. PICK pc \in {"enlist", "notify"} : Goto(s, pc) /\ (Store(s) => pc = "enlist")
  BY DEF Store, Purge, At
<1>5. /\ srv'[s].pc = pc /\ srv'[s].req = srv[s].req
      /\ \A t \in Servers : t # s => srv'[t] = srv[t]
  <2>1. PICK rec : Become(s, rec) /\ rec.pc = pc /\ rec.req = srv[s].req
    BY <1>1, <1>4, Moved
  <2> QED
    BY <1>1, <2>1, Others
<1>6. ASSUME NEW t \in Servers PROVE HoldsNames(srv[t])'
  <2>1. CASE t = s
    BY <2>1, <1>5 DEF HoldsNames
  <2>2. CASE t # s
    <3>1. HoldsNames(srv[t]) /\ srv[t] \in Server
      BY DEF LInv, NamesInv, AInv, IInv, TypeOK
    <3>2. srv[t].names.rev \in Nat
      BY <3>1 DEF Server
    <3> QED
      BY <2>2, <3>1, <3>2, <1>1, <1>2, <1>5 DEF HoldsNames
  <2> QED
    BY <2>1, <2>2
<1>7. NamesInv'
  BY <1>1, <1>2, <1>6 DEF LInv, NamesInv
<1>8. ASSUME NEW m \in Models, Live(kv'[m].val), m \notin nameSet.val, m \notin broken
      PROVE  \E t \in Servers : Lists(srv'[t]) /\ srv'[t].req.model = m
  <2>1. CASE m # Model(s)
    <3>1. PICK t \in Servers : Lists(srv[t]) /\ Model(t) = m
      BY <2>1, <1>3, <1>8 DEF LInv, LiveModelsAreListed, Lists
    <3> QED
      BY <2>1, <1>5, <3>1 DEF Model
  <2>2. CASE m = Model(s) /\ Store(s)
    BY <2>2, <1>4, <1>5 DEF Lists, Model
  <2>3. CASE m = Model(s) /\ Purge(s)
    BY <2>3, <1>1, <1>8 DEF Purge, Live, NoManifest
  <2> QED
    BY <2>1, <2>2, <2>3
<1>9. LiveModelsAreListed'
  BY <1>2, <1>8 DEF LiveModelsAreListed, Live, Lists, Model
<1> QED
  BY <1>7, <1>9

LEMMA ListedStep ==
  ASSUME LInv, NEW s \in Servers, Receive(s) \/ Handle(s)
  PROVE  (NamesInv /\ LiveModelsAreListed)'
<1>1. AInv /\ srv[s] \in Server /\ lastSeq \in Nat /\ nameSet.rev <= lastSeq
  BY DEF LInv, AInv, IInv, TypeOK, NamesInv
<1>2. CASE Prepares(s)
  <2>1. PICK rec : /\ Become(s, rec)
                   /\ rec.pc \notin {"enlist", "enlist_write", "unlist_write", "purge"}
    BY <1>1, <1>2, PreparesFacts
  <2>2. HoldsNames(rec)
    BY <2>1 DEF HoldsNames
  <2>3. ~Lists(srv[s]) /\ UNCHANGED <<kv, nameSet, lastSeq>> /\ broken' = broken
    BY <1>1, <1>2, PreparesFacts DEF Reading, Lists
  <2> QED
    BY <2>1, <2>2, <2>3, LocalListed
<1>3. CASE Store(s) \/ Purge(s)
  BY <1>3, ModelWritten
<1>4. CASE EnlistWrite(s) \/ UnlistWrite(s)
  BY <1>4, NamesWritten
<1>5. CASE Enlist(s) \/ Unlist(s)
  <2>1. UNCHANGED <<kv, nameSet, lastSeq>> /\ broken' = broken
    BY <1>5 DEF Enlist, Unlist, bucket, aux
  <2>2. CASE \E pc : ReadNames(s, pc) /\ (Lists(srv[s]) => pc = "enlist_write")
    <3>1. PICK pc : ReadNames(s, pc) /\ (Lists(srv[s]) => pc = "enlist_write")
      BY <2>2
    <3> DEFINE rec == [srv[s] EXCEPT !.pc = pc, !.names = nameSet]
    <3>2. rec.pc = pc /\ rec.req = srv[s].req /\ rec.names = nameSet /\ Become(s, rec)
      BY <1>1, <3>1 DEF Server, ReadNames
    <3> HIDE DEF rec
    <3>3. HoldsNames(rec)
      BY <1>1, <3>2 DEF HoldsNames
    <3> QED
      BY <2>1, <3>1, <3>2, <3>3, LocalListed DEF Lists
  <2>3. CASE (Reply(s) \/ \E pc \in {"notify", "purge"} : Goto(s, pc))
             /\ (Lists(srv[s]) => Model(s) \in nameSet.val)
    <3>1. PICK rec : Become(s, rec) /\ rec.pc \in {"idle", "notify", "purge"}
      BY <1>1, <2>3, Replied, Moved
    <3>2. HoldsNames(rec)
      BY <3>1 DEF HoldsNames
    <3> QED
      BY <2>1, <2>3, <3>1, <3>2, LocalListed
  <2>4. CASE Enlist(s)
    BY <2>2, <2>3, <2>4 DEF Enlist, Enlisted
  <2>5. CASE Unlist(s)
    BY <2>2, <2>3, <2>5 DEF Unlist, Lists, At
  <2> QED
    BY <1>5, <2>4, <2>5
<1>6. CASE NamesRetry(s)
  <2>1. UNCHANGED <<kv, nameSet, lastSeq>> /\ broken' = broken
    BY <1>6 DEF NamesRetry, bucket, aux
  <2>1a. PICK pc \in {"enlist", "unlist"} : \E n :
           /\ Become(s, [srv[s] EXCEPT !.pc = pc, !.names = NoNames, !.tries = n])
           /\ Lists(srv[s]) => pc = "enlist"
    BY <1>6 DEF NamesRetry, Lists
  <2>2. PICK n : /\ Become(s, [srv[s] EXCEPT !.pc = pc, !.names = NoNames, !.tries = n])
                 /\ Lists(srv[s]) => pc = "enlist"
    BY <2>1a
  <2> DEFINE rec == [srv[s] EXCEPT !.pc = pc, !.names = NoNames, !.tries = n]
  <2>3. rec.pc = pc /\ rec.req = srv[s].req /\ Become(s, rec)
    BY <1>1, <2>2 DEF Server
  <2> HIDE DEF rec
  <2>4. HoldsNames(rec)
    BY <2>3 DEF HoldsNames
  <2> QED
    BY <2>1, <2>2, <2>3, <2>4, LocalListed DEF Lists
<1>7. CASE EnlistFails(s) \/ UnlistFails(s) \/ PurgeFault(s) \/ Notify(s) \/ NotifyFault(s)
  <2>1. UNCHANGED <<kv, nameSet, lastSeq>> /\ broken \subseteq broken'
    BY <1>7 DEF EnlistFails, UnlistFails, PurgeFault, Notify, NotifyFault, ReplyBroken, bucket, aux
  <2>2. Lists(srv[s]) => Model(s) \in broken'
    BY <1>7 DEF EnlistFails, UnlistFails, PurgeFault, Notify, NotifyFault, ReplyBroken, Lists, At
  <2>3. Reply(s) \/ Goto(s, "notify")
    BY <1>7 DEF EnlistFails, UnlistFails, PurgeFault, Notify, NotifyFault, ReplyBroken, SetFailed
  <2>4. PICK rec : Become(s, rec) /\ rec.pc \in {"idle", "notify"}
    BY <1>1, <2>3, Replied, Moved
  <2>5. HoldsNames(rec)
    BY <2>4 DEF HoldsNames
  <2> QED
    BY <2>1, <2>2, <2>4, <2>5, LocalListed
<1> QED
  BY <1>2, <1>3, <1>4, <1>5, <1>6, <1>7 DEF Handle, Prepares

LEMMA InitLInv == Init => LInv
<1> SUFFICES ASSUME Init PROVE LInv
  OBVIOUS
<1>1. \A s \in Servers : srv[s].pc = "idle"
  BY FreshTyped DEF Init
<1>2. \A m \in Models : ~Live(kv[m].val)
  BY DEF Init, Live, NoManifest
<1>3. AInv
  BY <1>1, <1>2, InitIInv DEF AInv, Numbered, Staged, Reading
<1>4. NamesInv
  BY <1>1 DEF Init, NoNames, NamesInv, HoldsNames
<1> QED
  BY <1>2, <1>3, <1>4 DEF LInv, LiveModelsAreListed

LEMMA NextLInv == LInv /\ [Next]_vars => LInv'
<1> SUFFICES ASSUME LInv, [Next]_vars PROVE LInv'
  OBVIOUS
<1>1. AInv'
  BY NextAInv DEF LInv
<1>2. CASE UNCHANGED vars
  <2>1. UNCHANGED <<kv, nameSet, lastSeq, srv, broken>>
    BY <1>2 DEF vars, bucket, aux
  <2> QED
    BY <1>1, <2>1 DEF LInv, NamesInv, HoldsNames, LiveModelsAreListed, Live, Model
<1>3. CASE Next
  BY <1>1, <1>3, ListedStep DEF Next, LInv
<1> QED
  BY <1>2, <1>3

(* The name set forgets no model: whatever the order of the servers' puts, *)
(* deletes and retries, a stored model is listed, or the server is still   *)
(* on its way to list or to purge it, or an access has failed half-way.    *)
THEOREM NamesAreKept == Spec => []LiveModelsAreListed
<1>1. LInv => LiveModelsAreListed
  BY DEF LInv
<1> QED
  BY <1>1, InitLInv, NextLInv, PTL DEF Spec
-----------------------------------------------------------------------------
(* The announcements.  Only a delete purges.                               *)
HoldsOp(rec) == rec.pc \in {"unlist", "unlist_write", "purge"} => rec.req.op = "delete"

(* A server that will announce what is deployed: a delete that has stored  *)
(* a manifest does so only if the deployed version went with it.           *)
Announces(rec) ==
  \/ rec.pc = "notify"
  \/ /\ rec.pc \in {"enlist", "enlist_write"}
     /\ rec.req.op # "put"
     /\ rec.req.op = "delete" => rec.next.deployed # rec.read.val.deployed

Says(rec) == IF rec.req.op = "deploy" THEN rec.next.deployed ELSE NoVersion

Announced ==
  \A m \in Models : owed[m] # Settled /\ m \notin broken =>
    \E s \in Servers : /\ Announces(srv[s])
                       /\ srv[s].req.model = m
                       /\ Says(srv[s]) = owed[m]

DInv == AInv /\ (\A s \in Servers : HoldsOp(srv[s])) /\ Announced

Same(rec, old) == rec.req = old.req /\ rec.read = old.read /\ rec.next = old.next

LEMMA SameSays ==
  ASSUME NEW rec, NEW old, Same(rec, old)
  PROVE  Says(rec) = Says(old)
BY DEF Same, Says

(* A step that stores nothing, of a server that still announces what it    *)
(* was going to, or has failed.                                            *)
LEMMA LocalAnnounced ==
  ASSUME DInv, NEW s \in Servers, NEW rec, Become(s, rec), HoldsOp(rec),
         owed' = owed, broken \subseteq broken',
         Announces(srv[s]) => \/ Announces(rec) /\ Same(rec, srv[s])
                              \/ Model(s) \in broken'
  PROVE  (\A t \in Servers : HoldsOp(srv[t]))' /\ Announced'
<1>1. srv'[s] = rec /\ \A t \in Servers : t # s => srv'[t] = srv[t]
  BY Others DEF DInv
<1>2. (\A t \in Servers : HoldsOp(srv[t]))'
  BY <1>1 DEF DInv, HoldsOp
<1>3. ASSUME NEW m \in Models, owed[m] # Settled, m \notin broken'
      PROVE  \E t \in Servers : /\ Announces(srv'[t]) /\ srv'[t].req.model = m
                                /\ Says(srv'[t]) = owed[m]
  <2>1. PICK t \in Servers : /\ Announces(srv[t]) /\ srv[t].req.model = m
                             /\ Says(srv[t]) = owed[m]
    BY <1>3 DEF DInv, Announced
  <2>2. CASE t = s
    <3>1. Announces(rec) /\ Same(rec, srv[s])
      BY <1>3, <2>1, <2>2 DEF Model
    <3> QED
      BY <1>1, <2>1, <2>2, <3>1, SameSays DEF Same
  <2> QED
    BY <1>1, <2>1, <2>2
<1> QED
  BY <1>2, <1>3 DEF Announced, Announces, Says

(* A store that changes what is deployed leaves its server announcing it.  *)
LEMMA StoreAnnounced ==
  ASSUME DInv, NEW s \in Servers, Store(s)
  PROVE  (\A t \in Servers : HoldsOp(srv[t]))' /\ Announced'
<1>1. AInv /\ srv[s] \in Server /\ owed \in [Models -> Maybe \cup {Settled}]
  BY DEF DInv, AInv, IInv, TypeOK
<1>2. srv[s].pc = "store" /\ broken' = broken /\ Goto(s, "enlist")
  BY DEF Store, At
<1>3. PICK rec : Become(s, rec) /\ rec.pc = "enlist" /\ Same(rec, srv[s])
  BY <1>1, <1>2, Moved DEF Same
<1>4. srv'[s] = rec /\ \A t \in Servers : t # s => srv'[t] = srv[t]
  BY <1>1, <1>3, Others
<1>5. HoldsOp(rec) /\ ~Announces(srv[s])
  BY <1>2, <1>3 DEF HoldsOp, Announces
<1>6. CASE ~Changes(s)
  <2>1. owed' = owed
    BY <1>6 DEF Store
  <2> QED
    BY <1>2, <1>3, <1>5, <2>1, LocalAnnounced
<1>7. CASE Changes(s)
  <2>1. owed' = [owed EXCEPT ![Model(s)] = srv[s].next.deployed]
    BY <1>7 DEF Store
  <2>2. StagedFor(srv[s])
    BY <1>1, <1>2 DEF AInv, Staged, Reading
  <2>3. srv[s].next.deployed # srv[s].read.val.deployed
    BY <1>7 DEF Changes
  <2>4. srv[s].read.val \in Manifest
    BY <1>1 DEF Server, Entry
  <2>5. srv[s].req.op # "put" /\ Says(srv[s]) = srv[s].next.deployed
    <3>1. CASE StagedPut(srv[s])
      BY <2>3, <2>4, <3>1 DEF StagedPut, AddVersion, Manifest
    <3>2. CASE StagedDelete(srv[s])
      BY <2>3, <2>4, <3>2 DEF StagedDelete, DeleteVersion, Manifest, Says
    <3>3. CASE StagedDeploy(srv[s])
      BY <3>3 DEF StagedDeploy, Says
    <3>4. CASE StagedUndeploy(srv[s])
      BY <2>4, <3>4 DEF StagedUndeploy, Undeploy, Manifest, Says
    <3> QED
      BY <2>2, <3>1, <3>2, <3>3, <3>4 DEF StagedFor
  <2>6. Announces(rec) /\ Says(rec) = srv[s].next.deployed /\ rec.req.model = Model(s)
    BY <1>3, <2>3, <2>5, SameSays DEF Announces, Same, Model
  <2>7. ASSUME NEW m \in Models, owed'[m] # Settled, m \notin broken
        PROVE  \E t \in Servers : /\ Announces(srv'[t]) /\ srv'[t].req.model = m
                                  /\ Says(srv'[t]) = owed'[m]
    <3>1. CASE m = Model(s)
      BY <1>1, <1>4, <2>1, <2>6, <3>1
    <3>2. CASE m # Model(s)
      <4>1. owed'[m] = owed[m]
        BY <1>1, <2>1, <3>2
      <4>2. PICK t \in Servers : /\ Announces(srv[t]) /\ srv[t].req.model = m
                                 /\ Says(srv[t]) = owed[m]
        BY <2>7, <4>1 DEF DInv, Announced
      <4>3. t # s
        BY <1>5, <4>2
      <4> QED
        BY <1>4, <4>1, <4>2, <4>3
    <3> QED
      BY <3>1, <3>2
  <2>8. (\A t \in Servers : HoldsOp(srv[t]))'
    BY <1>4, <1>5 DEF DInv, HoldsOp
  <2> QED
    BY <1>2, <2>7, <2>8 DEF Announced, Announces, Says
<1> QED
  BY <1>6, <1>7

(* A purge of a deployed model leaves its server announcing it.            *)
LEMMA PurgeAnnounced ==
  ASSUME DInv, NEW s \in Servers, Purge(s)
  PROVE  (\A t \in Servers : HoldsOp(srv[t]))' /\ Announced'
<1>1. AInv /\ owed \in [Models -> Maybe \cup {Settled}]
  BY DEF DInv, AInv, IInv, TypeOK
<1>2. srv[s].pc = "purge" /\ broken' = broken /\ Goto(s, "notify")
  BY DEF Purge, At
<1>3. PICK rec : Become(s, rec) /\ rec.pc = "notify" /\ Same(rec, srv[s])
  BY <1>1, <1>2, Moved DEF Same
<1>4. srv'[s] = rec /\ \A t \in Servers : t # s => srv'[t] = srv[t]
  BY <1>1, <1>3, Others
<1>5. HoldsOp(rec) /\ ~Announces(srv[s])
  BY <1>2, <1>3 DEF HoldsOp, Announces
<1>6. Announces(rec) /\ Says(rec) = NoVersion /\ rec.req.model = Model(s)
  <2>1. srv[s].req.op = "delete"
    BY <1>2 DEF DInv, HoldsOp
  <2> QED
    BY <1>3, <2>1 DEF Announces, Says, Same, Model
<1>7. owed' = owed \/ owed' = [owed EXCEPT ![Model(s)] = NoVersion]
  BY DEF Purge
<1>8. ASSUME NEW m \in Models, owed'[m] # Settled, m \notin broken
      PROVE  \E t \in Servers : /\ Announces(srv'[t]) /\ srv'[t].req.model = m
                                /\ Says(srv'[t]) = owed'[m]
  <2>1. CASE m = Model(s) /\ owed'[m] = NoVersion
    BY <1>4, <1>6, <2>1
  <2>2. CASE owed'[m] = owed[m]
    <3>1. PICK t \in Servers : /\ Announces(srv[t]) /\ srv[t].req.model = m
                               /\ Says(srv[t]) = owed[m]
      BY <1>8, <2>2 DEF DInv, Announced
    <3>2. t # s
      BY <1>5, <3>1
    <3> QED
      BY <1>4, <2>2, <3>1, <3>2
  <2> QED
    BY <1>1, <1>7, <2>1, <2>2
<1>9. (\A t \in Servers : HoldsOp(srv[t]))'
  BY <1>4, <1>5 DEF DInv, HoldsOp
<1> QED
  BY <1>2, <1>8, <1>9 DEF Announced, Announces, Says

(* An announcement settles what it says and nothing else.                  *)
LEMMA NotifyAnnounced ==
  ASSUME DInv, NEW s \in Servers, Notify(s)
  PROVE  (\A t \in Servers : HoldsOp(srv[t]))' /\ Announced'
<1>1. AInv /\ owed \in [Models -> Maybe \cup {Settled}]
  BY DEF DInv, AInv, IInv, TypeOK
<1>2. broken' = broken
  BY DEF Notify
<1>3. PICK rec : Become(s, rec) /\ rec.pc = "idle"
  BY Replied DEF Notify
<1>4. srv'[s] = rec /\ \A t \in Servers : t # s => srv'[t] = srv[t]
  BY <1>1, <1>3, Others
<1>5. \A m \in Models : \/ owed'[m] = Settled
                        \/ owed'[m] = owed[m] /\ (m = Model(s) => owed[m] # Says(srv[s]))
  BY <1>1 DEF Notify, Note, Says
<1>6. ASSUME NEW m \in Models, owed'[m] # Settled, m \notin broken
      PROVE  \E t \in Servers : /\ Announces(srv'[t]) /\ srv'[t].req.model = m
                                /\ Says(srv'[t]) = owed'[m]
  <2>1. owed'[m] = owed[m] /\ (m = Model(s) => owed[m] # Says(srv[s]))
    BY <1>5, <1>6
  <2>2. PICK t \in Servers : /\ Announces(srv[t]) /\ srv[t].req.model = m
                             /\ Says(srv[t]) = owed[m]
    BY <1>6, <2>1 DEF DInv, Announced
  <2>3. t # s
    BY <2>1, <2>2 DEF Model
  <2> QED
    BY <1>4, <2>1, <2>2, <2>3
<1>7. (\A t \in Servers : HoldsOp(srv[t]))'
  BY <1>3, <1>4 DEF DInv, HoldsOp
<1> QED
  BY <1>2, <1>6, <1>7 DEF Announced, Announces, Says

LEMMA AnnouncedStep ==
  ASSUME DInv, NEW s \in Servers, Receive(s) \/ Handle(s)
  PROVE  (\A t \in Servers : HoldsOp(srv[t]))' /\ Announced'
<1>1. AInv /\ srv[s] \in Server /\ HoldsOp(srv[s])
  BY DEF DInv, AInv, IInv, TypeOK
<1>2. CASE Prepares(s)
  <2>1. PICK rec : /\ Become(s, rec)
                   /\ rec.pc \notin {"enlist", "enlist_write", "unlist_write", "purge"}
                   /\ rec.pc = "unlist" => rec.req.op = "delete"
    BY <1>1, <1>2, PreparesFacts
  <2>2. HoldsOp(rec)
    BY <2>1 DEF HoldsOp
  <2>3. ~Announces(srv[s]) /\ owed' = owed /\ broken' = broken
    BY <1>1, <1>2, PreparesFacts DEF Reading, Announces
  <2> QED
    BY <2>1, <2>2, <2>3, LocalAnnounced
<1>3. CASE Store(s) \/ Purge(s) \/ Notify(s)
  BY <1>3, StoreAnnounced, PurgeAnnounced, NotifyAnnounced
<1>4. CASE Enlist(s) \/ EnlistWrite(s)
  <2>1. owed' = owed /\ broken' = broken /\ srv[s].pc \in {"enlist", "enlist_write"}
    BY <1>4 DEF Enlist, EnlistWrite, aux, At
  <2>2. CASE Enlisted(s)
    <3>1. CASE Goto(s, "notify")
      <4>1. PICK rec : Become(s, rec) /\ rec.pc = "notify" /\ Same(rec, srv[s])
        BY <1>1, <3>1, Moved DEF Same
      <4>2. HoldsOp(rec) /\ Announces(rec)
        BY <4>1 DEF HoldsOp, Announces
      <4> QED
        BY <2>1, <4>1, <4>2, LocalAnnounced
    <3>2. CASE /\ Reply(s)
               /\ srv[s].req.op = "put" \/ (srv[s].req.op = "delete" /\ ~Changes(s))
      <4>1. ~Announces(srv[s])
        BY <2>1, <3>2 DEF Announces, Changes
      <4>2. PICK rec : Become(s, rec) /\ rec.pc = "idle"
        BY <3>2, Replied
      <4>3. HoldsOp(rec)
        BY <4>2 DEF HoldsOp
      <4> QED
        BY <2>1, <4>1, <4>2, <4>3, LocalAnnounced
    <3> QED
      BY <2>2, <3>1, <3>2 DEF Enlisted
  <2>3. CASE ReadNames(s, "enlist_write")
    <3> DEFINE rec == [srv[s] EXCEPT !.pc = "enlist_write", !.names = nameSet]
    <3>1. rec.pc = "enlist_write" /\ Same(rec, srv[s]) /\ Become(s, rec)
      BY <1>1, <2>3 DEF Server, ReadNames, Same
    <3> HIDE DEF rec
    <3>2. HoldsOp(rec) /\ (Announces(srv[s]) => Announces(rec))
      BY <2>1, <3>1 DEF HoldsOp, Announces, Same
    <3> QED
      BY <2>1, <3>1, <3>2, LocalAnnounced
  <2> QED
    BY <1>4, <2>2, <2>3 DEF Enlist, EnlistWrite
<1>5. CASE Unlist(s) \/ UnlistWrite(s)
  <2>1. /\ owed' = owed /\ broken' = broken
        /\ srv[s].req.op = "delete" /\ ~Announces(srv[s])
    BY <1>1, <1>5 DEF Unlist, UnlistWrite, aux, At, HoldsOp, Announces
  <2>2. PICK rec : Become(s, rec) /\ rec.req = srv[s].req
    <3>1. CASE Goto(s, "purge")
      BY <1>1, <3>1, Moved
    <3>2. CASE ReadNames(s, "unlist_write")
      <4> DEFINE rec == [srv[s] EXCEPT !.pc = "unlist_write", !.names = nameSet]
      <4>1. rec.req = srv[s].req /\ Become(s, rec)
        BY <1>1, <3>2 DEF Server, ReadNames
      <4> QED
        BY <4>1
    <3> QED
      BY <1>5, <3>1, <3>2 DEF Unlist, UnlistWrite
  <2>3. HoldsOp(rec)
    BY <2>1, <2>2 DEF HoldsOp
  <2> QED
    BY <2>1, <2>2, <2>3, LocalAnnounced
<1>6. CASE NamesRetry(s)
  <2>1. owed' = owed /\ broken' = broken
    BY <1>6 DEF NamesRetry, aux
  <2>1a. PICK pc \in {"enlist", "unlist"} : \E n :
           /\ Become(s, [srv[s] EXCEPT !.pc = pc, !.names = NoNames, !.tries = n])
           /\ srv[s].pc \in {"enlist_write", "unlist_write"}
           /\ pc = "enlist" <=> srv[s].pc = "enlist_write"
    BY <1>6 DEF NamesRetry
  <2>2. PICK n : /\ Become(s, [srv[s] EXCEPT !.pc = pc, !.names = NoNames, !.tries = n])
                 /\ srv[s].pc \in {"enlist_write", "unlist_write"}
                 /\ pc = "enlist" <=> srv[s].pc = "enlist_write"
    BY <2>1a
  <2> DEFINE rec == [srv[s] EXCEPT !.pc = pc, !.names = NoNames, !.tries = n]
  <2>3. rec.pc = pc /\ Same(rec, srv[s]) /\ Become(s, rec)
    BY <1>1, <2>2 DEF Server, Same
  <2> HIDE DEF rec
  <2>4. HoldsOp(rec) /\ (Announces(srv[s]) => Announces(rec))
    BY <1>1, <2>2, <2>3 DEF HoldsOp, Announces, Same
  <2> QED
    BY <2>1, <2>3, <2>4, LocalAnnounced
<1>7. CASE EnlistFails(s) \/ UnlistFails(s) \/ PurgeFault(s) \/ NotifyFault(s)
  <2>1. owed' = owed /\ broken \subseteq broken'
    BY <1>7 DEF EnlistFails, UnlistFails, PurgeFault, NotifyFault, ReplyBroken, aux
  <2>2. Announces(srv[s]) => Model(s) \in broken'
    BY <1>7 DEF EnlistFails, UnlistFails, PurgeFault, NotifyFault, ReplyBroken, Announces, At
  <2>3. Reply(s) \/ Goto(s, "notify")
    BY <1>7 DEF EnlistFails, UnlistFails, PurgeFault, NotifyFault, ReplyBroken, SetFailed
  <2>4. PICK rec : Become(s, rec) /\ rec.pc \in {"idle", "notify"}
    BY <1>1, <2>3, Replied, Moved
  <2>5. HoldsOp(rec)
    BY <2>4 DEF HoldsOp
  <2> QED
    BY <2>1, <2>2, <2>4, <2>5, LocalAnnounced
<1> QED
  BY <1>2, <1>3, <1>4, <1>5, <1>6, <1>7 DEF Handle, Prepares

LEMMA NextDInv == DInv /\ [Next]_vars => DInv'
<1> SUFFICES ASSUME DInv, [Next]_vars PROVE DInv'
  OBVIOUS
<1>1. AInv'
  BY NextAInv DEF DInv
<1>2. CASE UNCHANGED vars
  <2>1. UNCHANGED <<srv, owed, broken>>
    BY <1>2 DEF vars, aux
  <2> QED
    BY <1>1, <2>1 DEF DInv, HoldsOp, Announced, Announces, Says
<1>3. CASE Next
  BY <1>1, <1>3, AnnouncedStep DEF Next, DInv
<1> QED
  BY <1>2, <1>3

(* A change of what is deployed is announced to the scalers: whatever the  *)
(* servers interleave, the deployment stored last is announced, or a       *)
(* server is on its way to announce exactly it, or has failed.             *)
THEOREM ChangesReachScalers == Spec => []ChangesAreAnnounced
<1>1. Init => DInv
  <2>1. Init => AInv
    BY InitLInv DEF LInv
  <2>2. Init => \A s \in Servers : HoldsOp(srv[s])
    BY FreshTyped DEF Init, HoldsOp
  <2>3. Init => Announced
    BY DEF Init, Announced
  <2> QED
    BY <2>1, <2>2, <2>3 DEF DInv
<1>2. DInv => ChangesAreAnnounced
  BY DEF DInv, Announced, Announces, Says, ChangesAreAnnounced, WillNotify, At, Model, Note
<1> QED
  BY <1>1, <1>2, NextDInv, PTL DEF Spec
=============================================================================
