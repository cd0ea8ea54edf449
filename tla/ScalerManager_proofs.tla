------------------------ MODULE ScalerManager_proofs ------------------------
(***************************************************************************)
(* Proofs about ScalerManager, for any instances, manifests, versions and  *)
(* numbers of changes and faults: that all instances come to have the      *)
(* scalers of what is deployed, and that once a change of a manifest is    *)
(* handled, nothing of an older version goes on running.                   *)
(***************************************************************************)
EXTENDS ScalerManager, TLAPS, SequenceTheorems

EventRec == [manifest : Manifests, version : Deployments, number : Nat \ {0},
             tries : 1 .. MaxDeliver]
NoteRec == {n \in [type : {"create", "delete"}, manifest : Manifests, version : Deployments] :
              n.version = None <=> n.type = "delete"}
BatchRec == {batch \in [make : BOOLEAN, manifest : Manifests, ids : SUBSET AllIds] :
               batch.ids # {}}

(* Who is idle has nothing, and who is not has an event; only what an      *)
(* upgrade drops is to be cleaned up, and that after the refresh.          *)
Dropped(w) == IdsOf(w.old) \ IdsOf(w.event.version)

WorkRec ==
  {w \in [step : Steps, event : EventRec \cup {NoEvent}, old : Deployments,
          cleanup : SUBSET AllIds, late : BOOLEAN] :
     /\ w.step = "idle" => w = Idle
     /\ w.step # "idle" => w.event \in EventRec
     /\ w.step = "reconcile" => ~Unpublished(w.event)
     /\ w.step = "refresh" \/ Unpublished(w.event) => w.cleanup = {}
     /\ w.cleanup \subseteq Dropped(w)}

NotifierShape(i) ==
  /\ status[i] # "up" => cleaning[i] = None
  /\ status[i] = "down" => notes[i] = <<>>
  /\ cleaning[i] # None => notes[i] # <<>> /\ Note(i).type = "delete"

WorkTyped ==
  /\ work \in [Instances -> WorkRec]
  /\ status \in [Instances -> {"up", "starting", "down"}]
  /\ \A i \in Instances : Busy(i) => status[i] = "up"

NotesTyped ==
  /\ notes \in [Instances -> Seq(NoteRec)]
  /\ cleaning \in [Instances -> Deployments]
  /\ \A i \in Instances : NotifierShape(i)

StoredTyped ==
  /\ deployed \in [Manifests -> Deployments]
  /\ changes \in 0 .. MaxChanges
  /\ queue \in Seq(EventRec)
  /\ scalers \in [Instances -> [Manifests -> Deployments]]

LatticeTyped ==
  /\ sent \in Seq(BatchRec)
  /\ running \in [Manifests -> SUBSET AllIds]
  /\ reported \in [Manifests -> {"undeployed", "deployed"}]

AuxTyped ==
  /\ faults \in 0 .. MaxFaults
  /\ aux_last \in [Manifests -> Nat]
  /\ aux_spoiled \in [Manifests -> SUBSET Reasons]

TInv == WorkTyped /\ NotesTyped /\ StoredTyped /\ LatticeTyped /\ AuxTyped
-----------------------------------------------------------------------------
(* Sequences.                                                              *)
LEMMA SeqAppend ==
  ASSUME NEW S, NEW s \in Seq(S), NEW x \in S
  PROVE  /\ Append(s, x) \in Seq(S) /\ s \o <<x>> = Append(s, x) /\ s \o <<>> = s
         /\ Len(Append(s, x)) = Len(s) + 1 /\ Len(s) \in Nat
         /\ Append(s, x)[Len(s) + 1] = x
         /\ \A k \in 1 .. Len(s) : Append(s, x)[k] = s[k]
         /\ ToSet(Append(s, x)) = ToSet(s) \cup {x}
<1>1. /\ Append(s, x) \in Seq(S) /\ Len(Append(s, x)) = Len(s) + 1 /\ Len(s) \in Nat
      /\ Append(s, x)[Len(s) + 1] = x
      /\ \A k \in 1 .. Len(s) : Append(s, x)[k] = s[k]
      /\ DOMAIN s = 1 .. Len(s) /\ DOMAIN Append(s, x) = 1 .. Len(s) + 1
  OBVIOUS
<1>2. s \o <<x>> = Append(s, x) /\ s \o <<>> = s
  BY AppendIsConcat, ConcatEmptySeq
<1>3. ToSet(Append(s, x)) = ToSet(s) \cup {x}
  BY <1>1 DEF ToSet
<1> QED
  BY <1>1, <1>2, <1>3

LEMMA SeqTail ==
  ASSUME NEW S, NEW s \in Seq(S), s # <<>>
  PROVE  /\ Tail(s) \in Seq(S) /\ Head(s) \in S /\ Head(s) = s[1]
         /\ Len(Tail(s)) = Len(s) - 1 /\ Len(s) \in Nat \ {0}
         /\ \A k \in 1 .. Len(s) - 1 : Tail(s)[k] = s[k + 1]
         /\ ToSet(s) = ToSet(Tail(s)) \cup {Head(s)}
<1>1. /\ Tail(s) \in Seq(S) /\ Head(s) \in S /\ Head(s) = s[1]
      /\ Len(Tail(s)) = Len(s) - 1 /\ Len(s) \in Nat \ {0}
      /\ \A k \in 1 .. Len(s) - 1 : Tail(s)[k] = s[k + 1]
      /\ DOMAIN s = 1 .. Len(s) /\ DOMAIN Tail(s) = 1 .. Len(s) - 1
  OBVIOUS
<1>2. ASSUME NEW e \in ToSet(s) PROVE e \in ToSet(Tail(s)) \cup {Head(s)}
  <2>1. PICK k \in 1 .. Len(s) : s[k] = e
    BY <1>1, <1>2 DEF ToSet
  <2>2. CASE k = 1
    BY <1>1, <2>1, <2>2
  <2>3. CASE k # 1
    <3>1. k - 1 \in 1 .. Len(s) - 1 /\ (k - 1) + 1 = k
      BY <1>1, <2>3
    <3>2. Tail(s)[k - 1] = e
      BY <1>1, <2>1, <3>1
    <3> QED
      BY <1>1, <3>1, <3>2 DEF ToSet
  <2> QED
    BY <2>2, <2>3
<1>3. ASSUME NEW e \in ToSet(Tail(s)) \cup {Head(s)} PROVE e \in ToSet(s)
  <2>1. CASE e = Head(s)
    BY <1>1, <2>1 DEF ToSet
  <2>2. CASE e \in ToSet(Tail(s))
    <3>1. PICK k \in 1 .. Len(s) - 1 : Tail(s)[k] = e
      BY <1>1, <2>2 DEF ToSet
    <3>2. k + 1 \in 1 .. Len(s) /\ s[k + 1] = e
      BY <1>1, <3>1
    <3> QED
      BY <1>1, <3>2 DEF ToSet
  <2> QED
    BY <1>3, <2>1, <2>2
<1> QED
  BY <1>1, <1>2, <1>3

LEMMA SeqElems ==
  ASSUME NEW S, NEW s \in Seq(S)
  PROVE  /\ Len(s) \in Nat /\ DOMAIN s = 1 .. Len(s) /\ s \in [1 .. Len(s) -> S]
         /\ ToSet(s) = {s[k] : k \in 1 .. Len(s)} /\ ToSet(s) \subseteq S
BY LenProperties DEF ToSet

LEMMA SeqCons ==
  ASSUME NEW S, NEW s \in Seq(S), NEW x \in S
  PROVE  <<x>> \o s \in Seq(S) /\ ToSet(<<x>> \o s) = ToSet(s) \cup {x}
<1> DEFINE t == <<x>> \o s
<1>1. <<x>> \in Seq(S) /\ Len(<<x>>) = 1 /\ <<x>>[1] = x
  OBVIOUS
<1>2. /\ t \in Seq(S) /\ Len(t) = 1 + Len(s) /\ Len(s) \in Nat
      /\ \A k \in 1 .. 1 + Len(s) : t[k] = IF k <= 1 THEN <<x>>[k] ELSE s[k - 1]
  BY <1>1, ConcatProperties, LenProperties
<1>3. t[1] = x /\ \A k \in 1 .. Len(s) : t[k + 1] = s[k]
  BY <1>1, <1>2
<1> HIDE DEF t
<1>4. ToSet(t) = {t[k] : k \in 1 .. Len(t)} /\ ToSet(s) = {s[k] : k \in 1 .. Len(s)}
  BY <1>2, SeqElems
<1>5. ASSUME NEW e \in ToSet(t) PROVE e \in ToSet(s) \cup {x}
  <2>1. PICK k \in 1 .. Len(t) : t[k] = e
    BY <1>4, <1>5
  <2>2. CASE k = 1
    BY <1>3, <2>1, <2>2
  <2>3. CASE k # 1
    <3>1. k - 1 \in 1 .. Len(s) /\ (k - 1) + 1 = k
      BY <1>2, <2>1, <2>3
    <3>2. s[k - 1] = e
      BY <1>3, <2>1, <3>1
    <3> QED
      BY <1>4, <3>1, <3>2
  <2> QED
    BY <2>2, <2>3
<1>6. ASSUME NEW e \in ToSet(s) \cup {x} PROVE e \in ToSet(t)
  <2>1. 1 \in 1 .. Len(t) /\ \A k \in 1 .. Len(s) : k + 1 \in 1 .. Len(t)
    BY <1>2
  <2> QED
    BY <1>3, <1>4, <1>6, <2>1
<1>7. ToSet(t) = ToSet(s) \cup {x}
  BY <1>5, <1>6
<1> QED
  BY <1>2, <1>7 DEF t

(* Only the event of that number is taken out.                             *)
LEMMA WithoutMeans ==
  ASSUME NEW q \in Seq(EventRec), NEW n
  PROVE  \/ Without(q, n) = q /\ \A k \in 1 .. Len(q) : q[k].number # n
         \/ \E c \in 1 .. Len(q) :
              /\ q[c].number = n /\ Without(q, n) \in Seq(EventRec)
              /\ Len(Without(q, n)) = Len(q) - 1 /\ Len(q) \in Nat
              /\ \A k \in 1 .. Len(q) - 1 :
                   Without(q, n)[k] = IF k < c THEN q[k] ELSE q[k + 1]
<1>0. DOMAIN q = 1 .. Len(q)
  BY SeqElems
<1>1. CASE ~\E k \in DOMAIN q : q[k].number = n
  BY <1>0, <1>1 DEF Without
<1>2. CASE \E k \in DOMAIN q : q[k].number = n
  <2> DEFINE c == CHOOSE k \in DOMAIN q : q[k].number = n
  <2>1. c \in DOMAIN q /\ q[c].number = n
    BY <1>2
  <2> DEFINE p == SubSeq(q, 1, c - 1)
             r == SubSeq(q, c + 1, Len(q))
             t == p \o r
  <2>2. Without(q, n) = t
    BY <1>2 DEF Without, RemoveAt
  <2> HIDE DEF c
  <2>3. /\ Len(q) \in Nat /\ c \in 1 .. Len(q) /\ \A k \in 1 .. Len(q) : q[k] \in EventRec
        /\ ToSet(q) = {q[k] : k \in 1 .. Len(q)}
    BY <2>1, SeqElems
  <2>4. /\ p \in Seq(EventRec) /\ Len(p) = c - 1
        /\ \A k \in 1 .. c - 1 : p[k] = q[k]
    <3>1. c - 1 \in Int /\ 1 \in Int /\ \A k \in 1 .. c - 1 : q[k] \in EventRec
      BY <2>3
    <3>2. /\ p \in Seq(EventRec) /\ Len(p) = IF 1 <= c - 1 THEN (c - 1) - 1 + 1 ELSE 0
          /\ \A k \in 1 .. (c - 1) - 1 + 1 : p[k] = q[1 + k - 1]
      BY <3>1, SubSeqProperties
    <3> QED
      BY <2>3, <3>2
  <2>5. /\ r \in Seq(EventRec) /\ Len(r) = Len(q) - c
        /\ \A k \in 1 .. Len(q) - c : r[k] = q[c + k]
    <3>1. c + 1 \in Int /\ Len(q) \in Int /\ \A k \in c + 1 .. Len(q) : q[k] \in EventRec
      BY <2>3
    <3>2. /\ r \in Seq(EventRec)
          /\ Len(r) = IF c + 1 <= Len(q) THEN Len(q) - (c + 1) + 1 ELSE 0
          /\ \A k \in 1 .. Len(q) - (c + 1) + 1 : r[k] = q[c + 1 + k - 1]
      BY <3>1, SubSeqProperties
    <3> QED
      BY <2>3, <3>2
  <2> HIDE DEF p, r
  <2>6. /\ t \in Seq(EventRec) /\ Len(t) = Len(q) - 1
        /\ \A k \in 1 .. Len(q) - 1 : t[k] = IF k <= c - 1 THEN p[k] ELSE r[k - (c - 1)]
    <3>1. /\ t \in Seq(EventRec) /\ Len(t) = Len(p) + Len(r)
          /\ \A k \in 1 .. Len(p) + Len(r) : t[k] = IF k <= Len(p) THEN p[k] ELSE r[k - Len(p)]
      BY <2>4, <2>5, ConcatProperties
    <3> QED
      BY <2>3, <2>4, <2>5, <3>1
  <2> HIDE DEF t
  <2>7. ASSUME NEW k \in 1 .. Len(q) - 1 PROVE t[k] = IF k < c THEN q[k] ELSE q[k + 1]
    <3>1. CASE k < c
      <4>1. k \in 1 .. c - 1 /\ k <= c - 1
        BY <2>3, <3>1
      <4> QED
        BY <2>4, <2>6, <3>1, <4>1
    <3>2. CASE ~(k < c)
      <4>1. ~(k <= c - 1) /\ k - (c - 1) \in 1 .. Len(q) - c /\ c + (k - (c - 1)) = k + 1
        BY <2>3, <3>2
      <4> QED
        BY <2>5, <2>6, <3>2, <4>1
    <3> QED
      BY <3>1, <3>2
  <2> QED
    BY <2>1, <2>2, <2>3, <2>6, <2>7
<1> QED
  BY <1>1, <1>2

LEMMA SeqWithout ==
  ASSUME NEW q \in Seq(EventRec), NEW n
  PROVE  /\ Without(q, n) \in Seq(EventRec)
         /\ ToSet(Without(q, n)) \subseteq ToSet(q)
         /\ \A e \in ToSet(q) : e.number # n => e \in ToSet(Without(q, n))
<1> DEFINE t == Without(q, n)
<1>1. CASE t = q
  BY <1>1
<1>2. CASE t # q
  <2>1. PICK c \in 1 .. Len(q) :
          /\ q[c].number = n /\ t \in Seq(EventRec)
          /\ Len(t) = Len(q) - 1 /\ Len(q) \in Nat
          /\ \A k \in 1 .. Len(q) - 1 : t[k] = IF k < c THEN q[k] ELSE q[k + 1]
    BY <1>2, WithoutMeans
  <2> HIDE DEF t
  <2>2. ToSet(t) = {t[k] : k \in 1 .. Len(t)} /\ ToSet(q) = {q[k] : k \in 1 .. Len(q)}
    BY <2>1, SeqElems
  <2>3. ASSUME NEW k \in 1 .. Len(t) PROVE t[k] \in ToSet(q)
    <3>1. k \in 1 .. Len(q) /\ k + 1 \in 1 .. Len(q) /\ (t[k] = q[k] \/ t[k] = q[k + 1])
      BY <2>1
    <3> QED
      BY <2>2, <3>1
  <2>4. ASSUME NEW k \in 1 .. Len(q), q[k].number # n PROVE q[k] \in ToSet(t)
    <3>1. CASE k < c
      <4>1. k \in 1 .. Len(t) /\ t[k] = q[k]
        BY <2>1, <3>1
      <4> QED
        BY <2>2, <4>1
    <3>2. CASE k > c
      <4>1. k - 1 \in 1 .. Len(q) - 1 /\ ~(k - 1 < c) /\ (k - 1) + 1 = k
        BY <2>1, <3>2
      <4>2. k - 1 \in 1 .. Len(t) /\ t[k - 1] = q[k]
        BY <2>1, <4>1
      <4> QED
        BY <2>2, <4>2
    <3> QED
      BY <2>1, <2>4, <3>1, <3>2
  <2> QED
    BY <2>1, <2>2, <2>3, <2>4 DEF t
<1> QED
  BY <1>1, <1>2
-----------------------------------------------------------------------------
(* Type correctness.                                                       *)
LEMMA VersionFacts ==
  /\ IdsOf(None) = {} /\ None \in Deployments /\ First \in Deployments
  /\ \A v \in Deployments : IdsOf(v) \in SUBSET AllIds
BY ScalerManagerAssumption DEF IdsOf, AllIds, Deployments

LEMMA EventFacts ==
  /\ \A m \in Manifests, v \in Deployments, n \in Nat \ {0} : Event(m, v, n) \in EventRec
  /\ \A e \in EventRec : /\ e.manifest \in Manifests /\ e.version \in Deployments
                         /\ e.number \in Nat \ {0} /\ e.tries \in 1 .. MaxDeliver
  /\ NoEvent \notin EventRec /\ NoEvent.manifest \notin Manifests /\ NoEvent.version = None
BY ScalerManagerAssumption DEF EventRec, Event, NoEvent

LEMMA NoteFacts ==
  /\ \A n \in NoteRec : /\ n.manifest \in Manifests /\ n.version \in Deployments
                        /\ n.version = None <=> n.type = "delete"
                        /\ n.type \in {"create", "delete"}
  /\ \A e \in EventRec : /\ Notification(e) \in NoteRec
                         /\ Notification(e).manifest = e.manifest
                         /\ Notification(e).version = e.version
BY EventFacts, VersionFacts DEF NoteRec, Notification, Unpublished, Create, Delete

LEMMA IdleFacts ==
  /\ Idle \in WorkRec /\ Idle.step = "idle" /\ Idle.event = NoEvent
  /\ Idle.old = None /\ Idle.cleanup = {} /\ Idle.late = FALSE
<1>1. /\ Idle.step = "idle" /\ Idle.event = NoEvent
      /\ Idle.old = None /\ Idle.cleanup = {} /\ Idle.late = FALSE
  BY DEF Idle
<1>2. Idle \in [step : Steps, event : EventRec \cup {NoEvent}, old : Deployments,
                cleanup : SUBSET AllIds, late : BOOLEAN]
  BY VersionFacts DEF Idle, Steps
<1>3. {} \subseteq Dropped(Idle)
  OBVIOUS
<1> QED
  BY <1>1, <1>2, <1>3 DEF WorkRec

(* What is known of a worker.                                              *)
LEMMA WorkFacts ==
  ASSUME WorkTyped, NEW i \in Instances
  PROVE  /\ work[i] \in WorkRec
         /\ work[i].step \in Steps /\ work[i].late \in BOOLEAN
         /\ work[i].old \in Deployments /\ work[i].cleanup \in SUBSET AllIds
         /\ work[i].event \in EventRec \cup {NoEvent}
         /\ work[i].step = "idle" => work[i] = Idle
         /\ work[i].step # "idle" => work[i].event \in EventRec
         /\ work[i].step = "reconcile" => ~Unpublished(work[i].event)
         /\ work[i].step = "refresh" \/ Unpublished(work[i].event) => work[i].cleanup = {}
         /\ work[i].cleanup \subseteq Outdated(i) /\ Outdated(i) = Dropped(work[i])
         /\ Outdated(i) \in SUBSET AllIds
         /\ Busy(i) <=> work[i].step # "idle"
<1>1. work[i] \in WorkRec
  BY DEF WorkTyped
<1>2. /\ work[i].step \in Steps /\ work[i].late \in BOOLEAN
      /\ work[i].old \in Deployments /\ work[i].cleanup \in SUBSET AllIds
      /\ work[i].event \in EventRec \cup {NoEvent}
      /\ work[i].step = "idle" => work[i] = Idle
      /\ work[i].step # "idle" => work[i].event \in EventRec
      /\ work[i].step = "reconcile" => ~Unpublished(work[i].event)
      /\ work[i].step = "refresh" \/ Unpublished(work[i].event) => work[i].cleanup = {}
      /\ work[i].cleanup \subseteq Dropped(work[i])
  BY <1>1 DEF WorkRec
<1>3. Outdated(i) = Dropped(work[i]) /\ Outdated(i) \in SUBSET AllIds
  BY <1>2, VersionFacts DEF Outdated, Dropped
<1> QED
  BY <1>1, <1>2, <1>3 DEF Busy

(* A worker moves on.                                                      *)
LEMMA WorkMoves ==
  ASSUME WorkTyped, NEW i \in Instances, NEW w \in WorkRec,
         work' = [work EXCEPT ![i] = w], status' = status,
         w.step = "idle" \/ status[i] = "up"
  PROVE  /\ WorkTyped' /\ work'[i] = w
         /\ \A j \in Instances : j # i => work'[j] = work[j]
         /\ \A j \in Instances : work'[j] = IF j = i THEN w ELSE work[j]
BY DEF WorkTyped, Busy

(* The same event, to be handled again.                                    *)
Copy(f, e) ==
  /\ f.manifest = e.manifest /\ f.version = e.version /\ f.number = e.number

LEMMA RequeueFacts ==
  ASSUME queue \in Seq(EventRec), NEW e \in EventRec
  PROVE  /\ Requeue(e) \in Seq(EventRec)
         /\ ToSet(queue) \subseteq ToSet(Requeue(e))
         /\ \A f \in ToSet(Requeue(e)) : f \in ToSet(queue) \/ Copy(f, e)
         /\ e.tries < MaxDeliver => \E f \in ToSet(Requeue(e)) : Copy(f, e)
<1> DEFINE again == [e EXCEPT !.tries = @ + 1]
           more == e.tries < MaxDeliver
<1>1. CASE more
  <2>1. Copy(again, e) /\ again.number = e.number /\ again \in EventRec
    <3>1. e.tries + 1 \in 1 .. MaxDeliver
      BY <1>1, EventFacts, ScalerManagerAssumption
    <3>2. /\ again.manifest = e.manifest /\ again.version = e.version
          /\ again.number = e.number
      BY DEF EventRec
    <3>3. again \in EventRec
      BY <3>1 DEF EventRec
    <3> QED
      BY <3>2, <3>3 DEF Copy
  <2>2. Requeue(e) = <<again>> \o queue
    BY <1>1 DEF Requeue
  <2> HIDE DEF again
  <2>3. Requeue(e) \in Seq(EventRec) /\ ToSet(Requeue(e)) = ToSet(queue) \cup {again}
    BY <2>1, <2>2, SeqCons
  <2> QED
    BY <2>1, <2>3
<1>2. CASE ~more
  <2>1. Requeue(e) = queue
    BY <1>2 DEF Requeue
  <2> HIDE DEF more
  <2> QED
    BY <1>2, <2>1 DEF more
<1> QED
  BY <1>1, <1>2

LEMMA SpoilFacts ==
  ASSUME AuxTyped, NEW m \in Manifests, NEW why \in SUBSET Reasons, Spoil(m, why)
  PROVE  /\ aux_spoiled' \in [Manifests -> SUBSET Reasons]
         /\ \A n \in Manifests : aux_spoiled'[n] =
              IF n = m THEN aux_spoiled[n] \cup why ELSE aux_spoiled[n]
BY DEF AuxTyped, Spoil

LEMMA FaultFacts ==
  ASSUME AuxTyped, Fault
  PROVE  faults' \in 0 .. MaxFaults
BY ScalerManagerAssumption DEF AuxTyped, Fault

(* A worker is done, and its event, if not handled, comes again.           *)
LEMMA NackTyped ==
  ASSUME TInv, NEW i \in Instances, Busy(i), NEW why \in SUBSET Reasons, Nack(i, why),
         status' = status
  PROVE  /\ WorkTyped' /\ queue' \in Seq(EventRec)
         /\ aux_spoiled' \in [Manifests -> SUBSET Reasons]
         /\ work'[i] = Idle /\ \A j \in Instances : j # i => work'[j] = work[j]
         /\ queue' = IF work[i].late THEN queue ELSE Requeue(work[i].event)
         /\ ToSet(queue) \subseteq ToSet(queue')
         /\ \A f \in ToSet(queue') : f \in ToSet(queue) \/ Copy(f, work[i].event)
         /\ \A n \in Manifests : aux_spoiled'[n] = aux_spoiled[n] \cup
              IF n = work[i].event.manifest
              THEN why \cup (IF work[i].late THEN {} ELSE GivenUp(work[i].event))
              ELSE {}
<1> DEFINE e == work[i].event
           all == why \cup (IF work[i].late THEN {} ELSE GivenUp(e))
<1>1. e \in EventRec /\ e.manifest \in Manifests
  BY WorkFacts, EventFacts DEF TInv
<1>2. all \in SUBSET Reasons
  BY DEF GivenUp, Reasons
<1>3. /\ work' = [work EXCEPT ![i] = Idle]
      /\ queue' = IF work[i].late THEN queue ELSE Requeue(e)
      /\ Spoil(e.manifest, all)
  BY DEF Nack
<1> HIDE DEF e, all
<1>4. /\ WorkTyped' /\ work'[i] = Idle /\ \A j \in Instances : j # i => work'[j] = work[j]
  BY <1>3, WorkMoves, IdleFacts DEF TInv
<1>5. /\ queue' \in Seq(EventRec) /\ ToSet(queue) \subseteq ToSet(queue')
      /\ \A f \in ToSet(queue') : f \in ToSet(queue) \/ Copy(f, e)
  BY <1>1, <1>3, RequeueFacts DEF TInv, StoredTyped
<1>6. /\ aux_spoiled' \in [Manifests -> SUBSET Reasons]
      /\ \A n \in Manifests : aux_spoiled'[n] =
           IF n = e.manifest THEN aux_spoiled[n] \cup all ELSE aux_spoiled[n]
  BY <1>1, <1>2, <1>3, SpoilFacts DEF TInv
<1> QED
  BY <1>3, <1>4, <1>5, <1>6 DEF e, all

LEMMA AckTyped ==
  ASSUME TInv, NEW i \in Instances, Ack(i), status' = status
  PROVE  /\ WorkTyped' /\ queue' \in Seq(EventRec)
         /\ work'[i] = Idle /\ \A j \in Instances : j # i => work'[j] = work[j]
         /\ ToSet(queue') \subseteq ToSet(queue)
         /\ \A e \in ToSet(queue) : e.number # work[i].event.number => e \in ToSet(queue')
<1>1. /\ work' = [work EXCEPT ![i] = Idle]
      /\ queue' = Without(queue, work[i].event.number)
  BY DEF Ack
<1> DEFINE q == Without(queue, work[i].event.number)
<1>2. /\ q \in Seq(EventRec) /\ ToSet(q) \subseteq ToSet(queue)
      /\ \A e \in ToSet(queue) : e.number # work[i].event.number => e \in ToSet(q)
  BY SeqWithout DEF TInv, StoredTyped
<1>3. WorkTyped' /\ work'[i] = Idle /\ \A j \in Instances : j # i => work'[j] = work[j]
  BY <1>1, WorkMoves, IdleFacts DEF TInv
<1> HIDE DEF q
<1> QED
  BY <1>1, <1>2, <1>3 DEF q

(* Commands are published, if there are any.                               *)
LEMMA PublishFacts ==
  ASSUME NEW s \in Seq(BatchRec), NEW make \in BOOLEAN, NEW m \in Manifests,
         NEW ids \in SUBSET AllIds
  PROVE  LET b == Batch(make, m, ids)
         IN  /\ s \o Publish(b) \in Seq(BatchRec)
             /\ ids = {} => s \o Publish(b) = s
             /\ ids # {} => s \o Publish(b) = Append(s, b) /\ b \in BatchRec
<1> DEFINE b == Batch(make, m, ids)
<1>1. /\ b.ids = ids /\ b.make = make /\ b.manifest = m
      /\ ids # {} => b \in BatchRec
  BY DEF Batch, BatchRec
<1> HIDE DEF b
<1>2. CASE ids = {}
  BY <1>1, <1>2, SeqAppend, ConcatEmptySeq DEF Publish, b
<1>3. CASE ids # {}
  <2>1. Publish(b) = <<b>>
    BY <1>1, <1>3 DEF Publish
  <2> QED
    BY <1>1, <1>3, <2>1, SeqAppend DEF b
<1> QED
  BY <1>2, <1>3

LEMMA ToMakeFacts ==
  ASSUME LatticeTyped, NEW m \in Manifests, NEW v \in Deployments, NEW ids \in SUBSET AllIds
  PROVE  /\ ToMake(m, v) = Batch(TRUE, m, IdsOf(v) \ running[m])
         /\ ToMake(m, v).ids = IdsOf(v) \ running[m]
         /\ ToStop(m, ids) = Batch(FALSE, m, ids \cap running[m])
         /\ ToStop(m, ids).ids = ids \cap running[m]
         /\ IdsOf(v) \ running[m] \in SUBSET AllIds /\ ids \cap running[m] \in SUBSET AllIds
BY VersionFacts DEF ToMake, ToStop, Batch, LatticeTyped

LEMMA ScalersSet ==
  ASSUME StoredTyped, NEW i \in Instances, NEW m \in Manifests, NEW v \in Deployments,
         scalers' = [scalers EXCEPT ![i][m] = v]
  PROVE  /\ scalers' \in [Instances -> [Manifests -> Deployments]]
         /\ \A j \in Instances, n \in Manifests :
              scalers'[j][n] = IF j = i /\ n = m THEN v ELSE scalers[j][n]
BY DEF StoredTyped

LEMMA NotesSame ==
  ASSUME NotesTyped, UNCHANGED <<notes, cleaning, status>>
  PROVE  NotesTyped'
BY DEF NotesTyped, NotifierShape, Note

LEMMA WorkSame ==
  ASSUME WorkTyped, UNCHANGED <<work, status>>
  PROVE  WorkTyped'
BY DEF WorkTyped, Busy

LEMMA MaxOfTwo ==
  ASSUME NEW a \in Nat, NEW b \in Nat
  PROVE  Max({a, b}) = IF a < b THEN b ELSE a
<1> DEFINE c == IF a < b THEN b ELSE a
           P(x) == \A y \in {a, b} : x >= y
<1>1. c \in {a, b} /\ P(c)
  OBVIOUS
<1>2. \A x \in {a, b} : P(x) => x = c
  OBVIOUS
<1>3. Max({a, b}) = CHOOSE x \in {a, b} : P(x)
  BY DEF Max
<1> HIDE DEF P, c
<1>4. (CHOOSE x \in {a, b} : P(x)) = c
  BY <1>1, <1>2
<1> QED
  BY <1>3, <1>4 DEF c

LEMMA ChangeStep ==
  ASSUME TInv, NEW m \in Manifests, NEW v \in Deployments, Change(m, v)
  PROVE  /\ TInv'
         /\ changes' = changes + 1 /\ Event(m, v, changes') \in EventRec
         /\ ToSet(queue') = ToSet(queue) \cup {Event(m, v, changes')}
         /\ \A n \in Manifests : deployed'[n] = IF n = m THEN v ELSE deployed[n]
<1>1. /\ changes < MaxChanges /\ changes' = changes + 1
      /\ deployed' = [deployed EXCEPT ![m] = v]
      /\ queue' = Append(queue, Event(m, v, changes'))
      /\ UNCHANGED <<status, scalers, work, notes, cleaning, lattice, reported, faults,
                     aux_last, aux_spoiled>>
  BY DEF Change
<1>2. changes' \in 0 .. MaxChanges /\ changes' \in Nat \ {0}
  BY <1>1, ScalerManagerAssumption DEF TInv, StoredTyped
<1>3. Event(m, v, changes') \in EventRec
  BY <1>2, EventFacts
<1>4. queue' \in Seq(EventRec) /\ ToSet(queue') = ToSet(queue) \cup {Event(m, v, changes')}
  BY <1>1, <1>3, SeqAppend DEF TInv, StoredTyped
<1>5. /\ deployed' \in [Manifests -> Deployments]
      /\ \A n \in Manifests : deployed'[n] = IF n = m THEN v ELSE deployed[n]
  BY <1>1 DEF TInv, StoredTyped
<1>6. StoredTyped'
  BY <1>1, <1>2, <1>4, <1>5 DEF TInv, StoredTyped
<1>7. WorkTyped' /\ NotesTyped'
  BY <1>1, NotesSame, WorkSame DEF TInv
<1>8. LatticeTyped' /\ AuxTyped'
  BY <1>1 DEF TInv, LatticeTyped, AuxTyped, lattice
<1> QED
  BY <1>1, <1>3, <1>4, <1>5, <1>6, <1>7, <1>8 DEF TInv

LEMMA ExecuteStep ==
  ASSUME TInv, Execute
  PROVE  /\ TInv'
         /\ sent # <<>> /\ sent' = Tail(sent) /\ Head(sent) \in BatchRec
         /\ \A n \in Manifests : running'[n] =
              IF n # Head(sent).manifest THEN running[n]
              ELSE IF Head(sent).make THEN running[n] \cup Head(sent).ids
              ELSE running[n] \ Head(sent).ids
<1> DEFINE batch == Head(sent)
<1>1. /\ sent # <<>> /\ sent' = Tail(sent)
      /\ running' = [running EXCEPT ![batch.manifest] =
                       IF batch.make THEN @ \cup batch.ids ELSE @ \ batch.ids]
      /\ UNCHANGED <<deployed, changes, queue, status, scalers, work, notes, cleaning,
                     reported, faults, aux_last, aux_spoiled>>
  BY DEF Execute
<1>2. Tail(sent) \in Seq(BatchRec) /\ batch \in BatchRec
  BY <1>1, SeqTail DEF TInv, LatticeTyped
<1>3. batch.manifest \in Manifests /\ batch.ids \in SUBSET AllIds
  BY <1>2 DEF BatchRec
<1> HIDE DEF batch
<1>4. /\ running' \in [Manifests -> SUBSET AllIds]
      /\ \A n \in Manifests : running'[n] =
           IF n # batch.manifest THEN running[n]
           ELSE IF batch.make THEN running[n] \cup batch.ids ELSE running[n] \ batch.ids
  BY <1>1, <1>3 DEF TInv, LatticeTyped
<1>5. LatticeTyped'
  BY <1>1, <1>2, <1>4 DEF TInv, LatticeTyped
<1>6. WorkTyped' /\ NotesTyped'
  BY <1>1, NotesSame, WorkSame DEF TInv
<1>7. StoredTyped' /\ AuxTyped'
  BY <1>1 DEF TInv, StoredTyped, AuxTyped
<1> QED
  BY <1>1, <1>2, <1>4, <1>5, <1>6, <1>7 DEF TInv, batch

LEMMA StopsStep ==
  ASSUME TInv, NEW m \in Manifests, Stops(m)
  PROVE  /\ TInv'
         /\ \A n \in Manifests : running'[n] \subseteq running[n]
         /\ UNCHANGED <<deployed, changes, queue, status, scalers, work, notes, cleaning, sent,
                        reported, aux_last, aux_spoiled>>
<1>1. PICK x \in running[m] : running' = [running EXCEPT ![m] = @ \ {x}]
  BY DEF Stops
<1>2. /\ UNCHANGED <<deployed, changes, queue, status, scalers, work, notes, cleaning, sent,
                     reported, aux_last, aux_spoiled>>
      /\ Fault
  BY DEF Stops
<1>3. /\ running' \in [Manifests -> SUBSET AllIds]
      /\ \A n \in Manifests : running'[n] \subseteq running[n]
  BY <1>1 DEF TInv, LatticeTyped
<1>4. LatticeTyped'
  BY <1>2, <1>3 DEF TInv, LatticeTyped
<1>5. WorkTyped' /\ NotesTyped'
  BY <1>2, NotesSame, WorkSame DEF TInv
<1>6. StoredTyped' /\ AuxTyped'
  BY <1>2, FaultFacts DEF TInv, StoredTyped, AuxTyped
<1> QED
  BY <1>2, <1>3, <1>4, <1>5, <1>6 DEF TInv

(* The work that begins.                                                   *)
Begun(e, old) ==
  [Idle EXCEPT !.event = e, !.old = old,
               !.step = IF Unpublished(e) /\ old = None THEN "tell" ELSE "refresh"]

LEMMA BegunFacts ==
  ASSUME NEW e \in EventRec, NEW old \in Deployments
  PROVE  /\ Begun(e, old) \in WorkRec
         /\ Begun(e, old).event = e /\ Begun(e, old).old = old
         /\ Begun(e, old).cleanup = {} /\ Begun(e, old).late = FALSE
         /\ Begun(e, old).step = IF Unpublished(e) /\ old = None THEN "tell" ELSE "refresh"
         /\ Begun(e, old).step \in {"tell", "refresh"}
<1> DEFINE s == IF Unpublished(e) /\ old = None THEN "tell" ELSE "refresh"
           w == [step |-> s, event |-> e, old |-> old, cleanup |-> {}, late |-> FALSE]
<1>1. Begun(e, old) = [Idle EXCEPT !.event = e, !.old = old, !.step = s]
  BY DEF Begun
<1>2. s \in {"tell", "refresh"}
  OBVIOUS
<1> HIDE DEF s
<1>6. Begun(e, old) = w
  BY <1>1 DEF Idle
<1>3. w \in [step : Steps, event : EventRec \cup {NoEvent}, old : Deployments,
             cleanup : SUBSET AllIds, late : BOOLEAN]
  BY <1>2 DEF Steps
<1>4. /\ w.step = s /\ w.event = e /\ w.old = old /\ w.cleanup = {} /\ w.late = FALSE
  OBVIOUS
<1> HIDE DEF w
<1>5. w \in WorkRec
  BY <1>2, <1>3, <1>4 DEF WorkRec
<1> QED
  BY <1>2, <1>4, <1>5, <1>6 DEF s

LEMMA BegunKeeps ==
  \A f \in EventRec, v \in Deployments :
    /\ Begun(f, v).event = f /\ Begun(f, v).late = FALSE
    /\ Begun(f, v).step \in {"tell", "refresh"}
<1> TAKE f \in EventRec, v \in Deployments
<1> DEFINE s == IF Unpublished(f) /\ v = None THEN "tell" ELSE "refresh"
<1>1. Begun(f, v) = [Idle EXCEPT !.event = f, !.old = v, !.step = s]
  BY DEF Begun
<1>2. s \in {"tell", "refresh"}
  OBVIOUS
<1> HIDE DEF s
<1>3. Begun(f, v) = [step |-> s, event |-> f, old |-> v, cleanup |-> {}, late |-> FALSE]
  BY <1>1 DEF Idle
<1> QED
  BY <1>2, <1>3

LEMMA TakeStep ==
  ASSUME TInv, NEW i \in Instances, Take(i)
  PROVE  LET e == Head(queue)
         IN  /\ TInv'
             /\ status[i] = "up" /\ ~Busy(i) /\ work[i] = Idle
             /\ e \in EventRec /\ e \in ToSet(queue)
             /\ ToSet(queue) = ToSet(queue') \cup {e}
             /\ \A j \in Instances, n \in Manifests : scalers'[j][n] =
                  IF j = i /\ n = e.manifest THEN None ELSE scalers[j][n]
             /\ work'[i] = Begun(e, scalers[i][e.manifest])
             /\ \A j \in Instances : j # i => work'[j] = work[j]
             /\ \A n \in Manifests : aux_last'[n] =
                  IF n = e.manifest /\ aux_last[n] < e.number THEN e.number ELSE aux_last[n]
             /\ \A n \in Manifests : aux_spoiled'[n] = aux_spoiled[n] \cup
                  IF n = e.manifest
                  THEN Lag(i, n) \cup IF InWork(n) # {} \/ e.number < aux_last[n]
                                      THEN {"overtaken"} ELSE {}
                  ELSE {}
<1> DEFINE e == Head(queue)
           m == e.manifest
           old == scalers[i][m]
           why == Lag(i, m) \cup IF InWork(m) # {} \/ e.number < aux_last[m]
                                 THEN {"overtaken"} ELSE {}
<1>1. /\ status[i] = "up" /\ ~Busy(i) /\ queue # <<>> /\ queue' = Tail(queue)
      /\ scalers' = [scalers EXCEPT ![i][m] = None]
      /\ work' = [work EXCEPT ![i] = Begun(e, old)]
      /\ aux_last' = [aux_last EXCEPT ![m] = Max({aux_last[m], e.number})]
      /\ Spoil(m, why)
      /\ UNCHANGED <<deployed, changes, status, notes, cleaning, lattice, reported, faults>>
  BY DEF Take, Begun
<1>2. Tail(queue) \in Seq(EventRec) /\ e \in EventRec /\ ToSet(queue) = ToSet(Tail(queue)) \cup {e}
  BY <1>1, SeqTail DEF TInv, StoredTyped
<1>3. e.manifest \in Manifests /\ e.number \in Nat /\ work[i] = Idle
  BY <1>1, <1>2, EventFacts, WorkFacts DEF TInv, Busy
<1>4. why \in SUBSET Reasons
  BY DEF Lag, Reasons
<1> HIDE DEF e, why
<1>5. old \in Deployments
  BY <1>3 DEF TInv, StoredTyped
<1>6. /\ scalers' \in [Instances -> [Manifests -> Deployments]]
      /\ \A j \in Instances, n \in Manifests :
           scalers'[j][n] = IF j = i /\ n = m THEN None ELSE scalers[j][n]
  <2>1. StoredTyped /\ None \in Deployments
    BY VersionFacts DEF TInv
  <2>2. PICK n \in Manifests : n = m
    BY <1>3
  <2>3. scalers' = [scalers EXCEPT ![i][n] = None]
    BY <1>1, <2>2
  <2>4. /\ scalers' \in [Instances -> [Manifests -> Deployments]]
        /\ \A j \in Instances, k \in Manifests :
             scalers'[j][k] = IF j = i /\ k = n THEN None ELSE scalers[j][k]
    BY <2>1, <2>3, ScalersSet
  <2> QED
    BY <2>2, <2>4
<1>7. WorkTyped' /\ work'[i] = Begun(e, old) /\ \A j \in Instances : j # i => work'[j] = work[j]
  <2> DEFINE w == Begun(e, old)
  <2>1. w \in WorkRec
    BY <1>2, <1>5, BegunFacts
  <2>2. work' = [work EXCEPT ![i] = w] /\ status' = status /\ status[i] = "up" /\ WorkTyped
    BY <1>1 DEF TInv
  <2> HIDE DEF w
  <2>3. WorkTyped' /\ work'[i] = w /\ \A j \in Instances : j # i => work'[j] = work[j]
    BY <2>1, <2>2, WorkMoves
  <2> QED
    BY <2>3 DEF w
<1>8. /\ aux_spoiled' \in [Manifests -> SUBSET Reasons]
      /\ \A n \in Manifests : aux_spoiled'[n] =
           IF n = m THEN aux_spoiled[n] \cup why ELSE aux_spoiled[n]
  BY <1>1, <1>3, <1>4, SpoilFacts DEF TInv
<1>9. /\ aux_last' \in [Manifests -> Nat]
      /\ \A n \in Manifests : aux_last'[n] =
           IF n = m /\ aux_last[n] < e.number THEN e.number ELSE aux_last[n]
  <2>1. aux_last[m] \in Nat /\ aux_last \in [Manifests -> Nat]
    BY <1>3 DEF TInv, AuxTyped
  <2>2. Max({aux_last[m], e.number}) = IF aux_last[m] < e.number THEN e.number ELSE aux_last[m]
    BY <1>3, <2>1, MaxOfTwo
  <2> QED
    BY <1>1, <1>3, <2>1, <2>2
<1>10. StoredTyped'
  BY <1>1, <1>2, <1>6 DEF TInv, StoredTyped
<1>11. NotesTyped' /\ LatticeTyped' /\ AuxTyped'
  <2>1. NotesTyped'
    BY <1>1, NotesSame DEF TInv
  <2>2. LatticeTyped' /\ AuxTyped'
    BY <1>1, <1>8, <1>9 DEF TInv, LatticeTyped, AuxTyped, lattice
  <2> QED
    BY <2>1, <2>2
<1>12. TInv'
  BY <1>7, <1>10, <1>11 DEF TInv
<1>13. \A n \in Manifests : aux_spoiled'[n] = aux_spoiled[n] \cup (IF n = m THEN why ELSE {})
  BY <1>8
<1> QED
  BY <1>1, <1>2, <1>3, <1>6, <1>7, <1>9, <1>12, <1>13 DEF e, why

(* The event a worker handles.                                             *)
LEMMA AtFacts ==
  ASSUME TInv, NEW i \in Instances, Busy(i)
  PROVE  /\ work[i].event \in EventRec /\ work[i].event.manifest \in Manifests
         /\ work[i].event.version \in Deployments /\ work[i].event.number \in Nat \ {0}
         /\ work[i].old \in Deployments
         /\ scalers[i][work[i].event.manifest] \in Deployments
         /\ status[i] = "up"
<1>1. work[i].event \in EventRec /\ work[i].old \in Deployments /\ status[i] = "up"
  BY WorkFacts DEF TInv, WorkTyped
<1> QED
  BY <1>1, EventFacts DEF TInv, StoredTyped

(* The steps of a worker that leave the notifications alone.               *)
LEMMA RestSame ==
  ASSUME TInv, UNCHANGED <<deployed, changes, status, notes, cleaning>>,
         queue' \in Seq(EventRec),
         scalers' \in [Instances -> [Manifests -> Deployments]]
  PROVE  NotesTyped' /\ StoredTyped'
BY NotesSame DEF TInv, StoredTyped

LEMMA LateStep ==
  ASSUME TInv, NEW i \in Instances, Late(i)
  PROVE  LET e == work[i].event
         IN  /\ TInv'
             /\ Busy(i) /\ ~work[i].late /\ e \in EventRec
             /\ \A j \in Instances : j # i => work'[j] = work[j]
             /\ work'[i] = [work[i] EXCEPT !.late = TRUE]
             /\ ToSet(queue) \subseteq ToSet(queue')
             /\ \A f \in ToSet(queue') : f \in ToSet(queue) \/ Copy(f, e)
             /\ e.tries < MaxDeliver => \E f \in ToSet(queue') : Copy(f, e)
             /\ \A n \in Manifests : aux_spoiled'[n] = aux_spoiled[n] \cup
                  IF n = e.manifest THEN GivenUp(e) ELSE {}
<1> DEFINE e == work[i].event
           w == [work[i] EXCEPT !.late = TRUE]
<1>1. /\ Busy(i) /\ ~work[i].late /\ Fault
      /\ work' = [work EXCEPT ![i] = w]
      /\ queue' = Requeue(e)
      /\ Spoil(e.manifest, GivenUp(e))
      /\ UNCHANGED <<deployed, changes, status, scalers, notes, cleaning, lattice, reported,
                     aux_last>>
  BY DEF Late
<1>2. e \in EventRec /\ e.manifest \in Manifests /\ status[i] = "up"
  BY <1>1, AtFacts
<1>3. w \in WorkRec
  BY <1>1, WorkFacts DEF TInv, WorkRec, Dropped, Busy
<1>4. GivenUp(e) \in SUBSET Reasons
  BY DEF GivenUp, Reasons
<1> HIDE DEF e, w
<1>5. WorkTyped' /\ work'[i] = w /\ \A j \in Instances : j # i => work'[j] = work[j]
  BY <1>1, <1>2, <1>3, WorkMoves DEF TInv
<1>6. /\ queue' \in Seq(EventRec) /\ ToSet(queue) \subseteq ToSet(queue')
      /\ \A f \in ToSet(queue') : f \in ToSet(queue) \/ Copy(f, e)
      /\ e.tries < MaxDeliver => \E f \in ToSet(queue') : Copy(f, e)
  BY <1>1, <1>2, RequeueFacts DEF TInv, StoredTyped
<1>7. /\ aux_spoiled' \in [Manifests -> SUBSET Reasons]
      /\ \A n \in Manifests : aux_spoiled'[n] =
           IF n = e.manifest THEN aux_spoiled[n] \cup GivenUp(e) ELSE aux_spoiled[n]
  BY <1>1, <1>2, <1>4, SpoilFacts DEF TInv
<1>8. NotesTyped' /\ StoredTyped'
  BY <1>1, <1>6, RestSame DEF TInv, StoredTyped
<1>9. LatticeTyped' /\ AuxTyped'
  BY <1>1, <1>7, FaultFacts DEF TInv, LatticeTyped, AuxTyped, lattice
<1>10. \A n \in Manifests : aux_spoiled'[n] = aux_spoiled[n] \cup
         (IF n = e.manifest THEN GivenUp(e) ELSE {})
  BY <1>7
<1> QED
  BY <1>1, <1>2, <1>5, <1>6, <1>8, <1>9, <1>10 DEF TInv, e, w

LEMMA RefreshStep ==
  ASSUME TInv, NEW i \in Instances, Refresh(i)
  PROVE  LET e == work[i].event
             m == e.manifest
             stop == ToStop(m, Outdated(i))
         IN  /\ TInv'
             /\ work[i].step = "refresh" /\ Busy(i) /\ e \in EventRec
             /\ \A j \in Instances : j # i => work'[j] = work[j]
             /\ work'[i].step = "tell" /\ work'[i].event = e /\ work'[i].old = work[i].old
             /\ work'[i].late = work[i].late
             /\ work'[i].cleanup = IF Unpublished(e) THEN {} ELSE Outdated(i) \cap running[m]
             /\ \A j \in Instances, n \in Manifests : scalers'[j][n] =
                  IF j = i /\ n = m THEN e.version ELSE scalers[j][n]
             /\ sent' = IF Unpublished(e) THEN sent \o Publish(stop) ELSE sent
             /\ \A n \in Manifests : aux_spoiled'[n] = aux_spoiled[n] \cup
                  IF n = m /\ OnItsWay(m, Outdated(i)) THEN {"in flight"} ELSE {}
<1> DEFINE e == work[i].event
           m == e.manifest
           stop == ToStop(m, Outdated(i))
           left == IF Unpublished(e) THEN {} ELSE stop.ids
           w == [work[i] EXCEPT !.step = "tell", !.cleanup = left]
           why == IF OnItsWay(m, Outdated(i)) THEN {"in flight"} ELSE {}
<1>1. /\ status[i] = "up" /\ work[i].step = "refresh"
      /\ work' = [work EXCEPT ![i] = w]
      /\ scalers' = [scalers EXCEPT ![i][m] = e.version]
      /\ sent' = IF Unpublished(e) THEN sent \o Publish(stop) ELSE sent
      /\ Spoil(m, why)
      /\ UNCHANGED <<deployed, changes, queue, status, notes, cleaning, running, reported,
                     faults, aux_last>>
  BY DEF Refresh, At
<1>2. Busy(i)
  BY <1>1 DEF Busy
<1>3. e \in EventRec /\ m \in Manifests /\ e.version \in Deployments
  BY <1>2, AtFacts
<1>4. /\ Outdated(i) \in SUBSET AllIds /\ Outdated(i) = Dropped(work[i])
      /\ work[i] \in WorkRec
  BY WorkFacts DEF TInv
<1>5. stop.ids = Outdated(i) \cap running[m] /\ stop = Batch(FALSE, m, Outdated(i) \cap running[m])
      /\ Outdated(i) \cap running[m] \in SUBSET AllIds
  BY <1>3, <1>4, ToMakeFacts, VersionFacts DEF TInv
<1>6. left = (IF Unpublished(e) THEN {} ELSE Outdated(i) \cap running[m])
  BY <1>5
<1>7. left \in SUBSET AllIds /\ left \subseteq Dropped(work[i]) /\ (Unpublished(e) => left = {})
  BY <1>4, <1>5, <1>6
<1> HIDE DEF left
<1>8. /\ w.step = "tell" /\ w.event = e /\ w.old = work[i].old /\ w.late = work[i].late
      /\ w.cleanup = left /\ w \in [step : Steps, event : EventRec \cup {NoEvent},
           old : Deployments, cleanup : SUBSET AllIds, late : BOOLEAN]
  BY <1>4, <1>7 DEF WorkRec, Steps
<1> HIDE DEF w
<1>9. Dropped(w) = Dropped(work[i])
  BY <1>8 DEF Dropped
<1>10. w \in WorkRec
  BY <1>3, <1>7, <1>8, <1>9 DEF WorkRec
<1>11. why \in SUBSET Reasons
  BY DEF Reasons
<1> HIDE DEF why
<1>12. WorkTyped' /\ work'[i] = w /\ \A j \in Instances : j # i => work'[j] = work[j]
  BY <1>1, <1>10, WorkMoves DEF TInv
<1>13. /\ scalers' \in [Instances -> [Manifests -> Deployments]]
       /\ \A j \in Instances, n \in Manifests : scalers'[j][n] =
            IF j = i /\ n = m THEN e.version ELSE scalers[j][n]
  <2>1. PICK k \in Manifests : k = m
    BY <1>3
  <2>2. PICK v \in Deployments : v = e.version
    BY <1>3
  <2>3. StoredTyped /\ scalers' = [scalers EXCEPT ![i][k] = v]
    BY <1>1, <2>1, <2>2 DEF TInv
  <2> HIDE DEF e, m
  <2>4. /\ scalers' \in [Instances -> [Manifests -> Deployments]]
        /\ \A j \in Instances, n \in Manifests :
             scalers'[j][n] = IF j = i /\ n = k THEN v ELSE scalers[j][n]
    BY <2>3, ScalersSet
  <2> QED
    BY <2>1, <2>2, <2>4
<1>14. /\ aux_spoiled' \in [Manifests -> SUBSET Reasons]
       /\ \A n \in Manifests : aux_spoiled'[n] =
            IF n = m THEN aux_spoiled[n] \cup why ELSE aux_spoiled[n]
  BY <1>1, <1>3, <1>11, SpoilFacts DEF TInv
<1>15. sent' \in Seq(BatchRec)
  BY <1>1, <1>3, <1>5, PublishFacts DEF TInv, LatticeTyped
<1>16. NotesTyped' /\ StoredTyped'
  BY <1>1, <1>13, RestSame DEF TInv, StoredTyped
<1>17. LatticeTyped' /\ AuxTyped'
  BY <1>1, <1>14, <1>15 DEF TInv, LatticeTyped, AuxTyped
<1>18. \A n \in Manifests : aux_spoiled'[n] = aux_spoiled[n] \cup
         (IF n = m /\ OnItsWay(m, Outdated(i)) THEN {"in flight"} ELSE {})
  BY <1>14 DEF why
<1> QED
  BY <1>1, <1>2, <1>3, <1>6, <1>8, <1>12, <1>13, <1>16, <1>17, <1>18 DEF TInv

(* What a failed step puts back.                                           *)
LEMMA PutBackFacts ==
  ASSUME TInv, NEW i \in Instances, Busy(i), PutBack(i)
  PROVE  /\ scalers' \in [Instances -> [Manifests -> Deployments]]
         /\ \A j \in Instances, n \in Manifests : scalers'[j][n] =
              IF j = i /\ n = work[i].event.manifest /\ work[i].old # None
              THEN work[i].old ELSE scalers[j][n]
<1>1. work[i].event.manifest \in Manifests /\ work[i].old \in Deployments
  BY AtFacts
<1>2. CASE work[i].old = None
  BY <1>2 DEF PutBack, TInv, StoredTyped
<1>3. CASE work[i].old # None
  <2>1. scalers' = [scalers EXCEPT ![i][work[i].event.manifest] = work[i].old]
    BY <1>3 DEF PutBack
  <2>2. PICK m \in Manifests : m = work[i].event.manifest
    BY <1>1
  <2>3. PICK v \in Deployments : v = work[i].old
    BY <1>1
  <2>4. StoredTyped /\ scalers' = [scalers EXCEPT ![i][m] = v]
    BY <2>1, <2>2, <2>3 DEF TInv
  <2>5. /\ scalers' \in [Instances -> [Manifests -> Deployments]]
        /\ \A j \in Instances, n \in Manifests :
             scalers'[j][n] = IF j = i /\ n = m THEN v ELSE scalers[j][n]
    BY <2>4, ScalersSet
  <2> QED
    BY <1>3, <2>2, <2>3, <2>5
<1> QED
  BY <1>2, <1>3

(* The steps that fail: the event is not acknowledged.                     *)
Fails(i, why) ==
  /\ Nack(i, why)
  /\ UNCHANGED <<deployed, changes, status, notes, cleaning, lattice, aux_last>>

LEMMA FailsStep ==
  ASSUME TInv, NEW i \in Instances, Busy(i), NEW why \in SUBSET Reasons, Fails(i, why),
         scalers' \in [Instances -> [Manifests -> Deployments]],
         reported' \in [Manifests -> {"undeployed", "deployed"}],
         faults' \in 0 .. MaxFaults
  PROVE  TInv'
<1>1. /\ Nack(i, why)
      /\ UNCHANGED <<deployed, changes, status, notes, cleaning, lattice, aux_last>>
  BY DEF Fails
<1>2. WorkTyped' /\ queue' \in Seq(EventRec) /\ aux_spoiled' \in [Manifests -> SUBSET Reasons]
  BY <1>1, NackTyped
<1>3. NotesTyped' /\ StoredTyped'
  BY <1>1, <1>2, RestSame
<1>4. LatticeTyped' /\ AuxTyped'
  BY <1>1, <1>2 DEF TInv, LatticeTyped, AuxTyped, lattice
<1> QED
  BY <1>2, <1>3, <1>4 DEF TInv

LEMMA RefreshFailsStep ==
  ASSUME TInv, NEW i \in Instances, RefreshFails(i)
  PROVE  LET why == IF Outdated(i) = {} THEN {} ELSE {"forgotten"}
         IN  /\ TInv' /\ work[i].step = "refresh" /\ Busy(i)
             /\ why \in SUBSET Reasons /\ Fails(i, why) /\ scalers' = scalers
<1> DEFINE why == IF Outdated(i) = {} THEN {} ELSE {"forgotten"}
<1>1. /\ work[i].step = "refresh" /\ Fault /\ Fails(i, why)
      /\ UNCHANGED <<scalers, reported>>
  BY DEF RefreshFails, Fails, At, lattice
<1>2. Busy(i) /\ why \in SUBSET Reasons
  BY <1>1 DEF Busy, Reasons
<1> HIDE DEF why
<1>3. TInv'
  BY <1>1, <1>2, FailsStep, FaultFacts DEF TInv, StoredTyped, LatticeTyped
<1> QED
  BY <1>1, <1>2, <1>3 DEF why

LEMMA CleanUpFailsStep ==
  ASSUME TInv, NEW i \in Instances, CleanUpFails(i)
  PROVE  /\ TInv' /\ work[i].step = "refresh" /\ Busy(i) /\ Unpublished(work[i].event)
         /\ Fails(i, {})
         /\ \A j \in Instances, n \in Manifests : scalers'[j][n] =
              IF j = i /\ n = work[i].event.manifest /\ work[i].old # None
              THEN work[i].old ELSE scalers[j][n]
<1>1. /\ work[i].step = "refresh" /\ Unpublished(work[i].event) /\ Fault /\ Fails(i, {})
      /\ PutBack(i) /\ UNCHANGED reported
  BY DEF CleanUpFails, Fails, At, lattice
<1>2. Busy(i) /\ {} \in SUBSET Reasons
  BY <1>1 DEF Busy
<1>3. /\ scalers' \in [Instances -> [Manifests -> Deployments]]
      /\ \A j \in Instances, n \in Manifests : scalers'[j][n] =
           IF j = i /\ n = work[i].event.manifest /\ work[i].old # None
           THEN work[i].old ELSE scalers[j][n]
  BY <1>1, <1>2, PutBackFacts
<1>4. TInv'
  BY <1>1, <1>2, <1>3, FailsStep, FaultFacts DEF TInv, LatticeTyped
<1> QED
  BY <1>1, <1>2, <1>3, <1>4

LEMMA TellFailsStep ==
  ASSUME TInv, NEW i \in Instances, TellFails(i)
  PROVE  LET e == work[i].event
             why == IF Unpublished(e) \/ Outdated(i) = {} THEN {} ELSE {"forgotten"}
         IN  /\ TInv' /\ work[i].step = "tell" /\ Busy(i)
             /\ why \in SUBSET Reasons /\ Fails(i, why)
             /\ \A j \in Instances, n \in Manifests : scalers'[j][n] =
                  IF j = i /\ n = e.manifest /\ Unpublished(e) /\ work[i].old # None
                  THEN work[i].old ELSE scalers[j][n]
<1> DEFINE e == work[i].event
           why == IF Unpublished(e) \/ Outdated(i) = {} THEN {} ELSE {"forgotten"}
<1>1. /\ work[i].step = "tell" /\ Fault /\ Fails(i, why)
      /\ IF Unpublished(e) THEN PutBack(i) ELSE UNCHANGED scalers
      /\ UNCHANGED reported
  BY DEF TellFails, Fails, At, lattice
<1>2. Busy(i) /\ why \in SUBSET Reasons
  BY <1>1 DEF Busy, Reasons
<1> HIDE DEF why
<1>3. /\ scalers' \in [Instances -> [Manifests -> Deployments]]
      /\ \A j \in Instances, n \in Manifests : scalers'[j][n] =
           IF j = i /\ n = e.manifest /\ Unpublished(e) /\ work[i].old # None
           THEN work[i].old ELSE scalers[j][n]
  <2>1. CASE Unpublished(e)
    BY <1>1, <1>2, <2>1, PutBackFacts
  <2>2. CASE ~Unpublished(e)
    BY <1>1, <2>2 DEF TInv, StoredTyped
  <2> QED
    BY <2>1, <2>2
<1>4. TInv'
  BY <1>1, <1>2, <1>3, FailsStep, FaultFacts DEF TInv, LatticeTyped
<1> QED
  BY <1>1, <1>2, <1>3, <1>4 DEF why

LEMMA LostFacts ==
  ASSUME NEW i PROVE Lost(i) \in SUBSET Reasons
BY DEF Lost, Reasons

LEMMA CommandsFailStep ==
  ASSUME TInv, NEW i \in Instances, CommandsFail(i) \/ ScalersGone(i)
  PROVE  /\ TInv' /\ work[i].step = "reconcile" /\ Busy(i)
         /\ Lost(i) \in SUBSET Reasons /\ Fails(i, Lost(i)) /\ scalers' = scalers
<1> DEFINE m == work[i].event.manifest
<1>1. /\ work[i].step = "reconcile" /\ Fails(i, Lost(i)) /\ UNCHANGED scalers
      /\ \/ Fault /\ reported' = [reported EXCEPT ![m] = "deployed"]
         \/ UNCHANGED <<faults, reported>>
  <2>1. CASE CommandsFail(i)
    BY <2>1 DEF CommandsFail, Fails, At, lattice
  <2>2. CASE ScalersGone(i)
    BY <2>2 DEF ScalersGone, Fails, At, lattice
  <2> QED
    BY <2>1, <2>2
<1>2. Busy(i)
  BY <1>1 DEF Busy
<1>3. m \in Manifests
  BY <1>2, AtFacts
<1>4. /\ reported' \in [Manifests -> {"undeployed", "deployed"}]
      /\ faults' \in 0 .. MaxFaults
  <2>1. CASE Fault /\ reported' = [reported EXCEPT ![m] = "deployed"]
    BY <1>3, <2>1, FaultFacts DEF TInv, LatticeTyped
  <2>2. CASE UNCHANGED <<faults, reported>>
    BY <2>2 DEF TInv, LatticeTyped, AuxTyped
  <2> QED
    BY <1>1, <2>1, <2>2
<1>5. TInv'
  BY <1>1, <1>2, <1>4, LostFacts, FailsStep DEF TInv, StoredTyped
<1> QED
  BY <1>1, <1>2, <1>5, LostFacts

LEMMA TellStep ==
  ASSUME TInv, NEW i \in Instances, Tell(i)
  PROVE  LET e == work[i].event
             m == e.manifest
         IN  /\ TInv' /\ work[i].step = "tell" /\ Busy(i) /\ e \in EventRec
             /\ Notification(e) \in NoteRec
             /\ \A j \in Instances : notes'[j] =
                  IF Listens(j) THEN Append(notes[j], Notification(e)) ELSE notes[j]
             /\ \A j \in Instances : j # i => work'[j] = work[j]
             /\ IF Unpublished(e) THEN Ack(i)
                ELSE /\ queue' = queue
                     /\ work'[i] = [work[i] EXCEPT !.step = "reconcile"]
                     /\ work'[i].step = "reconcile" /\ work'[i].event = e
                     /\ work'[i].old = work[i].old /\ work'[i].cleanup = work[i].cleanup
                     /\ work'[i].late = work[i].late
<1> DEFINE e == work[i].event
           note == Notification(e)
           w == [work[i] EXCEPT !.step = "reconcile"]
<1>1. /\ status[i] = "up" /\ work[i].step = "tell"
      /\ notes' = [j \in Instances |-> IF Listens(j) THEN Append(notes[j], note) ELSE notes[j]]
      /\ IF Unpublished(e) THEN Ack(i) ELSE work' = [work EXCEPT ![i] = w] /\ UNCHANGED queue
      /\ UNCHANGED <<deployed, changes, status, scalers, cleaning, lattice, reported, faults,
                     aux_last, aux_spoiled>>
  BY DEF Tell, At, TellAll
<1>2. Busy(i) /\ e \in EventRec /\ work[i] \in WorkRec
  BY <1>1, AtFacts, WorkFacts DEF Busy, TInv
<1>3. note \in NoteRec
  BY <1>2, NoteFacts
<1> HIDE DEF note
<1>4. \A j \in Instances : notes'[j] = IF Listens(j) THEN Append(notes[j], note) ELSE notes[j]
  BY <1>1
<1>5. NotesTyped'
  <2>1. ASSUME NEW j \in Instances PROVE notes'[j] \in Seq(NoteRec) /\ NotifierShape(j)'
    <3> DEFINE s == notes[j]
    <3>1. s \in Seq(NoteRec)
      BY DEF TInv, NotesTyped
    <3> HIDE DEF s
    <3>2. /\ Append(s, note) \in Seq(NoteRec) /\ Append(s, note) # <<>>
          /\ s # <<>> => Head(Append(s, note)) = Head(s)
      BY <1>3, <3>1, AppendProperties, HeadTailAppend
    <3> QED
      BY <1>1, <1>4, <3>1, <3>2 DEF TInv, NotesTyped, NotifierShape, Note, Listens, s
  <2>2. notes' = [j \in Instances |-> notes'[j]]
    BY <1>1
  <2> QED
    BY <1>1, <2>1, <2>2 DEF TInv, NotesTyped
<1>6. ASSUME ~Unpublished(e)
      PROVE  /\ WorkTyped' /\ queue' = queue
             /\ work'[i] = w /\ w.step = "reconcile" /\ w.event = e
             /\ w.old = work[i].old /\ w.cleanup = work[i].cleanup /\ w.late = work[i].late
             /\ \A j \in Instances : j # i => work'[j] = work[j]
  <2>1. /\ w.step = "reconcile" /\ w.event = e
        /\ w.old = work[i].old /\ w.cleanup = work[i].cleanup /\ w.late = work[i].late
        /\ w \in [step : Steps, event : EventRec \cup {NoEvent},
             old : Deployments, cleanup : SUBSET AllIds, late : BOOLEAN]
    BY <1>2 DEF WorkRec, Steps
  <2>2. work[i].cleanup \subseteq Dropped(work[i])
    BY <1>2 DEF WorkRec
  <2> HIDE DEF w
  <2>3. Dropped(w) = Dropped(work[i])
    BY <2>1 DEF Dropped
  <2>4. w \in WorkRec
    BY <1>2, <1>6, <2>1, <2>2, <2>3 DEF WorkRec
  <2>5. work' = [work EXCEPT ![i] = w] /\ queue' = queue
    BY <1>1, <1>6
  <2> QED
    BY <1>1, <2>1, <2>4, <2>5, WorkMoves DEF TInv
<1>7. /\ WorkTyped' /\ queue' \in Seq(EventRec)
      /\ \A j \in Instances : j # i => work'[j] = work[j]
  <2>1. CASE Unpublished(e)
    BY <1>1, <2>1, AckTyped
  <2>2. CASE ~Unpublished(e)
    BY <1>6, <2>2 DEF TInv, StoredTyped
  <2> QED
    BY <2>1, <2>2
<1>8. StoredTyped' /\ LatticeTyped' /\ AuxTyped'
  BY <1>1, <1>7 DEF TInv, StoredTyped, LatticeTyped, AuxTyped, lattice
<1> QED
  BY <1>1, <1>2, <1>3, <1>4, <1>5, <1>6, <1>7, <1>8 DEF TInv, note

(* What reconciling commands: what is missing and then, unless that fails, *)
(* what is to be cleaned up.                                               *)
LEMMA ReconcileStep ==
  ASSUME TInv, NEW i \in Instances, Reconcile(i) \/ CleanupCommandsFail(i)
  PROVE  LET m == work[i].event.manifest
             make == ToMake(m, Present(i))
             stop == Batch(FALSE, m, work[i].cleanup)
         IN  /\ TInv' /\ work[i].step = "reconcile" /\ Busy(i) /\ Ack(i)
             /\ m \in Manifests /\ Present(i) # None /\ Present(i) \in Deployments
             /\ \/ /\ sent' = (sent \o Publish(make)) \o Publish(stop)
                   /\ aux_spoiled' = aux_spoiled
                \/ /\ sent' = sent \o Publish(make)
                   /\ aux_spoiled'[m] # {}
                   /\ \A n \in Manifests : aux_spoiled[n] \subseteq aux_spoiled'[n]
             /\ UNCHANGED <<deployed, changes, status, scalers, notes, cleaning, running, aux_last>>
<1> DEFINE m == work[i].event.manifest
           make == ToMake(m, Present(i))
           stop == Batch(FALSE, m, work[i].cleanup)
<1>1. /\ status[i] = "up" /\ work[i].step = "reconcile" /\ Present(i) # None
      /\ reported' = [reported EXCEPT ![m] = "deployed"]
      /\ Ack(i)
      /\ UNCHANGED <<deployed, changes, status, scalers, notes, cleaning, running, aux_last>>
      /\ \/ /\ sent' = (sent \o Publish(make)) \o Publish(stop)
            /\ UNCHANGED <<faults, aux_spoiled>>
         \/ /\ work[i].cleanup # {} /\ Fault
            /\ sent' = sent \o Publish(make) /\ Spoil(m, Lost(i))
  <2>1. CASE Reconcile(i)
    BY <2>1 DEF Reconcile, At
  <2>2. CASE CleanupCommandsFail(i)
    BY <2>2 DEF CleanupCommandsFail, At
  <2> QED
    BY <2>1, <2>2
<1>2. Busy(i)
  BY <1>1 DEF Busy
<1>3. m \in Manifests /\ Present(i) \in Deployments /\ work[i].cleanup \in SUBSET AllIds
  BY <1>2, AtFacts, WorkFacts DEF TInv, Present
<1>4. make = Batch(TRUE, m, IdsOf(Present(i)) \ running[m])
      /\ IdsOf(Present(i)) \ running[m] \in SUBSET AllIds
  BY <1>3, ToMakeFacts, VersionFacts DEF TInv
<1> DEFINE s == sent \o Publish(make)
<1>5. s \in Seq(BatchRec)
  BY <1>3, <1>4, PublishFacts DEF TInv, LatticeTyped
<1> HIDE DEF s
<1>6. s \o Publish(stop) \in Seq(BatchRec)
  BY <1>3, <1>5, PublishFacts
<1>7. /\ WorkTyped' /\ queue' \in Seq(EventRec)
  BY <1>1, AckTyped
<1>8. reported' \in [Manifests -> {"undeployed", "deployed"}]
  BY <1>1, <1>3 DEF TInv, LatticeTyped
<1>9. sent' \in Seq(BatchRec)
  BY <1>1, <1>5, <1>6 DEF s
<1>10. NotesTyped' /\ StoredTyped' /\ LatticeTyped'
  <2>1. NotesTyped' /\ StoredTyped'
    BY <1>1, <1>7, RestSame DEF TInv, StoredTyped
  <2> QED
    BY <1>1, <1>8, <1>9, <2>1 DEF TInv, LatticeTyped
<1>11. CASE sent' = s \o Publish(stop) /\ UNCHANGED <<faults, aux_spoiled>>
  <2>1. AuxTyped'
    BY <1>1, <1>11 DEF TInv, AuxTyped
  <2> QED
    BY <1>1, <1>2, <1>3, <1>7, <1>10, <1>11, <2>1 DEF TInv, s
<1>12. CASE work[i].cleanup # {} /\ Fault /\ sent' = s /\ Spoil(m, Lost(i))
  <2>1. /\ aux_spoiled' \in [Manifests -> SUBSET Reasons]
        /\ \A n \in Manifests : aux_spoiled'[n] =
             IF n = m THEN aux_spoiled[n] \cup Lost(i) ELSE aux_spoiled[n]
    BY <1>3, <1>12, LostFacts, SpoilFacts DEF TInv
  <2>2. Lost(i) # {}
    BY <1>12 DEF Lost
  <2>3. AuxTyped'
    BY <1>1, <1>12, <2>1, FaultFacts DEF TInv, AuxTyped
  <2> QED
    BY <1>1, <1>2, <1>3, <1>7, <1>10, <1>12, <2>1, <2>2, <2>3 DEF TInv, s
<1> QED
  BY <1>1, <1>11, <1>12 DEF s

LEMMA HandleEventStep ==
  ASSUME TInv, NEW i \in Instances, NEW m \in Manifests, HandleEvent(i, m)
  PROVE  LET make == ToMake(m, scalers[i][m])
         IN  /\ TInv' /\ status[i] = "up" /\ scalers[i][m] \in Deployments
             /\ make.ids = IdsOf(scalers[i][m]) \ running[m]
             /\ make = Batch(TRUE, m, make.ids) /\ make.ids \in SUBSET AllIds
             /\ ~OnItsWay(m, make.ids) /\ sent' = sent \o Publish(make)
             /\ \A n \in Manifests : aux_spoiled'[n] = aux_spoiled[n] \cup
                  IF n = m THEN Lag(i, m) \cup Revived(m, make.ids) ELSE {}
             /\ UNCHANGED <<deployed, changes, queue, status, scalers, work, notes, cleaning,
                            running, aux_last>>
<1> DEFINE v == scalers[i][m]
           make == ToMake(m, v)
           why == Lag(i, m) \cup Revived(m, make.ids)
<1>1. /\ status[i] = "up" /\ ~OnItsWay(m, make.ids)
      /\ sent' = sent \o Publish(make)
      /\ reported' = [reported EXCEPT ![m] = "deployed"]
      /\ Spoil(m, why)
      /\ UNCHANGED <<deployed, changes, queue, status, scalers, work, notes, cleaning, running,
                     faults, aux_last>>
  BY DEF HandleEvent
<1>2. v \in Deployments
  BY DEF TInv, StoredTyped
<1>3. /\ make = Batch(TRUE, m, IdsOf(v) \ running[m]) /\ make.ids = IdsOf(v) \ running[m]
      /\ IdsOf(v) \ running[m] \in SUBSET AllIds
  BY <1>2, ToMakeFacts, VersionFacts DEF TInv
<1>4. sent' \in Seq(BatchRec)
  BY <1>1, <1>3, PublishFacts DEF TInv, LatticeTyped
<1>5. why \in SUBSET Reasons
  BY DEF Lag, Revived, Reasons
<1> HIDE DEF why
<1>6. /\ aux_spoiled' \in [Manifests -> SUBSET Reasons]
      /\ \A n \in Manifests : aux_spoiled'[n] =
           IF n = m THEN aux_spoiled[n] \cup why ELSE aux_spoiled[n]
  BY <1>1, <1>5, SpoilFacts DEF TInv
<1>7. reported' \in [Manifests -> {"undeployed", "deployed"}]
  BY <1>1 DEF TInv, LatticeTyped
<1>8. WorkTyped' /\ NotesTyped'
  BY <1>1, NotesSame, WorkSame DEF TInv
<1>9. StoredTyped' /\ LatticeTyped' /\ AuxTyped'
  BY <1>1, <1>4, <1>6, <1>7 DEF TInv, StoredTyped, LatticeTyped, AuxTyped
<1>10. \A n \in Manifests : aux_spoiled'[n] = aux_spoiled[n] \cup (IF n = m THEN why ELSE {})
  BY <1>6
<1> QED
  BY <1>1, <1>2, <1>3, <1>8, <1>9, <1>10 DEF TInv, why

(* The first notification.                                                 *)
LEMMA NoteTyped ==
  ASSUME TInv, NEW j \in Instances, notes[j] # <<>>
  PROVE  /\ Note(j) \in NoteRec /\ Note(j).manifest \in Manifests
         /\ Note(j).version \in Deployments
         /\ Tail(notes[j]) \in Seq(NoteRec)
         /\ scalers[j][Note(j).manifest] \in Deployments
<1> DEFINE s == notes[j]
<1>1. s \in Seq(NoteRec) /\ s # <<>>
  BY DEF TInv, NotesTyped
<1> HIDE DEF s
<1>2. Head(s) \in NoteRec /\ Tail(s) \in Seq(NoteRec)
  BY <1>1, SeqTail
<1>3. Note(j) \in NoteRec /\ Tail(notes[j]) \in Seq(NoteRec)
  BY <1>2 DEF s, Note
<1> QED
  BY <1>3, NoteFacts DEF TInv, StoredTyped

LEMMA NotedFacts ==
  ASSUME TInv, NEW j \in Instances, notes[j] # <<>>, Noted(j)
  PROVE  /\ notes' \in [Instances -> Seq(NoteRec)]
         /\ \A k \in Instances : notes'[k] = IF k = j THEN Tail(notes[k]) ELSE notes[k]
BY NoteTyped DEF Noted, TInv, NotesTyped

(* The steps of a notifier leave the workers alone.                        *)
LEMMA NotifierTyped ==
  ASSUME TInv, UNCHANGED <<deployed, changes, queue, work, status>>,
         scalers' \in [Instances -> [Manifests -> Deployments]]
  PROVE  WorkTyped' /\ StoredTyped'
BY WorkSame DEF TInv, StoredTyped

LEMMA CreateScalersStep ==
  ASSUME TInv, NEW j \in Instances, CreateScalers(j)
  PROVE  /\ TInv' /\ status[j] = "up" /\ cleaning[j] = None /\ notes[j] # <<>>
         /\ Note(j).type = "create" /\ Note(j) \in NoteRec
         /\ \A k \in Instances : notes'[k] = IF k = j THEN Tail(notes[k]) ELSE notes[k]
         /\ \A k \in Instances, n \in Manifests : scalers'[k][n] =
              IF k = j /\ n = Note(j).manifest THEN Note(j).version ELSE scalers[k][n]
         /\ UNCHANGED <<deployed, changes, queue, status, work, cleaning, lattice, aux_last,
                        aux_spoiled>>
<1>1. /\ status[j] = "up" /\ cleaning[j] = None /\ notes[j] # <<>> /\ Note(j).type = "create"
      /\ scalers' = [scalers EXCEPT ![j][Note(j).manifest] = Note(j).version]
      /\ Noted(j)
      /\ UNCHANGED <<deployed, changes, queue, status, work, cleaning, lattice, reported, faults,
                     aux_last, aux_spoiled>>
  BY DEF CreateScalers, Listening
<1>2. Note(j) \in NoteRec /\ Note(j).manifest \in Manifests /\ Note(j).version \in Deployments
  BY <1>1, NoteTyped
<1>3. /\ notes' \in [Instances -> Seq(NoteRec)]
      /\ \A k \in Instances : notes'[k] = IF k = j THEN Tail(notes[k]) ELSE notes[k]
  BY <1>1, NotedFacts
<1>4. /\ scalers' \in [Instances -> [Manifests -> Deployments]]
      /\ \A k \in Instances, n \in Manifests : scalers'[k][n] =
           IF k = j /\ n = Note(j).manifest THEN Note(j).version ELSE scalers[k][n]
  BY <1>1, <1>2, ScalersSet DEF TInv
<1>5. NotesTyped'
  BY <1>1, <1>3 DEF TInv, NotesTyped, NotifierShape, Note
<1>6. WorkTyped' /\ StoredTyped'
  BY <1>1, <1>4, NotifierTyped
<1>7. LatticeTyped' /\ AuxTyped'
  BY <1>1 DEF TInv, LatticeTyped, AuxTyped, lattice
<1> QED
  BY <1>1, <1>2, <1>3, <1>4, <1>5, <1>6, <1>7 DEF TInv

LEMMA RemoveScalersStep ==
  ASSUME TInv, NEW j \in Instances, RemoveScalers(j)
  PROVE  LET m == Note(j).manifest
             old == scalers[j][m]
         IN  /\ TInv' /\ status[j] = "up" /\ cleaning[j] = None /\ notes[j] # <<>>
             /\ Note(j).type = "delete" /\ Note(j) \in NoteRec
             /\ \A k \in Instances : notes'[k] =
                  IF k = j /\ old = None THEN Tail(notes[k]) ELSE notes[k]
             /\ \A k \in Instances : cleaning'[k] = IF k = j THEN old ELSE cleaning[k]
             /\ \A k \in Instances, n \in Manifests : scalers'[k][n] =
                  IF k = j /\ n = m THEN None ELSE scalers[k][n]
             /\ UNCHANGED <<deployed, changes, queue, status, work, lattice, aux_last,
                            aux_spoiled>>
<1> DEFINE m == Note(j).manifest
           old == scalers[j][m]
<1>1. /\ status[j] = "up" /\ cleaning[j] = None /\ notes[j] # <<>> /\ Note(j).type = "delete"
      /\ scalers' = [scalers EXCEPT ![j][m] = None]
      /\ cleaning' = [cleaning EXCEPT ![j] = old]
      /\ IF old = None
         THEN Noted(j) /\ reported' = [reported EXCEPT ![m] = "undeployed"]
         ELSE UNCHANGED <<notes, reported>>
      /\ UNCHANGED <<deployed, changes, queue, status, work, lattice, faults, aux_last,
                     aux_spoiled>>
  BY DEF RemoveScalers, Listening
<1>2. Note(j) \in NoteRec /\ m \in Manifests /\ old \in Deployments
  BY <1>1, NoteTyped
<1>3. /\ notes' \in [Instances -> Seq(NoteRec)]
      /\ reported' \in [Manifests -> {"undeployed", "deployed"}]
      /\ \A k \in Instances : notes'[k] = IF k = j /\ old = None THEN Tail(notes[k]) ELSE notes[k]
  <2>1. CASE old = None
    <3>1. /\ notes' \in [Instances -> Seq(NoteRec)]
          /\ \A k \in Instances : notes'[k] = IF k = j THEN Tail(notes[k]) ELSE notes[k]
      BY <1>1, <2>1, NotedFacts
    <3>2. reported' \in [Manifests -> {"undeployed", "deployed"}]
      BY <1>1, <1>2, <2>1 DEF TInv, LatticeTyped
    <3> QED
      BY <2>1, <3>1, <3>2
  <2>2. CASE old # None
    BY <1>1, <2>2 DEF TInv, LatticeTyped, NotesTyped
  <2> QED
    BY <2>1, <2>2
<1>4. /\ scalers' \in [Instances -> [Manifests -> Deployments]]
      /\ \A k \in Instances, n \in Manifests : scalers'[k][n] =
           IF k = j /\ n = m THEN None ELSE scalers[k][n]
  <2>1. StoredTyped /\ scalers' = [scalers EXCEPT ![j][m] = None] /\ m \in Manifests
        /\ None \in Deployments
    BY <1>1, <1>2, VersionFacts DEF TInv
  <2> HIDE DEF m
  <2> QED
    BY <2>1, ScalersSet
<1>5. /\ cleaning' \in [Instances -> Deployments]
      /\ \A k \in Instances : cleaning'[k] = IF k = j THEN old ELSE cleaning[k]
  BY <1>1, <1>2 DEF TInv, NotesTyped
<1>6. NotesTyped'
  BY <1>1, <1>3, <1>5 DEF TInv, NotesTyped, NotifierShape, Note
<1>7. WorkTyped' /\ StoredTyped'
  BY <1>1, <1>4, NotifierTyped
<1>8. LatticeTyped' /\ AuxTyped'
  BY <1>1, <1>3 DEF TInv, LatticeTyped, AuxTyped, lattice
<1> QED
  BY <1>1, <1>2, <1>3, <1>4, <1>5, <1>6, <1>7, <1>8 DEF TInv

LEMMA CleaningFacts ==
  ASSUME TInv, NEW j \in Instances, Cleaning(j)
  PROVE  /\ status[j] = "up" /\ cleaning[j] # None /\ cleaning[j] \in Deployments
         /\ notes[j] # <<>> /\ Note(j) \in NoteRec /\ Note(j).type = "delete"
         /\ Note(j).manifest \in Manifests
<1>1. /\ status[j] = "up" /\ cleaning[j] # None /\ cleaning[j] \in Deployments
      /\ notes[j] # <<>> /\ Note(j).type = "delete"
  BY DEF Cleaning, TInv, NotesTyped, NotifierShape
<1> QED
  BY <1>1, NoteTyped

LEMMA RemovalDoneStep ==
  ASSUME TInv, NEW j \in Instances, RemovalDone(j)
  PROVE  LET m == Note(j).manifest
             ids == IdsOf(cleaning[j])
             stop == ToStop(m, ids)
         IN  /\ TInv' /\ Cleaning(j)
             /\ \A k \in Instances : notes'[k] = IF k = j THEN Tail(notes[k]) ELSE notes[k]
             /\ \A k \in Instances : cleaning'[k] = IF k = j THEN None ELSE cleaning[k]
             /\ stop = Batch(FALSE, m, ids \cap running[m]) /\ ids \cap running[m] \in SUBSET AllIds
             /\ sent' = sent \o Publish(stop)
             /\ \A n \in Manifests : aux_spoiled'[n] = aux_spoiled[n] \cup
                  IF n = m /\ OnItsWay(m, ids) THEN {"in flight"} ELSE {}
             /\ UNCHANGED <<deployed, changes, queue, status, scalers, work, running, aux_last>>
<1> DEFINE m == Note(j).manifest
           ids == IdsOf(cleaning[j])
           why == IF OnItsWay(m, ids) THEN {"in flight"} ELSE {}
<1>1. /\ Cleaning(j)
      /\ cleaning' = [cleaning EXCEPT ![j] = None]
      /\ sent' = sent \o Publish(ToStop(m, ids))
      /\ reported' = [reported EXCEPT ![m] = "undeployed"]
      /\ Noted(j)
      /\ Spoil(m, why)
      /\ UNCHANGED <<deployed, changes, queue, status, scalers, work, running, faults, aux_last>>
  BY DEF RemovalDone
<1>2. /\ status[j] = "up" /\ notes[j] # <<>> /\ m \in Manifests /\ ids \in SUBSET AllIds
      /\ cleaning[j] \in Deployments
  BY <1>1, CleaningFacts, VersionFacts
<1>3. /\ notes' \in [Instances -> Seq(NoteRec)]
      /\ \A k \in Instances : notes'[k] = IF k = j THEN Tail(notes[k]) ELSE notes[k]
  BY <1>1, <1>2, NotedFacts
<1>4. /\ cleaning' \in [Instances -> Deployments]
      /\ \A k \in Instances : cleaning'[k] = IF k = j THEN None ELSE cleaning[k]
  BY <1>1, VersionFacts DEF TInv, NotesTyped
<1>5. ToStop(m, ids) = Batch(FALSE, m, ids \cap running[m]) /\ ids \cap running[m] \in SUBSET AllIds
  BY <1>2, ToMakeFacts, VersionFacts DEF TInv
<1>6. sent' \in Seq(BatchRec)
  BY <1>1, <1>2, <1>5, PublishFacts DEF TInv, LatticeTyped
<1>7. why \in SUBSET Reasons
  BY DEF Reasons
<1> HIDE DEF why
<1>8. /\ aux_spoiled' \in [Manifests -> SUBSET Reasons]
      /\ \A n \in Manifests : aux_spoiled'[n] =
           IF n = m THEN aux_spoiled[n] \cup why ELSE aux_spoiled[n]
  BY <1>1, <1>2, <1>7, SpoilFacts DEF TInv
<1>9. reported' \in [Manifests -> {"undeployed", "deployed"}]
  BY <1>1, <1>2 DEF TInv, LatticeTyped
<1>10. NotesTyped'
  BY <1>1, <1>2, <1>3, <1>4 DEF TInv, NotesTyped, NotifierShape, Note
<1>11. WorkTyped' /\ StoredTyped'
  BY <1>1, NotifierTyped DEF TInv, StoredTyped
<1>12. LatticeTyped' /\ AuxTyped'
  BY <1>1, <1>6, <1>8, <1>9 DEF TInv, LatticeTyped, AuxTyped
<1>13. \A n \in Manifests : aux_spoiled'[n] = aux_spoiled[n] \cup
         (IF n = m /\ OnItsWay(m, ids) THEN {"in flight"} ELSE {})
  BY <1>8 DEF why
<1> QED
  BY <1>1, <1>3, <1>4, <1>5, <1>10, <1>11, <1>12, <1>13 DEF TInv

LEMMA RemovalFailsStep ==
  ASSUME TInv, NEW j \in Instances, RemovalFails(j)
  PROVE  LET m == Note(j).manifest
         IN  /\ TInv' /\ Cleaning(j)
             /\ \A k \in Instances : cleaning'[k] = IF k = j THEN None ELSE cleaning[k]
             /\ \/ notes' = notes
                \/ /\ \A k \in Instances : notes'[k] = IF k = j THEN Tail(notes[k]) ELSE notes[k]
                   /\ "not retried" \in aux_spoiled'[m]
             /\ \/ \A k \in Instances, n \in Manifests : scalers'[k][n] =
                     IF k = j /\ n = m THEN cleaning[j] ELSE scalers[k][n]
                \/ scalers' = scalers /\ "forgotten" \in aux_spoiled'[m]
             /\ \A n \in Manifests : /\ aux_spoiled[n] \subseteq aux_spoiled'[n]
                                     /\ n # m => aux_spoiled'[n] = aux_spoiled[n]
             /\ UNCHANGED <<deployed, changes, queue, status, work, lattice, aux_last>>
<1> DEFINE m == Note(j).manifest
<1>1. PICK why \in {{}, {"forgotten"}} :
        /\ Cleaning(j) /\ Fault /\ cleaning' = [cleaning EXCEPT ![j] = None]
        /\ \/ scalers' = [scalers EXCEPT ![j][m] = cleaning[j]]
           \/ UNCHANGED scalers /\ why = {"forgotten"}
        /\ Renack(j, m, why)
        /\ UNCHANGED <<deployed, changes, queue, status, work, lattice, reported, aux_last>>
  <2>1. /\ Cleaning(j) /\ Fault /\ cleaning' = [cleaning EXCEPT ![j] = None]
        /\ \/ scalers' = [scalers EXCEPT ![j][m] = cleaning[j]] /\ Renack(j, m, {})
           \/ UNCHANGED scalers /\ Renack(j, m, {"forgotten"})
        /\ UNCHANGED <<deployed, changes, queue, status, work, lattice, reported, aux_last>>
    BY DEF RemovalFails
  <2> QED
    BY <2>1
<1>2. /\ status[j] = "up" /\ notes[j] # <<>> /\ m \in Manifests /\ cleaning[j] \in Deployments
  BY <1>1, CleaningFacts
<1>3. PICK all \in SUBSET Reasons :
        /\ why \subseteq all /\ Spoil(m, all)
        /\ UNCHANGED notes \/ (Noted(j) /\ "not retried" \in all)
  <2>1. CASE UNCHANGED notes /\ Spoil(m, why)
    BY <2>1 DEF Reasons
  <2>2. CASE Noted(j) /\ Spoil(m, why \cup {"not retried"})
    <3> DEFINE all == why \cup {"not retried"}
    <3>1. all \in SUBSET Reasons /\ why \subseteq all /\ "not retried" \in all
      BY DEF Reasons
    <3>2. Spoil(m, all) /\ Noted(j)
      BY <2>2
    <3> HIDE DEF all
    <3> QED
      BY <3>1, <3>2
  <2> QED
    BY <1>1, <2>1, <2>2 DEF Renack
<1>4. /\ aux_spoiled' \in [Manifests -> SUBSET Reasons]
      /\ \A n \in Manifests : aux_spoiled'[n] =
           IF n = m THEN aux_spoiled[n] \cup all ELSE aux_spoiled[n]
  BY <1>2, <1>3, SpoilFacts DEF TInv
<1>5. /\ cleaning' \in [Instances -> Deployments]
      /\ \A k \in Instances : cleaning'[k] = IF k = j THEN None ELSE cleaning[k]
  BY <1>1, VersionFacts DEF TInv, NotesTyped
<1>6. /\ scalers' \in [Instances -> [Manifests -> Deployments]]
      /\ \/ \A k \in Instances, n \in Manifests : scalers'[k][n] =
              IF k = j /\ n = m THEN cleaning[j] ELSE scalers[k][n]
         \/ scalers' = scalers /\ "forgotten" \in aux_spoiled'[m]
  <2>1. CASE scalers' = [scalers EXCEPT ![j][m] = cleaning[j]]
    <3>1. PICK n \in Manifests : n = m
      BY <1>2
    <3>2. PICK v \in Deployments : v = cleaning[j]
      BY <1>2
    <3>3. StoredTyped /\ scalers' = [scalers EXCEPT ![j][n] = v]
      BY <2>1, <3>1, <3>2 DEF TInv
    <3>4. /\ scalers' \in [Instances -> [Manifests -> Deployments]]
          /\ \A k \in Instances, l \in Manifests :
               scalers'[k][l] = IF k = j /\ l = n THEN v ELSE scalers[k][l]
      BY <3>3, ScalersSet
    <3> QED
      BY <3>1, <3>2, <3>4
  <2>2. CASE UNCHANGED scalers /\ why = {"forgotten"}
    <3>1. "forgotten" \in aux_spoiled'[m]
      BY <1>2, <1>3, <1>4, <2>2
    <3> QED
      BY <2>2, <3>1 DEF TInv, StoredTyped
  <2> QED
    BY <1>1, <2>1, <2>2
<1>7. /\ NotesTyped'
      /\ \/ notes' = notes
         \/ /\ \A k \in Instances : notes'[k] = IF k = j THEN Tail(notes[k]) ELSE notes[k]
            /\ "not retried" \in aux_spoiled'[m]
  <2>1. CASE UNCHANGED notes
    BY <1>1, <1>2, <1>5, <2>1 DEF TInv, NotesTyped, NotifierShape, Note
  <2>2. CASE Noted(j) /\ "not retried" \in all
    <3>1. /\ notes' \in [Instances -> Seq(NoteRec)]
          /\ \A k \in Instances : notes'[k] = IF k = j THEN Tail(notes[k]) ELSE notes[k]
      BY <1>2, <2>2, NotedFacts
    <3>2. NotesTyped'
      BY <1>1, <1>2, <1>5, <3>1 DEF TInv, NotesTyped, NotifierShape, Note
    <3>3. "not retried" \in aux_spoiled'[m]
      BY <1>2, <1>4, <2>2
    <3> QED
      BY <3>1, <3>2, <3>3
  <2> QED
    BY <1>3, <2>1, <2>2
<1>8. WorkTyped' /\ StoredTyped'
  BY <1>1, <1>6, NotifierTyped
<1>9. LatticeTyped' /\ AuxTyped'
  BY <1>1, <1>4, FaultFacts DEF TInv, LatticeTyped, AuxTyped, lattice
<1>10. \A n \in Manifests : aux_spoiled[n] \subseteq aux_spoiled'[n]
                            /\ (n # m => aux_spoiled'[n] = aux_spoiled[n])
  BY <1>4
<1> QED
  BY <1>1, <1>5, <1>6, <1>7, <1>8, <1>9, <1>10 DEF TInv

LEMMA CrashStep ==
  ASSUME TInv, NEW i \in Instances, Crash(i)
  PROVE  LET e == work[i].event
             again == Busy(i) /\ ~work[i].late
         IN  /\ TInv' /\ status[i] = "up"
             /\ \A j \in Instances : status'[j] = IF j = i THEN "down" ELSE status[j]
             /\ \A j \in Instances : notes'[j] = IF j = i THEN <<>> ELSE notes[j]
             /\ \A j \in Instances : cleaning'[j] = IF j = i THEN None ELSE cleaning[j]
             /\ \A j \in Instances : work'[j] = IF j = i THEN Idle ELSE work[j]
             /\ \A j \in Instances, n \in Manifests :
                  scalers'[j][n] = IF j = i THEN None ELSE scalers[j][n]
             /\ ToSet(queue) \subseteq ToSet(queue')
             /\ \A f \in ToSet(queue') : f \in ToSet(queue) \/ (again /\ Copy(f, e))
             /\ again /\ e.tries < MaxDeliver => \E f \in ToSet(queue') : Copy(f, e)
             /\ \A n \in Manifests : aux_spoiled'[n] = aux_spoiled[n] \cup
                  (IF again /\ e.manifest = n THEN GivenUp(e) ELSE {}) \cup
                  (IF scalers[i][n] # deployed[n] \/ Behind(i, n) \/ e.manifest = n
                   THEN {"forgotten"} ELSE {})
             /\ UNCHANGED <<deployed, changes, lattice, aux_last>>
<1> DEFINE e == work[i].event
           again == Busy(i) /\ ~work[i].late
           lost == [m \in Manifests |-> aux_spoiled[m] \cup
                      (IF again /\ e.manifest = m THEN GivenUp(e) ELSE {}) \cup
                      (IF scalers[i][m] # deployed[m] \/ Behind(i, m) \/ e.manifest = m
                       THEN {"forgotten"} ELSE {})]
<1>1. /\ status[i] = "up" /\ Fault
      /\ status' = [status EXCEPT ![i] = "down"]
      /\ scalers' = [scalers EXCEPT ![i] = [m \in Manifests |-> None]]
      /\ notes' = [notes EXCEPT ![i] = <<>>]
      /\ cleaning' = [cleaning EXCEPT ![i] = None]
      /\ work' = [work EXCEPT ![i] = Idle]
      /\ queue' = IF again THEN Requeue(e) ELSE queue
      /\ aux_spoiled' = lost
      /\ UNCHANGED <<deployed, changes, lattice, reported, aux_last>>
  BY DEF Crash
<1>2. lost \in [Manifests -> SUBSET Reasons]
  BY DEF TInv, AuxTyped, GivenUp, Reasons
<1>3. \A n \in Manifests : lost[n] = aux_spoiled[n] \cup
        (IF again /\ e.manifest = n THEN GivenUp(e) ELSE {}) \cup
        (IF scalers[i][n] # deployed[n] \/ Behind(i, n) \/ e.manifest = n
         THEN {"forgotten"} ELSE {})
  OBVIOUS
<1>4. again => e \in EventRec
  BY AtFacts
<1> HIDE DEF lost, again
<1>5. /\ queue' \in Seq(EventRec) /\ ToSet(queue) \subseteq ToSet(queue')
      /\ \A f \in ToSet(queue') : f \in ToSet(queue) \/ (again /\ Copy(f, e))
      /\ again /\ e.tries < MaxDeliver => \E f \in ToSet(queue') : Copy(f, e)
  <2>1. queue \in Seq(EventRec)
    BY DEF TInv, StoredTyped
  <2>2. CASE again
    <3>1. queue' = Requeue(e)
      BY <1>1, <2>2
    <3> QED
      BY <1>4, <2>1, <2>2, <3>1, RequeueFacts
  <2>3. CASE ~again
    BY <1>1, <2>1, <2>3
  <2> QED
    BY <2>2, <2>3
<1>6. /\ WorkTyped'
      /\ \A j \in Instances : status'[j] = IF j = i THEN "down" ELSE status[j]
      /\ \A j \in Instances : work'[j] = IF j = i THEN Idle ELSE work[j]
  BY <1>1, IdleFacts DEF TInv, WorkTyped, Busy
<1>7. /\ notes' \in [Instances -> Seq(NoteRec)] /\ cleaning' \in [Instances -> Deployments]
      /\ \A j \in Instances : notes'[j] = IF j = i THEN <<>> ELSE notes[j]
      /\ \A j \in Instances : cleaning'[j] = IF j = i THEN None ELSE cleaning[j]
  BY <1>1, VersionFacts DEF TInv, NotesTyped
<1>8. NotesTyped'
  BY <1>1, <1>6, <1>7 DEF TInv, NotesTyped, NotifierShape, Note
<1>9. /\ scalers' \in [Instances -> [Manifests -> Deployments]]
      /\ \A j \in Instances, n \in Manifests :
           scalers'[j][n] = IF j = i THEN None ELSE scalers[j][n]
  BY <1>1, VersionFacts DEF TInv, StoredTyped
<1>10. StoredTyped' /\ LatticeTyped' /\ AuxTyped'
  <2>1. StoredTyped'
    BY <1>1, <1>5, <1>9 DEF TInv, StoredTyped
  <2>2. AuxTyped' /\ LatticeTyped'
    BY <1>1, <1>2, FaultFacts DEF TInv, AuxTyped, LatticeTyped, lattice
  <2> QED
    BY <2>1, <2>2
<1> QED
  BY <1>1, <1>3, <1>5, <1>6, <1>7, <1>8, <1>9, <1>10 DEF TInv, again

LEMMA SubscribeStep ==
  ASSUME TInv, NEW i \in Instances, Subscribe(i)
  PROVE  /\ TInv' /\ status[i] = "down" /\ work[i] = Idle
         /\ \A j \in Instances : status'[j] = IF j = i THEN "starting" ELSE status[j]
         /\ \E k \in Instances : \A j \in Instances :
              notes'[j] = IF j = i THEN notes[k] ELSE notes[j]
         /\ UNCHANGED <<deployed, changes, queue, scalers, work, cleaning, lattice, aux_last,
                        aux_spoiled>>
<1>1. PICK k \in Instances : notes' = [notes EXCEPT ![i] = notes[k]]
  BY DEF Subscribe
<1>2. /\ status[i] = "down"
      /\ status' = [status EXCEPT ![i] = "starting"]
      /\ UNCHANGED <<deployed, changes, queue, scalers, work, cleaning, lattice, reported, faults,
                     aux_last, aux_spoiled>>
  BY DEF Subscribe
<1>3. ~Busy(i) /\ work[i] = Idle
  BY <1>2, WorkFacts DEF TInv, WorkTyped, Busy
<1>4. /\ WorkTyped'
      /\ \A j \in Instances : status'[j] = IF j = i THEN "starting" ELSE status[j]
  BY <1>2, <1>3 DEF TInv, WorkTyped, Busy
<1>5. /\ notes' \in [Instances -> Seq(NoteRec)]
      /\ \A j \in Instances : notes'[j] = IF j = i THEN notes[k] ELSE notes[j]
  BY <1>1 DEF TInv, NotesTyped
<1>6. NotesTyped'
  BY <1>2, <1>4, <1>5 DEF TInv, NotesTyped, NotifierShape, Note
<1>7. StoredTyped' /\ LatticeTyped' /\ AuxTyped'
  BY <1>2 DEF TInv, StoredTyped, LatticeTyped, AuxTyped, lattice
<1> QED
  BY <1>2, <1>3, <1>4, <1>5, <1>6, <1>7 DEF TInv

LEMMA LoadManifestsStep ==
  ASSUME TInv, NEW i \in Instances, LoadManifests(i)
  PROVE  /\ TInv' /\ status[i] = "starting" /\ work[i] = Idle
         /\ \A j \in Instances : status'[j] = IF j = i THEN "up" ELSE status[j]
         /\ \A j \in Instances, n \in Manifests :
              scalers'[j][n] = IF j = i THEN deployed[n] ELSE scalers[j][n]
         /\ \A n \in Manifests : aux_spoiled'[n] = aux_spoiled[n] \cup
              IF Pending(n) THEN {"started late"} ELSE {}
         /\ UNCHANGED <<deployed, changes, queue, work, notes, cleaning, lattice, aux_last>>
<1>1. /\ status[i] = "starting"
      /\ status' = [status EXCEPT ![i] = "up"]
      /\ scalers' = [scalers EXCEPT ![i] = deployed]
      /\ aux_spoiled' = [m \in Manifests |-> aux_spoiled[m] \cup
                           (IF Pending(m) THEN {"started late"} ELSE {})]
      /\ UNCHANGED <<deployed, changes, queue, work, notes, cleaning, lattice, reported, faults,
                     aux_last>>
  BY DEF LoadManifests
<1>2. ~Busy(i) /\ work[i] = Idle
  BY <1>1, WorkFacts DEF TInv, WorkTyped, Busy
<1>3. /\ WorkTyped'
      /\ \A j \in Instances : status'[j] = IF j = i THEN "up" ELSE status[j]
  BY <1>1, <1>2 DEF TInv, WorkTyped, Busy
<1>4. NotesTyped'
  <2>1. notes' = notes /\ cleaning' = cleaning
    BY <1>1
  <2>2. ASSUME NEW j \in Instances PROVE NotifierShape(j)'
    <3>1. NotifierShape(j)
      BY DEF TInv, NotesTyped
    <3>2. status'[j] \in {status[j], "up"} /\ (status[j] = "down" => status'[j] = "down")
      BY <1>1, <1>3
    <3>3. /\ status[j] # "up" => cleaning[j] = None
          /\ status[j] = "down" => notes[j] = <<>>
          /\ cleaning[j] # None => notes[j] # <<>> /\ Head(notes[j]).type = "delete"
      BY <3>1 DEF NotifierShape, Note
    <3>4. /\ status'[j] # "up" => cleaning'[j] = None
          /\ status'[j] = "down" => notes'[j] = <<>>
          /\ cleaning'[j] # None => notes'[j] # <<>> /\ Head(notes'[j]).type = "delete"
      BY <2>1, <3>2, <3>3
    <3> QED
      BY <3>4 DEF NotifierShape, Note
  <2> QED
    BY <1>3, <2>1, <2>2 DEF TInv, WorkTyped, NotesTyped
<1>5. /\ scalers' \in [Instances -> [Manifests -> Deployments]]
      /\ \A j \in Instances, n \in Manifests :
           scalers'[j][n] = IF j = i THEN deployed[n] ELSE scalers[j][n]
  BY <1>1 DEF TInv, StoredTyped
<1>6. /\ aux_spoiled' \in [Manifests -> SUBSET Reasons]
      /\ \A n \in Manifests : aux_spoiled'[n] = aux_spoiled[n] \cup
           IF Pending(n) THEN {"started late"} ELSE {}
  BY <1>1 DEF TInv, AuxTyped, Reasons
<1>7. StoredTyped' /\ LatticeTyped' /\ AuxTyped'
  BY <1>1, <1>5, <1>6 DEF TInv, StoredTyped, LatticeTyped, AuxTyped, lattice
<1> QED
  BY <1>1, <1>2, <1>3, <1>4, <1>5, <1>6, <1>7 DEF TInv

LEMMA InitTInv == Init => TInv
<1> SUFFICES ASSUME Init PROVE TInv
  OBVIOUS
<1> USE DEF Init
<1>1. WorkTyped
  BY IdleFacts DEF WorkTyped, Busy
<1>2. NotesTyped
  <2>1. <<>> \in Seq(NoteRec)
    OBVIOUS
  <2> QED
    BY <2>1, VersionFacts DEF NotesTyped, NotifierShape
<1>3. StoredTyped
  BY VersionFacts, ScalerManagerAssumption DEF StoredTyped
<1>4. LatticeTyped
  BY VersionFacts DEF LatticeTyped
<1>5. AuxTyped
  BY ScalerManagerAssumption DEF AuxTyped
<1> QED
  BY <1>1, <1>2, <1>3, <1>4, <1>5 DEF TInv

LEMMA NextTInv == TInv /\ [Next]_vars => TInv'
<1> SUFFICES ASSUME TInv, [Next]_vars PROVE TInv'
  OBVIOUS
<1>1. ASSUME NEW m \in Manifests, NEW v \in Deployments, Change(m, v) PROVE TInv'
  BY <1>1, ChangeStep
<1>2. CASE Execute \/ \E m \in Manifests : Stops(m)
  BY <1>2, ExecuteStep, StopsStep
<1>3. ASSUME NEW i \in Instances, NEW m \in Manifests, HandleEvent(i, m) PROVE TInv'
  BY <1>3, HandleEventStep
<1>4. ASSUME NEW i \in Instances, Worker(i) PROVE TInv'
  BY <1>4, TakeStep, RefreshStep, TellStep, ReconcileStep, CommandsFailStep DEF Worker
<1>5. ASSUME NEW i \in Instances, Notifier(i) PROVE TInv'
  BY <1>5, CreateScalersStep, RemoveScalersStep, RemovalDoneStep DEF Notifier
<1>6. ASSUME NEW i \in Instances, Faults(i) PROVE TInv'
  BY <1>6, LateStep, RefreshFailsStep, CleanUpFailsStep, TellFailsStep, CommandsFailStep,
     ReconcileStep, RemovalFailsStep, CrashStep DEF Faults
<1>7. ASSUME NEW i \in Instances, Subscribe(i) \/ LoadManifests(i) PROVE TInv'
  BY <1>7, SubscribeStep, LoadManifestsStep
<1>8. CASE UNCHANGED vars
  BY <1>8, NotesSame, WorkSame DEF vars, lattice, TInv, StoredTyped, LatticeTyped, AuxTyped
<1> QED
  BY <1>1, <1>2, <1>3, <1>4, <1>5, <1>6, <1>7, <1>8 DEF Next

LEMMA TypesOK == TInv => TypeOK
<1> SUFFICES ASSUME TInv PROVE TypeOK
  OBVIOUS
<1>1. \A k \in DOMAIN queue : queue[k].tries \in 1 .. MaxDeliver
  BY SeqElems, EventFacts DEF TInv, StoredTyped
<1>2. \A k \in DOMAIN sent : sent[k].ids \subseteq AllIds /\ sent[k].ids # {}
  BY SeqElems DEF TInv, LatticeTyped, BatchRec
<1>3. ASSUME NEW i \in Instances
      PROVE  /\ work[i].step \in Steps /\ work[i].late \in BOOLEAN
             /\ work[i].step = "idle" <=> work[i].event = NoEvent
             /\ work[i].event.tries \in 0 .. MaxDeliver
             /\ work[i].old \in Deployments /\ work[i].cleanup \subseteq AllIds
             /\ status[i] # "up" => work[i] = Idle /\ cleaning[i] = None
             /\ status[i] = "down" => notes[i] = <<>>
             /\ \A k \in DOMAIN notes[i] : notes[i][k].version = None <=> notes[i][k].type = "delete"
  <2>1. /\ work[i].step \in Steps /\ work[i].late \in BOOLEAN
        /\ work[i].step = "idle" <=> work[i].event = NoEvent
        /\ work[i].old \in Deployments /\ work[i].cleanup \subseteq AllIds
    BY WorkFacts, IdleFacts, EventFacts DEF TInv
  <2>2. work[i].event.tries \in 0 .. MaxDeliver
    <3>1. CASE work[i].event \in EventRec
      BY <3>1, EventFacts, ScalerManagerAssumption
    <3>2. CASE work[i].event = NoEvent
      BY <3>2, ScalerManagerAssumption DEF NoEvent
    <3> QED
      BY <3>1, <3>2, WorkFacts DEF TInv
  <2>3. /\ status[i] # "up" => work[i] = Idle /\ cleaning[i] = None
        /\ status[i] = "down" => notes[i] = <<>>
    BY WorkFacts DEF TInv, WorkTyped, NotesTyped, NotifierShape, Busy
  <2>4. \A k \in DOMAIN notes[i] : notes[i][k].version = None <=> notes[i][k].type = "delete"
    BY SeqElems, NoteFacts DEF TInv, NotesTyped
  <2> QED
    BY <2>1, <2>2, <2>3, <2>4
<1> QED
  BY <1>1, <1>2, <1>3 DEF TypeOK, TInv, WorkTyped, NotesTyped, StoredTyped, LatticeTyped, AuxTyped

(* Everything that the instances of wadm keep has its type, and an         *)
(* instance that is not up handles nothing (TypeOK).                       *)
THEOREM ManagerTypeCorrect == Spec => []TypeOK
<1>1. Spec => []TInv
  BY InitTInv, NextTInv, PTL DEF Spec
<1> QED
  BY <1>1, TypesOK, PTL
-----------------------------------------------------------------------------
(* The events of a manifest that wait or are handled.                      *)
Queued(m) == {e \in ToSet(queue) : e.manifest = m}
AtWork == {work[i].event : i \in {j \in Instances : Busy(j)}}
Events == ToSet(queue) \cup AtWork
EventsOf(m) == Queued(m) \cup {work[i].event : i \in InWork(m)}

(* A number stands for a change.                                           *)
Numbered ==
  /\ \A e \in Events : e.number <= changes
  /\ \A e, f \in Events :
       e.number = f.number => e.manifest = f.manifest /\ e.version = f.version

Good(m) == aux_spoiled[m] \cap {"overtaken", "given up", "not retried"} = {}

(* The events of a manifest are handled one at a time, the last one is     *)
(* about what is deployed, and one that is late is there to come again.    *)
OneAtWork(m) == \A i, j \in InWork(m) : i = j
LastTaken(m) == \A i \in InWork(m) : work[i].event.number = aux_last[m]
LastDeployed(m) ==
  \A e \in EventsOf(m) :
    aux_last[m] <= e.number /\ (\A f \in EventsOf(m) : f.number <= e.number) =>
      e.version = deployed[m]
LateAgain(m) ==
  \A i \in InWork(m) :
    work[i].late => \E e \in Queued(m) : e.number = work[i].event.number

InOrder(m) == OneAtWork(m) /\ LastTaken(m) /\ LastDeployed(m) /\ LateAgain(m)

(* All is told, by the event at work if there is one.                      *)
Reached(m) ==
  /\ \A i \in InWork(m) : work[i].step = "reconcile"
  /\ \A e \in Queued(m) : \E i \in InWork(m) : e.number = work[i].event.number

(* What an instance has still to be told, the notification that it is      *)
(* cleaning up for left aside.                                             *)
Rest(j) == IF cleaning[j] = None THEN notes[j] ELSE Tail(notes[j])

Free(s, m) == \A k \in 1 .. Len(s) : s[k].manifest # m
Ends(s, m, v) ==
  \E k \in 1 .. Len(s) :
    /\ s[k].manifest = m /\ s[k].version = v
    /\ \A l \in k + 1 .. Len(s) : s[l].manifest # m

Follows(j, m) ==
  /\ Free(notes[j], m) \/ Ends(notes[j], m, deployed[m])
  /\ status[j] = "up" /\ Free(Rest(j), m) => scalers[j][m] = deployed[m]

Follow(m) == \A j \in Instances : Follows(j, m)

AgreeInv(m) == Good(m) => InOrder(m) /\ (Reached(m) => Follow(m))

SInv == TInv /\ Numbered /\ \A m \in Manifests : AgreeInv(m)

(* The first of them is to remove.                                         *)
DeleteFirst(s, m) ==
  \E k \in 1 .. Len(s) :
    /\ s[k].manifest = m /\ s[k].type = "delete"
    /\ \A l \in 1 .. k - 1 : s[l].manifest # m
-----------------------------------------------------------------------------
(* What sequences of notifications say of a manifest.                      *)
LEMMA NoNotes ==
  ASSUME NEW m
  PROVE  /\ Free(<<>>, m) /\ ~DeleteFirst(<<>>, m)
         /\ \A v : ~Ends(<<>>, m, v)
BY DEF Free, DeleteFirst, Ends

LEMMA NotesMean ==
  ASSUME NEW s \in Seq(NoteRec), NEW m
  PROVE  /\ \A v : Ends(s, m, v) => ~Free(s, m)
         /\ \A v, w : Ends(s, m, v) /\ Ends(s, m, w) => v = w
         /\ DeleteFirst(s, m) => ~Free(s, m)
<1>1. Len(s) \in Nat
  OBVIOUS
<1>2. /\ \A v : Ends(s, m, v) => ~Free(s, m)
      /\ DeleteFirst(s, m) => ~Free(s, m)
  BY DEF Ends, Free, DeleteFirst
<1>3. ASSUME NEW v, NEW w, Ends(s, m, v), Ends(s, m, w) PROVE v = w
  <2>1. PICK k \in 1 .. Len(s) : /\ s[k].manifest = m /\ s[k].version = v
                                 /\ \A l \in k + 1 .. Len(s) : s[l].manifest # m
    BY <1>3 DEF Ends
  <2>2. PICK n \in 1 .. Len(s) : /\ s[n].manifest = m /\ s[n].version = w
                                 /\ \A l \in n + 1 .. Len(s) : s[l].manifest # m
    BY <1>3 DEF Ends
  <2>3. ~(k < n) /\ ~(n < k)
    BY <1>1, <2>1, <2>2
  <2> QED
    BY <1>1, <2>1, <2>2, <2>3
<1> QED
  BY <1>2, <1>3

LEMMA AppendMeans ==
  ASSUME NEW s \in Seq(NoteRec), NEW n \in NoteRec, NEW m
  PROVE  /\ Free(Append(s, n), m) <=> Free(s, m) /\ n.manifest # m
         /\ \A v : Ends(Append(s, n), m, v) <=>
              IF n.manifest = m THEN n.version = v ELSE Ends(s, m, v)
         /\ DeleteFirst(Append(s, n), m) <=>
              DeleteFirst(s, m) \/ (Free(s, m) /\ n.manifest = m /\ n.type = "delete")
<1> DEFINE t == Append(s, n)
<1>1. /\ Len(t) = Len(s) + 1 /\ Len(s) \in Nat /\ t[Len(s) + 1] = n
      /\ \A k \in 1 .. Len(s) : t[k] = s[k]
  BY SeqAppend
<1> HIDE DEF t
<1>2. Free(t, m) <=> Free(s, m) /\ n.manifest # m
  BY <1>1 DEF Free
<1>3. ASSUME NEW v PROVE Ends(t, m, v) <=> IF n.manifest = m THEN n.version = v ELSE Ends(s, m, v)
  <2>1. CASE n.manifest = m
    <3>1. ASSUME Ends(t, m, v) PROVE n.version = v
      <4>1. PICK k \in 1 .. Len(t) : /\ t[k].manifest = m /\ t[k].version = v
                                     /\ \A l \in k + 1 .. Len(t) : t[l].manifest # m
        BY <3>1 DEF Ends
      <4>2. k = Len(s) + 1
        BY <1>1, <2>1, <4>1
      <4> QED
        BY <1>1, <4>1, <4>2
    <3>2. ASSUME n.version = v PROVE Ends(t, m, v)
      <4>1. /\ Len(s) + 1 \in 1 .. Len(t) /\ t[Len(s) + 1].manifest = m
            /\ t[Len(s) + 1].version = v
            /\ \A l \in (Len(s) + 1) + 1 .. Len(t) : t[l].manifest # m
        BY <1>1, <2>1, <3>2
      <4> QED
        BY <4>1 DEF Ends
    <3> QED
      BY <2>1, <3>1, <3>2
  <2>2. CASE n.manifest # m
    <3>1. ASSUME Ends(t, m, v) PROVE Ends(s, m, v)
      <4>1. PICK k \in 1 .. Len(t) : /\ t[k].manifest = m /\ t[k].version = v
                                     /\ \A l \in k + 1 .. Len(t) : t[l].manifest # m
        BY <3>1 DEF Ends
      <4>2. k \in 1 .. Len(s) /\ \A l \in k + 1 .. Len(s) : l \in k + 1 .. Len(t) /\ l \in 1 .. Len(s)
        BY <1>1, <2>2, <4>1
      <4> QED
        BY <1>1, <4>1, <4>2 DEF Ends
    <3>2. ASSUME Ends(s, m, v) PROVE Ends(t, m, v)
      <4>1. PICK k \in 1 .. Len(s) : /\ s[k].manifest = m /\ s[k].version = v
                                     /\ \A l \in k + 1 .. Len(s) : s[l].manifest # m
        BY <3>2 DEF Ends
      <4>2. k \in 1 .. Len(t) /\ \A l \in k + 1 .. Len(t) : t[l].manifest # m
        BY <1>1, <2>2, <4>1
      <4> QED
        BY <1>1, <4>1, <4>2 DEF Ends
    <3> QED
      BY <2>2, <3>1, <3>2
  <2> QED
    BY <2>1, <2>2
<1>4. ASSUME DeleteFirst(t, m)
      PROVE  DeleteFirst(s, m) \/ (Free(s, m) /\ n.manifest = m /\ n.type = "delete")
  <2>1. PICK k \in 1 .. Len(t) : /\ t[k].manifest = m /\ t[k].type = "delete"
                                 /\ \A l \in 1 .. k - 1 : t[l].manifest # m
    BY <1>4 DEF DeleteFirst
  <2>2. CASE k = Len(s) + 1
    BY <1>1, <2>1, <2>2 DEF Free
  <2>3. CASE k # Len(s) + 1
    <3>1. k \in 1 .. Len(s) /\ \A l \in 1 .. k - 1 : s[l].manifest # m
      BY <1>1, <2>1, <2>3
    <3> QED
      BY <1>1, <2>1, <3>1 DEF DeleteFirst
  <2> QED
    BY <2>2, <2>3
<1>5. ASSUME DeleteFirst(s, m) PROVE DeleteFirst(t, m)
  <2>1. PICK k \in 1 .. Len(s) : /\ s[k].manifest = m /\ s[k].type = "delete"
                                 /\ \A l \in 1 .. k - 1 : s[l].manifest # m
    BY <1>5 DEF DeleteFirst
  <2>2. k \in 1 .. Len(t) /\ \A l \in 1 .. k - 1 : t[l].manifest # m
    BY <1>1, <2>1
  <2> QED
    BY <1>1, <2>1, <2>2 DEF DeleteFirst
<1>6. ASSUME Free(s, m), n.manifest = m, n.type = "delete" PROVE DeleteFirst(t, m)
  <2>1. Len(s) + 1 \in 1 .. Len(t) /\ \A l \in 1 .. (Len(s) + 1) - 1 : t[l].manifest # m
    BY <1>1, <1>6 DEF Free
  <2> QED
    BY <1>1, <1>6, <2>1 DEF DeleteFirst
<1> QED
  BY <1>2, <1>3, <1>4, <1>5, <1>6 DEF t

LEMMA TailMeans ==
  ASSUME NEW s \in Seq(NoteRec), s # <<>>, NEW m
  PROVE  /\ Tail(s) \in Seq(NoteRec) /\ Head(s) \in NoteRec
         /\ Free(s, m) <=> Free(Tail(s), m) /\ Head(s).manifest # m
         /\ \A v : Ends(s, m, v) <=>
              Ends(Tail(s), m, v) \/
              (Free(Tail(s), m) /\ Head(s).manifest = m /\ Head(s).version = v)
         /\ DeleteFirst(s, m) <=>
              IF Head(s).manifest = m THEN Head(s).type = "delete" ELSE DeleteFirst(Tail(s), m)
<1> DEFINE t == Tail(s)
           n == Head(s)
<1>1. /\ t \in Seq(NoteRec) /\ n \in NoteRec /\ n = s[1]
      /\ Len(t) = Len(s) - 1 /\ Len(s) \in Nat \ {0}
      /\ \A k \in 1 .. Len(s) - 1 : t[k] = s[k + 1]
  BY SeqTail
<1> HIDE DEF t, n
<1>2. \A k \in 2 .. Len(s) : k - 1 \in 1 .. Len(t) /\ s[k] = t[k - 1]
  <2> SUFFICES ASSUME NEW k \in 2 .. Len(s) PROVE k - 1 \in 1 .. Len(t) /\ s[k] = t[k - 1]
    OBVIOUS
  <2>1. k - 1 \in 1 .. Len(s) - 1 /\ (k - 1) + 1 = k
    BY <1>1
  <2> QED
    BY <1>1, <2>1
<1>3. Free(s, m) <=> Free(t, m) /\ n.manifest # m
  <2>1. ASSUME Free(s, m) PROVE Free(t, m) /\ n.manifest # m
    BY <1>1, <2>1 DEF Free
  <2>2. ASSUME Free(t, m), n.manifest # m PROVE Free(s, m)
    <3> SUFFICES ASSUME NEW k \in 1 .. Len(s) PROVE s[k].manifest # m
      BY DEF Free
    <3>1. CASE k = 1
      BY <1>1, <2>2, <3>1
    <3>2. CASE k # 1
      <4>1. k \in 2 .. Len(s)
        BY <1>1, <3>2
      <4> QED
        BY <1>2, <2>2, <4>1 DEF Free
    <3> QED
      BY <3>1, <3>2
  <2> QED
    BY <2>1, <2>2
<1>4. ASSUME NEW v, Ends(s, m, v)
      PROVE  Ends(t, m, v) \/ (Free(t, m) /\ n.manifest = m /\ n.version = v)
  <2>1. PICK k \in 1 .. Len(s) : /\ s[k].manifest = m /\ s[k].version = v
                                 /\ \A l \in k + 1 .. Len(s) : s[l].manifest # m
    BY <1>4 DEF Ends
  <2>2. CASE k = 1
    BY <1>1, <2>1, <2>2 DEF Free
  <2>3. CASE k # 1
    <3>1. k \in 2 .. Len(s)
      BY <1>1, <2>3
    <3>2. k - 1 \in 1 .. Len(t) /\ s[k] = t[k - 1]
      BY <1>2, <3>1
    <3>3. ASSUME NEW l \in (k - 1) + 1 .. Len(t) PROVE t[l].manifest # m
      <4>1. l \in 1 .. Len(s) - 1 /\ l + 1 \in k + 1 .. Len(s)
        BY <1>1, <3>1
      <4> QED
        BY <1>1, <2>1, <4>1
    <3> QED
      BY <2>1, <3>2, <3>3 DEF Ends
  <2> QED
    BY <2>2, <2>3
<1>5. ASSUME NEW v, Ends(t, m, v) PROVE Ends(s, m, v)
  <2>1. PICK k \in 1 .. Len(t) : /\ t[k].manifest = m /\ t[k].version = v
                                 /\ \A l \in k + 1 .. Len(t) : t[l].manifest # m
    BY <1>5 DEF Ends
  <2>2. k + 1 \in 1 .. Len(s) /\ s[k + 1] = t[k]
    BY <1>1
  <2>3. ASSUME NEW l \in (k + 1) + 1 .. Len(s) PROVE s[l].manifest # m
    <3>1. l \in 2 .. Len(s) /\ l - 1 \in k + 1 .. Len(t)
      BY <1>1
    <3> QED
      BY <1>2, <2>1, <3>1
  <2> QED
    BY <2>1, <2>2, <2>3 DEF Ends
<1>6. ASSUME NEW v, Free(t, m), n.manifest = m, n.version = v PROVE Ends(s, m, v)
  <2>1. 1 \in 1 .. Len(s) /\ s[1] = n
    BY <1>1
  <2>2. ASSUME NEW l \in 1 + 1 .. Len(s) PROVE s[l].manifest # m
    BY <1>2, <1>6 DEF Free
  <2> QED
    BY <1>6, <2>1, <2>2 DEF Ends
<1>7. CASE n.manifest = m
  <2>1. ASSUME DeleteFirst(s, m) PROVE n.type = "delete"
    <3>1. PICK k \in 1 .. Len(s) : /\ s[k].manifest = m /\ s[k].type = "delete"
                                   /\ \A l \in 1 .. k - 1 : s[l].manifest # m
      BY <2>1 DEF DeleteFirst
    <3>2. k = 1
      BY <1>1, <1>7, <3>1
    <3> QED
      BY <1>1, <3>1, <3>2
  <2>2. ASSUME n.type = "delete" PROVE DeleteFirst(s, m)
    <3>1. 1 \in 1 .. Len(s) /\ s[1] = n /\ \A l \in 1 .. 1 - 1 : s[l].manifest # m
      BY <1>1
    <3> QED
      BY <1>7, <2>2, <3>1 DEF DeleteFirst
  <2> QED
    BY <1>1, <1>3, <1>4, <1>5, <1>6, <1>7, <2>1, <2>2 DEF t, n
<1>8. CASE n.manifest # m
  <2>1. ASSUME DeleteFirst(s, m) PROVE DeleteFirst(t, m)
    <3>1. PICK k \in 1 .. Len(s) : /\ s[k].manifest = m /\ s[k].type = "delete"
                                   /\ \A l \in 1 .. k - 1 : s[l].manifest # m
      BY <2>1 DEF DeleteFirst
    <3>2. k \in 2 .. Len(s)
      BY <1>1, <1>8, <3>1
    <3>3. k - 1 \in 1 .. Len(t) /\ s[k] = t[k - 1]
      BY <1>2, <3>2
    <3>4. ASSUME NEW l \in 1 .. (k - 1) - 1 PROVE t[l].manifest # m
      <4>1. l \in 1 .. Len(s) - 1 /\ l + 1 \in 1 .. k - 1
        BY <1>1, <3>2
      <4> QED
        BY <1>1, <3>1, <4>1
    <3> QED
      BY <3>1, <3>3, <3>4 DEF DeleteFirst
  <2>2. ASSUME DeleteFirst(t, m) PROVE DeleteFirst(s, m)
    <3>1. PICK k \in 1 .. Len(t) : /\ t[k].manifest = m /\ t[k].type = "delete"
                                   /\ \A l \in 1 .. k - 1 : t[l].manifest # m
      BY <2>2 DEF DeleteFirst
    <3>2. k + 1 \in 1 .. Len(s) /\ s[k + 1] = t[k]
      BY <1>1
    <3>3. ASSUME NEW l \in 1 .. (k + 1) - 1 PROVE s[l].manifest # m
      <4>1. CASE l = 1
        BY <1>1, <1>8, <4>1
      <4>2. CASE l # 1
        <5>1. l \in 2 .. Len(s) /\ l - 1 \in 1 .. k - 1
          BY <1>1, <4>2
        <5> QED
          BY <1>2, <3>1, <5>1
      <4> QED
        BY <4>1, <4>2
    <3> QED
      BY <3>1, <3>2, <3>3 DEF DeleteFirst
  <2> QED
    BY <1>1, <1>3, <1>4, <1>5, <1>6, <1>8, <2>1, <2>2 DEF t, n
<1> QED
  BY <1>7, <1>8
-----------------------------------------------------------------------------
(* Events are only ever handed on.                                         *)
LEMMA EventsFacts ==
  ASSUME TInv
  PROVE  /\ Events \subseteq EventRec
         /\ \A e \in ToSet(queue) : e \in Events /\ e \in EventRec
         /\ \A i \in Instances : Busy(i) => work[i].event \in Events
<1>1. ToSet(queue) \subseteq EventRec
  BY SeqElems DEF TInv, StoredTyped
<1>2. \A i \in Instances : Busy(i) => work[i].event \in EventRec
  BY AtFacts
<1> QED
  BY <1>1, <1>2 DEF Events, AtWork

LEMMA EventsOfFacts ==
  ASSUME TInv, NEW m \in Manifests
  PROVE  /\ Queued(m) \subseteq EventRec /\ EventsOf(m) \subseteq EventRec
         /\ \A i \in InWork(m) : /\ i \in Instances /\ Busy(i) /\ status[i] = "up"
                                 /\ work[i].event \in EventsOf(m)
                                 /\ work[i].event \in EventRec
                                 /\ work[i].event.manifest = m
         /\ \A e \in EventsOf(m) : e \in Events /\ e.manifest = m
         /\ \A i \in Instances : Busy(i) /\ work[i].event.manifest = m => i \in InWork(m)
<1>1. ASSUME NEW i \in InWork(m)
      PROVE  /\ i \in Instances /\ Busy(i) /\ status[i] = "up"
             /\ work[i].event \in EventsOf(m)
             /\ work[i].event \in EventRec
             /\ work[i].event.manifest = m /\ work[i].event \in Events
  <2>1. i \in Instances /\ work[i].event.manifest = m
    BY DEF InWork
  <2>2. Busy(i)
    BY <2>1, WorkFacts, IdleFacts, EventFacts DEF TInv
  <2> QED
    BY <2>1, <2>2, AtFacts, EventsFacts DEF EventsOf
<1>2. Queued(m) \subseteq EventRec /\ \A e \in Queued(m) : e \in Events /\ e.manifest = m
  BY EventsFacts DEF Queued
<1> QED
  BY <1>1, <1>2 DEF EventsOf, InWork

Known(e) == \E f \in Events : Copy(e, f)

LEMMA CopyFacts ==
  /\ \A e : Copy(e, e)
  /\ \A e \in Events : Known(e)
BY DEF Copy, Known

LEMMA EventsStep ==
  ASSUME TInv, [Next]_vars
  PROVE  \/ \E m \in Manifests, v \in Deployments :
              /\ changes' = changes + 1
              /\ Events' = Events \cup {Event(m, v, changes')}
         \/ changes' = changes /\ \A e \in Events' : Known(e)
<1> DEFINE Goal ==
             \/ \E m \in Manifests, v \in Deployments :
                  /\ changes' = changes + 1
                  /\ Events' = Events \cup {Event(m, v, changes')}
             \/ changes' = changes /\ \A e \in Events' : Known(e)
<1>1. ASSUME NEW m \in Manifests, NEW v \in Deployments, Change(m, v) PROVE Goal
  <2>1. /\ changes' = changes + 1 /\ work' = work
        /\ ToSet(queue') = ToSet(queue) \cup {Event(m, v, changes')}
    BY <1>1, ChangeStep DEF Change
  <2>2. Events' = Events \cup {Event(m, v, changes')}
    BY <2>1 DEF Events, AtWork, Busy
  <2> QED
    BY <2>1, <2>2
<1>2. ASSUME changes' = changes, \A e \in ToSet(queue') : Known(e),
             \A j \in Instances : Busy(j)' => Known(work'[j].event)
      PROVE  Goal
  BY <1>2 DEF Events, AtWork
<1>3. \A e \in ToSet(queue) : Known(e)
  BY EventsFacts, CopyFacts
<1>4. \A j \in Instances : Busy(j) => Known(work[j].event)
  BY EventsFacts, CopyFacts
<1>5. ASSUME NEW i \in Instances, changes' = changes,
             \A f \in ToSet(queue') : f \in ToSet(queue) \/ (Busy(i) /\ Copy(f, work[i].event)),
             \A j \in Instances : j # i => work'[j] = work[j],
             work'[i].step = "idle" \/ (Busy(i) /\ work'[i].event = work[i].event)
      PROVE  Goal
  <2>1. \A e \in ToSet(queue') : Known(e)
    BY <1>3, <1>5, EventsFacts DEF Known
  <2>2. ASSUME NEW j \in Instances, Busy(j)' PROVE Known(work'[j].event)
    <3>1. CASE j = i
      BY <1>4, <1>5, <2>2, <3>1 DEF Busy
    <3>2. CASE j # i
      BY <1>4, <1>5, <2>2, <3>2 DEF Busy
    <3> QED
      BY <3>1, <3>2
  <2> QED
    BY <1>2, <1>5, <2>1, <2>2
<1>6. ASSUME changes' = changes, queue' = queue, work' = work PROVE Goal
  <2>1. \A j \in Instances : Busy(j)' => Known(work'[j].event)
    BY <1>4, <1>6 DEF Busy
  <2> QED
    BY <1>2, <1>3, <1>6, <2>1
<1>7. ASSUME NEW i \in Instances, Take(i) PROVE Goal
  <2> DEFINE e == Head(queue)
  <2>1. /\ e \in EventRec /\ e \in ToSet(queue) /\ ToSet(queue) = ToSet(queue') \cup {e}
        /\ work'[i] = Begun(e, scalers[i][e.manifest])
        /\ \A j \in Instances : j # i => work'[j] = work[j]
    BY <1>7, TakeStep
  <2>2. changes' = changes
    BY <1>7 DEF Take
  <2> HIDE DEF e
  <2>3. scalers[i][e.manifest] \in Deployments
    BY <2>1, EventFacts DEF TInv, StoredTyped
  <2>4. work'[i].event = e
    <3> DEFINE old == scalers[i][e.manifest]
    <3>1. e \in EventRec /\ old \in Deployments /\ work'[i] = Begun(e, old)
      BY <2>1, <2>3
    <3> HIDE DEF old, Goal
    <3>2. Begun(e, old).event = e
      BY <3>1, BegunFacts
    <3> QED
      BY <3>1, <3>2
  <2>5. \A f \in ToSet(queue') : Known(f)
    BY <1>3, <2>1
  <2>6. ASSUME NEW j \in Instances, Busy(j)' PROVE Known(work'[j].event)
    BY <1>3, <1>4, <2>1, <2>4, <2>6 DEF Busy
  <2> QED
    BY <1>2, <2>2, <2>5, <2>6
<1>8. ASSUME NEW i \in Instances, Busy(i), NEW why \in SUBSET Reasons, Fails(i, why) PROVE Goal
  <2>1. /\ work'[i] = Idle /\ \A j \in Instances : j # i => work'[j] = work[j]
        /\ \A f \in ToSet(queue') : f \in ToSet(queue) \/ Copy(f, work[i].event)
    BY <1>8, NackTyped DEF Fails
  <2>2. changes' = changes /\ work'[i].step = "idle"
    BY <1>8, <2>1, IdleFacts DEF Fails
  <2> QED
    BY <1>5, <1>8, <2>1, <2>2
<1>9. ASSUME NEW i \in Instances, Ack(i), changes' = changes, status' = status PROVE Goal
  <2>1. /\ work'[i] = Idle /\ \A j \in Instances : j # i => work'[j] = work[j]
        /\ ToSet(queue') \subseteq ToSet(queue)
    BY <1>9, AckTyped
  <2>2. work'[i].step = "idle"
    BY <2>1, IdleFacts
  <2> QED
    BY <1>5, <1>9, <2>1, <2>2
<1>10. ASSUME NEW i \in Instances, Late(i) PROVE Goal
  <2>1. /\ Busy(i) /\ \A j \in Instances : j # i => work'[j] = work[j]
        /\ work'[i] = [work[i] EXCEPT !.late = TRUE]
        /\ \A f \in ToSet(queue') : f \in ToSet(queue) \/ Copy(f, work[i].event)
    BY <1>10, LateStep
  <2>2. changes' = changes /\ work'[i].event = work[i].event
    <3>1. work[i] \in WorkRec /\ changes' = changes
      BY <1>10, WorkFacts DEF TInv, Late
    <3> QED
      BY <2>1, <3>1 DEF WorkRec
  <2> QED
    BY <1>5, <2>1, <2>2
<1>11. ASSUME NEW i \in Instances, Refresh(i) PROVE Goal
  <2>1. /\ Busy(i) /\ work'[i].event = work[i].event
        /\ \A j \in Instances : j # i => work'[j] = work[j]
    BY <1>11, RefreshStep
  <2>2. changes' = changes /\ queue' = queue
    BY <1>11 DEF Refresh
  <2> QED
    BY <1>5, <2>1, <2>2
<1>12. ASSUME NEW i \in Instances, Tell(i) PROVE Goal
  <2>1. changes' = changes /\ status' = status
    BY <1>12 DEF Tell
  <2>2. CASE Unpublished(work[i].event)
    BY <1>9, <1>12, <2>1, <2>2, TellStep
  <2>3. CASE ~Unpublished(work[i].event)
    <3>1. /\ Busy(i) /\ work'[i].event = work[i].event /\ queue' = queue
          /\ \A j \in Instances : j # i => work'[j] = work[j]
      BY <1>12, <2>3, TellStep
    <3> QED
      BY <1>5, <2>1, <3>1
  <2> QED
    BY <2>2, <2>3
<1>13. ASSUME NEW i \in Instances, Crash(i) PROVE Goal
  <2>1. /\ \A j \in Instances : work'[j] = IF j = i THEN Idle ELSE work[j]
        /\ \A f \in ToSet(queue') : f \in ToSet(queue) \/ (Busy(i) /\ Copy(f, work[i].event))
        /\ changes' = changes
    BY <1>13, CrashStep
  <2>2. work'[i].step = "idle"
    BY <2>1, IdleFacts
  <2> QED
    BY <1>5, <2>1, <2>2
<1>14. ASSUME NEW i \in Instances, Reconcile(i) \/ CleanupCommandsFail(i) PROVE Goal
  BY <1>9, <1>14, ReconcileStep
<1>15. ASSUME NEW i \in Instances,
              RefreshFails(i) \/ CleanUpFails(i) \/ TellFails(i) \/ CommandsFail(i) \/ ScalersGone(i)
       PROVE  Goal
  <2>1. ASSUME RefreshFails(i) PROVE Goal
    BY <1>8, <2>1, RefreshFailsStep
  <2>2. ASSUME CleanUpFails(i) PROVE Goal
    BY <1>8, <2>2, CleanUpFailsStep
  <2>3. ASSUME TellFails(i) PROVE Goal
    BY <1>8, <2>3, TellFailsStep
  <2>4. ASSUME CommandsFail(i) \/ ScalersGone(i) PROVE Goal
    BY <1>8, <2>4, CommandsFailStep
  <2> QED
    BY <1>15, <2>1, <2>2, <2>3, <2>4
<1>16. ASSUME NEW j \in Instances,
              CreateScalers(j) \/ RemoveScalers(j) \/ RemovalDone(j) \/ RemovalFails(j)
              \/ Subscribe(j) \/ LoadManifests(j)
       PROVE  Goal
  BY <1>6, <1>16 DEF CreateScalers, RemoveScalers, RemovalDone, RemovalFails, Subscribe,
     LoadManifests
<1>17. ASSUME NEW i \in Instances, NEW m \in Manifests, HandleEvent(i, m) PROVE Goal
  BY <1>6, <1>17 DEF HandleEvent
<1>18. CASE Execute \/ \E m \in Manifests : Stops(m)
  BY <1>6, <1>18 DEF Execute, Stops
<1>19. CASE UNCHANGED vars
  BY <1>6, <1>19 DEF vars
<1> HIDE DEF Goal
<1> QED
  BY <1>1, <1>7, <1>10, <1>11, <1>12, <1>13, <1>14, <1>15, <1>16, <1>17, <1>18, <1>19
  DEF Goal, Next, Worker, Notifier, Faults

LEMMA NextNumbered == TInv /\ Numbered /\ [Next]_vars => Numbered'
<1> SUFFICES ASSUME TInv, Numbered, [Next]_vars PROVE Numbered'
  OBVIOUS
<1>1. changes \in Nat /\ \A e \in Events : e.number \in Nat \ {0} /\ e.number <= changes
  BY ScalerManagerAssumption, EventsFacts, EventFacts DEF TInv, StoredTyped, Numbered
<1>2. ASSUME NEW m \in Manifests, NEW v \in Deployments, changes' = changes + 1,
             Events' = Events \cup {Event(m, v, changes')}
      PROVE  Numbered'
  <2> DEFINE new == Event(m, v, changes')
  <2>1. new.number = changes + 1
    BY <1>2 DEF Event
  <2>2. Events' = Events \cup {new} /\ changes' = changes + 1
    BY <1>2
  <2> HIDE DEF new
  <2>3. \A e \in Events : e.number # new.number
    BY <1>1, <2>1
  <2>4. \A e \in Events' : e.number <= changes'
    BY <1>1, <2>1, <2>2
  <2>5. \A e, f \in Events' :
          e.number = f.number => e.manifest = f.manifest /\ e.version = f.version
    BY <2>2, <2>3 DEF Numbered
  <2> QED
    BY <2>4, <2>5 DEF Numbered
<1>3. ASSUME changes' = changes, \A e \in Events' : Known(e) PROVE Numbered'
  BY <1>3 DEF Numbered, Known, Copy
<1> QED
  BY <1>2, <1>3, EventsStep
-----------------------------------------------------------------------------
(* What a step does not touch of a manifest.                               *)
WorkKept(m) ==
  /\ Queued(m)' = Queued(m) /\ InWork(m)' = InWork(m)
  /\ \A i \in InWork(m) : work'[i] = work[i]
  /\ deployed'[m] = deployed[m] /\ aux_last'[m] = aux_last[m]

ToldKept(m) ==
  /\ UNCHANGED <<notes, cleaning, status>> /\ deployed'[m] = deployed[m]
  /\ \A j \in Instances : scalers'[j][m] = scalers[j][m]

LEMMA KeptKeeps ==
  ASSUME NEW m
  PROVE  /\ WorkKept(m) => /\ InOrder(m) => InOrder(m)'
                           /\ Reached(m)' <=> Reached(m)
         /\ ToldKept(m) => (Follow(m) => Follow(m)')
<1>1. ASSUME WorkKept(m) PROVE (InOrder(m) => InOrder(m)') /\ (Reached(m)' <=> Reached(m))
  <2>1. /\ Queued(m)' = Queued(m) /\ InWork(m)' = InWork(m)
        /\ \A i \in InWork(m) : work'[i] = work[i]
        /\ deployed'[m] = deployed[m] /\ aux_last'[m] = aux_last[m]
    BY <1>1 DEF WorkKept
  <2>2. EventsOf(m)' = EventsOf(m)
    BY <2>1 DEF EventsOf
  <2>3. OneAtWork(m)' <=> OneAtWork(m)
    BY <2>1 DEF OneAtWork
  <2>4. LastTaken(m)' <=> LastTaken(m)
    BY <2>1 DEF LastTaken
  <2>5. LastDeployed(m)' <=> LastDeployed(m)
    BY <2>1, <2>2 DEF LastDeployed
  <2>6. LateAgain(m)' <=> LateAgain(m)
    BY <2>1 DEF LateAgain
  <2>7. Reached(m)' <=> Reached(m)
    BY <2>1 DEF Reached
  <2> QED
    BY <2>3, <2>4, <2>5, <2>6, <2>7 DEF InOrder
<1>2. ASSUME ToldKept(m), Follow(m) PROVE Follow(m)'
  <2>1. /\ notes' = notes /\ cleaning' = cleaning /\ status' = status
        /\ deployed'[m] = deployed[m]
        /\ \A j \in Instances : scalers'[j][m] = scalers[j][m]
    BY <1>2 DEF ToldKept
  <2>2. \A j \in Instances : Follows(j, m)' <=> Follows(j, m)
    BY <2>1 DEF Follows, Rest
  <2> QED
    BY <1>2, <2>2 DEF Follow
<1> QED
  BY <1>1, <1>2

(* A step of a worker that is about another manifest.                      *)
LEMMA WorkElsewhere ==
  ASSUME TInv, NEW i \in Instances, NEW m \in Manifests,
         \A j \in Instances : j # i => work'[j] = work[j],
         work[i].event.manifest # m, work'[i].event.manifest # m,
         \A f \in ToSet(queue) : f.manifest = m => f \in ToSet(queue'),
         \A f \in ToSet(queue') : f.manifest = m => f \in ToSet(queue),
         deployed'[m] = deployed[m], aux_last'[m] = aux_last[m]
  PROVE  WorkKept(m)
<1>1. Queued(m)' = Queued(m)
  BY DEF Queued
<1>2. InWork(m)' = InWork(m) /\ \A j \in InWork(m) : j # i
  BY DEF InWork
<1>3. \A j \in InWork(m) : j \in Instances
  BY DEF InWork
<1> QED
  BY <1>1, <1>2, <1>3 DEF WorkKept

(* The last event stays the last one.                                      *)
LEMMA LastKept ==
  ASSUME TInv, NEW m \in Manifests, LastDeployed(m), deployed'[m] = deployed[m],
         aux_last'[m] \in Nat, aux_last[m] <= aux_last'[m],
         \A e \in EventsOf(m)' : \E f \in EventsOf(m) : Copy(e, f),
         \A f \in EventsOf(m) : f.number <= aux_last'[m] \/ \E e \in EventsOf(m)' : e.number = f.number
  PROVE  LastDeployed(m)'
<1> SUFFICES ASSUME NEW e \in EventsOf(m)', aux_last'[m] <= e.number,
                    \A g \in EventsOf(m)' : g.number <= e.number
             PROVE  e.version = deployed'[m]
  BY DEF LastDeployed
<1>1. PICK f \in EventsOf(m) : Copy(e, f)
  OBVIOUS
<1>2. e.number = f.number /\ e.version = f.version /\ f.number \in Nat
  BY <1>1, EventsOfFacts, EventFacts DEF Copy
<1>3. aux_last[m] \in Nat
  BY DEF TInv, AuxTyped
<1>4. aux_last[m] <= f.number
  BY <1>2, <1>3
<1>5. ASSUME NEW g \in EventsOf(m) PROVE g.number <= f.number
  <2>1. g.number \in Nat
    BY EventsOfFacts, EventFacts
  <2> QED
    BY <1>2, <2>1
<1> QED
  BY <1>2, <1>4, <1>5 DEF LastDeployed

LEMMA GoodBefore ==
  ASSUME TInv, [Next]_vars, NEW m \in Manifests
  PROVE  aux_spoiled[m] \subseteq aux_spoiled'[m] /\ (Good(m)' => Good(m))
<1> DEFINE Goal == aux_spoiled[m] \subseteq aux_spoiled'[m]
<1>1. ASSUME aux_spoiled' = aux_spoiled PROVE Goal
  BY <1>1
<1>2. ASSUME NEW i \in Instances, Busy(i), NEW why \in SUBSET Reasons, Fails(i, why) PROVE Goal
  BY <1>2, NackTyped DEF Fails
<1>3. ASSUME NEW i \in Instances,
             RefreshFails(i) \/ CleanUpFails(i) \/ TellFails(i) \/ CommandsFail(i) \/ ScalersGone(i)
      PROVE  Goal
  <2>1. ASSUME RefreshFails(i) PROVE Goal
    BY <1>2, <2>1, RefreshFailsStep
  <2>2. ASSUME CleanUpFails(i) PROVE Goal
    BY <1>2, <2>2, CleanUpFailsStep
  <2>3. ASSUME TellFails(i) PROVE Goal
    BY <1>2, <2>3, TellFailsStep
  <2>4. ASSUME CommandsFail(i) \/ ScalersGone(i) PROVE Goal
    BY <1>2, <2>4, CommandsFailStep
  <2> QED
    BY <1>3, <2>1, <2>2, <2>3, <2>4
<1>4. ASSUME NEW i \in Instances, Worker(i) \/ Notifier(i) PROVE Goal
  <2>1. CASE Take(i)
    BY <2>1, TakeStep
  <2>2. CASE Refresh(i)
    <3> DEFINE lag(n) == IF /\ n = work[i].event.manifest
                            /\ OnItsWay(work[i].event.manifest, Outdated(i))
                         THEN {"in flight"} ELSE {}
    <3>1. \A n \in Manifests : aux_spoiled'[n] = aux_spoiled[n] \cup lag(n)
      BY <2>2, RefreshStep
    <3> HIDE DEF lag
    <3>2. aux_spoiled'[m] = aux_spoiled[m] \cup lag(m)
      BY <3>1
    <3> QED
      BY <3>2
  <2>3. CASE Tell(i)
    BY <2>3 DEF Tell
  <2>4. CASE Reconcile(i)
    BY <2>4 DEF Reconcile
  <2>5. CASE CreateScalers(i) \/ RemoveScalers(i)
    BY <2>5 DEF CreateScalers, RemoveScalers
  <2>6. CASE RemovalDone(i)
    BY <2>6, RemovalDoneStep
  <2> QED
    BY <1>3, <1>4, <2>1, <2>2, <2>3, <2>4, <2>5, <2>6 DEF Worker, Notifier
<1>5. ASSUME NEW i \in Instances, Faults(i) PROVE Goal
  <2>1. CASE Late(i)
    BY <2>1, LateStep
  <2>2. CASE CleanupCommandsFail(i)
    BY <2>2, ReconcileStep
  <2>3. CASE RemovalFails(i)
    BY <2>3, RemovalFailsStep
  <2>4. CASE Crash(i)
    BY <2>4, CrashStep
  <2> QED
    BY <1>3, <1>5, <2>1, <2>2, <2>3, <2>4 DEF Faults
<1>6. ASSUME NEW i \in Instances, Subscribe(i) \/ LoadManifests(i) PROVE Goal
  <2>1. CASE Subscribe(i)
    BY <2>1 DEF Subscribe
  <2>2. CASE LoadManifests(i)
    BY <2>2, LoadManifestsStep
  <2> QED
    BY <1>6, <2>1, <2>2
<1>7. ASSUME NEW i \in Instances, NEW n \in Manifests, HandleEvent(i, n) PROVE Goal
  BY <1>7, HandleEventStep
<1>8. ASSUME NEW n \in Manifests, NEW v \in Deployments, Change(n, v) PROVE Goal
  BY <1>8 DEF Change
<1>9. ASSUME Execute \/ \E n \in Manifests : Stops(n) PROVE Goal
  BY <1>1, <1>9 DEF Execute, Stops
<1>10. ASSUME UNCHANGED vars PROVE Goal
  BY <1>1, <1>10 DEF vars
<1> HIDE DEF Goal
<1>11. Goal
  BY <1>4, <1>5, <1>6, <1>7, <1>8, <1>9, <1>10 DEF Next
<1> QED
  BY <1>11 DEF Goal, Good

(* The number of an event tells its manifest.                              *)
LEMMA NumberTells ==
  ASSUME TInv, Numbered, NEW e \in ToSet(queue), NEW i \in Instances, Busy(i),
         e.number = work[i].event.number
  PROVE  e.manifest = work[i].event.manifest /\ e.version = work[i].event.version
BY EventsFacts DEF Numbered

(* An event that is not acknowledged.                                      *)
LEMMA NackOrder ==
  ASSUME TInv, NEW i \in Instances, Busy(i),
         work'[i] = Idle, \A j \in Instances : j # i => work'[j] = work[j],
         ToSet(queue) \subseteq ToSet(queue'),
         \A f \in ToSet(queue') : f \in ToSet(queue) \/ Copy(f, work[i].event),
         ~work[i].late => \E f \in ToSet(queue') : f.number = work[i].event.number,
         \A f \in ToSet(queue') : f.number = work[i].event.number =>
           f.manifest = work[i].event.manifest,
         UNCHANGED <<deployed, aux_last>>,
         NEW m \in Manifests, m = work[i].event.manifest, InOrder(m)
  PROVE  InOrder(m)' /\ ~Reached(m)'
<1> DEFINE e == work[i].event
<1>1. e \in EventRec /\ i \in InWork(m) /\ e \in EventsOf(m)
  BY AtFacts, EventsOfFacts
<1>2. InWork(m) = {i}
  BY <1>1 DEF InOrder, OneAtWork
<1>3. InWork(m)' = {}
  BY <1>1, <1>2, IdleFacts, EventFacts DEF InWork
<1>4. \E f \in Queued(m)' : f.number = e.number
  <2>1. CASE work[i].late
    BY <1>1, <2>1 DEF InOrder, LateAgain, Queued
  <2>2. CASE ~work[i].late
    BY <2>2 DEF Queued
  <2> QED
    BY <2>1, <2>2
<1>5. Queued(m) \subseteq Queued(m)' /\ \A f \in Queued(m)' : f \in Queued(m) \/ Copy(f, e)
  BY DEF Queued
<1>6. /\ EventsOf(m)' = Queued(m)'
      /\ EventsOf(m) = Queued(m) \cup {e}
  BY <1>2, <1>3 DEF EventsOf
<1>7. \A f \in EventsOf(m)' : \E g \in EventsOf(m) : Copy(f, g)
  BY <1>5, <1>6, CopyFacts
<1>8. \A f \in EventsOf(m) : \E g \in EventsOf(m)' : g.number = f.number
  BY <1>4, <1>5, <1>6
<1>9. LastDeployed(m)'
  BY <1>1, <1>7, <1>8, LastKept DEF InOrder, TInv, AuxTyped
<1>10. ~Reached(m)'
  BY <1>3, <1>4 DEF Reached
<1> QED
  BY <1>3, <1>9, <1>10 DEF InOrder, OneAtWork, LastTaken, LateAgain

(* One that is.                                                            *)
LEMMA AckOrder ==
  ASSUME TInv, Numbered, NEW i \in Instances, Busy(i), Ack(i), status' = status,
         UNCHANGED <<deployed, aux_last>>,
         NEW m \in Manifests, m = work[i].event.manifest, InOrder(m)
  PROVE  /\ InOrder(m)' /\ InWork(m) = {i} /\ InWork(m)' = {}
         /\ Reached(m)' => \A f \in Queued(m) : f.number = work[i].event.number
<1> DEFINE e == work[i].event
<1>1. e \in EventRec /\ i \in InWork(m) /\ e \in EventsOf(m)
  BY AtFacts, EventsOfFacts
<1>2. /\ work'[i] = Idle /\ \A j \in Instances : j # i => work'[j] = work[j]
      /\ ToSet(queue') \subseteq ToSet(queue)
      /\ \A f \in ToSet(queue) : f.number # e.number => f \in ToSet(queue')
  BY AckTyped
<1>3. InWork(m) = {i}
  BY <1>1 DEF InOrder, OneAtWork
<1>4. InWork(m)' = {}
  BY <1>1, <1>2, <1>3, IdleFacts, EventFacts DEF InWork
<1>5. Queued(m)' \subseteq Queued(m) /\ \A f \in Queued(m) : f.number # e.number => f \in Queued(m)'
  BY <1>2 DEF Queued
<1>6. /\ EventsOf(m)' = Queued(m)'
      /\ EventsOf(m) = Queued(m) \cup {e}
  BY <1>3, <1>4 DEF EventsOf
<1>7. \A f \in EventsOf(m)' : \E g \in EventsOf(m) : Copy(f, g)
  BY <1>5, <1>6, CopyFacts
<1>8. e.number = aux_last'[m] /\ aux_last'[m] = aux_last[m] /\ aux_last[m] \in Nat
  BY <1>1 DEF InOrder, LastTaken, TInv, AuxTyped
<1>9. \A f \in EventsOf(m) : f.number <= aux_last'[m] \/ \E g \in EventsOf(m)' : g.number = f.number
  BY <1>5, <1>6, <1>8
<1>10. LastDeployed(m)'
  BY <1>1, <1>7, <1>8, <1>9, LastKept DEF InOrder
<1>11. Reached(m)' => \A f \in Queued(m) : f.number = e.number
  BY <1>4, <1>5 DEF Reached
<1> QED
  BY <1>3, <1>4, <1>10, <1>11 DEF InOrder, OneAtWork, LastTaken, LateAgain

LEMMA AckElsewhere ==
  ASSUME TInv, Numbered, NEW i \in Instances, Busy(i), Ack(i), status' = status,
         UNCHANGED <<deployed, aux_last>>, NEW m \in Manifests, m # work[i].event.manifest
  PROVE  WorkKept(m)
<1>1. /\ work'[i] = Idle /\ \A j \in Instances : j # i => work'[j] = work[j]
      /\ ToSet(queue') \subseteq ToSet(queue)
      /\ \A f \in ToSet(queue) : f.number # work[i].event.number => f \in ToSet(queue')
  BY AckTyped
<1>2. work'[i].event.manifest # m
  BY <1>1, IdleFacts, EventFacts
<1>3. \A f \in ToSet(queue) : f.manifest = m => f \in ToSet(queue')
  BY <1>1, NumberTells
<1> QED
  BY <1>1, <1>2, <1>3, WorkElsewhere
-----------------------------------------------------------------------------
(* All instances agree, step by step.                                      *)
LEMMA AgreeKept ==
  ASSUME TInv, [Next]_vars, NEW m \in Manifests, AgreeInv(m), WorkKept(m),
         Follow(m) => Follow(m)'
  PROVE  AgreeInv(m)'
<1> SUFFICES ASSUME Good(m)' PROVE InOrder(m)' /\ (Reached(m)' => Follow(m)')
  BY DEF AgreeInv
<1>1. InOrder(m) /\ (Reached(m) => Follow(m))
  BY GoodBefore DEF AgreeInv
<1> QED
  BY <1>1, KeptKeeps

LEMMA WorkUntouched ==
  ASSUME NEW m, UNCHANGED <<deployed, queue, work, aux_last>>
  PROVE  WorkKept(m)
BY DEF WorkKept, Queued, InWork

LEMMA AgreeChange ==
  ASSUME TInv, Numbered, [Next]_vars, NEW m \in Manifests, AgreeInv(m),
         NEW n \in Manifests, NEW v \in Deployments, Change(n, v)
  PROVE  AgreeInv(m)'
<1> DEFINE new == Event(n, v, changes')
<1>1. /\ changes' = changes + 1 /\ new \in EventRec
      /\ ToSet(queue') = ToSet(queue) \cup {new}
      /\ \A k \in Manifests : deployed'[k] = IF k = n THEN v ELSE deployed[k]
  BY ChangeStep
<1>2. UNCHANGED <<status, scalers, work, notes, cleaning, aux_last, aux_spoiled>>
  BY DEF Change
<1>3. new.manifest = n /\ new.version = v /\ new.number = changes + 1
  BY <1>1 DEF Event
<1> HIDE DEF new
<1>4. CASE m # n
  <2>1. Queued(m)' = Queued(m)
    BY <1>1, <1>3, <1>4 DEF Queued
  <2>2. InWork(m)' = InWork(m) /\ \A i \in InWork(m) : work'[i] = work[i]
    BY <1>2 DEF InWork
  <2>3. deployed'[m] = deployed[m]
    BY <1>1, <1>4
  <2>4. WorkKept(m) /\ ToldKept(m)
    BY <1>2, <2>1, <2>2, <2>3 DEF WorkKept, ToldKept
  <2> QED
    BY <2>4, KeptKeeps, AgreeKept
<1>5. CASE m = n
  <2> SUFFICES ASSUME Good(m)' PROVE InOrder(m)' /\ ~Reached(m)'
    BY DEF AgreeInv
  <2>1. InOrder(m)
    BY GoodBefore DEF AgreeInv
  <2>2. InWork(m)' = InWork(m) /\ \A i \in InWork(m) : work'[i] = work[i]
    BY <1>2 DEF InWork
  <2>3. Queued(m)' = Queued(m) \cup {new}
    BY <1>1, <1>3, <1>5 DEF Queued
  <2>4. EventsOf(m)' = EventsOf(m) \cup {new}
    BY <2>2, <2>3 DEF EventsOf
  <2>5. changes \in Nat /\ \A e \in EventsOf(m) : e.number \in Nat /\ e.number <= changes
    BY ScalerManagerAssumption, EventsOfFacts, EventFacts DEF TInv, StoredTyped, Numbered
  <2>6. LastDeployed(m)'
    <3> SUFFICES ASSUME NEW e \in EventsOf(m)', \A f \in EventsOf(m)' : f.number <= e.number
                 PROVE  e.version = deployed'[m]
      BY DEF LastDeployed
    <3>1. e = new
      BY <1>3, <2>4, <2>5
    <3> QED
      BY <1>1, <1>3, <1>5, <3>1
  <2>7. OneAtWork(m)' /\ LastTaken(m)' /\ LateAgain(m)'
    BY <1>2, <2>1, <2>2, <2>3 DEF InOrder, OneAtWork, LastTaken, LateAgain
  <2>8. ~Reached(m)'
    <3>1. \A i \in InWork(m) : work'[i].event.number # new.number
      BY <1>3, <2>2, <2>5, EventsOfFacts
    <3> QED
      BY <2>2, <2>3, <3>1 DEF Reached
  <2> QED
    BY <2>6, <2>7, <2>8 DEF InOrder
<1> QED
  BY <1>4, <1>5

LEMMA AgreeTake ==
  ASSUME TInv, Numbered, [Next]_vars, NEW m \in Manifests, AgreeInv(m),
         NEW i \in Instances, Take(i)
  PROVE  AgreeInv(m)'
<1> DEFINE e == Head(queue)
           old == scalers[i][e.manifest]
<1>1. /\ work[i] = Idle /\ e \in EventRec /\ e \in ToSet(queue)
      /\ ToSet(queue) = ToSet(queue') \cup {e}
      /\ \A j \in Instances, n \in Manifests : scalers'[j][n] =
           IF j = i /\ n = e.manifest THEN None ELSE scalers[j][n]
      /\ work'[i] = Begun(e, old)
      /\ \A j \in Instances : j # i => work'[j] = work[j]
      /\ \A n \in Manifests : aux_last'[n] =
           IF n = e.manifest /\ aux_last[n] < e.number THEN e.number ELSE aux_last[n]
      /\ \A n \in Manifests : aux_spoiled'[n] = aux_spoiled[n] \cup
           IF n = e.manifest
           THEN Lag(i, n) \cup IF InWork(n) # {} \/ e.number < aux_last[n]
                               THEN {"overtaken"} ELSE {}
           ELSE {}
  BY TakeStep
<1>2. UNCHANGED <<deployed, notes, cleaning, status>>
  BY DEF Take
<1>3. e.manifest \in Manifests /\ e.number \in Nat /\ old \in Deployments
  BY <1>1, EventFacts DEF TInv, StoredTyped
<1> HIDE DEF e, old
<1>4. /\ work'[i].event = e /\ work'[i].late = FALSE
      /\ work'[i].step \in {"tell", "refresh"}
  <2>1. /\ Begun(e, old).event = e /\ Begun(e, old).late = FALSE
        /\ Begun(e, old).step \in {"tell", "refresh"}
    <3>2. e \in EventRec /\ old \in Deployments
      BY <1>1, <1>3
    <3> QED
      BY <3>2, BegunKeeps
  <2> QED
    BY <1>1, <2>1
<1>5. work[i].event.manifest # m
  BY <1>1, IdleFacts, EventFacts
<1>6. CASE m # e.manifest
  <2>1. /\ \A f \in ToSet(queue) : f.manifest = m => f \in ToSet(queue')
        /\ \A f \in ToSet(queue') : f.manifest = m => f \in ToSet(queue)
    BY <1>1, <1>6
  <2>2. aux_last'[m] = aux_last[m] /\ work'[i].event.manifest # m /\ deployed'[m] = deployed[m]
    BY <1>1, <1>2, <1>4, <1>6
  <2>3. WorkKept(m)
    BY <1>1, <1>5, <2>1, <2>2, WorkElsewhere
  <2>4. ToldKept(m)
    BY <1>1, <1>2, <1>6 DEF ToldKept
  <2> QED
    BY <2>3, <2>4, KeptKeeps, AgreeKept
<1>7. CASE m = e.manifest
  <2> SUFFICES ASSUME Good(m)' PROVE InOrder(m)' /\ ~Reached(m)'
    BY DEF AgreeInv
  <2>1. InOrder(m)
    BY GoodBefore DEF AgreeInv
  <2>2. InWork(m) = {} /\ ~(e.number < aux_last[m])
    BY <1>1, <1>7 DEF Good
  <2>3. InWork(m)' = {i}
    BY <1>1, <1>4, <1>7, <2>2 DEF InWork
  <2>4. aux_last[m] \in Nat /\ aux_last'[m] = e.number
    <3>1. aux_last[m] \in Nat
      BY DEF TInv, AuxTyped
    <3> QED
      BY <1>1, <1>3, <1>7, <2>2, <3>1
  <2>5. Queued(m) = Queued(m)' \cup {e}
    BY <1>1, <1>7 DEF Queued
  <2>6. EventsOf(m)' = EventsOf(m)
    BY <1>4, <2>2, <2>3, <2>5 DEF EventsOf
  <2>7. LastDeployed(m)'
    <3> SUFFICES ASSUME NEW f \in EventsOf(m), aux_last'[m] <= f.number,
                        \A g \in EventsOf(m) : g.number <= f.number
                 PROVE  f.version = deployed[m]
      BY <1>2, <2>6 DEF LastDeployed
    <3>1. f.number \in Nat
      BY EventsOfFacts, EventFacts
    <3>2. aux_last[m] <= f.number
      BY <1>3, <2>2, <2>4, <3>1
    <3> QED
      BY <2>1, <3>2 DEF InOrder, LastDeployed
  <2>8. OneAtWork(m)' /\ LastTaken(m)' /\ LateAgain(m)'
    BY <1>4, <2>3, <2>4 DEF OneAtWork, LastTaken, LateAgain
  <2>9. ~Reached(m)'
    BY <1>4, <2>3 DEF Reached
  <2> QED
    BY <2>7, <2>8, <2>9 DEF InOrder
<1> QED
  BY <1>6, <1>7

(* A worker that goes on with its event.                                   *)
LEMMA GoesOn ==
  ASSUME TInv, NEW m \in Manifests, NEW i \in Instances, Busy(i),
         UNCHANGED <<deployed, aux_last>>,
         \A j \in Instances : j # i => work'[j] = work[j],
         work'[i].event = work[i].event,
         ToSet(queue) \subseteq ToSet(queue'),
         \A f \in ToSet(queue') : f \in ToSet(queue) \/ Copy(f, work[i].event),
         work'[i].late /\ m = work[i].event.manifest => \E f \in Queued(m)' : f.number = work[i].event.number,
         InOrder(m)
  PROVE  /\ InOrder(m)' /\ InWork(m)' = InWork(m)
         /\ Queued(m) \subseteq Queued(m)'
<1> DEFINE e == work[i].event
<1>1. e \in EventRec
  BY AtFacts
<1>2. InWork(m)' = InWork(m) /\ \A j \in InWork(m) : work'[j].event = work[j].event
  BY DEF InWork
<1>3. Queued(m) \subseteq Queued(m)' /\ \A f \in Queued(m)' : f \in Queued(m) \/ Copy(f, e)
  BY DEF Queued
<1>4. EventsOf(m) \subseteq EventsOf(m)'
  BY <1>2, <1>3 DEF EventsOf
<1>5. \A f \in EventsOf(m)' : \E g \in EventsOf(m) : Copy(f, g)
  <2> SUFFICES ASSUME NEW f \in EventsOf(m)' PROVE \E g \in EventsOf(m) : Copy(f, g)
    OBVIOUS
  <2>1. CASE f \in EventsOf(m)
    BY <2>1, CopyFacts
  <2>2. CASE f \notin EventsOf(m)
    <3>1. f \in Queued(m)' /\ Copy(f, e)
      BY <1>2, <1>3, <2>2 DEF EventsOf
    <3>2. e.manifest = m
      BY <3>1 DEF Queued, Copy
    <3>3. e \in EventsOf(m)
      BY <3>2 DEF EventsOf, InWork
    <3> QED
      BY <3>1, <3>3
  <2> QED
    BY <2>1, <2>2
<1>6. LastDeployed(m)'
  <2>1. aux_last'[m] = aux_last[m] /\ aux_last[m] \in Nat
    BY DEF TInv, AuxTyped
  <2> QED
    BY <1>4, <1>5, <2>1, LastKept DEF InOrder
<1>7. LateAgain(m)'
  <2> SUFFICES ASSUME NEW j \in InWork(m), work'[j].late
               PROVE  \E f \in Queued(m)' : f.number = work'[j].event.number
    BY <1>2 DEF LateAgain
  <2>1. CASE j = i
    BY <2>1 DEF InWork
  <2>2. CASE j # i
    BY <1>2, <1>3, <2>2 DEF InOrder, LateAgain, InWork
  <2> QED
    BY <2>1, <2>2
<1>8. OneAtWork(m)' /\ LastTaken(m)'
  BY <1>2 DEF InOrder, OneAtWork, LastTaken
<1> QED
  BY <1>2, <1>3, <1>6, <1>7, <1>8 DEF InOrder

LEMMA AgreeLate ==
  ASSUME TInv, [Next]_vars, NEW m \in Manifests, AgreeInv(m), NEW i \in Instances, Late(i)
  PROVE  AgreeInv(m)'
<1> DEFINE e == work[i].event
<1>1. /\ Busy(i) /\ ~work[i].late /\ e \in EventRec
      /\ \A j \in Instances : j # i => work'[j] = work[j]
      /\ work'[i] = [work[i] EXCEPT !.late = TRUE]
      /\ ToSet(queue) \subseteq ToSet(queue')
      /\ \A f \in ToSet(queue') : f \in ToSet(queue) \/ Copy(f, e)
      /\ e.tries < MaxDeliver => \E f \in ToSet(queue') : Copy(f, e)
      /\ \A n \in Manifests : aux_spoiled'[n] = aux_spoiled[n] \cup
           IF n = e.manifest THEN GivenUp(e) ELSE {}
  BY LateStep
<1>2. UNCHANGED <<deployed, changes, status, scalers, notes, cleaning, aux_last>>
  BY DEF Late
<1>3. work'[i].event = e /\ work'[i].step = work[i].step
  <2>1. work[i] \in WorkRec
    BY WorkFacts DEF TInv
  <2> QED
    BY <1>1, <2>1 DEF WorkRec
<1> SUFFICES ASSUME Good(m)' PROVE InOrder(m)' /\ (Reached(m)' => Follow(m)')
  BY DEF AgreeInv
<1>4. InOrder(m) /\ (Reached(m) => Follow(m))
  BY GoodBefore DEF AgreeInv
<1>5. ASSUME m = e.manifest PROVE \E f \in Queued(m)' : f.number = e.number
  <2>1. e.tries < MaxDeliver
    BY <1>1, <1>5 DEF Good, GivenUp
  <2>2. PICK f \in ToSet(queue') : Copy(f, e)
    BY <1>1, <2>1
  <2> QED
    BY <1>5, <2>2 DEF Queued, Copy
<1>6. InOrder(m)' /\ InWork(m)' = InWork(m) /\ Queued(m) \subseteq Queued(m)'
  BY <1>1, <1>2, <1>3, <1>4, <1>5, GoesOn
<1>7. ASSUME Reached(m)' PROVE Reached(m)
  <2>1. \A j \in InWork(m) : /\ j \in Instances /\ work'[j].event = work[j].event
                             /\ work'[j].step = work[j].step
    BY <1>1, <1>3 DEF InWork
  <2> QED
    BY <1>6, <1>7, <2>1 DEF Reached
<1>8. ToldKept(m)
  BY <1>2 DEF ToldKept
<1> QED
  BY <1>4, <1>6, <1>7, <1>8, KeptKeeps

LEMMA AgreeRefresh ==
  ASSUME TInv, [Next]_vars, NEW m \in Manifests, AgreeInv(m), NEW i \in Instances, Refresh(i)
  PROVE  AgreeInv(m)'
<1> DEFINE e == work[i].event
<1>1. /\ work[i].step = "refresh" /\ Busy(i) /\ e \in EventRec
      /\ \A j \in Instances : j # i => work'[j] = work[j]
      /\ work'[i].step = "tell" /\ work'[i].event = e /\ work'[i].late = work[i].late
      /\ \A j \in Instances, n \in Manifests : scalers'[j][n] =
           IF j = i /\ n = e.manifest THEN e.version ELSE scalers[j][n]
  BY RefreshStep
<1>2. UNCHANGED <<deployed, changes, queue, status, notes, cleaning, running, reported,
                  faults, aux_last>>
  BY DEF Refresh
<1>3. CASE m # e.manifest
  <2>1. WorkKept(m)
    BY <1>1, <1>2, <1>3, WorkElsewhere
  <2>2. ToldKept(m)
    BY <1>1, <1>2, <1>3 DEF ToldKept
  <2> QED
    BY <2>1, <2>2, KeptKeeps, AgreeKept
<1>4. CASE m = e.manifest
  <2> SUFFICES ASSUME Good(m)' PROVE InOrder(m)' /\ ~Reached(m)'
    BY DEF AgreeInv
  <2>1. InOrder(m)
    BY GoodBefore DEF AgreeInv
  <2>2. i \in InWork(m) /\ Queued(m)' = Queued(m)
    BY <1>2, <1>4 DEF InWork, Queued
  <2>3. work'[i].late => \E f \in Queued(m)' : f.number = e.number
    BY <1>1, <2>1, <2>2 DEF InOrder, LateAgain
  <2>4. InOrder(m)' /\ InWork(m)' = InWork(m)
    BY <1>1, <1>2, <2>1, <2>3, GoesOn
  <2> QED
    BY <1>1, <2>2, <2>4 DEF Reached
<1> QED
  BY <1>3, <1>4

LEMMA AgreeFails ==
  ASSUME TInv, Numbered, [Next]_vars, NEW m \in Manifests, AgreeInv(m), NEW i \in Instances, Busy(i),
         NEW why \in SUBSET Reasons, Fails(i, why),
         m # work[i].event.manifest => \A j \in Instances : scalers'[j][m] = scalers[j][m]
  PROVE  AgreeInv(m)'
<1> DEFINE e == work[i].event
<1>1. e \in EventRec /\ e.manifest \in Manifests
  BY AtFacts
<1>2. UNCHANGED <<deployed, changes, status, notes, cleaning, aux_last>> /\ Nack(i, why)
  BY DEF Fails
<1>3. /\ work'[i] = Idle /\ \A j \in Instances : j # i => work'[j] = work[j]
      /\ queue' = IF work[i].late THEN queue ELSE Requeue(e)
      /\ ToSet(queue) \subseteq ToSet(queue')
      /\ \A f \in ToSet(queue') : f \in ToSet(queue) \/ Copy(f, e)
      /\ \A n \in Manifests : aux_spoiled'[n] = aux_spoiled[n] \cup
           IF n = e.manifest THEN why \cup (IF work[i].late THEN {} ELSE GivenUp(e)) ELSE {}
  BY <1>2, NackTyped
<1>4. work'[i].event.manifest \notin Manifests
  BY <1>3, IdleFacts, EventFacts
<1>5. CASE m # e.manifest
  <2>1. \A f \in ToSet(queue') : f.manifest = m => f \in ToSet(queue)
    BY <1>3, <1>5 DEF Copy
  <2>2. WorkKept(m)
    BY <1>2, <1>3, <1>4, <1>5, <2>1, WorkElsewhere
  <2>3. ToldKept(m)
    BY <1>2, <1>5 DEF ToldKept
  <2> QED
    BY <2>2, <2>3, KeptKeeps, AgreeKept
<1>6. CASE m = e.manifest
  <2> SUFFICES ASSUME Good(m)' PROVE InOrder(m)' /\ ~Reached(m)'
    BY DEF AgreeInv
  <2>1. InOrder(m)
    BY GoodBefore DEF AgreeInv
  <2>2. ASSUME ~work[i].late PROVE \E f \in ToSet(queue') : f.number = e.number
    <3>1. e.tries < MaxDeliver /\ queue' = Requeue(e)
      BY <1>3, <1>6, <2>2 DEF Good, GivenUp
    <3> QED
      BY <1>1, <3>1, RequeueFacts DEF TInv, StoredTyped, Copy
  <2>3. \A f \in ToSet(queue') : f.number = e.number => f.manifest = e.manifest
    BY <1>3, NumberTells DEF Copy
  <2> QED
    BY <1>2, <1>3, <1>6, <2>1, <2>2, <2>3, NackOrder
<1> QED
  BY <1>5, <1>6

LEMMA AgreeReconcile ==
  ASSUME TInv, Numbered, [Next]_vars, NEW m \in Manifests, AgreeInv(m), NEW i \in Instances,
         Reconcile(i) \/ CleanupCommandsFail(i)
  PROVE  AgreeInv(m)'
<1>1. /\ work[i].step = "reconcile" /\ Busy(i) /\ Ack(i)
      /\ UNCHANGED <<deployed, changes, status, scalers, notes, cleaning, running, aux_last>>
  BY ReconcileStep
<1>2. ToldKept(m)
  BY <1>1 DEF ToldKept
<1>3. CASE m # work[i].event.manifest
  BY <1>1, <1>2, <1>3, AckElsewhere, KeptKeeps, AgreeKept
<1>4. CASE m = work[i].event.manifest
  <2> SUFFICES ASSUME Good(m)' PROVE InOrder(m)' /\ (Reached(m)' => Follow(m)')
    BY DEF AgreeInv
  <2>1. InOrder(m) /\ (Reached(m) => Follow(m))
    BY GoodBefore DEF AgreeInv
  <2>2. /\ InOrder(m)' /\ InWork(m) = {i}
        /\ Reached(m)' => \A f \in Queued(m) : f.number = work[i].event.number
    BY <1>1, <1>4, <2>1, AckOrder
  <2>3. Reached(m)' => Reached(m)
    BY <1>1, <2>2 DEF Reached
  <2> QED
    BY <1>2, <2>1, <2>2, <2>3, KeptKeeps
<1> QED
  BY <1>3, <1>4

LEMMA RestFacts ==
  ASSUME TInv, NEW j \in Instances
  PROVE  /\ notes[j] \in Seq(NoteRec) /\ Rest(j) \in Seq(NoteRec)
         /\ cleaning[j] # None => /\ notes[j] # <<>> /\ status[j] = "up"
                                  /\ Note(j).type = "delete" /\ Note(j).version = None
         /\ status[j] = "down" => notes[j] = <<>> /\ Rest(j) = <<>>
<1>1. notes[j] \in Seq(NoteRec) /\ NotifierShape(j) /\ status[j] \in {"up", "starting", "down"}
  BY DEF TInv, NotesTyped, WorkTyped
<1>2. cleaning[j] # None => /\ notes[j] # <<>> /\ status[j] = "up" /\ Note(j).type = "delete"
  BY <1>1 DEF NotifierShape
<1>3. notes[j] # <<>> => Note(j) \in NoteRec /\ Tail(notes[j]) \in Seq(NoteRec)
  BY NoteTyped
<1>4. status[j] = "down" => notes[j] = <<>> /\ cleaning[j] = None
  BY <1>1 DEF NotifierShape
<1> QED
  BY <1>1, <1>2, <1>3, <1>4, NoteFacts DEF Rest

(* What is told to an instance.                                            *)
LEMMA RestTold ==
  ASSUME TInv, NEW j \in Instances, NEW n \in NoteRec,
         notes'[j] = Append(notes[j], n), cleaning' = cleaning
  PROVE  Rest(j)' = Append(Rest(j), n)
<1> DEFINE s == notes[j]
<1>1. s \in Seq(NoteRec) /\ (cleaning[j] # None => s # <<>>)
  BY RestFacts
<1>2. Rest(j)' = IF cleaning[j] = None THEN notes'[j] ELSE Tail(notes'[j])
  BY DEF Rest
<1>3. notes'[j] = Append(s, n)
  OBVIOUS
<1>4. Rest(j) = IF cleaning[j] = None THEN s ELSE Tail(s)
  BY DEF Rest
<1> HIDE DEF s
<1>5. s # <<>> => Tail(Append(s, n)) = Append(Tail(s), n)
  BY <1>1, HeadTailAppend
<1> QED
  BY <1>1, <1>2, <1>3, <1>4, <1>5

LEMMA AgreeTell ==
  ASSUME TInv, Numbered, [Next]_vars, NEW m \in Manifests, AgreeInv(m), NEW i \in Instances,
         Tell(i)
  PROVE  AgreeInv(m)'
<1> DEFINE e == work[i].event
           n == Notification(e)
<1>1. /\ work[i].step = "tell" /\ Busy(i) /\ e \in EventRec /\ n \in NoteRec
      /\ \A j \in Instances : notes'[j] =
           IF Listens(j) THEN Append(notes[j], n) ELSE notes[j]
      /\ \A j \in Instances : j # i => work'[j] = work[j]
      /\ IF Unpublished(e) THEN Ack(i)
         ELSE /\ queue' = queue /\ work'[i].step = "reconcile" /\ work'[i].event = e
              /\ work'[i].late = work[i].late
  BY TellStep
<1>2. UNCHANGED <<deployed, changes, status, scalers, cleaning, aux_last>>
  BY DEF Tell
<1>3. n.manifest = e.manifest /\ n.version = e.version
  BY <1>1, NoteFacts
<1> HIDE DEF n
<1>4. CASE m # e.manifest
  <2>1. WorkKept(m)
    <3>1. CASE Unpublished(e)
      BY <1>1, <1>2, <1>4, <3>1, AckElsewhere
    <3>2. CASE ~Unpublished(e)
      BY <1>1, <1>2, <1>4, <3>2, WorkElsewhere
    <3> QED
      BY <3>1, <3>2
  <2>2. ASSUME NEW j \in Instances, Follows(j, m) PROVE Follows(j, m)'
    <3>1. CASE Listens(j)
      <4>1. notes'[j] = Append(notes[j], n) /\ Rest(j)' = Append(Rest(j), n)
        BY <1>1, <1>2, <3>1, RestTold
      <4> DEFINE s == notes[j]
                 r == Rest(j)
      <4>2. s \in Seq(NoteRec) /\ r \in Seq(NoteRec)
        BY RestFacts
      <4> HIDE DEF s, r
      <4>3. /\ Free(Append(s, n), m) <=> Free(s, m)
            /\ \A v : Ends(Append(s, n), m, v) <=> Ends(s, m, v)
            /\ Free(Append(r, n), m) <=> Free(r, m)
        BY <1>1, <1>3, <1>4, <4>2, AppendMeans
      <4> QED
        BY <1>2, <2>2, <4>1, <4>3 DEF Follows, s, r
    <3>2. CASE ~Listens(j)
      BY <1>1, <1>2, <2>2, <3>2 DEF Follows, Rest
    <3> QED
      BY <3>1, <3>2
  <2> QED
    BY <2>1, <2>2, AgreeKept DEF Follow
<1>5. CASE m = e.manifest
  <2> SUFFICES ASSUME Good(m)' PROVE InOrder(m)' /\ (Reached(m)' => Follow(m)')
    BY DEF AgreeInv
  <2>1. InOrder(m)
    BY GoodBefore DEF AgreeInv
  <2>2. i \in InWork(m) /\ e \in EventsOf(m) /\ InWork(m) = {i}
    BY <1>1, <1>5, <2>1, EventsOfFacts DEF InOrder, OneAtWork
  <2>3. InOrder(m)' /\ (Reached(m)' => \A f \in Queued(m) : f.number = e.number)
    <3>1. CASE Unpublished(e)
      BY <1>1, <1>2, <1>5, <2>1, <3>1, AckOrder
    <3>2. CASE ~Unpublished(e)
      <4>1. Queued(m)' = Queued(m)
        BY <1>1, <3>2 DEF Queued
      <4>2. work'[i].late => \E f \in Queued(m)' : f.number = e.number
        BY <1>1, <2>1, <2>2, <3>2, <4>1 DEF InOrder, LateAgain
      <4>3. InOrder(m)' /\ InWork(m)' = InWork(m)
        BY <1>1, <1>2, <2>1, <3>2, <4>2, GoesOn
      <4> QED
        BY <1>1, <2>2, <3>2, <4>1, <4>3 DEF Reached
    <3> QED
      BY <3>1, <3>2
  <2>4. ASSUME Reached(m)' PROVE e.version = deployed[m]
    <3>1. \A f \in EventsOf(m) : f.number = e.number
      BY <2>2, <2>3, <2>4 DEF EventsOf
    <3>2. e.number \in Nat /\ aux_last[m] = e.number
      BY <1>1, <2>1, <2>2, EventFacts DEF InOrder, LastTaken
    <3>3. aux_last[m] <= e.number /\ \A f \in EventsOf(m) : f.number <= e.number
      BY <3>1, <3>2
    <3> QED
      BY <2>1, <2>2, <3>3 DEF InOrder, LastDeployed
  <2>5. ASSUME Reached(m)', NEW j \in Instances PROVE Follows(j, m)'
    <3>1. CASE Listens(j)
      <4>1. notes'[j] = Append(notes[j], n) /\ Rest(j)' = Append(Rest(j), n)
        BY <1>1, <1>2, <3>1, RestTold
      <4> DEFINE s == notes[j]
                 r == Rest(j)
      <4>2. s \in Seq(NoteRec) /\ r \in Seq(NoteRec)
        BY RestFacts
      <4> HIDE DEF s, r
      <4>3. n \in NoteRec /\ n.manifest = m /\ n.version = deployed[m]
        BY <1>1, <1>3, <1>5, <2>4, <2>5
      <4>4. Ends(Append(s, n), m, deployed[m])
        BY <4>2, <4>3, AppendMeans
      <4>5. ~Free(Append(r, n), m)
        BY <4>2, <4>3, AppendMeans
      <4> QED
        BY <1>2, <4>1, <4>4, <4>5 DEF Follows, s, r
    <3>2. CASE ~Listens(j)
      <4>1. notes'[j] = <<>> /\ status'[j] # "up"
        BY <1>1, <1>2, <3>2, RestFacts DEF Listens
      <4> QED
        BY <4>1, NoNotes DEF Follows
    <3> QED
      BY <3>1, <3>2
  <2> QED
    BY <2>3, <2>5 DEF Follow
<1> QED
  BY <1>4, <1>5

(* A notifier that has handled a notification, or begun to.                *)
LEMMA NotedFollows ==
  ASSUME TInv, NEW j \in Instances, NEW m \in Manifests, notes[j] # <<>>, Follows(j, m),
         deployed'[m] = deployed[m], status'[j] = status[j],
         notes'[j] = notes[j] \/ notes'[j] = Tail(notes[j]), Rest(j)' = Tail(notes[j]),
         \/ cleaning[j] # None /\ scalers'[j][m] = scalers[j][m]
         \/ /\ cleaning[j] = None
            /\ scalers'[j][m] = IF Note(j).manifest = m THEN Note(j).version ELSE scalers[j][m]
  PROVE  Follows(j, m)'
<1> DEFINE s == notes[j]
           t == Tail(notes[j])
           n == Head(notes[j])
           d == deployed[m]
<1>1. s \in Seq(NoteRec) /\ s # <<>>
  BY RestFacts
<1>2. /\ t \in Seq(NoteRec)
      /\ Free(s, m) <=> Free(t, m) /\ n.manifest # m
      /\ \A v : Ends(s, m, v) <=>
           Ends(t, m, v) \/ (Free(t, m) /\ n.manifest = m /\ n.version = v)
  <2> HIDE DEF s
  <2>1. /\ Tail(s) \in Seq(NoteRec)
        /\ Free(s, m) <=> Free(Tail(s), m) /\ Head(s).manifest # m
        /\ \A v : Ends(s, m, v) <=>
             Ends(Tail(s), m, v) \/ (Free(Tail(s), m) /\ Head(s).manifest = m /\ Head(s).version = v)
    BY <1>1, TailMeans
  <2> QED
    BY <2>1 DEF s
<1>3. Ends(t, m, d) => ~Free(t, m)
  <2> HIDE DEF t
  <2> QED
    BY <1>2, NotesMean
<1>4. Free(s, m) \/ Ends(s, m, d)
  BY DEF Follows
<1>5. status[j] = "up" /\ Free(Rest(j), m) => scalers[j][m] = d
  BY DEF Follows
<1>6. Rest(j) = IF cleaning[j] = None THEN s ELSE t
  BY DEF Rest
<1>7. Note(j) = n
  BY DEF Note
<1>8. /\ notes'[j] = s \/ notes'[j] = t
      /\ Rest(j)' = t /\ status'[j] = status[j] /\ deployed'[m] = d
      /\ \/ cleaning[j] # None /\ scalers'[j][m] = scalers[j][m]
         \/ /\ cleaning[j] = None
            /\ scalers'[j][m] = IF n.manifest = m THEN n.version ELSE scalers[j][m]
  BY <1>7
<1> HIDE DEF s, t, n, d
<1>9. Free(notes'[j], m) \/ Ends(notes'[j], m, d)
  BY <1>2, <1>4, <1>8
<1>10. ASSUME status[j] = "up", Free(t, m) PROVE scalers'[j][m] = d
  <2>1. CASE cleaning[j] # None
    BY <1>5, <1>6, <1>8, <1>10, <2>1
  <2>2. CASE cleaning[j] = None
    <3>1. CASE n.manifest = m
      BY <1>2, <1>3, <1>4, <1>8, <1>10, <2>2, <3>1
    <3>2. CASE n.manifest # m
      BY <1>2, <1>5, <1>6, <1>8, <1>10, <2>2, <3>2
    <3> QED
      BY <3>1, <3>2
  <2> QED
    BY <2>1, <2>2
<1> QED
  BY <1>8, <1>9, <1>10 DEF Follows

(* What another instance has does not change.                              *)
LEMMA FollowsElsewhere ==
  ASSUME NEW j \in Instances, NEW m, Follows(j, m), deployed'[m] = deployed[m],
         status'[j] = status[j], notes'[j] = notes[j], cleaning'[j] = cleaning[j],
         scalers'[j][m] = scalers[j][m]
  PROVE  Follows(j, m)'
<1>1. Rest(j)' = Rest(j)
  BY DEF Rest
<1> QED
  BY <1>1 DEF Follows

LEMMA AgreeNotified ==
  ASSUME TInv, [Next]_vars, NEW m \in Manifests, AgreeInv(m), NEW j \in Instances,
         CreateScalers(j) \/ RemoveScalers(j) \/ RemovalDone(j)
  PROVE  AgreeInv(m)'
<1> DEFINE n == Note(j)
<1>1. ASSUME CreateScalers(j) \/ RemoveScalers(j) \/ RemovalDone(j), NEW k \in Instances, Follows(k, m)
      PROVE  Follows(k, m)' /\ UNCHANGED <<deployed, queue, work, aux_last>>
  <2>1. CASE CreateScalers(j)
    <3>1. /\ cleaning[j] = None /\ notes[j] # <<>>
          /\ notes'[k] = IF k = j THEN Tail(notes[k]) ELSE notes[k]
          /\ scalers'[k][m] = IF k = j /\ m = n.manifest THEN n.version ELSE scalers[k][m]
          /\ UNCHANGED <<deployed, queue, status, work, cleaning, aux_last>>
      BY <2>1, CreateScalersStep
    <3>2. k = j => Rest(k)' = Tail(notes[k])
      BY <3>1 DEF Rest
    <3>3. CASE k = j
      BY <1>1, <3>1, <3>2, <3>3, NotedFollows
    <3>4. CASE k # j
      BY <1>1, <3>1, <3>4, FollowsElsewhere
    <3> QED
      BY <3>1, <3>3, <3>4
  <2>2. CASE RemoveScalers(j)
    <3> DEFINE old == scalers[j][n.manifest]
    <3>1. /\ cleaning[j] = None /\ notes[j] # <<>> /\ n.type = "delete" /\ n \in NoteRec
          /\ notes'[k] = IF k = j /\ old = None THEN Tail(notes[k]) ELSE notes[k]
          /\ cleaning'[k] = IF k = j THEN old ELSE cleaning[k]
          /\ scalers'[k][m] = IF k = j /\ m = n.manifest THEN None ELSE scalers[k][m]
          /\ UNCHANGED <<deployed, queue, status, work, aux_last>>
      BY <2>2, RemoveScalersStep
    <3>2. n.version = None
      BY <3>1, NoteFacts
    <3> HIDE DEF old
    <3>3. k = j => Rest(k)' = Tail(notes[k])
      BY <3>1 DEF Rest
    <3>4. CASE k = j
      BY <1>1, <3>1, <3>2, <3>3, <3>4, NotedFollows
    <3>5. CASE k # j
      BY <1>1, <3>1, <3>5, FollowsElsewhere
    <3> QED
      BY <3>1, <3>4, <3>5
  <2>3. CASE RemovalDone(j)
    <3>1. /\ Cleaning(j)
          /\ notes'[k] = IF k = j THEN Tail(notes[k]) ELSE notes[k]
          /\ cleaning'[k] = IF k = j THEN None ELSE cleaning[k]
          /\ UNCHANGED <<deployed, queue, status, scalers, work, aux_last>>
      BY <2>3, RemovalDoneStep
    <3>2. cleaning[j] # None /\ notes[j] # <<>>
      BY <3>1, CleaningFacts
    <3>3. k = j => Rest(k)' = Tail(notes[k])
      BY <3>1 DEF Rest
    <3>4. CASE k = j
      BY <1>1, <3>1, <3>2, <3>3, <3>4, NotedFollows
    <3>5. CASE k # j
      BY <1>1, <3>1, <3>5, FollowsElsewhere
    <3> QED
      BY <3>1, <3>4, <3>5
  <2> QED
    BY <1>1, <2>1, <2>2, <2>3
<1>2. UNCHANGED <<deployed, queue, work, aux_last>>
  BY CreateScalersStep, RemoveScalersStep, RemovalDoneStep
<1>3. WorkKept(m)
  BY <1>2, WorkUntouched
<1>4. Follow(m) => Follow(m)'
  BY <1>1 DEF Follow
<1> QED
  BY <1>3, <1>4, AgreeKept

LEMMA AgreeRemovalFails ==
  ASSUME TInv, [Next]_vars, NEW m \in Manifests, AgreeInv(m), NEW j \in Instances, RemovalFails(j)
  PROVE  AgreeInv(m)'
<1> DEFINE n == Note(j)
           m0 == n.manifest
<1>1. /\ Cleaning(j)
      /\ \A k \in Instances : cleaning'[k] = IF k = j THEN None ELSE cleaning[k]
      /\ \/ notes' = notes
         \/ /\ \A k \in Instances : notes'[k] = IF k = j THEN Tail(notes[k]) ELSE notes[k]
            /\ "not retried" \in aux_spoiled'[m0]
      /\ \/ \A k \in Instances, l \in Manifests : scalers'[k][l] =
              IF k = j /\ l = m0 THEN cleaning[j] ELSE scalers[k][l]
         \/ scalers' = scalers
      /\ UNCHANGED <<deployed, queue, status, work, aux_last>>
  BY RemovalFailsStep
<1>2. cleaning[j] # None /\ notes[j] # <<>> /\ status[j] = "up"
  BY <1>1, CleaningFacts
<1> SUFFICES ASSUME Good(m)' PROVE InOrder(m)' /\ (Reached(m)' => Follow(m)')
  BY DEF AgreeInv
<1>3. InOrder(m) /\ (Reached(m) => Follow(m))
  BY GoodBefore DEF AgreeInv
<1>4. WorkKept(m)
  BY <1>1, WorkUntouched
<1>5. notes' = notes \/ (m # m0 /\ \A k \in Instances :
                           notes'[k] = IF k = j THEN Tail(notes[k]) ELSE notes[k])
  BY <1>1 DEF Good
<1>6. ASSUME NEW k \in Instances, Follows(k, m) PROVE Follows(k, m)'
  <2>1. CASE k # j
    <3>1. notes'[k] = notes[k] /\ scalers'[k][m] = scalers[k][m] /\ cleaning'[k] = cleaning[k]
      BY <1>1, <2>1
    <3> QED
      BY <1>1, <1>6, <3>1, FollowsElsewhere
  <2>2. CASE k = j
    <3> DEFINE s == notes[j]
               t == Tail(notes[j])
    <3>1. cleaning'[j] = None /\ cleaning[j] # None
      BY <1>1, <1>2
    <3>2. Rest(j)' = notes'[j] /\ Rest(j) = t
      BY <3>1 DEF Rest
    <3>3. m # m0 => scalers'[j][m] = scalers[j][m]
      BY <1>1
    <3>4. CASE notes' = notes
      <4>1. s \in Seq(NoteRec) /\ s # <<>>
        BY <1>2, RestFacts
      <4>2. Free(s, m) <=> Free(t, m) /\ m0 # m
        <5> HIDE DEF s
        <5>1. Free(s, m) <=> Free(Tail(s), m) /\ Head(s).manifest # m
          BY <4>1, TailMeans
        <5> QED
          BY <5>1 DEF s, Note
      <4>3. notes'[j] = s /\ Rest(j)' = s
        BY <3>2, <3>4
      <4>4. Free(s, m) \/ Ends(s, m, deployed[m])
        BY <1>6, <2>2 DEF Follows
      <4>5. status[j] = "up" /\ Free(t, m) => scalers[j][m] = deployed[m]
        BY <1>6, <2>2, <3>2 DEF Follows
      <4> HIDE DEF s, t
      <4> QED
        BY <1>1, <1>2, <2>2, <3>3, <4>2, <4>3, <4>4, <4>5 DEF Follows
    <3>5. CASE notes' # notes
      <4>1. m # m0 /\ notes'[j] = t
        BY <1>5, <3>5
      <4> QED
        BY <1>1, <1>2, <1>6, <2>2, <3>1, <3>2, <3>3, <4>1, NotedFollows
    <3> QED
      BY <3>4, <3>5
  <2> QED
    BY <2>1, <2>2
<1> QED
  BY <1>3, <1>4, <1>6, KeptKeeps DEF Follow

LEMMA AgreeCrash ==
  ASSUME TInv, Numbered, [Next]_vars, NEW m \in Manifests, AgreeInv(m), NEW i \in Instances,
         Crash(i)
  PROVE  AgreeInv(m)'
<1> DEFINE e == work[i].event
           again == Busy(i) /\ ~work[i].late
<1>1. /\ status[i] = "up"
      /\ \A j \in Instances : status'[j] = IF j = i THEN "down" ELSE status[j]
      /\ \A j \in Instances : notes'[j] = IF j = i THEN <<>> ELSE notes[j]
      /\ \A j \in Instances : cleaning'[j] = IF j = i THEN None ELSE cleaning[j]
      /\ work'[i] = Idle /\ \A j \in Instances : j # i => work'[j] = work[j]
      /\ \A j \in Instances, n \in Manifests :
           scalers'[j][n] = IF j = i THEN None ELSE scalers[j][n]
      /\ ToSet(queue) \subseteq ToSet(queue')
      /\ \A f \in ToSet(queue') : f \in ToSet(queue) \/ (again /\ Copy(f, e))
      /\ again /\ e.tries < MaxDeliver => \E f \in ToSet(queue') : Copy(f, e)
      /\ again /\ e.manifest = m => GivenUp(e) \subseteq aux_spoiled'[m]
      /\ UNCHANGED <<deployed, aux_last>>
  BY CrashStep
<1> SUFFICES ASSUME Good(m)' PROVE InOrder(m)' /\ (Reached(m)' => Follow(m)')
  BY DEF AgreeInv
<1>2. InOrder(m) /\ (Reached(m) => Follow(m))
  BY GoodBefore DEF AgreeInv
<1>3. CASE Busy(i) /\ e.manifest = m
  <2>1. ASSUME ~work[i].late PROVE \E f \in ToSet(queue') : f.number = e.number
    <3>1. e.tries < MaxDeliver
      BY <1>1, <1>3, <2>1 DEF Good, GivenUp
    <3> QED
      BY <1>1, <1>3, <2>1, <3>1 DEF Copy
  <2>2. \A f \in ToSet(queue') : f.number = e.number => f.manifest = e.manifest
    BY <1>1, <1>3, NumberTells DEF Copy
  <2>3. \A f \in ToSet(queue') : f \in ToSet(queue) \/ Copy(f, e)
    BY <1>1
  <2>4. InOrder(m)' /\ ~Reached(m)'
    BY <1>1, <1>2, <1>3, <2>1, <2>2, <2>3, NackOrder
  <2> QED
    BY <2>4
<1>4. CASE ~(Busy(i) /\ e.manifest = m)
  <2>1. e.manifest # m /\ work'[i].event.manifest # m
    <3>1. ~Busy(i) => work[i] = Idle
      BY WorkFacts DEF TInv, Busy
    <3> QED
      BY <1>1, <1>4, <3>1, IdleFacts, EventFacts
  <2>2. \A f \in ToSet(queue') : f.manifest = m => f \in ToSet(queue)
    BY <1>1, <2>1 DEF Copy
  <2>3. WorkKept(m)
    BY <1>1, <2>1, <2>2, WorkElsewhere
  <2>4. ASSUME NEW j \in Instances, Follows(j, m) PROVE Follows(j, m)'
    <3>1. CASE j = i
      <4>1. notes'[j] = <<>> /\ status'[j] # "up"
        BY <1>1, <3>1
      <4> QED
        BY <4>1, NoNotes DEF Follows
    <3>2. CASE j # i
      <4>1. /\ notes'[j] = notes[j] /\ scalers'[j][m] = scalers[j][m]
            /\ cleaning'[j] = cleaning[j] /\ status'[j] = status[j]
        BY <1>1, <3>2
      <4> QED
        BY <1>1, <2>4, <4>1, FollowsElsewhere
    <3> QED
      BY <3>1, <3>2
  <2> QED
    BY <1>2, <2>3, <2>4, KeptKeeps DEF Follow
<1> QED
  BY <1>3, <1>4

LEMMA AgreeStarts ==
  ASSUME TInv, [Next]_vars, NEW m \in Manifests, AgreeInv(m), NEW i \in Instances,
         Subscribe(i) \/ LoadManifests(i)
  PROVE  AgreeInv(m)'
<1>1. CASE Subscribe(i)
  <2>1. /\ \A j \in Instances : status'[j] = IF j = i THEN "starting" ELSE status[j]
        /\ UNCHANGED <<deployed, queue, scalers, work, cleaning, aux_last>>
    BY <1>1, SubscribeStep
  <2>2. PICK k \in Instances : \A j \in Instances :
          notes'[j] = IF j = i THEN notes[k] ELSE notes[j]
    BY <1>1, SubscribeStep
  <2>3. ASSUME NEW j \in Instances, Follows(j, m), Follows(k, m) PROVE Follows(j, m)'
    <3>1. CASE j = i
      <4>1. notes'[j] = notes[k] /\ status'[j] # "up" /\ deployed' = deployed
        BY <2>1, <2>2, <3>1
      <4> QED
        BY <2>3, <4>1 DEF Follows
    <3>2. CASE j # i
      BY <2>1, <2>2, <2>3, <3>2, FollowsElsewhere
    <3> QED
      BY <3>1, <3>2
  <2>4. WorkKept(m)
    BY <2>1, WorkUntouched
  <2> QED
    BY <2>3, <2>4, AgreeKept DEF Follow
<1>2. CASE LoadManifests(i)
  <2>1. /\ \A j \in Instances : status'[j] = IF j = i THEN "up" ELSE status[j]
        /\ \A j \in Instances : scalers'[j][m] = IF j = i THEN deployed[m] ELSE scalers[j][m]
        /\ UNCHANGED <<deployed, queue, work, notes, cleaning, aux_last>>
    <3>1. /\ \A j \in Instances : status'[j] = IF j = i THEN "up" ELSE status[j]
          /\ UNCHANGED <<deployed, queue, work, notes, cleaning, aux_last>>
      BY <1>2, LoadManifestsStep
    <3>2. \A j \in Instances, n \in Manifests :
            scalers'[j][n] = IF j = i THEN deployed[n] ELSE scalers[j][n]
      BY <1>2, LoadManifestsStep
    <3> QED
      BY <3>1, <3>2
  <2>2. ASSUME NEW j \in Instances, Follows(j, m) PROVE Follows(j, m)'
    <3>1. CASE j = i
      <4>1. notes'[j] = notes[j] /\ scalers'[j][m] = deployed'[m] /\ deployed' = deployed
        BY <2>1, <3>1
      <4> QED
        BY <2>2, <4>1 DEF Follows
    <3>2. CASE j # i
      BY <2>1, <2>2, <3>2, FollowsElsewhere
    <3> QED
      BY <3>1, <3>2
  <2>3. WorkKept(m)
    BY <2>1, WorkUntouched
  <2> QED
    BY <2>2, <2>3, AgreeKept DEF Follow
<1> QED
  BY <1>1, <1>2

(* The steps that are about the lattice only.                              *)
LEMMA AgreeUntouched ==
  ASSUME TInv, [Next]_vars, NEW m \in Manifests, AgreeInv(m),
         UNCHANGED <<deployed, queue, status, scalers, work, notes, cleaning, aux_last>>
  PROVE  AgreeInv(m)'
<1>1. ToldKept(m)
  BY DEF ToldKept
<1> QED
  BY <1>1, WorkUntouched, KeptKeeps, AgreeKept

LEMMA InitSInv == Init => SInv
<1> SUFFICES ASSUME Init PROVE SInv
  OBVIOUS
<1>1. TInv
  BY InitTInv
<1>2. /\ queue = <<>> /\ \A i \in Instances : work[i] = Idle
      /\ \A i \in Instances : notes[i] = <<>> /\ cleaning[i] = None /\ scalers[i] = deployed
  BY DEF Init
<1>3. ToSet(queue) = {}
  BY <1>2 DEF ToSet
<1>4. \A i \in Instances : ~Busy(i)
  BY <1>2, IdleFacts DEF Busy
<1>5. Events = {}
  BY <1>3, <1>4 DEF Events, AtWork
<1>6. ASSUME NEW m \in Manifests PROVE InOrder(m) /\ Follow(m)
  <2>1. InWork(m) = {} /\ EventsOf(m) = {}
    <3>1. InWork(m) = {}
      BY <1>2, IdleFacts, EventFacts DEF InWork
    <3> QED
      BY <1>3, <3>1 DEF EventsOf, Queued
  <2>2. InOrder(m)
    BY <2>1 DEF InOrder, OneAtWork, LastTaken, LastDeployed, LateAgain
  <2> QED
    BY <1>2, <2>2, NoNotes DEF Follow, Follows
<1> QED
  BY <1>1, <1>5, <1>6 DEF SInv, Numbered, AgreeInv

LEMMA NextAgrees ==
  ASSUME SInv, [Next]_vars, NEW m \in Manifests
  PROVE  AgreeInv(m)'
<1>0. TInv /\ Numbered /\ AgreeInv(m)
  BY DEF SInv
<1>1. ASSUME NEW i \in Instances, Busy(i), NEW why \in SUBSET Reasons, Fails(i, why),
             m # work[i].event.manifest => \A j \in Instances : scalers'[j][m] = scalers[j][m]
      PROVE  AgreeInv(m)'
  BY <1>0, <1>1, AgreeFails
<1>2. ASSUME NEW i \in Instances,
             RefreshFails(i) \/ CleanUpFails(i) \/ TellFails(i) \/ CommandsFail(i) \/ ScalersGone(i)
      PROVE  AgreeInv(m)'
  <2>1. CASE RefreshFails(i)
    BY <1>0, <1>1, <2>1, RefreshFailsStep
  <2>2. CASE CleanUpFails(i)
    <3>1. \A j \in Instances, n \in Manifests : n # work[i].event.manifest =>
            scalers'[j][n] = scalers[j][n]
      BY <1>0, <2>2, CleanUpFailsStep
    <3>2. Busy(i) /\ Fails(i, {}) /\ {} \in SUBSET Reasons
      BY <1>0, <2>2, CleanUpFailsStep
    <3> QED
      BY <1>1, <3>1, <3>2
  <2>3. CASE TellFails(i)
    <3> DEFINE why == IF Unpublished(work[i].event) \/ Outdated(i) = {} THEN {} ELSE {"forgotten"}
    <3>1. \A j \in Instances, n \in Manifests : n # work[i].event.manifest =>
            scalers'[j][n] = scalers[j][n]
      BY <1>0, <2>3, TellFailsStep
    <3>2. Busy(i) /\ Fails(i, why) /\ why \in SUBSET Reasons
      BY <1>0, <2>3, TellFailsStep
    <3> HIDE DEF why
    <3> QED
      BY <1>1, <3>1, <3>2
  <2>4. CASE CommandsFail(i) \/ ScalersGone(i)
    BY <1>0, <1>1, <2>4, CommandsFailStep
  <2> QED
    BY <1>2, <2>1, <2>2, <2>3, <2>4
<1>3. ASSUME NEW i \in Instances, Worker(i) \/ Notifier(i) PROVE AgreeInv(m)'
  <2>1. CASE Take(i)
    BY <1>0, <2>1, AgreeTake
  <2>2. CASE Refresh(i)
    BY <1>0, <2>2, AgreeRefresh
  <2>3. CASE Tell(i)
    BY <1>0, <2>3, AgreeTell
  <2>4. CASE Reconcile(i)
    BY <1>0, <2>4, AgreeReconcile
  <2>5. CASE CreateScalers(i) \/ RemoveScalers(i) \/ RemovalDone(i)
    BY <1>0, <2>5, AgreeNotified
  <2> QED
    BY <1>2, <1>3, <2>1, <2>2, <2>3, <2>4, <2>5 DEF Worker, Notifier
<1>4. ASSUME NEW i \in Instances, Faults(i) PROVE AgreeInv(m)'
  <2>1. CASE Late(i)
    BY <1>0, <2>1, AgreeLate
  <2>2. CASE CleanupCommandsFail(i)
    BY <1>0, <2>2, AgreeReconcile
  <2>3. CASE RemovalFails(i)
    BY <1>0, <2>3, AgreeRemovalFails
  <2>4. CASE Crash(i)
    BY <1>0, <2>4, AgreeCrash
  <2> QED
    BY <1>2, <1>4, <2>1, <2>2, <2>3, <2>4 DEF Faults
<1>5. ASSUME NEW i \in Instances, Subscribe(i) \/ LoadManifests(i) PROVE AgreeInv(m)'
  BY <1>0, <1>5, AgreeStarts
<1>6. ASSUME UNCHANGED <<deployed, queue, status, scalers, work, notes, cleaning, aux_last>>
      PROVE  AgreeInv(m)'
  BY <1>0, <1>6, AgreeUntouched
<1>7. ASSUME NEW i \in Instances, NEW n \in Manifests, HandleEvent(i, n) PROVE AgreeInv(m)'
  BY <1>6, <1>7 DEF HandleEvent
<1>8. ASSUME NEW n \in Manifests, NEW v \in Deployments, Change(n, v) PROVE AgreeInv(m)'
  BY <1>0, <1>8, AgreeChange
<1>9. ASSUME Execute \/ (\E n \in Manifests : Stops(n)) \/ UNCHANGED vars PROVE AgreeInv(m)'
  BY <1>6, <1>9 DEF Execute, Stops, vars
<1> QED
  BY <1>3, <1>4, <1>5, <1>7, <1>8, <1>9 DEF Next

LEMMA NextSInv == SInv /\ [Next]_vars => SInv'
<1> SUFFICES ASSUME SInv, [Next]_vars PROVE SInv'
  OBVIOUS
<1>1. TInv' /\ Numbered'
  BY NextTInv, NextNumbered DEF SInv
<1>2. \A m \in Manifests : AgreeInv(m)'
  BY NextAgrees
<1> QED
  BY <1>1, <1>2 DEF SInv

(* An instance that has handled all its notifications.                     *)
LEMMA AllHandled ==
  ASSUME TInv, NEW m \in Manifests, Handled(m)
  PROVE  /\ InWork(m) = {} /\ Queued(m) = {} /\ Reached(m)
         /\ \A i \in Instances : /\ status[i] = "up" /\ cleaning[i] = None
                                 /\ Free(notes[i], m) /\ Rest(i) = notes[i]
<1>1. InWork(m) = {} /\ \A k \in DOMAIN queue : queue[k].manifest # m
  BY DEF Handled, Pending
<1>2. Queued(m) = {}
  <2>1. \A f \in ToSet(queue) : \E k \in DOMAIN queue : f = queue[k]
    BY DEF ToSet
  <2> QED
    BY <1>1, <2>1 DEF Queued
<1>3. ASSUME NEW i \in Instances
      PROVE  /\ status[i] = "up" /\ cleaning[i] = None
             /\ Free(notes[i], m) /\ Rest(i) = notes[i]
  <2>1. status[i] = "up" /\ cleaning[i] = None /\ \A k \in DOMAIN notes[i] : notes[i][k].manifest # m
    BY DEF Handled
  <2>2. notes[i] \in Seq(NoteRec)
    BY RestFacts
  <2>3. DOMAIN notes[i] = 1 .. Len(notes[i])
    BY <2>2
  <2> QED
    BY <2>1, <2>3 DEF Free, Rest
<1> QED
  BY <1>1, <1>2, <1>3 DEF Reached

LEMMA AgreeAtTheEnd == SInv => ScalersAgree
<1> SUFFICES ASSUME SInv, NEW m \in Manifests, Handled(m), Good(m), NEW i \in Instances
             PROVE  scalers[i][m] = deployed[m]
  BY DEF ScalersAgree, Good
<1>1. TInv /\ AgreeInv(m)
  BY DEF SInv
<1>2. Reached(m) /\ status[i] = "up" /\ Free(Rest(i), m)
  BY <1>1, AllHandled
<1>3. Follows(i, m)
  BY <1>1, <1>2 DEF AgreeInv, Follow
<1> QED
  BY <1>2, <1>3 DEF Follows

(* When all changes of a manifest have been handled and all notifications  *)
(* about it read, every instance of wadm has the scalers of the version    *)
(* that is deployed, unless its events were handled at the same time or    *)
(* out of order, were given up, or a failed notification was dropped       *)
(* (ScalersAgree).                                                         *)
THEOREM AllInstancesAgree == Spec => []ScalersAgree
<1>1. Spec => []SInv
  BY InitSInv, NextSInv, PTL DEF Spec
<1> QED
  BY <1>1, AgreeAtTheEnd, PTL
-----------------------------------------------------------------------------
(* What is left running.                                                   *)

(* The events of a manifest wait in their order, after those taken, and    *)
(* the last one is about what is deployed.                                 *)
Sorted(q, m) ==
  \A k, l \in 1 .. Len(q) :
    k < l /\ q[k].manifest = m /\ q[l].manifest = m => q[k].number <= q[l].number
QueueLater(m) == \A e \in Queued(m) : aux_last[m] <= e.number
LastKnown(m) ==
  EventsOf(m) = {} \/ \E e \in EventsOf(m) : /\ e.version = deployed[m]
                                             /\ \A f \in EventsOf(m) : f.number <= e.number

Ordered(m) == Sorted(queue, m) /\ QueueLater(m) /\ LastKnown(m)
OrderInv(m) == aux_last[m] <= changes /\ (Good(m) => Ordered(m))

(* What runs when all commands have been carried out.                      *)
About(batch, m, x) == batch.manifest = m /\ x \in batch.ids
WillRun(s, here, m, x) ==
  \/ /\ x \in here
     /\ \A k \in 1 .. Len(s) : About(s[k], m, x) => s[k].make
  \/ \E k \in 1 .. Len(s) :
       /\ About(s[k], m, x) /\ s[k].make
       /\ \A l \in k + 1 .. Len(s) : About(s[l], m, x) => s[l].make

(* The scalers that an instance has when it has been told everything; of   *)
(* an event at work, those it had before.                                  *)
Becomes(j, m, v) ==
  Ends(Rest(j), m, v) \/ (Free(Rest(j), m) /\ scalers[j][m] = v)

Early(j) == work[j].step \in {"refresh", "tell"}

Holds(j, m, x) ==
  IF j \in InWork(m) /\ Early(j) THEN x \in IdsOf(work[j].old)
  ELSE \E v \in Deployments : Becomes(j, m, v) /\ x \in IdsOf(v)

(* A version that is deployed, or will be handled.                         *)
Wanted(m, x) ==
  x \in IdsOf(deployed[m]) \/ \E e \in EventsOf(m) : x \in IdsOf(e.version)

Ups == {j \in Instances : status[j] = "up"}

(* Who will clean up: whoever takes the next event, the one that is at     *)
(* work, or an instance that is or will be told to remove its scalers.     *)
NextWill(m, x) ==
  /\ EventsOf(m) # {}
  /\ \A i \in InWork(m) : work[i].step = "refresh"
  /\ \A j \in Ups : Holds(j, m, x)
WorkerWill(m, x) == \E i \in InWork(m) : x \in work[i].cleanup
NotifierDoes(j, m, x) ==
  cleaning[j] # None /\ Note(j).manifest = m /\ x \in IdsOf(cleaning[j])
TellsRemoval(m) == \E i \in InWork(m) : work[i].step = "tell" /\ Unpublished(work[i].event)
NotifierWill(j, m, x) ==
  /\ x \in IdsOf(scalers[j][m])
  /\ DeleteFirst(Rest(j), m) \/ (Free(Rest(j), m) /\ TellsRemoval(m))

Owned(m, x) ==
  \/ Wanted(m, x) \/ NextWill(m, x) \/ WorkerWill(m, x)
  \/ \E j \in Ups : NotifierDoes(j, m, x) \/ NotifierWill(j, m, x)

Calm(m) == aux_spoiled[m] = {}

(* A worker is not behind, and has what it has told.                       *)
AllAre(s, m, v) == \A k \in 1 .. Len(s) : s[k].manifest = m => s[k].version = v
WorkerHas(i, m) ==
  /\ Early(i) => Free(notes[i], m)
  /\ work[i].step = "refresh" => scalers[i][m] = None
  /\ work[i].step \in {"tell", "reconcile"} => scalers[i][m] = work[i].event.version
  /\ work[i].step = "reconcile" => /\ AllAre(notes[i], m, work[i].event.version)
                                   /\ \A j \in Ups : Becomes(j, m, work[i].event.version)

CleaningHas(j, m) == cleaning[j] # None /\ Note(j).manifest = m => scalers[j][m] = None

(* What is wanted no more all have or none has.                            *)
Alike(m, x) == ~Wanted(m, x) => \A j, k \in Ups : Holds(j, m, x) <=> Holds(k, m, x)

Left(m) ==
  /\ \A i \in InWork(m) : WorkerHas(i, m)
  /\ \A j \in Instances : CleaningHas(j, m)
  /\ \A x \in AllIds : /\ Alike(m, x)
                       /\ WillRun(sent, running[m], m, x) => Owned(m, x)

LeftInv(m) == Calm(m) => Left(m)

CInv == SInv /\ \A m \in Manifests : OrderInv(m) /\ LeftInv(m)
-----------------------------------------------------------------------------
LEMMA SortedAppend ==
  ASSUME NEW q \in Seq(EventRec), NEW e \in EventRec, NEW m, Sorted(q, m),
         e.manifest = m => \A f \in ToSet(q) : f.manifest = m => f.number <= e.number
  PROVE  Sorted(Append(q, e), m)
<1> DEFINE t == Append(q, e)
<1>1. /\ Len(t) = Len(q) + 1 /\ Len(q) \in Nat /\ t[Len(q) + 1] = e
      /\ \A k \in 1 .. Len(q) : t[k] = q[k]
  BY SeqAppend
<1>2. ToSet(q) = {q[k] : k \in 1 .. Len(q)}
  BY SeqElems
<1> HIDE DEF t
<1> SUFFICES ASSUME NEW k \in 1 .. Len(t), NEW l \in 1 .. Len(t), k < l,
                    t[k].manifest = m, t[l].manifest = m
             PROVE  t[k].number <= t[l].number
  BY DEF Sorted, t
<1>3. k \in 1 .. Len(q) /\ t[k] = q[k] /\ q[k] \in ToSet(q)
  BY <1>1, <1>2
<1>4. CASE l = Len(q) + 1
  BY <1>1, <1>3, <1>4
<1>5. CASE l # Len(q) + 1
  <2>1. l \in 1 .. Len(q) /\ t[l] = q[l]
    BY <1>1, <1>5
  <2> QED
    BY <1>3, <2>1 DEF Sorted
<1> QED
  BY <1>4, <1>5

LEMMA SortedTail ==
  ASSUME NEW q \in Seq(EventRec), q # <<>>, NEW m, Sorted(q, m)
  PROVE  /\ Sorted(Tail(q), m)
         /\ \A f \in ToSet(Tail(q)) :
              Head(q).manifest = m /\ f.manifest = m => Head(q).number <= f.number
<1> DEFINE t == Tail(q)
           h == Head(q)
<1>1. /\ t \in Seq(EventRec) /\ h = q[1] /\ Len(t) = Len(q) - 1 /\ Len(q) \in Nat \ {0}
      /\ \A k \in 1 .. Len(q) - 1 : t[k] = q[k + 1]
  BY SeqTail
<1>2. ToSet(t) = {t[k] : k \in 1 .. Len(t)}
  BY <1>1, SeqElems
<1> HIDE DEF t, h
<1>3. \A k \in 1 .. Len(t) : k + 1 \in 1 .. Len(q) /\ 1 < k + 1 /\ t[k] = q[k + 1]
  BY <1>1
<1>4. ASSUME NEW k \in 1 .. Len(t), NEW l \in 1 .. Len(t), k < l,
             t[k].manifest = m, t[l].manifest = m
      PROVE  t[k].number <= t[l].number
  <2>1. k + 1 < l + 1
    BY <1>1, <1>4
  <2> QED
    BY <1>3, <1>4, <2>1 DEF Sorted
<1>5. ASSUME NEW f \in ToSet(t), h.manifest = m, f.manifest = m PROVE h.number <= f.number
  <2>1. PICK k \in 1 .. Len(t) : f = t[k]
    BY <1>2
  <2>2. 1 \in 1 .. Len(q)
    BY <1>1
  <2> QED
    BY <1>1, <1>3, <1>5, <2>1, <2>2 DEF Sorted
<1> QED
  BY <1>4, <1>5 DEF Sorted, t, h

LEMMA SortedCons ==
  ASSUME NEW q \in Seq(EventRec), NEW e \in EventRec, NEW m, Sorted(q, m),
         e.manifest = m => \A f \in ToSet(q) : f.manifest = m => e.number <= f.number
  PROVE  Sorted(<<e>> \o q, m)
<1> DEFINE t == <<e>> \o q
<1>1. <<e>> \in Seq(EventRec) /\ Len(<<e>>) = 1 /\ <<e>>[1] = e
  OBVIOUS
<1>2. /\ Len(t) = 1 + Len(q) /\ Len(q) \in Nat
      /\ \A k \in 1 .. 1 + Len(q) : t[k] = IF k <= 1 THEN <<e>>[k] ELSE q[k - 1]
  BY <1>1, ConcatProperties, LenProperties
<1>3. ToSet(q) = {q[k] : k \in 1 .. Len(q)}
  BY SeqElems
<1> HIDE DEF t
<1> SUFFICES ASSUME NEW k \in 1 .. Len(t), NEW l \in 1 .. Len(t), k < l,
                    t[k].manifest = m, t[l].manifest = m
             PROVE  t[k].number <= t[l].number
  BY DEF Sorted, t
<1>4. l - 1 \in 1 .. Len(q) /\ t[l] = q[l - 1] /\ q[l - 1] \in ToSet(q)
  BY <1>2, <1>3
<1>5. CASE k = 1
  BY <1>1, <1>2, <1>4, <1>5
<1>6. CASE k # 1
  <2>1. k - 1 \in 1 .. Len(q) /\ t[k] = q[k - 1] /\ k - 1 < l - 1
    BY <1>2, <1>6
  <2> QED
    BY <1>4, <2>1 DEF Sorted
<1> QED
  BY <1>5, <1>6

LEMMA SortedWithout ==
  ASSUME NEW q \in Seq(EventRec), NEW n, NEW m, Sorted(q, m)
  PROVE  Sorted(Without(q, n), m)
<1> DEFINE t == Without(q, n)
<1>1. CASE t = q
  BY <1>1
<1>2. CASE t # q
  <2>1. PICK c \in 1 .. Len(q) :
          /\ Len(t) = Len(q) - 1 /\ Len(q) \in Nat
          /\ \A k \in 1 .. Len(q) - 1 : t[k] = IF k < c THEN q[k] ELSE q[k + 1]
    BY <1>2, WithoutMeans
  <2> HIDE DEF t
  <2> SUFFICES ASSUME NEW k \in 1 .. Len(t), NEW l \in 1 .. Len(t), k < l,
                      t[k].manifest = m, t[l].manifest = m
               PROVE  t[k].number <= t[l].number
    BY DEF Sorted, t
  <2> DEFINE a == IF k < c THEN k ELSE k + 1
             b == IF l < c THEN l ELSE l + 1
  <2>2. /\ a \in 1 .. Len(q) /\ b \in 1 .. Len(q) /\ a < b
        /\ t[k] = q[a] /\ t[l] = q[b]
    BY <2>1
  <2> QED
    BY <2>2 DEF Sorted
<1> QED
  BY <1>1, <1>2
-----------------------------------------------------------------------------
(* Commands, carried out or added.                                         *)
LEMMA WillRunAppend ==
  ASSUME NEW s \in Seq(BatchRec), NEW b \in BatchRec, NEW here, NEW m, NEW x
  PROVE  WillRun(Append(s, b), here, m, x) <=>
           IF About(b, m, x) THEN b.make ELSE WillRun(s, here, m, x)
<1> DEFINE t == Append(s, b)
<1>1. /\ Len(t) = Len(s) + 1 /\ Len(s) \in Nat /\ t[Len(s) + 1] = b
      /\ \A k \in 1 .. Len(s) : t[k] = s[k]
  BY SeqAppend
<1> HIDE DEF t
<1>2. Len(s) + 1 \in 1 .. Len(t) /\ \A k \in 1 .. Len(s) : k \in 1 .. Len(t) /\ k < Len(s) + 1
  BY <1>1
<1>3. CASE About(b, m, x)
  <2>1. ASSUME b.make PROVE WillRun(t, here, m, x)
    <3>1. \A l \in (Len(s) + 1) + 1 .. Len(t) : FALSE
      BY <1>1
    <3> QED
      BY <1>1, <1>2, <1>3, <2>1, <3>1 DEF WillRun
  <2>2. ASSUME WillRun(t, here, m, x) PROVE b.make
    <3>1. \A k \in 1 .. Len(t) : k # Len(s) + 1 => Len(s) + 1 \in k + 1 .. Len(t)
      BY <1>1
    <3> QED
      BY <1>1, <1>2, <1>3, <2>2, <3>1 DEF WillRun
  <2> QED
    BY <1>3, <2>1, <2>2 DEF t
<1>4. CASE ~About(b, m, x)
  <2>1. \A k \in 1 .. Len(t) : About(t[k], m, x) => k \in 1 .. Len(s) /\ t[k] = s[k]
    <3>1. \A k \in 1 .. Len(t) : k = Len(s) + 1 \/ k \in 1 .. Len(s)
      BY <1>1
    <3> QED
      BY <1>1, <1>4, <3>1
  <2>2. (\A k \in 1 .. Len(t) : About(t[k], m, x) => t[k].make) <=>
        (\A k \in 1 .. Len(s) : About(s[k], m, x) => s[k].make)
    BY <1>1, <1>2, <2>1
  <2>3. \A k \in 1 .. Len(s) :
          (\A l \in k + 1 .. Len(t) : About(t[l], m, x) => t[l].make) <=>
          (\A l \in k + 1 .. Len(s) : About(s[l], m, x) => s[l].make)
    <3> SUFFICES ASSUME NEW k \in 1 .. Len(s)
                 PROVE (\A l \in k + 1 .. Len(t) : About(t[l], m, x) => t[l].make) <=>
                       (\A l \in k + 1 .. Len(s) : About(s[l], m, x) => s[l].make)
      OBVIOUS
    <3>1. \A l \in k + 1 .. Len(t) : l \in 1 .. Len(t) /\ (l \in 1 .. Len(s) => l \in k + 1 .. Len(s))
      BY <1>1
    <3>2. \A l \in k + 1 .. Len(s) : l \in 1 .. Len(s) /\ l \in k + 1 .. Len(t)
      BY <1>1
    <3> QED
      BY <1>1, <2>1, <3>1, <3>2
  <2>4. (\E k \in 1 .. Len(t) : /\ About(t[k], m, x) /\ t[k].make
                                /\ \A l \in k + 1 .. Len(t) : About(t[l], m, x) => t[l].make)
        <=> (\E k \in 1 .. Len(s) : /\ About(s[k], m, x) /\ s[k].make
                                    /\ \A l \in k + 1 .. Len(s) : About(s[l], m, x) => s[l].make)
    BY <1>1, <1>2, <2>1, <2>3
  <2> QED
    BY <1>4, <2>2, <2>4 DEF WillRun, t
<1> QED
  BY <1>3, <1>4

(* Nothing is published if there are no commands.                          *)
LEMMA WillRunPublish ==
  ASSUME NEW s \in Seq(BatchRec), NEW make \in BOOLEAN, NEW n \in Manifests,
         NEW ids \in SUBSET AllIds, NEW here, NEW m, NEW x
  PROVE  /\ s \o Publish(Batch(make, n, ids)) \in Seq(BatchRec)
         /\ WillRun(s \o Publish(Batch(make, n, ids)), here, m, x) <=>
              IF n = m /\ x \in ids THEN make ELSE WillRun(s, here, m, x)
<1> DEFINE b == Batch(make, n, ids)
           t == s \o Publish(b)
<1>1. /\ t \in Seq(BatchRec)
      /\ ids = {} => t = s
      /\ ids # {} => t = Append(s, b) /\ b \in BatchRec
  BY PublishFacts
<1>2. b.make = make /\ b.manifest = n /\ b.ids = ids
  BY DEF Batch
<1> HIDE DEF b, t
<1>3. CASE ids = {}
  BY <1>1, <1>3 DEF b, t
<1>4. CASE ids # {}
  <2>1. WillRun(Append(s, b), here, m, x) <=>
          IF About(b, m, x) THEN b.make ELSE WillRun(s, here, m, x)
    BY <1>1, <1>4, WillRunAppend
  <2>2. About(b, m, x) <=> n = m /\ x \in ids
    BY <1>2 DEF About
  <2> QED
    BY <1>1, <1>2, <1>4, <2>1, <2>2 DEF b, t
<1> QED
  BY <1>3, <1>4

LEMMA WillRunTail ==
  ASSUME NEW s \in Seq(BatchRec), s # <<>>, NEW m, NEW x, NEW here, NEW then,
         x \in then => IF About(Head(s), m, x) THEN Head(s).make ELSE x \in here,
         WillRun(Tail(s), then, m, x)
  PROVE  WillRun(s, here, m, x)
<1> DEFINE t == Tail(s)
           h == Head(s)
<1>1. /\ h = s[1] /\ Len(t) = Len(s) - 1 /\ Len(s) \in Nat \ {0}
      /\ \A k \in 1 .. Len(s) - 1 : t[k] = s[k + 1]
  BY SeqTail
<1>2. /\ x \in then => IF About(h, m, x) THEN h.make ELSE x \in here
      /\ WillRun(t, then, m, x)
  OBVIOUS
<1> HIDE DEF t, h
<1>3. \A k \in 1 .. Len(s) : k # 1 => k - 1 \in 1 .. Len(t) /\ s[k] = t[k - 1]
  <2> SUFFICES ASSUME NEW k \in 1 .. Len(s), k # 1 PROVE k - 1 \in 1 .. Len(t) /\ s[k] = t[k - 1]
    OBVIOUS
  <2>1. k - 1 \in 1 .. Len(s) - 1 /\ (k - 1) + 1 = k
    BY <1>1
  <2> QED
    BY <1>1, <2>1
<1>4. 1 \in 1 .. Len(s)
  BY <1>1
<1>5. CASE x \in then /\ \A k \in 1 .. Len(t) : About(t[k], m, x) => t[k].make
  <2>1. \A k \in 1 .. Len(s) : k # 1 /\ About(s[k], m, x) => s[k].make
    BY <1>3, <1>5
  <2>2. CASE About(h, m, x)
    <3>1. \A l \in 1 + 1 .. Len(s) : l \in 1 .. Len(s) /\ l # 1
      BY <1>1
    <3> QED
      BY <1>1, <1>2, <1>4, <1>5, <2>1, <2>2, <3>1 DEF WillRun
  <2>3. CASE ~About(h, m, x)
    BY <1>1, <1>2, <1>5, <2>1, <2>3 DEF WillRun
  <2> QED
    BY <2>2, <2>3
<1>6. ASSUME NEW k \in 1 .. Len(t), About(t[k], m, x), t[k].make,
             \A l \in k + 1 .. Len(t) : About(t[l], m, x) => t[l].make
      PROVE  WillRun(s, here, m, x)
  <2>1. k + 1 \in 1 .. Len(s) /\ s[k + 1] = t[k]
    BY <1>1
  <2>2. ASSUME NEW l \in (k + 1) + 1 .. Len(s), About(s[l], m, x) PROVE s[l].make
    <3>1. l \in 1 .. Len(s) /\ l # 1 /\ l - 1 \in k + 1 .. Len(t)
      BY <1>1
    <3> QED
      BY <1>3, <1>6, <2>2, <3>1
  <2> QED
    BY <1>6, <2>1, <2>2 DEF WillRun
<1> QED
  BY <1>2, <1>5, <1>6 DEF WillRun

(* If no command to start it is on its way, it runs and is not stopped.    *)
LEMMA RunsNow ==
  ASSUME TInv, NEW m, NEW ids, ~OnItsWay(m, ids), NEW x \in ids, NEW here,
         WillRun(sent, here, m, x)
  PROVE  x \in here
<1>1. DOMAIN sent = 1 .. Len(sent)
  BY SeqElems DEF TInv, LatticeTyped
<1> QED
  BY <1>1 DEF OnItsWay, WillRun, About
-----------------------------------------------------------------------------
(* What a step does to the events: of those of a worker, one goes back to  *)
(* the queue, or is not needed any more, or is acknowledged.               *)
Aside(i) ==
  /\ Busy(i) /\ UNCHANGED <<deployed, changes, aux_last>>
  /\ \A j \in Instances : j # i => work'[j].event = work[j].event
HandsBack(i) ==
  /\ Aside(i) /\ ~work[i].late /\ queue' = Requeue(work[i].event)
  /\ work'[i].event \in {work[i].event, NoEvent}
  /\ GivenUp(work[i].event) \subseteq aux_spoiled'[work[i].event.manifest]
Drops(i) ==
  /\ Aside(i) /\ work[i].late /\ queue' = queue /\ work'[i].event = NoEvent
Acks(i) ==
  /\ Aside(i) /\ queue' = Without(queue, work[i].event.number) /\ work'[i].event = NoEvent
Stays ==
  /\ UNCHANGED <<deployed, changes, aux_last, queue>>
  /\ \A j \in Instances : work'[j].event = work[j].event

LEMMA FailsReturns ==
  ASSUME TInv, NEW i \in Instances, Busy(i), NEW why \in SUBSET Reasons, Fails(i, why)
  PROVE  HandsBack(i) \/ Drops(i)
<1> DEFINE e == work[i].event
<1>1. /\ work'[i] = Idle /\ \A j \in Instances : j # i => work'[j] = work[j]
      /\ queue' = IF work[i].late THEN queue ELSE Requeue(e)
      /\ \A n \in Manifests : aux_spoiled'[n] = aux_spoiled[n] \cup
           IF n = e.manifest THEN why \cup (IF work[i].late THEN {} ELSE GivenUp(e)) ELSE {}
  BY NackTyped DEF Fails
<1>2. UNCHANGED <<deployed, changes, aux_last>> /\ work'[i].event = NoEvent
  BY <1>1, IdleFacts DEF Fails
<1>3. e.manifest \in Manifests
  BY AtFacts
<1>4. Aside(i)
  BY <1>1, <1>2 DEF Aside
<1> HIDE DEF e
<1>5. ASSUME ~work[i].late PROVE GivenUp(e) \subseteq aux_spoiled'[e.manifest]
  BY <1>1, <1>3, <1>5
<1> QED
  BY <1>1, <1>2, <1>4, <1>5 DEF HandsBack, Drops, e

LEMMA AckReturns ==
  ASSUME TInv, NEW i \in Instances, Busy(i), Ack(i), status' = status,
         UNCHANGED <<deployed, changes, aux_last>>
  PROVE  Acks(i)
BY AckTyped, IdleFacts DEF Ack, Acks, Aside

LEMMA WorkSteps ==
  ASSUME TInv, [Next]_vars
  PROVE  \/ \E m \in Manifests, v \in Deployments : Change(m, v)
         \/ \E i \in Instances : Take(i) \/ HandsBack(i) \/ Drops(i) \/ Acks(i)
         \/ Stays
<1> DEFINE Goal ==
             \/ \E m \in Manifests, v \in Deployments : Change(m, v)
             \/ \E i \in Instances : Take(i) \/ HandsBack(i) \/ Drops(i) \/ Acks(i)
             \/ Stays
<1>1. ASSUME NEW i \in Instances, Late(i) PROVE Goal
  <2>1. /\ Busy(i) /\ ~work[i].late /\ \A j \in Instances : j # i => work'[j] = work[j]
        /\ work'[i] = [work[i] EXCEPT !.late = TRUE]
        /\ \A n \in Manifests : aux_spoiled'[n] = aux_spoiled[n] \cup
             IF n = work[i].event.manifest THEN GivenUp(work[i].event) ELSE {}
    BY <1>1, LateStep
  <2>2. UNCHANGED <<deployed, changes, aux_last>> /\ queue' = Requeue(work[i].event)
    BY <1>1 DEF Late
  <2>3. work'[i].event = work[i].event
    <3>1. work[i] \in WorkRec
      BY WorkFacts DEF TInv
    <3> QED
      BY <2>1, <3>1 DEF WorkRec
  <2>4. GivenUp(work[i].event) \subseteq aux_spoiled'[work[i].event.manifest]
    BY <2>1, AtFacts
  <2>5. Aside(i)
    BY <2>1, <2>2 DEF Aside
  <2>6. HandsBack(i)
    BY <2>1, <2>2, <2>3, <2>4, <2>5 DEF HandsBack
  <2> QED
    BY <2>6
<1>2. ASSUME NEW i \in Instances,
             RefreshFails(i) \/ CleanUpFails(i) \/ TellFails(i) \/ CommandsFail(i) \/ ScalersGone(i)
      PROVE  Goal
  <2>0. {} \in SUBSET Reasons
    OBVIOUS
  <2>1. \E why \in SUBSET Reasons : Busy(i) /\ Fails(i, why)
    <3>1. ASSUME RefreshFails(i) PROVE \E why \in SUBSET Reasons : Busy(i) /\ Fails(i, why)
      BY <3>1, RefreshFailsStep
    <3>2. ASSUME CleanUpFails(i) PROVE \E why \in SUBSET Reasons : Busy(i) /\ Fails(i, why)
      BY <2>0, <3>2, CleanUpFailsStep
    <3>3. ASSUME TellFails(i) PROVE \E why \in SUBSET Reasons : Busy(i) /\ Fails(i, why)
      BY <3>3, TellFailsStep
    <3>4. ASSUME CommandsFail(i) \/ ScalersGone(i)
          PROVE \E why \in SUBSET Reasons : Busy(i) /\ Fails(i, why)
      BY <3>4, CommandsFailStep
    <3> QED
      BY <1>2, <3>1, <3>2, <3>3, <3>4
  <2>2. HandsBack(i) \/ Drops(i)
    BY <2>1, FailsReturns
  <2> QED
    BY <2>2
<1>3. ASSUME Stays PROVE Goal
  BY <1>3
<1>4. ASSUME NEW i \in Instances, Refresh(i) PROVE Goal
  <2>1. /\ work'[i].event = work[i].event
        /\ \A j \in Instances : j # i => work'[j] = work[j]
    BY <1>4, RefreshStep
  <2>2. UNCHANGED <<deployed, changes, queue, aux_last>>
    BY <1>4 DEF Refresh
  <2>3. Stays
    BY <2>1, <2>2 DEF Stays
  <2> QED
    BY <2>3
<1>5. ASSUME NEW i \in Instances, Tell(i) PROVE Goal
  <2>1. UNCHANGED <<deployed, changes, status, aux_last>>
    BY <1>5 DEF Tell
  <2>2. ASSUME Unpublished(work[i].event) PROVE Goal
    <3>1. Busy(i) /\ Ack(i)
      BY <1>5, <2>2, TellStep
    <3>2. Acks(i)
      BY <2>1, <3>1, AckReturns
    <3> QED
      BY <3>2
  <2>3. ASSUME ~Unpublished(work[i].event) PROVE Goal
    <3>1. /\ work'[i].event = work[i].event /\ queue' = queue
          /\ \A j \in Instances : j # i => work'[j] = work[j]
      BY <1>5, <2>3, TellStep
    <3>2. Stays
      BY <2>1, <3>1 DEF Stays
    <3> QED
      BY <3>2
  <2> QED
    BY <2>2, <2>3
<1>6. ASSUME NEW i \in Instances, Crash(i) PROVE Goal
  <2> DEFINE e == work[i].event
             again == Busy(i) /\ ~work[i].late
  <2>1. /\ \A j \in Instances : work'[j] = IF j = i THEN Idle ELSE work[j]
        /\ UNCHANGED <<deployed, changes, aux_last>>
        /\ \A n \in Manifests : aux_spoiled'[n] = aux_spoiled[n] \cup
             (IF again /\ e.manifest = n THEN GivenUp(e) ELSE {}) \cup
             (IF scalers[i][n] # deployed[n] \/ Behind(i, n) \/ e.manifest = n
              THEN {"forgotten"} ELSE {})
    BY <1>6, CrashStep
  <2>2. queue' = IF again THEN Requeue(e) ELSE queue
    BY <1>6 DEF Crash
  <2>3. work'[i].event = NoEvent /\ \A j \in Instances : j # i => work'[j].event = work[j].event
    BY <2>1, IdleFacts
  <2> HIDE DEF e
  <2>4. ASSUME Busy(i) PROVE HandsBack(i) \/ Drops(i)
    <3>1. e.manifest \in Manifests /\ work[i].late \in BOOLEAN
      BY <2>4, AtFacts, WorkFacts DEF e, TInv
    <3>2. Aside(i)
      BY <2>1, <2>3, <2>4 DEF Aside
    <3>3. ASSUME ~work[i].late PROVE HandsBack(i)
      <4>1. GivenUp(e) \subseteq aux_spoiled'[e.manifest]
        BY <2>1, <2>4, <3>1, <3>3
      <4>2. queue' = Requeue(e)
        BY <2>2, <2>4, <3>3
      <4> QED
        BY <2>3, <3>2, <3>3, <4>1, <4>2 DEF HandsBack, e
    <3>4. ASSUME work[i].late PROVE Drops(i)
      BY <2>2, <2>3, <3>2, <3>4 DEF Drops
    <3> QED
      BY <3>3, <3>4
  <2>5. ASSUME ~Busy(i) PROVE Stays
    <3>1. work[i].event = NoEvent
      BY <2>5, WorkFacts, IdleFacts DEF TInv
    <3> QED
      BY <2>1, <2>2, <2>3, <2>5, <3>1 DEF Stays
  <2> QED
    BY <2>4, <2>5
<1>7. ASSUME NEW i \in Instances, Reconcile(i) \/ CleanupCommandsFail(i) PROVE Goal
  <2>1. Busy(i) /\ Ack(i) /\ UNCHANGED <<deployed, changes, status, aux_last>>
    BY <1>7, ReconcileStep
  <2>2. Acks(i)
    BY <2>1, AckReturns
  <2> QED
    BY <2>2
<1>8. ASSUME UNCHANGED <<deployed, changes, aux_last, queue, work>> PROVE Goal
  BY <1>8 DEF Stays
<1>9. ASSUME NEW j \in Instances,
              CreateScalers(j) \/ RemoveScalers(j) \/ RemovalDone(j) \/ RemovalFails(j)
              \/ Subscribe(j) \/ LoadManifests(j)
       PROVE  Goal
  BY <1>8, <1>9 DEF CreateScalers, RemoveScalers, RemovalDone, RemovalFails, Subscribe,
     LoadManifests
<1>10. ASSUME NEW i \in Instances, NEW m \in Manifests, HandleEvent(i, m) PROVE Goal
  BY <1>8, <1>10 DEF HandleEvent
<1>11. CASE Execute \/ \E m \in Manifests : Stops(m)
  BY <1>8, <1>11 DEF Execute, Stops
<1>12. CASE UNCHANGED vars
  BY <1>8, <1>12 DEF vars
<1>13. CASE \/ \E m \in Manifests, v \in Deployments : Change(m, v)
            \/ \E i \in Instances : Take(i)
  BY <1>13
<1> HIDE DEF Goal
<1> QED
  BY <1>1, <1>2, <1>4, <1>5, <1>6, <1>7, <1>9, <1>10, <1>11, <1>12, <1>13
  DEF Goal, Next, Worker, Notifier, Faults
-----------------------------------------------------------------------------
LEMMA EventsOfMeans ==
  ASSUME NEW m, NEW e
  PROVE  e \in EventsOf(m) <=>
           e.manifest = m /\ (e \in ToSet(queue) \/ \E i \in Instances : work[i].event = e)
BY DEF EventsOf, Queued, InWork

LEMMA LastKnownKept ==
  ASSUME TInv, TInv', NEW m \in Manifests, LastKnown(m), deployed'[m] = deployed[m],
         \A e \in EventsOf(m)' : \E f \in EventsOf(m) : Copy(e, f),
         \A f \in EventsOf(m) : \E e \in EventsOf(m)' : Copy(e, f)
  PROVE  LastKnown(m)'
<1>1. CASE EventsOf(m) = {}
  BY <1>1 DEF LastKnown
<1>2. CASE EventsOf(m) # {}
  <2>1. PICK f \in EventsOf(m) : /\ f.version = deployed[m]
                                 /\ \A g \in EventsOf(m) : g.number <= f.number
    BY <1>2 DEF LastKnown
  <2>2. PICK e \in EventsOf(m)' : Copy(e, f)
    BY <2>1
  <2>3. \A g \in EventsOf(m)' : g.number <= e.number
    BY <2>1, <2>2 DEF Copy
  <2>4. e.version = deployed'[m]
    BY <2>1, <2>2 DEF Copy
  <2> QED
    BY <2>3, <2>4 DEF LastKnown
<1> QED
  BY <1>1, <1>2

LEMMA OrderChange ==
  ASSUME TInv, Numbered, NEW m \in Manifests, aux_last[m] <= changes, Ordered(m),
         NEW n \in Manifests, NEW v \in Deployments, Change(n, v)
  PROVE  Ordered(m)'
<1> DEFINE e == Event(n, v, changes')
<1>1. /\ changes' = changes + 1 /\ e \in EventRec /\ queue' = Append(queue, e)
      /\ ToSet(queue') = ToSet(queue) \cup {e}
      /\ deployed'[m] = IF m = n THEN v ELSE deployed[m]
      /\ work' = work /\ aux_last' = aux_last
  BY ChangeStep DEF Change
<1>2. /\ e.manifest = n /\ e.version = v /\ e.number = changes + 1
      /\ changes \in Nat /\ aux_last[m] \in Nat /\ queue \in Seq(EventRec)
      /\ \A f \in Events : f.number <= changes /\ f.number \in Nat
  BY <1>1, ScalerManagerAssumption, EventsFacts, EventFacts
  DEF Event, TInv, StoredTyped, AuxTyped, Numbered
<1>3. Sorted(queue, m) /\ QueueLater(m) /\ LastKnown(m)
  BY DEF Ordered
<1> HIDE DEF e
<1>4. Sorted(queue', m)
  <2>1. e.manifest = m => \A f \in ToSet(queue) : f.manifest = m => f.number <= e.number
    BY <1>2 DEF Events
  <2> QED
    BY <1>1, <1>2, <1>3, <2>1, SortedAppend
<1>5. QueueLater(m)'
  <2>1. \A f \in Queued(m)' : f \in Queued(m) \/ f = e
    BY <1>1 DEF Queued
  <2>2. aux_last[m] <= e.number
    BY <1>2
  <2> QED
    BY <1>1, <1>3, <2>1, <2>2 DEF QueueLater
<1>6. \A f : f \in EventsOf(m)' <=> f \in EventsOf(m) \/ (f = e /\ n = m)
  BY <1>1, <1>2, EventsOfMeans DEF EventsOf, Queued, InWork
<1>7. CASE n = m
  <2>1. \A f \in EventsOf(m)' : f.number <= e.number
    BY <1>2, <1>6, EventsOfFacts
  <2> QED
    BY <1>1, <1>2, <1>4, <1>5, <1>6, <1>7, <2>1 DEF LastKnown, Ordered
<1>8. CASE n # m
  <2>1. EventsOf(m)' = EventsOf(m) /\ deployed'[m] = deployed[m]
    BY <1>1, <1>6, <1>8
  <2> QED
    BY <1>3, <1>4, <1>5, <2>1 DEF LastKnown, Ordered
<1> QED
  BY <1>7, <1>8

LEMMA OrderTake ==
  ASSUME TInv, NEW m \in Manifests, Ordered(m), Good(m)', NEW i \in Instances, Take(i)
  PROVE  Ordered(m)'
<1> DEFINE e == Head(queue)
<1>1. /\ e \in EventRec /\ e \in ToSet(queue) /\ ToSet(queue) = ToSet(queue') \cup {e}
      /\ work[i] = Idle /\ work'[i] = Begun(e, scalers[i][e.manifest])
      /\ \A j \in Instances : j # i => work'[j] = work[j]
      /\ \A n \in Manifests : aux_last'[n] =
           IF n = e.manifest /\ aux_last[n] < e.number THEN e.number ELSE aux_last[n]
      /\ \A n \in Manifests : aux_spoiled'[n] = aux_spoiled[n] \cup
           IF n = e.manifest
           THEN Lag(i, n) \cup IF InWork(n) # {} \/ e.number < aux_last[n]
                               THEN {"overtaken"} ELSE {}
           ELSE {}
  BY TakeStep
<1>2. queue # <<>> /\ queue' = Tail(queue) /\ deployed' = deployed
  BY DEF Take
<1>3. Sorted(queue, m) /\ QueueLater(m) /\ LastKnown(m)
  BY DEF Ordered
<1>4. queue \in Seq(EventRec) /\ aux_last[m] \in Nat /\ e.number \in Nat
  BY <1>1, EventFacts DEF TInv, StoredTyped, AuxTyped
<1>5. /\ Sorted(queue', m)
      /\ \A f \in ToSet(queue') : e.manifest = m /\ f.manifest = m => e.number <= f.number
  BY <1>2, <1>3, <1>4, SortedTail
<1> HIDE DEF e
<1>6. e.manifest = m => ~(e.number < aux_last[m])
  BY <1>1 DEF Good
<1>7. QueueLater(m)'
  <2> SUFFICES ASSUME NEW f \in ToSet(queue'), f.manifest = m PROVE aux_last'[m] <= f.number
    BY DEF QueueLater, Queued
  <2>1. f \in Queued(m) /\ aux_last[m] <= f.number
    BY <1>1, <1>3 DEF Queued, QueueLater
  <2> QED
    BY <1>1, <1>4, <1>5, <2>1
<1>8. work'[i].event = e /\ work[i].event = NoEvent
  <2> DEFINE old == scalers[i][e.manifest]
  <2>1. e \in EventRec /\ old \in Deployments /\ work'[i] = Begun(e, old)
    BY <1>1, EventFacts DEF TInv, StoredTyped
  <2> HIDE DEF old
  <2>2. Begun(e, old).event = e
    BY <2>1, BegunFacts
  <2> QED
    BY <1>1, <2>1, <2>2, IdleFacts
<1>9. \A f : f \in EventsOf(m)' <=> f \in EventsOf(m)
  <2>1. NoEvent.manifest # m
    BY EventFacts
  <2> QED
    BY <1>1, <1>8, <2>1 DEF EventsOf, Queued, InWork
<1>10. LastKnown(m)'
  BY <1>2, <1>3, <1>9 DEF LastKnown
<1> QED
  BY <1>5, <1>7, <1>10 DEF Ordered

LEMMA OrderBack ==
  ASSUME TInv, TInv', NEW m \in Manifests, Ordered(m), LastTaken(m), Good(m)',
         NEW i \in Instances, HandsBack(i)
  PROVE  Ordered(m)'
<1> DEFINE e == work[i].event
<1>1. /\ Busy(i) /\ UNCHANGED <<deployed, changes, aux_last>> /\ queue' = Requeue(e)
      /\ \A j \in Instances : j # i => work'[j].event = work[j].event
      /\ work'[i].event \in {e, NoEvent} /\ GivenUp(e) \subseteq aux_spoiled'[e.manifest]
  BY DEF HandsBack, Aside
<1>2. e \in EventRec /\ e.manifest \in Manifests /\ queue \in Seq(EventRec)
  BY <1>1, AtFacts DEF TInv, StoredTyped
<1>3. Sorted(queue, m) /\ QueueLater(m) /\ LastKnown(m)
  BY DEF Ordered
<1>4. e.manifest = m => e.number = aux_last[m]
  BY DEF LastTaken, InWork
<1>5. /\ ToSet(queue) \subseteq ToSet(queue')
      /\ \A f \in ToSet(queue') : f \in ToSet(queue) \/ Copy(f, e)
      /\ e.tries < MaxDeliver => \E f \in ToSet(queue') : Copy(f, e)
  BY <1>1, <1>2, RequeueFacts
<1>6. e.manifest = m => e.tries < MaxDeliver
  BY <1>1 DEF GivenUp, Good
<1> DEFINE again == [e EXCEPT !.tries = @ + 1]
<1>7. Sorted(queue', m)
  <2>1. CASE e.tries < MaxDeliver
    <3>1. again \in EventRec /\ again.manifest = e.manifest /\ again.number = e.number
      <4> HIDE DEF e
      <4>1. e.tries + 1 \in 1 .. MaxDeliver
        BY <1>2, <2>1, EventFacts, ScalerManagerAssumption
      <4>2. again.manifest = e.manifest /\ again.number = e.number
        BY <1>2 DEF EventRec
      <4>3. again \in EventRec
        BY <1>2, <4>1 DEF EventRec
      <4> QED
        BY <4>2, <4>3
    <3>2. queue' = <<again>> \o queue
      BY <1>1, <2>1 DEF Requeue
    <3>3. e.manifest = m => \A f \in ToSet(queue) : f.manifest = m => e.number <= f.number
      BY <1>3, <1>4 DEF QueueLater, Queued
    <3> HIDE DEF again, e
    <3> QED
      BY <1>2, <1>3, <3>1, <3>2, <3>3, SortedCons
  <2>2. CASE ~(e.tries < MaxDeliver)
    BY <1>1, <1>3, <2>2 DEF Requeue
  <2> QED
    BY <2>1, <2>2
<1>8. QueueLater(m)'
  <2> SUFFICES ASSUME NEW f \in ToSet(queue'), f.manifest = m PROVE aux_last'[m] <= f.number
    BY DEF QueueLater, Queued
  <2>1. CASE f \in ToSet(queue)
    BY <1>1, <1>3, <2>1 DEF QueueLater, Queued
  <2>2. CASE Copy(f, e)
    <3>1. f.number = aux_last[m] /\ aux_last[m] \in Nat
      BY <1>4, <2>2 DEF Copy, TInv, AuxTyped
    <3> QED
      BY <1>1, <3>1
  <2> QED
    BY <1>5, <2>1, <2>2
<1> HIDE DEF again
<1>9. LastKnown(m)'
  <2>1. NoEvent.manifest # m
    BY EventFacts
  <2> HIDE DEF e
  <2>2. ASSUME NEW f \in EventsOf(m)' PROVE \E g \in EventsOf(m) : Copy(f, g)
    <3>1. \/ f \in EventsOf(m)
          \/ Copy(f, e) /\ e \in EventsOf(m)
      BY <1>1, <1>5, <2>1, <2>2, CopyFacts DEF EventsOf, Queued, InWork, Copy, e
    <3> QED
      BY <3>1, CopyFacts
  <2>3. ASSUME NEW g \in EventsOf(m) PROVE \E f \in EventsOf(m)' : Copy(f, g)
    <3>1. CASE g = e
      <4>1. PICK f \in ToSet(queue') : Copy(f, e)
        BY <1>5, <1>6, <2>3, <3>1, EventsOfMeans
      <4>2. f \in EventsOf(m)'
        BY <2>3, <3>1, <4>1, EventsOfMeans DEF EventsOf, Queued, Copy
      <4> QED
        BY <3>1, <4>1, <4>2
    <3>2. CASE g # e
      <4>1. g \in EventsOf(m)'
        BY <1>1, <1>5, <2>3, <3>2, EventsOfMeans DEF EventsOf, Queued, InWork, e
      <4> QED
        BY <4>1, CopyFacts
    <3> QED
      BY <3>1, <3>2
  <2>4. deployed'[m] = deployed[m]
    BY <1>1
  <2> QED
    BY <1>3, <2>2, <2>3, <2>4, LastKnownKept
<1> QED
  BY <1>7, <1>8, <1>9 DEF Ordered

LEMMA OrderDrops ==
  ASSUME TInv, TInv', Numbered, NEW m \in Manifests, Ordered(m), LateAgain(m),
         NEW i \in Instances, Drops(i)
  PROVE  Ordered(m)'
<1> DEFINE e == work[i].event
<1>1. /\ Busy(i) /\ UNCHANGED <<deployed, changes, aux_last>> /\ queue' = queue /\ work[i].late
      /\ \A j \in Instances : j # i => work'[j].event = work[j].event
      /\ work'[i].event = NoEvent
  BY DEF Drops, Aside
<1>2. Sorted(queue, m) /\ QueueLater(m) /\ LastKnown(m)
  BY DEF Ordered
<1>3. Sorted(queue', m) /\ QueueLater(m)'
  BY <1>1, <1>2 DEF QueueLater, Queued
<1>4. NoEvent.manifest # m
  BY EventFacts
<1> HIDE DEF e
<1>5. \A f \in EventsOf(m)' : f \in EventsOf(m)
  BY <1>1, <1>4 DEF EventsOf, Queued, InWork
<1>6. ASSUME NEW g \in EventsOf(m) PROVE \E f \in EventsOf(m)' : Copy(f, g)
  <2>1. CASE g = e
    <3>1. i \in InWork(m)
      BY <1>6, <2>1, EventsOfMeans DEF InWork, e
    <3>2. PICK f \in Queued(m) : f.number = e.number
      BY <1>1, <3>1 DEF LateAgain, e
    <3>3. f \in ToSet(queue) /\ f \in EventsOf(m)'
      BY <1>1, <3>2 DEF Queued, EventsOf
    <3>4. f.manifest = e.manifest /\ f.version = e.version
      BY <1>1, <3>2, <3>3, NumberTells DEF e
    <3> QED
      BY <2>1, <3>2, <3>3, <3>4 DEF Copy
  <2>2. CASE g # e
    <3>1. g \in EventsOf(m)'
      BY <1>1, <1>6, <2>2, EventsOfMeans DEF EventsOf, Queued, InWork, e
    <3> QED
      BY <3>1, CopyFacts
  <2> QED
    BY <2>1, <2>2
<1>7. LastKnown(m)'
  <2>1. \A f \in EventsOf(m)' : \E g \in EventsOf(m) : Copy(f, g)
    BY <1>5, CopyFacts
  <2>2. deployed'[m] = deployed[m]
    BY <1>1
  <2> QED
    BY <1>2, <1>6, <2>1, <2>2, LastKnownKept
<1> QED
  BY <1>3, <1>7 DEF Ordered

LEMMA OrderAcks ==
  ASSUME TInv, Numbered, NEW m \in Manifests, Ordered(m), LastTaken(m),
         NEW i \in Instances, Acks(i)
  PROVE  Ordered(m)'
<1> DEFINE e == work[i].event
           q == Without(queue, e.number)
<1>1. /\ Busy(i) /\ UNCHANGED <<deployed, changes, aux_last>> /\ queue' = q
      /\ \A j \in Instances : j # i => work'[j].event = work[j].event
      /\ work'[i].event = NoEvent
  BY DEF Acks, Aside
<1>2. Sorted(queue, m) /\ QueueLater(m) /\ LastKnown(m) /\ queue \in Seq(EventRec)
  BY DEF Ordered, TInv, StoredTyped
<1>3. /\ ToSet(q) \subseteq ToSet(queue)
      /\ \A f \in ToSet(queue) : f.number # e.number => f \in ToSet(q)
      /\ Sorted(q, m)
  BY <1>2, SeqWithout, SortedWithout
<1> HIDE DEF q
<1>4. Sorted(queue', m) /\ QueueLater(m)'
  BY <1>1, <1>2, <1>3 DEF QueueLater, Queued
<1>5. NoEvent.manifest # m
  BY EventFacts
<1>6. e \in Events /\ (e.manifest = m => e.number = aux_last[m])
  BY <1>1, EventsFacts DEF LastTaken, InWork
<1> HIDE DEF e
<1>7. \A f \in EventsOf(m)' : f \in EventsOf(m)
  BY <1>1, <1>3, <1>5 DEF EventsOf, Queued, InWork
<1>8. \A f \in EventsOf(m) : f.number # e.number => f \in EventsOf(m)'
  BY <1>1, <1>3, EventsOfMeans DEF EventsOf, Queued, InWork, e
<1>9. CASE EventsOf(m) = {}
  <2>1. EventsOf(m)' = {}
    BY <1>7, <1>9
  <2> QED
    BY <1>4, <2>1 DEF LastKnown, Ordered
<1>10. CASE EventsOf(m) # {}
  <2>1. PICK g \in EventsOf(m) : /\ g.version = deployed[m]
                                 /\ \A f \in EventsOf(m) : f.number <= g.number
    BY <1>2, <1>10 DEF LastKnown
  <2>2. CASE g \in EventsOf(m)'
    BY <1>1, <1>4, <1>7, <2>1, <2>2 DEF LastKnown, Ordered
  <2>3. CASE g \notin EventsOf(m)'
    <3>1. g.number = e.number /\ g \in Events /\ g.manifest = m
      BY <1>8, <2>3, EventsOfFacts
    <3>2. e.manifest = m /\ e.number = aux_last[m]
      BY <1>6, <3>1 DEF Numbered
    <3>3. ASSUME NEW f \in EventsOf(m)'
          PROVE  f.number = g.number /\ f.version = deployed[m]
      <4>1. f \in EventsOf(m) /\ f \in Events /\ f.number <= g.number
        BY <1>7, <2>1, EventsOfFacts
      <4>2. aux_last[m] <= f.number
        <5>1. CASE f \in Queued(m)
          BY <1>2, <5>1 DEF QueueLater
        <5>2. CASE f \notin Queued(m)
          <6>1. PICK k \in InWork(m) : f = work[k].event
            BY <4>1, <5>2 DEF EventsOf
          <6>2. f.number = aux_last[m] /\ aux_last[m] \in Nat
            BY <6>1 DEF LastTaken, TInv, AuxTyped
          <6> QED
            BY <6>2
        <5> QED
          BY <5>1, <5>2
      <4>3. f.number = g.number
        <5>1. f.number \in Nat /\ g.number \in Nat /\ aux_last[m] \in Nat
          BY <4>1, <3>1, EventsFacts, EventFacts DEF TInv, AuxTyped
        <5> QED
          BY <3>1, <3>2, <4>1, <4>2, <5>1
      <4> QED
        BY <2>1, <3>1, <4>1, <4>3 DEF Numbered
    <3>4. ASSUME NEW f \in EventsOf(m)', NEW h \in EventsOf(m)' PROVE h.number <= f.number
      <4>1. f.number = g.number /\ h.number = g.number /\ g.number \in Nat
        BY <3>1, <3>3, EventsFacts, EventFacts
      <4> QED
        BY <4>1
    <3> QED
      BY <1>1, <1>4, <3>3, <3>4 DEF LastKnown, Ordered
  <2> QED
    BY <2>2, <2>3
<1> QED
  BY <1>9, <1>10

LEMMA OrderStays ==
  ASSUME TInv, NEW m \in Manifests, Ordered(m), Stays
  PROVE  Ordered(m)'
<1>1. /\ UNCHANGED <<deployed, queue, aux_last>>
      /\ \A j \in Instances : work'[j].event = work[j].event
  BY DEF Stays
<1>2. EventsOf(m)' = EventsOf(m) /\ Queued(m)' = Queued(m)
  BY <1>1 DEF EventsOf, Queued, InWork
<1> QED
  BY <1>1, <1>2 DEF Ordered, QueueLater, LastKnown

LEMMA NextOrder ==
  ASSUME SInv, SInv', [Next]_vars, NEW m \in Manifests, OrderInv(m)
  PROVE  OrderInv(m)'
<1>1. TInv /\ TInv' /\ Numbered /\ AgreeInv(m)
  BY DEF SInv
<1>2. ASSUME Good(m)' PROVE Ordered(m)'
  <2>1. Good(m) /\ Ordered(m) /\ aux_last[m] <= changes /\ LastTaken(m) /\ LateAgain(m)
    BY <1>1, <1>2, GoodBefore DEF OrderInv, AgreeInv, InOrder
  <2> QED
    BY <1>1, <1>2, <2>1, WorkSteps, OrderChange, OrderTake, OrderBack, OrderDrops, OrderAcks, OrderStays
<1>3. aux_last'[m] <= changes'
  <2>1. aux_last[m] <= changes /\ aux_last[m] \in Nat /\ changes \in Nat
    BY <1>1, ScalerManagerAssumption DEF OrderInv, TInv, AuxTyped, StoredTyped
  <2>2. ASSUME NEW n \in Manifests, NEW v \in Deployments, Change(n, v) PROVE aux_last'[m] <= changes'
    <3>1. changes' = changes + 1 /\ aux_last' = aux_last
      BY <2>2 DEF Change
    <3> QED
      BY <2>1, <3>1
  <2>3. ASSUME NEW i \in Instances, Take(i) PROVE aux_last'[m] <= changes'
    <3>1. changes' = changes
      BY <2>3 DEF Take
    <3>2. Head(queue) \in Events
      BY <1>1, <2>3, TakeStep, EventsFacts
    <3>3. aux_last'[m] = aux_last[m] \/ aux_last'[m] = Head(queue).number
      BY <1>1, <2>3, TakeStep
    <3> QED
      BY <1>1, <2>1, <3>1, <3>2, <3>3 DEF Numbered
  <2>4. ASSUME NEW i \in Instances, HandsBack(i) \/ Drops(i) \/ Acks(i) PROVE aux_last'[m] <= changes'
    BY <2>1, <2>4 DEF HandsBack, Drops, Acks, Aside
  <2>5. ASSUME Stays PROVE aux_last'[m] <= changes'
    BY <2>1, <2>5 DEF Stays
  <2> QED
    BY <1>1, <2>2, <2>3, <2>4, <2>5, WorkSteps
<1> QED
  BY <1>2, <1>3 DEF OrderInv
-----------------------------------------------------------------------------
(* What a step that is about other manifests leaves as it is: the workers, *)
(* and what an instance has been told and has still to be told.            *)
EventsAlike(m) ==
  /\ \A e \in EventsOf(m)' : \E f \in EventsOf(m) : Copy(e, f)
  /\ \A f \in EventsOf(m) : \E e \in EventsOf(m)' : Copy(e, f)
SameWork(i) ==
  /\ work'[i].step = work[i].step /\ work'[i].event = work[i].event
  /\ work'[i].old = work[i].old /\ work'[i].cleanup = work[i].cleanup
WorkAlike(m) ==
  /\ deployed'[m] = deployed[m] /\ EventsAlike(m)
  /\ InWork(m)' = InWork(m) /\ \A i \in InWork(m) : SameWork(i)

NotesAlike(s, t, m) ==
  /\ Free(t, m) <=> Free(s, m)
  /\ \A v : Ends(t, m, v) <=> Ends(s, m, v)
  /\ DeleteFirst(t, m) <=> DeleteFirst(s, m)
CleansFor(j, m) == cleaning[j] # None /\ Note(j).manifest = m
ToldAlike(j, m) ==
  /\ scalers'[j][m] = scalers[j][m]
  /\ NotesAlike(Rest(j), Rest(j)', m)
  /\ Free(notes[j], m) => Free(notes[j], m)'
  /\ \A v : AllAre(notes[j], m, v) => AllAre(notes[j], m, v)'
  /\ CleansFor(j, m)' <=> CleansFor(j, m)
  /\ CleansFor(j, m) => cleaning'[j] = cleaning[j]

LEMMA AppendAllAre ==
  ASSUME NEW s \in Seq(NoteRec), NEW n \in NoteRec, NEW m, NEW v, AllAre(s, m, v),
         n.manifest = m => n.version = v
  PROVE  AllAre(Append(s, n), m, v)
<1> DEFINE t == Append(s, n)
<1>1. /\ Len(t) = Len(s) + 1 /\ Len(s) \in Nat /\ t[Len(s) + 1] = n
      /\ \A k \in 1 .. Len(s) : t[k] = s[k]
  BY SeqAppend
<1> HIDE DEF t
<1>2. \A k \in 1 .. Len(t) : k \in 1 .. Len(s) \/ k = Len(s) + 1
  BY <1>1
<1> QED
  BY <1>1, <1>2 DEF AllAre, t

LEMMA TailAllAre ==
  ASSUME NEW s \in Seq(NoteRec), s # <<>>, NEW m, NEW v, AllAre(s, m, v)
  PROVE  AllAre(Tail(s), m, v) /\ (Head(s).manifest = m => Head(s).version = v)
<1> DEFINE t == Tail(s)
<1>1. /\ Head(s) = s[1] /\ Len(t) = Len(s) - 1 /\ Len(s) \in Nat \ {0}
      /\ \A k \in 1 .. Len(s) - 1 : t[k] = s[k + 1]
  BY SeqTail
<1> HIDE DEF t
<1>2. 1 \in 1 .. Len(s) /\ \A k \in 1 .. Len(t) : k + 1 \in 1 .. Len(s) /\ t[k] = s[k + 1]
  BY <1>1
<1> QED
  BY <1>1, <1>2 DEF AllAre, t

LEMMA FreeAllAre ==
  ASSUME NEW s, NEW m, NEW v, Free(s, m) PROVE AllAre(s, m, v)
BY DEF Free, AllAre

(* An instance whose state is the same.                                    *)
LEMMA SameIsAlike ==
  ASSUME NEW j \in Instances, NEW m, scalers'[j][m] = scalers[j][m],
         notes'[j] = notes[j], cleaning'[j] = cleaning[j]
  PROVE  ToldAlike(j, m)
BY DEF ToldAlike, NotesAlike, CleansFor, Rest, Note

(* A notification about another manifest, sent or handled.                 *)
LEMMA TellingIsAlike ==
  ASSUME TInv, NEW j \in Instances, NEW m, scalers'[j][m] = scalers[j][m],
         cleaning' = cleaning, NEW n \in NoteRec, n.manifest # m,
         notes'[j] = Append(notes[j], n)
  PROVE  ToldAlike(j, m)
<1>1. notes[j] \in Seq(NoteRec) /\ Rest(j) \in Seq(NoteRec)
  BY RestFacts
<1>2. Rest(j)' = Append(Rest(j), n)
  BY RestTold
<1>3. NotesAlike(Rest(j), Rest(j)', m)
  <2> DEFINE s == Rest(j)
             t == Rest(j)'
  <2>1. s \in Seq(NoteRec) /\ t = Append(s, n)
    BY <1>1, <1>2
  <2> HIDE DEF s, t
  <2>2. NotesAlike(s, t, m)
    BY <2>1, AppendMeans DEF NotesAlike
  <2> QED
    BY <2>2 DEF s, t
<1>4. Free(notes[j], m) => Free(notes'[j], m)
  BY <1>1, AppendMeans
<1>5. \A v : AllAre(notes[j], m, v) => AllAre(notes'[j], m, v)
  BY <1>1, AppendAllAre
<1>6. cleaning[j] # None => Head(notes'[j]) = Head(notes[j])
  <2> SUFFICES ASSUME cleaning[j] # None PROVE Head(notes'[j]) = Head(notes[j])
    OBVIOUS
  <2>1. notes[j] # <<>>
    BY RestFacts
  <2> DEFINE s == notes[j]
  <2>2. s \in Seq(NoteRec) /\ s # <<>> /\ n \in NoteRec
    BY <1>1, <2>1
  <2> HIDE DEF s
  <2>3. Head(Append(s, n)) = Head(s)
    BY <2>2
  <2> QED
    BY <2>3 DEF s
<1> QED
  BY <1>3, <1>4, <1>5, <1>6 DEF ToldAlike, CleansFor, Note

LEMMA NotedIsAlike ==
  ASSUME TInv, NEW j \in Instances, NEW m, scalers'[j][m] = scalers[j][m],
         notes[j] # <<>>, Note(j).manifest # m,
         notes'[j] = Tail(notes[j]) \/ notes'[j] = notes[j],
         notes'[j] = Tail(notes[j]) => cleaning'[j] = None
  PROVE  ToldAlike(j, m)
<1> DEFINE s == notes[j]
           t == Tail(notes[j])
<1>1. s \in Seq(NoteRec) /\ s # <<>> /\ Head(s).manifest # m /\ t = Tail(s)
  BY RestFacts DEF Note
<1>2. /\ Rest(j) = s \/ Rest(j) = t
      /\ Rest(j)' = s \/ Rest(j)' = t
  BY DEF Rest
<1>3. /\ notes'[j] = t \/ notes'[j] = s
      /\ ~CleansFor(j, m)
      /\ cleaning'[j] = None \/ notes'[j] = s
  BY DEF CleansFor
<1>4. Head(s) = Note(j)
  BY DEF Note
<1> HIDE DEF s, t
<1>5. NotesAlike(s, t, m) /\ NotesAlike(t, s, m) /\ NotesAlike(s, s, m) /\ NotesAlike(t, t, m)
  BY <1>1, TailMeans DEF NotesAlike
<1>6. NotesAlike(Rest(j), Rest(j)', m)
  BY <1>2, <1>5
<1>7. /\ Free(s, m) => Free(t, m)
      /\ \A v : AllAre(s, m, v) => AllAre(t, m, v)
  BY <1>1, <1>5, TailAllAre DEF NotesAlike
<1>8. ~CleansFor(j, m)'
  BY <1>1, <1>3, <1>4 DEF CleansFor, Note
<1>9. notes[j] = s
  BY DEF s
<1> QED
  BY <1>3, <1>6, <1>7, <1>8, <1>9 DEF ToldAlike
-----------------------------------------------------------------------------
(* What alike means for whoever has or will have scalers.                  *)
LEMMA ToldAlikeMeans ==
  ASSUME NEW j \in Instances, NEW m, ToldAlike(j, m)
  PROVE  /\ \A v : Becomes(j, m, v)' <=> Becomes(j, m, v)
         /\ \A x : NotifierDoes(j, m, x)' <=> NotifierDoes(j, m, x)
         /\ CleaningHas(j, m) => CleaningHas(j, m)'
<1>1. /\ scalers'[j][m] = scalers[j][m]
      /\ Free(Rest(j)', m) <=> Free(Rest(j), m)
      /\ \A v : Ends(Rest(j)', m, v) <=> Ends(Rest(j), m, v)
  BY DEF ToldAlike, NotesAlike
<1>2. \A v : Becomes(j, m, v)' <=> Becomes(j, m, v)
  BY <1>1 DEF Becomes
<1>3. /\ CleansFor(j, m)' <=> CleansFor(j, m)
      /\ CleansFor(j, m) => cleaning'[j] = cleaning[j]
  BY DEF ToldAlike
<1>4. \A x : NotifierDoes(j, m, x)' <=> NotifierDoes(j, m, x)
  BY <1>3 DEF CleansFor, NotifierDoes
<1>5. CleaningHas(j, m) => CleaningHas(j, m)'
  BY <1>1, <1>3 DEF CleaningHas, CleansFor
<1> QED
  BY <1>2, <1>4, <1>5

LEMMA NotifierAlike ==
  ASSUME NEW j \in Instances, NEW m, ToldAlike(j, m), TellsRemoval(m)' <=> TellsRemoval(m)
  PROVE  \A x : NotifierWill(j, m, x)' <=> NotifierWill(j, m, x)
BY DEF ToldAlike, NotesAlike, NotifierWill

(* What is wanted depends on the events only.                              *)
LEMMA WantedAlike ==
  ASSUME NEW m, deployed'[m] = deployed[m], EventsAlike(m)
  PROVE  /\ \A x : Wanted(m, x)' <=> Wanted(m, x)
         /\ EventsOf(m)' # {} <=> EventsOf(m) # {}
<1>1. \A x : Wanted(m, x) => Wanted(m, x)'
  BY DEF EventsAlike, Copy, Wanted
<1>2. \A x : Wanted(m, x)' => Wanted(m, x)
  BY DEF EventsAlike, Copy, Wanted
<1> QED
  BY <1>1, <1>2 DEF EventsAlike

(* A worker that goes on as before.                                        *)
StillHas(i, m) ==
  /\ scalers'[i][m] = scalers[i][m]
  /\ Free(notes[i], m) => Free(notes[i], m)'
  /\ \A v : AllAre(notes[i], m, v) => AllAre(notes[i], m, v)'

NotifierCares(m, x) == \E j \in Ups : NotifierDoes(j, m, x) \/ NotifierWill(j, m, x)

LEMMA HoldsKept ==
  ASSUME NEW m, WorkAlike(m), NEW j \in Instances,
         \A v \in Deployments : Becomes(j, m, v)' <=> Becomes(j, m, v)
  PROVE  \A x : Holds(j, m, x)' <=> Holds(j, m, x)
<1>1. CASE j \in InWork(m) /\ Early(j)
  BY <1>1 DEF WorkAlike, SameWork, Early, Holds
<1>2. CASE ~(j \in InWork(m) /\ Early(j))
  <2>1. ~(j \in InWork(m) /\ Early(j))'
    BY <1>2 DEF WorkAlike, SameWork, Early
  <2> QED
    BY <1>2, <2>1 DEF Holds
<1> QED
  BY <1>1, <1>2

(* A step that leaves the workers of a manifest and what becomes of its    *)
(* scalers alone.                                                          *)
LEMMA LeftKept ==
  ASSUME TInv, NEW m \in Manifests, Left(m), WorkAlike(m), Ups' \subseteq Ups,
         \A j \in Ups', v \in Deployments : Becomes(j, m, v)' <=> Becomes(j, m, v),
         \A i \in InWork(m) : StillHas(i, m),
         \A j \in Instances : CleaningHas(j, m)',
         \A x \in AllIds :
           WillRun(sent', running'[m], m, x) =>
             /\ WillRun(sent, running[m], m, x)
             /\ NotifierCares(m, x) => NotifierCares(m, x)' \/ Wanted(m, x)
  PROVE  Left(m)'
<1>1. /\ InWork(m)' = InWork(m) /\ \A i \in InWork(m) : SameWork(i)
      /\ \A x : Wanted(m, x)' <=> Wanted(m, x)
      /\ EventsOf(m)' # {} <=> EventsOf(m) # {}
  BY WantedAlike DEF WorkAlike
<1>2. \A j \in Ups' : j \in Instances /\ j \in Ups
  BY DEF Ups
<1>3. \A j \in Ups' : \A x : Holds(j, m, x)' <=> Holds(j, m, x)
  BY <1>2, HoldsKept
<1>4. ASSUME NEW i \in InWork(m) PROVE WorkerHas(i, m)'
  <2>1. WorkerHas(i, m) /\ SameWork(i) /\ StillHas(i, m)
    BY <1>1, <1>4 DEF Left
  <2>2. work[i].event.version \in Deployments
    BY EventsOfFacts, EventFacts
  <2> QED
    BY <1>2, <2>1, <2>2 DEF WorkerHas, SameWork, StillHas, Early
<1>5. ASSUME NEW x \in AllIds PROVE Alike(m, x)'
  BY <1>1, <1>2, <1>3, <1>5 DEF Left, Alike
<1>6. ASSUME NEW x \in AllIds, WillRun(sent', running'[m], m, x) PROVE Owned(m, x)'
  <2>1. Owned(m, x) /\ (NotifierCares(m, x) => NotifierCares(m, x)' \/ Wanted(m, x))
    BY <1>6 DEF Left
  <2>2. NextWill(m, x) => NextWill(m, x)'
    BY <1>1, <1>2, <1>3 DEF NextWill, SameWork
  <2>3. WorkerWill(m, x) => WorkerWill(m, x)'
    BY <1>1 DEF WorkerWill, SameWork
  <2> QED
    BY <1>1, <2>1, <2>2, <2>3 DEF Owned, NotifierCares
<1> QED
  BY <1>1, <1>4, <1>5, <1>6 DEF Left

(* A step about other manifests; an instance that goes down has all that   *)
(* is deployed, and is told nothing.                                       *)
LEMMA LeftUntouched ==
  ASSUME TInv, NEW m \in Manifests, Left(m), WorkAlike(m), Ups' \subseteq Ups,
         \A j \in Ups' : ToldAlike(j, m),
         \A j \in Ups : j \notin Ups' => Free(notes[j], m) /\ scalers[j][m] = deployed[m],
         TInv', \A i \in InWork(m) : i \in Ups',
         \A x \in AllIds :
           WillRun(sent', running'[m], m, x) => WillRun(sent, running[m], m, x)
  PROVE  Left(m)'
<1>1. \A j \in Ups' : j \in Instances /\ j \in Ups
  BY DEF Ups
<1>2. \A j \in Ups', v \in Deployments : Becomes(j, m, v)' <=> Becomes(j, m, v)
  BY <1>1, ToldAlikeMeans
<1>3. \A i \in InWork(m) : StillHas(i, m)
  BY DEF ToldAlike, StillHas
<1>4. ASSUME NEW j \in Instances PROVE CleaningHas(j, m)'
  <2>1. CASE j \in Ups'
    BY <1>1, <2>1, ToldAlikeMeans DEF Left
  <2>2. CASE j \notin Ups'
    <3>1. cleaning'[j] = None
      BY <2>2 DEF Ups, TInv, NotesTyped, NotifierShape
    <3> QED
      BY <3>1 DEF CleaningHas
  <2> QED
    BY <2>1, <2>2
<1>5. TellsRemoval(m)' <=> TellsRemoval(m)
  BY DEF WorkAlike, SameWork, TellsRemoval
<1>6. ASSUME NEW x \in AllIds, NotifierCares(m, x) PROVE NotifierCares(m, x)' \/ Wanted(m, x)
  <2>1. PICK j \in Ups : NotifierDoes(j, m, x) \/ NotifierWill(j, m, x)
    BY <1>6 DEF NotifierCares
  <2>2. CASE j \in Ups'
    BY <1>1, <1>5, <2>1, <2>2, ToldAlikeMeans, NotifierAlike DEF NotifierCares
  <2>3. CASE j \notin Ups'
    <3>1. Free(notes[j], m) /\ scalers[j][m] = deployed[m] /\ j \in Instances
      BY <2>3 DEF Ups
    <3>2. ~NotifierDoes(j, m, x)
      <4> SUFFICES ASSUME NotifierDoes(j, m, x) PROVE FALSE
        OBVIOUS
      <4>1. notes[j] # <<>> /\ Head(notes[j]).manifest = m /\ notes[j] \in Seq(NoteRec)
        BY <3>1, RestFacts DEF NotifierDoes, Note
      <4> QED
        BY <3>1, <4>1, TailMeans
    <3> QED
      BY <2>1, <3>1, <3>2 DEF NotifierWill, Wanted
  <2> QED
    BY <2>2, <2>3
<1> QED
  BY <1>2, <1>3, <1>4, <1>6, LeftKept
-----------------------------------------------------------------------------
(* What else is known of a manifest about which nothing went wrong.        *)
Sound(m) == InOrder(m) /\ (Reached(m) => Follow(m)) /\ Ordered(m)

LEMMA KeptIsAlike ==
  ASSUME NEW m, WorkKept(m)
  PROVE  WorkAlike(m) /\ EventsOf(m)' = EventsOf(m)
<1>1. /\ Queued(m)' = Queued(m) /\ InWork(m)' = InWork(m)
      /\ \A i \in InWork(m) : work'[i] = work[i]
      /\ deployed'[m] = deployed[m]
  BY DEF WorkKept
<1>2. EventsOf(m)' = EventsOf(m)
  BY <1>1 DEF EventsOf
<1>3. EventsAlike(m)
  BY <1>2, CopyFacts DEF EventsAlike
<1> QED
  BY <1>1, <1>2, <1>3 DEF WorkAlike, SameWork

LEMMA SettledHolds ==
  ASSUME TInv, NEW m \in Manifests, Follow(m), NEW j \in Ups, NEW v
  PROVE  Becomes(j, m, v) <=> v = deployed[m]
<1>1. j \in Instances /\ status[j] = "up" /\ Follows(j, m)
  BY DEF Ups, Follow
<1>2. /\ notes[j] \in Seq(NoteRec) /\ Rest(j) \in Seq(NoteRec)
      /\ cleaning[j] # None => notes[j] # <<>>
  BY <1>1, RestFacts
<1>3. CASE Free(Rest(j), m)
  <2>1. ~Ends(Rest(j), m, v)
    BY <1>2, <1>3, NotesMean
  <2>2. scalers[j][m] = deployed[m]
    BY <1>1, <1>3 DEF Follows
  <2> QED
    BY <1>3, <2>1, <2>2 DEF Becomes
<1>4. CASE ~Free(Rest(j), m)
  <2>1. ~Free(notes[j], m) /\ (Ends(notes[j], m, deployed[m]) => Ends(Rest(j), m, deployed[m]))
    <3>1. CASE cleaning[j] = None
      BY <1>4, <3>1 DEF Rest
    <3>2. CASE cleaning[j] # None
      <4>1. Rest(j) = Tail(notes[j]) /\ notes[j] # <<>>
        BY <1>2, <3>2 DEF Rest
      <4> QED
        BY <1>2, <1>4, <4>1, TailMeans
    <3> QED
      BY <3>1, <3>2
  <2>2. Ends(Rest(j), m, deployed[m])
    BY <1>1, <2>1 DEF Follows
  <2> QED
    BY <1>2, <1>4, <2>2, NotesMean DEF Becomes
<1> QED
  BY <1>3, <1>4

(* No event, or the last one, is about what was deployed.                  *)
LEMMA LeftChange ==
  ASSUME TInv, NEW m \in Manifests, Left(m), Sound(m),
         NEW v \in Deployments, Change(m, v)
  PROVE  Left(m)'
<1> DEFINE e == Event(m, v, changes')
<1>1. /\ e \in EventRec /\ ToSet(queue') = ToSet(queue) \cup {e} /\ deployed'[m] = v
      /\ UNCHANGED <<status, scalers, work, notes, cleaning, sent, running>>
  <2>1. /\ e \in EventRec /\ ToSet(queue') = ToSet(queue) \cup {e}
        /\ \A n \in Manifests : deployed'[n] = IF n = m THEN v ELSE deployed[n]
    BY ChangeStep
  <2>2. UNCHANGED <<status, scalers, work, notes, cleaning, sent, running>>
    BY DEF Change, lattice
  <2> QED
    BY <2>1, <2>2
<1>2. e.manifest = m /\ e.version = v
  BY DEF Event
<1> HIDE DEF e
<1>3. /\ \A f : f \in EventsOf(m)' <=> f \in EventsOf(m) \/ f = e
      /\ InWork(m)' = InWork(m)
  BY <1>1, <1>2 DEF EventsOf, Queued, InWork
<1>4. \A j \in Instances : ToldAlike(j, m)
  BY <1>1, SameIsAlike
<1>5. /\ Ups' = Ups /\ \A j \in Ups : j \in Instances
      /\ \A j \in Instances, w \in Deployments : Becomes(j, m, w)' <=> Becomes(j, m, w)
  BY <1>1, <1>4, ToldAlikeMeans DEF Ups
<1>6. \A j \in Instances : \A x : Holds(j, m, x)' <=> Holds(j, m, x)
  BY <1>1, <1>3, <1>5 DEF Holds, Early
<1>7. ASSUME EventsOf(m) # {} PROVE \E f \in EventsOf(m) : f.version = deployed[m]
  BY <1>7 DEF Sound, Ordered, LastKnown
<1>8. ASSUME EventsOf(m) = {}, NEW j \in Ups
      PROVE  \A x : Holds(j, m, x) <=> x \in IdsOf(deployed[m])
  <2>1. InWork(m) = {} /\ Queued(m) = {}
    BY <1>8 DEF EventsOf
  <2>2. Follow(m)
    BY <2>1 DEF Reached, Sound
  <2>3. deployed[m] \in Deployments
    BY DEF TInv, StoredTyped
  <2> QED
    BY <2>1, <2>2, <2>3, SettledHolds DEF Holds
<1>9. ASSUME NEW i \in InWork(m)' PROVE WorkerHas(i, m)'
  <2>1. WorkerHas(i, m)
    BY <1>3, <1>9 DEF Left
  <2>2. work[i].event.version \in Deployments
    BY <1>3, <1>9, EventsOfFacts, EventFacts
  <2> QED
    BY <1>1, <1>5, <2>1, <2>2 DEF WorkerHas, Early
<1>10. ASSUME NEW x \in AllIds PROVE Alike(m, x)'
  <2> SUFFICES ASSUME ~Wanted(m, x)' PROVE \A j, k \in Ups : Holds(j, m, x) <=> Holds(k, m, x)
    BY <1>5, <1>6 DEF Alike
  <2>1. \A f \in EventsOf(m) : x \notin IdsOf(f.version)
    BY <1>3 DEF Wanted
  <2>2. CASE EventsOf(m) # {}
    BY <1>7, <2>1, <2>2 DEF Left, Alike, Wanted
  <2>3. CASE EventsOf(m) = {}
    BY <1>8, <2>3
  <2> QED
    BY <2>2, <2>3
<1>11. ASSUME NEW x \in AllIds, WillRun(sent', running'[m], m, x) PROVE Owned(m, x)'
  <2>1. Owned(m, x)
    BY <1>1, <1>11 DEF Left
  <2>2. ASSUME Wanted(m, x) PROVE Wanted(m, x)' \/ NextWill(m, x)'
    <3>1. CASE EventsOf(m) # {}
      <4>1. \E f \in EventsOf(m) : x \in IdsOf(f.version)
        BY <1>7, <2>2, <3>1 DEF Wanted
      <4> QED
        BY <1>3, <4>1 DEF Wanted
    <3>2. CASE EventsOf(m) = {}
      <4>1. x \in IdsOf(deployed[m]) /\ InWork(m) = {}
        BY <2>2, <3>2 DEF Wanted, EventsOf
      <4> QED
        BY <1>3, <1>5, <1>6, <1>8, <3>2, <4>1 DEF NextWill
    <3> QED
      BY <3>1, <3>2
  <2>3. ASSUME NextWill(m, x) PROVE NextWill(m, x)'
    BY <1>1, <1>3, <1>5, <1>6, <2>3 DEF NextWill
  <2>4. WorkerWill(m, x) => WorkerWill(m, x)'
    BY <1>1, <1>3 DEF WorkerWill
  <2>5. \A j \in Ups : NotifierDoes(j, m, x) => NotifierDoes(j, m, x)'
    BY <1>1 DEF NotifierDoes, Note
  <2>6. \A j \in Ups : NotifierWill(j, m, x) => NotifierWill(j, m, x)'
    BY <1>1, <1>3 DEF NotifierWill, TellsRemoval, Rest
  <2> QED
    BY <1>5, <2>1, <2>2, <2>3, <2>4, <2>5, <2>6 DEF Owned
<1>12. \A j \in Instances : CleaningHas(j, m)'
  BY <1>1 DEF Left, CleaningHas, Note
<1> QED
  BY <1>9, <1>10, <1>11, <1>12 DEF Left

(* A worker that takes its scalers out still holds them.                   *)
LEMMA LeftTake ==
  ASSUME TInv, NEW m \in Manifests, Left(m), aux_spoiled'[m] = {},
         NEW i \in Instances, Take(i), m = Head(queue).manifest
  PROVE  Left(m)'
<1> DEFINE e == Head(queue)
           old == scalers[i][m]
<1>1. /\ status[i] = "up" /\ work[i] = Idle /\ e \in EventRec /\ e.manifest = m
      /\ ToSet(queue) = ToSet(queue') \cup {e}
      /\ \A j \in Instances, n \in Manifests : scalers'[j][n] =
           IF j = i /\ n = m THEN None ELSE scalers[j][n]
      /\ work'[i] = Begun(e, old) /\ old \in Deployments
      /\ \A j \in Instances : j # i => work'[j] = work[j]
      /\ aux_spoiled'[m] = aux_spoiled[m] \cup
           (Lag(i, m) \cup IF InWork(m) # {} \/ e.number < aux_last[m] THEN {"overtaken"} ELSE {})
  <2>1. old \in Deployments
    BY DEF TInv, StoredTyped
  <2> QED
    BY <2>1, TakeStep
<1>2. /\ deployed' = deployed
      /\ UNCHANGED <<status, notes, cleaning, sent, running>>
  BY DEF Take, lattice
<1> HIDE DEF e, old
<1>3. /\ work'[i].event = e /\ work'[i].old = old /\ work'[i].cleanup = {}
      /\ work'[i].step = IF Unpublished(e) /\ old = None THEN "tell" ELSE "refresh"
  <2>1. e \in EventRec /\ old \in Deployments /\ work'[i] = Begun(e, old)
    BY <1>1
  <2>2. /\ Begun(e, old).event = e /\ Begun(e, old).old = old /\ Begun(e, old).cleanup = {}
        /\ Begun(e, old).step = IF Unpublished(e) /\ old = None THEN "tell" ELSE "refresh"
    BY DEF Begun, Idle
  <2> QED
    BY <2>1, <2>2
<1>4. InWork(m) = {} /\ ~Behind(i, m)
  BY <1>1 DEF Lag
<1>5. InWork(m)' = {i}
  BY <1>1, <1>3, <1>4 DEF InWork
<1>6. \A f : f \in EventsOf(m)' <=> f \in EventsOf(m)
  BY <1>1, <1>3, <1>4, <1>5 DEF EventsOf, Queued
<1>7. \A x : Wanted(m, x)' <=> Wanted(m, x)
  BY <1>2, <1>6 DEF Wanted
<1>8. Free(notes[i], m) /\ Free(Rest(i), m) /\ notes[i] \in Seq(NoteRec) /\ Rest(i) \in Seq(NoteRec)
  <2>1. /\ notes[i] \in Seq(NoteRec) /\ Rest(i) \in Seq(NoteRec)
        /\ cleaning[i] # None => notes[i] # <<>>
    BY RestFacts
  <2>2. Free(notes[i], m)
    <3>1. DOMAIN notes[i] = 1 .. Len(notes[i])
      BY <2>1, SeqElems
    <3> QED
      BY <1>4, <3>1 DEF Behind, Free
  <2>3. cleaning[i] # None => Free(Tail(notes[i]), m)
    BY <2>1, <2>2, TailMeans
  <2> QED
    BY <2>1, <2>2, <2>3 DEF Rest
<1>9. \A x : Holds(i, m, x) <=> x \in IdsOf(old)
  <2>1. \A v : Becomes(i, m, v) <=> v = old
    BY <1>8, NotesMean DEF Becomes, old
  <2> QED
    BY <1>1, <1>4, <2>1 DEF Holds
<1>10. \A x : Holds(i, m, x)' <=> x \in IdsOf(old)
  BY <1>3, <1>5 DEF Holds, Early
<1>11. ASSUME NEW j \in Instances, j # i
       PROVE  ToldAlike(j, m) /\ \A x : Holds(j, m, x)' <=> Holds(j, m, x)
  <2>1. ToldAlike(j, m)
    BY <1>1, <1>2, <1>11, SameIsAlike
  <2> QED
    BY <1>4, <1>5, <1>11, <2>1, ToldAlikeMeans DEF Holds
<1>12. Ups' = Ups /\ i \in Ups /\ \A j \in Ups : j \in Instances
  BY <1>1, <1>2 DEF Ups
<1>13. WorkerHas(i, m)'
  BY <1>1, <1>2, <1>3, <1>8 DEF WorkerHas, Early, Unpublished
<1>14. \A j \in Instances : CleaningHas(j, m)'
  BY <1>1, <1>2 DEF Left, CleaningHas, Note
<1>15. \A x : \A j \in Ups : Holds(j, m, x)' <=> Holds(j, m, x)
  BY <1>9, <1>10, <1>11, <1>12
<1>16. ASSUME NEW x \in AllIds PROVE Alike(m, x)'
  BY <1>7, <1>12, <1>15 DEF Left, Alike
<1>17. ASSUME NEW x \in AllIds, WillRun(sent', running'[m], m, x) PROVE Owned(m, x)'
  <2>1. Owned(m, x)
    BY <1>2, <1>17 DEF Left
  <2>2. ASSUME NextWill(m, x) PROVE NextWill(m, x)'
    <3>1. Holds(i, m, x) /\ EventsOf(m) # {}
      BY <1>12, <2>2 DEF NextWill
    <3>2. old # None
      BY <1>9, <3>1, VersionFacts
    <3>3. work'[i].step = "refresh" /\ EventsOf(m)' # {}
      BY <1>3, <1>6, <3>1, <3>2
    <3> QED
      BY <1>5, <1>12, <1>15, <2>2, <3>3 DEF NextWill
  <2>3. ~WorkerWill(m, x) /\ ~TellsRemoval(m)
    BY <1>4 DEF WorkerWill, TellsRemoval
  <2>4. \A j \in Ups : NotifierDoes(j, m, x) => NotifierDoes(j, m, x)'
    BY <1>2 DEF NotifierDoes, Note
  <2>5. ASSUME NEW j \in Ups, NotifierWill(j, m, x) PROVE NotifierWill(j, m, x)'
    <3>1. DeleteFirst(Rest(j), m) /\ j # i /\ j \in Instances
      BY <1>8, <1>12, <2>3, <2>5, NotesMean DEF NotifierWill
    <3>2. scalers'[j][m] = scalers[j][m] /\ Rest(j)' = Rest(j)
      BY <1>1, <1>2, <3>1 DEF Rest
    <3> QED
      BY <2>5, <3>1, <3>2 DEF NotifierWill
  <2> QED
    BY <1>7, <1>12, <2>1, <2>2, <2>3, <2>4, <2>5 DEF Owned
<1> QED
  BY <1>5, <1>13, <1>14, <1>16, <1>17 DEF Left
-----------------------------------------------------------------------------
LEMMA WorkingOn ==
  ASSUME TInv, NEW m \in Manifests, Left(m), Sound(m),
         NEW i \in Instances, Busy(i), m = work[i].event.manifest
  PROVE  /\ InWork(m) = {i} /\ i \in Ups /\ WorkerHas(i, m)
         /\ work[i].event \in EventRec /\ work[i].event \in EventsOf(m)
         /\ \A j \in Ups : j \in Instances
         /\ \A j \in InWork(m) : j = i
<1>1. i \in InWork(m)
  BY EventsOfFacts
<1>2. InWork(m) = {i}
  BY <1>1 DEF Sound, InOrder, OneAtWork
<1> QED
  BY <1>1, <1>2, EventsOfFacts DEF Left, Ups

(* An instance that has nothing to be told.                                *)
LEMMA NothingTold ==
  ASSUME TInv, NEW j \in Instances, NEW m, Free(notes[j], m)
  PROVE  /\ Free(Rest(j), m) /\ ~DeleteFirst(Rest(j), m) /\ ~CleansFor(j, m)
         /\ \A v : Becomes(j, m, v) <=> scalers[j][m] = v
         /\ \A x : ~NotifierDoes(j, m, x)
<1>1. /\ notes[j] \in Seq(NoteRec) /\ Rest(j) \in Seq(NoteRec)
      /\ cleaning[j] # None => notes[j] # <<>>
  BY RestFacts
<1>2. Free(Rest(j), m)
  BY <1>1, TailMeans DEF Rest
<1>3. ~DeleteFirst(Rest(j), m) /\ \A v : ~Ends(Rest(j), m, v)
  BY <1>1, <1>2, NotesMean
<1>4. ~CleansFor(j, m)
  BY <1>1, TailMeans DEF CleansFor, Note
<1>5. \A x : ~NotifierDoes(j, m, x)
  BY <1>4 DEF CleansFor, NotifierDoes
<1> QED
  BY <1>2, <1>3, <1>4, <1>5 DEF Becomes

LEMMA WillRunStopped ==
  ASSUME NEW s \in Seq(BatchRec), NEW m \in Manifests, NEW ids, ids \subseteq AllIds, NEW here,
         NEW x, NEW b, b = Batch(FALSE, m, ids), WillRun(s \o Publish(b), here, m, x)
  PROVE  x \notin ids /\ WillRun(s, here, m, x)
<1> DEFINE make == FALSE
<1>1. make \in BOOLEAN /\ ~make
  OBVIOUS
<1> HIDE DEF make
<1>2. WillRun(s \o Publish(Batch(make, m, ids)), here, m, x) <=>
        IF m = m /\ x \in ids THEN make ELSE WillRun(s, here, m, x)
  BY <1>1, WillRunPublish
<1> QED
  BY <1>1, <1>2 DEF make

LEMMA WillRunMade ==
  ASSUME NEW s \in Seq(BatchRec), NEW m \in Manifests, NEW ids, ids \subseteq AllIds, NEW here,
         NEW x, NEW b, b = Batch(TRUE, m, ids), WillRun(s \o Publish(b), here, m, x)
  PROVE  x \in ids \/ WillRun(s, here, m, x)
<1> DEFINE make == TRUE
<1>1. make \in BOOLEAN /\ make
  OBVIOUS
<1> HIDE DEF make
<1>2. WillRun(s \o Publish(Batch(make, m, ids)), here, m, x) <=>
        IF m = m /\ x \in ids THEN make ELSE WillRun(s, here, m, x)
  BY <1>1, WillRunPublish
<1> QED
  BY <1>1, <1>2 DEF make

(* What is outdated and runs is stopped now or later.                      *)
LEMMA LeftRefresh ==
  ASSUME TInv, NEW m \in Manifests, Left(m), Sound(m), aux_spoiled'[m] = {},
         NEW i \in Instances, Refresh(i), m = work[i].event.manifest
  PROVE  Left(m)'
<1> DEFINE e == work[i].event
           old == work[i].old
           out == Outdated(i)
           ids == out \cap running[m]
<1>1. /\ TInv' /\ work[i].step = "refresh" /\ Busy(i)
      /\ \A j \in Instances : j # i => work'[j] = work[j]
      /\ work'[i].step = "tell" /\ work'[i].event = e /\ work'[i].old = old
      /\ work'[i].cleanup = IF Unpublished(e) THEN {} ELSE ids
      /\ \A j \in Instances, n \in Manifests : scalers'[j][n] =
           IF j = i /\ n = m THEN e.version ELSE scalers[j][n]
      /\ sent' = IF Unpublished(e) THEN sent \o Publish(ToStop(m, out)) ELSE sent
      /\ aux_spoiled'[m] = aux_spoiled[m] \cup IF OnItsWay(m, out) THEN {"in flight"} ELSE {}
  <2>1. \A n \in Manifests : aux_spoiled'[n] = aux_spoiled[n] \cup
          IF n = e.manifest /\ OnItsWay(e.manifest, out) THEN {"in flight"} ELSE {}
    BY RefreshStep
  <2>2. /\ TInv' /\ work[i].step = "refresh" /\ Busy(i)
        /\ \A j \in Instances : j # i => work'[j] = work[j]
        /\ work'[i].step = "tell" /\ work'[i].event = e /\ work'[i].old = old
        /\ work'[i].cleanup = IF Unpublished(e) THEN {} ELSE out \cap running[e.manifest]
        /\ \A j \in Instances, n \in Manifests : scalers'[j][n] =
             IF j = i /\ n = e.manifest THEN e.version ELSE scalers[j][n]
        /\ sent' = IF Unpublished(e) THEN sent \o Publish(ToStop(e.manifest, out)) ELSE sent
    BY RefreshStep
  <2>3. m = e.manifest
    OBVIOUS
  <2> HIDE DEF e, old, out
  <2>4. aux_spoiled'[m] = aux_spoiled[m] \cup IF OnItsWay(m, out) THEN {"in flight"} ELSE {}
    BY <2>1, <2>3
  <2>5. work'[i].cleanup = IF Unpublished(e) THEN {} ELSE ids
    BY <2>2, <2>3
  <2>6. sent' = IF Unpublished(e) THEN sent \o Publish(ToStop(m, out)) ELSE sent
    BY <2>2, <2>3
  <2>7. \A j \in Instances, n \in Manifests : scalers'[j][n] =
          IF j = i /\ n = m THEN e.version ELSE scalers[j][n]
    BY <2>2, <2>3
  <2> QED
    BY <2>2, <2>4, <2>5, <2>6, <2>7
<1>2. UNCHANGED <<deployed, queue, status, notes, cleaning, running>>
  BY DEF Refresh
<1>3. /\ InWork(m) = {i} /\ i \in Ups /\ WorkerHas(i, m) /\ e \in EventsOf(m)
      /\ \A j \in Ups : j \in Instances
  BY <1>1, WorkingOn
<1>4. /\ out = IdsOf(old) \ IdsOf(e.version) /\ out \in SUBSET AllIds
      /\ old \in Deployments /\ e \in EventRec /\ work[i].cleanup = {}
      /\ ToStop(m, out) = Batch(FALSE, m, ids) /\ ids \in SUBSET AllIds
  <2>1. /\ out = IdsOf(old) \ IdsOf(e.version) /\ out \in SUBSET AllIds
        /\ old \in Deployments /\ e \in EventRec /\ work[i].cleanup = {}
    BY <1>1, WorkFacts DEF Outdated, TInv, Busy
  <2>2. ToStop(m, out) = Batch(FALSE, m, ids) /\ ids \in SUBSET AllIds
    BY <2>1, ToMakeFacts, VersionFacts DEF TInv
  <2> QED
    BY <2>1, <2>2
<1>5. Free(notes[i], m) /\ Free(Rest(i), m) /\ ~DeleteFirst(Rest(i), m) /\ ~CleansFor(i, m)
  <2>1. Early(i) /\ WorkerHas(i, m)
    BY <1>1, <1>3 DEF Early
  <2>2. Free(notes[i], m)
    BY <2>1 DEF WorkerHas
  <2> HIDE DEF e, old, out, ids
  <2>3. PICK k : k = m
    OBVIOUS
  <2>4. Free(notes[i], k)
    BY <2>2, <2>3
  <2>5. Free(Rest(i), k) /\ ~DeleteFirst(Rest(i), k) /\ ~CleansFor(i, k)
    BY <2>4, NothingTold
  <2> QED
    BY <2>2, <2>3, <2>5
<1>6. ~OnItsWay(m, out)
  BY <1>1
<1> HIDE DEF e, old, out, ids
<1>7. InWork(m)' = {i}
  <2>1. \A j \in Instances : work'[j].event = work[j].event
    BY <1>1 DEF e
  <2>2. InWork(m)' = InWork(m)
    BY <2>1 DEF InWork
  <2> QED
    BY <1>3, <2>2
<1>8. EventsOf(m)' = EventsOf(m)
  <2>1. \A f : f \in EventsOf(m)' <=> f \in Queued(m)' \/ f = work'[i].event
    BY <1>7 DEF EventsOf
  <2>2. \A f : f \in EventsOf(m) <=> f \in Queued(m) \/ f = work[i].event
    BY <1>3 DEF EventsOf
  <2>3. Queued(m)' = Queued(m) /\ work'[i].event = work[i].event
    BY <1>1, <1>2 DEF Queued, e
  <2> QED
    BY <2>1, <2>2, <2>3
<1>9. \A x : Wanted(m, x)' <=> Wanted(m, x)
  BY <1>2, <1>8 DEF Wanted
<1>10. Ups' = Ups
  BY <1>2 DEF Ups
<1>11. ASSUME NEW j \in Instances PROVE \A x : Holds(j, m, x)' <=> Holds(j, m, x)
  <2>1. CASE j = i
    <3>1. Early(i) /\ Early(i)' /\ work'[i].old = work[i].old
      BY <1>1 DEF Early, old
    <3>2. i \in InWork(m) /\ i \in InWork(m)'
      BY <1>3, <1>7
    <3> QED
      BY <2>1, <3>1, <3>2 DEF Holds
  <2>2. CASE j # i
    <3>1. ToldAlike(j, m)
      BY <1>1, <1>2, <2>2, SameIsAlike
    <3> QED
      BY <1>3, <1>7, <2>2, <3>1, ToldAlikeMeans DEF Holds
  <2> QED
    BY <2>1, <2>2
<1>12. \A k \in InWork(m)' : WorkerHas(k, m)'
  BY <1>1, <1>2, <1>5, <1>7 DEF WorkerHas
<1>13. ASSUME NEW j \in Instances PROVE CleaningHas(j, m)'
  <2>1. CASE j = i
    BY <1>2, <1>5, <2>1 DEF CleaningHas, CleansFor, Note
  <2>2. CASE j # i
    BY <1>1, <1>2, <2>2 DEF Left, CleaningHas, Note
  <2> QED
    BY <2>1, <2>2
<1>14. ASSUME NEW x \in AllIds PROVE Alike(m, x)'
  BY <1>3, <1>9, <1>10, <1>11 DEF Left, Alike
<1>15. ASSUME NEW x \in AllIds, WillRun(sent', running'[m], m, x) PROVE Owned(m, x)'
  <2>1. WillRun(sent, running[m], m, x) /\ (Unpublished(e) => x \notin ids)
    <3>1. CASE Unpublished(e)
      <4>1. sent' = sent \o Publish(ToStop(m, out)) /\ running' = running
        BY <1>1, <1>2, <3>1
      <4>2. sent \in Seq(BatchRec) /\ ids \subseteq AllIds /\ ToStop(m, out) = Batch(FALSE, m, ids)
        BY <1>4 DEF TInv, LatticeTyped
      <4>3. WillRun(sent \o Publish(ToStop(m, out)), running[m], m, x)
        BY <1>15, <4>1
      <4>4. x \notin ids /\ WillRun(sent, running[m], m, x)
        BY <4>2, <4>3, WillRunStopped
      <4> QED
        BY <4>4
    <3>2. CASE ~Unpublished(e)
      BY <1>1, <1>2, <1>15, <3>2
    <3> QED
      BY <3>1, <3>2
  <2>2. x \in out => ~Unpublished(e) /\ x \in ids
    <3>1. x \in out => x \in running[m]
      BY <1>6, <2>1, RunsNow
    <3> QED
      BY <2>1, <3>1 DEF ids
  <2>3. Owned(m, x)
    BY <2>1 DEF Left
  <2>4. ASSUME x \in out PROVE WorkerWill(m, x)'
    <3>1. work'[i].cleanup = ids /\ x \in ids
      BY <1>1, <2>2, <2>4
    <3> QED
      BY <1>7, <3>1 DEF WorkerWill
  <2>5. ASSUME x \notin out, NextWill(m, x) PROVE Wanted(m, x)'
    <3>1. x \in IdsOf(old)
      BY <1>1, <1>3, <2>5 DEF NextWill, Holds, Early, old
    <3>2. x \in IdsOf(e.version)
      BY <1>4, <2>5, <3>1
    <3> QED
      BY <1>3, <1>9, <3>2 DEF Wanted
  <2>6. ~WorkerWill(m, x) /\ ~TellsRemoval(m)
    BY <1>1, <1>3, <1>4 DEF WorkerWill, TellsRemoval
  <2>7. \A j \in Ups : NotifierDoes(j, m, x) => NotifierDoes(j, m, x)'
    BY <1>2 DEF NotifierDoes, Note
  <2>8. ASSUME NEW j \in Ups, NotifierWill(j, m, x) PROVE NotifierWill(j, m, x)'
    <3>1. DeleteFirst(Rest(j), m) /\ j # i /\ j \in Instances
      BY <1>3, <1>5, <2>6, <2>8 DEF NotifierWill
    <3>2. scalers'[j][m] = scalers[j][m] /\ Rest(j)' = Rest(j)
      BY <1>1, <1>2, <3>1 DEF Rest
    <3> QED
      BY <2>8, <3>1, <3>2 DEF NotifierWill
  <2> QED
    BY <1>9, <1>10, <2>3, <2>4, <2>5, <2>6, <2>7, <2>8 DEF Owned
<1> QED
  BY <1>12, <1>13, <1>14, <1>15 DEF Left

(* A worker that gives its event back, to be handled again by whoever will *)
(* take it, has left nothing to clean up.                                  *)
LEMMA GivesBack ==
  ASSUME TInv, NEW m \in Manifests, Left(m), Sound(m),
         NEW i \in Instances, Busy(i), m = work[i].event.manifest, work[i].cleanup = {},
         UNCHANGED <<status, notes, cleaning, sent, running>>,
         deployed'[m] = deployed[m], EventsAlike(m), InWork(m)' = {},
         \A j \in Instances : j # i => scalers'[j][m] = scalers[j][m],
         scalers'[i][m] = scalers[i][m] \/ Free(notes[i], m),
         \A x \in AllIds : ~Wanted(m, x) => (Holds(i, m, x)' <=> Holds(i, m, x))
  PROVE  Left(m)'
<1>1. /\ InWork(m) = {i} /\ i \in Ups /\ WorkerHas(i, m) /\ work[i].event \in EventsOf(m)
      /\ \A j \in Ups : j \in Instances
  BY WorkingOn
<1>2. /\ \A x : Wanted(m, x)' <=> Wanted(m, x)
      /\ EventsOf(m)' # {} /\ Ups' = Ups
  BY <1>1, WantedAlike DEF Ups
<1>3. ASSUME NEW j \in Instances, j # i
      PROVE  ToldAlike(j, m) /\ \A x : Holds(j, m, x)' <=> Holds(j, m, x)
  <2>1. ToldAlike(j, m)
    BY <1>3, SameIsAlike
  <2> QED
    BY <1>1, <1>3, <2>1, ToldAlikeMeans DEF Holds
<1>4. \A x \in AllIds : ~Wanted(m, x) =>
        \A j \in Ups : Holds(j, m, x)' <=> Holds(j, m, x)
  BY <1>1, <1>3
<1>5. ASSUME NEW j \in Instances PROVE CleaningHas(j, m)'
  <2>1. CASE scalers'[j][m] = scalers[j][m]
    BY <2>1 DEF Left, CleaningHas, Note
  <2>2. CASE scalers'[j][m] # scalers[j][m]
    <3>1. ~CleansFor(j, m)
      BY <2>2, NothingTold
    <3> QED
      BY <3>1 DEF CleaningHas, CleansFor, Note
  <2> QED
    BY <2>1, <2>2
<1>6. ASSUME NEW x \in AllIds PROVE Alike(m, x)'
  BY <1>2, <1>4, <1>6 DEF Left, Alike
<1>7. ASSUME NEW x \in AllIds, WillRun(sent', running'[m], m, x) PROVE Owned(m, x)'
  <2>1. Owned(m, x)
    BY <1>7 DEF Left
  <2>2. ASSUME ~Wanted(m, x), \A j \in Ups : Holds(j, m, x) PROVE NextWill(m, x)'
    BY <1>2, <1>4, <2>2 DEF NextWill
  <2>3. NextWill(m, x) => Wanted(m, x)' \/ NextWill(m, x)'
    BY <1>2, <2>2 DEF NextWill
  <2>4. ~WorkerWill(m, x)
    BY <1>1 DEF WorkerWill
  <2>5. \A j \in Ups : NotifierDoes(j, m, x) => NotifierDoes(j, m, x)'
    BY DEF NotifierDoes, Note
  <2>6. ASSUME NEW j \in Ups, NotifierWill(j, m, x), DeleteFirst(Rest(j), m)
        PROVE  NotifierWill(j, m, x)'
    <3>1. scalers'[j][m] = scalers[j][m]
      BY <1>1, <2>6, NothingTold
    <3> QED
      BY <2>6, <3>1 DEF NotifierWill, Rest
  <2>7. ASSUME NEW j \in Ups, NotifierWill(j, m, x), ~DeleteFirst(Rest(j), m)
        PROVE  Wanted(m, x)' \/ NextWill(m, x)'
    <3>1. /\ Free(Rest(j), m) /\ x \in IdsOf(scalers[j][m])
          /\ work[i].step = "tell" /\ Unpublished(work[i].event) /\ j \in Instances
      BY <1>1, <2>7 DEF NotifierWill, TellsRemoval
    <3>2. j # i
      BY <1>1, <3>1, VersionFacts DEF WorkerHas, Unpublished
    <3>3. scalers[j][m] \in Deployments
      BY <3>1 DEF TInv, StoredTyped
    <3>4. Holds(j, m, x)
      BY <1>1, <3>1, <3>2, <3>3 DEF Holds, Becomes
    <3>5. CASE Wanted(m, x)
      BY <1>2, <3>5
    <3>6. CASE ~Wanted(m, x)
      BY <2>2, <3>4, <3>6 DEF Left, Alike
    <3> QED
      BY <3>5, <3>6
  <2> QED
    BY <1>2, <2>1, <2>3, <2>4, <2>5, <2>6, <2>7 DEF Owned
<1> QED
  BY <1>5, <1>6, <1>7 DEF Left
-----------------------------------------------------------------------------
(* Unless it is given up, an event that is not acknowledged is there again.*)
LEMMA FailsEvents ==
  ASSUME TInv, Numbered, NEW m \in Manifests, Left(m), Sound(m), aux_spoiled'[m] = {},
         NEW i \in Instances, Busy(i), m = work[i].event.manifest,
         NEW why \in SUBSET Reasons, Fails(i, why)
  PROVE  /\ EventsAlike(m) /\ InWork(m)' = {} /\ why = {} /\ deployed'[m] = deployed[m]
         /\ UNCHANGED <<status, notes, cleaning, sent, running>>
<1> DEFINE e == work[i].event
<1>1. /\ work'[i] = Idle /\ \A j \in Instances : j # i => work'[j] = work[j]
      /\ queue' = IF work[i].late THEN queue ELSE Requeue(e)
      /\ ToSet(queue) \subseteq ToSet(queue')
      /\ \A f \in ToSet(queue') : f \in ToSet(queue) \/ Copy(f, e)
      /\ \A n \in Manifests : aux_spoiled'[n] = aux_spoiled[n] \cup
           IF n = e.manifest THEN why \cup (IF work[i].late THEN {} ELSE GivenUp(e)) ELSE {}
  BY NackTyped DEF Fails
<1>2. UNCHANGED <<deployed, status, notes, cleaning, sent, running>>
  BY DEF Fails, lattice
<1>3. /\ InWork(m) = {i} /\ e \in EventsOf(m) /\ e \in EventRec
      /\ \A j \in InWork(m) : j = i
  BY WorkingOn
<1>4. work'[i].event = NoEvent /\ NoEvent.manifest # m
  BY <1>1, IdleFacts, EventFacts
<1>5. e.manifest = m /\ work[i].late \in BOOLEAN /\ queue \in Seq(EventRec)
  BY WorkFacts DEF TInv, StoredTyped
<1> HIDE DEF e
<1>6. InWork(m)' = {}
  BY <1>1, <1>3, <1>4 DEF InWork
<1>7. why = {} /\ (~work[i].late => GivenUp(e) = {})
  BY <1>1, <1>5
<1>8. \E f \in ToSet(queue') : Copy(f, e)
  <2>1. CASE work[i].late
    <3>1. PICK f \in Queued(m) : f.number = e.number
      BY <1>3, <2>1 DEF Sound, InOrder, LateAgain, e
    <3>2. f \in ToSet(queue) /\ f.manifest = e.manifest /\ f.version = e.version
      BY <3>1, NumberTells DEF Queued, e
    <3> QED
      BY <1>1, <3>1, <3>2 DEF Copy
  <2>2. CASE ~work[i].late
    <3>1. e.tries < MaxDeliver
      BY <1>7, <2>2 DEF GivenUp
    <3> QED
      BY <1>1, <1>3, <1>5, <2>2, <3>1, RequeueFacts
  <2> QED
    BY <2>1, <2>2
<1>9. \A f : f \in EventsOf(m)' <=> f \in ToSet(queue') /\ f.manifest = m
  BY <1>6 DEF EventsOf, Queued
<1>10. \A f : f \in EventsOf(m) <=> (f \in ToSet(queue) /\ f.manifest = m) \/ f = e
  BY <1>3 DEF EventsOf, Queued, e
<1>11. EventsAlike(m)
  <2>1. ASSUME NEW f \in EventsOf(m)' PROVE \E g \in EventsOf(m) : Copy(f, g)
    <3>1. f \in EventsOf(m) \/ Copy(f, e)
      BY <1>1, <1>9, <1>10, <2>1
    <3> QED
      BY <1>3, <3>1, CopyFacts
  <2>2. ASSUME NEW g \in EventsOf(m) PROVE \E f \in EventsOf(m)' : Copy(f, g)
    <3>1. CASE g = e
      <4>1. PICK f \in ToSet(queue') : Copy(f, e)
        BY <1>8
      <4>2. f.manifest = m
        BY <1>5, <4>1 DEF Copy
      <4> QED
        BY <1>9, <3>1, <4>1, <4>2
    <3>2. CASE g # e
      BY <1>1, <1>9, <1>10, <2>2, <3>2, CopyFacts
    <3> QED
      BY <3>1, <3>2
  <2> QED
    BY <2>1, <2>2 DEF EventsAlike
<1> QED
  BY <1>2, <1>6, <1>7, <1>11

(* The scalers of a refresh that failed are gone, but it outdates nothing. *)
LEMMA LeftRefreshFails ==
  ASSUME TInv, Numbered, NEW m \in Manifests, Left(m), Sound(m), aux_spoiled'[m] = {},
         NEW i \in Instances, RefreshFails(i), m = work[i].event.manifest
  PROVE  Left(m)'
<1> DEFINE why == IF Outdated(i) = {} THEN {} ELSE {"forgotten"}
<1>1. /\ work[i].step = "refresh" /\ Busy(i) /\ scalers' = scalers
      /\ why \in SUBSET Reasons /\ Fails(i, why)
  BY RefreshFailsStep
<1> HIDE DEF why
<1>2. /\ EventsAlike(m) /\ InWork(m)' = {} /\ why = {} /\ deployed'[m] = deployed[m]
      /\ UNCHANGED <<status, notes, cleaning, sent, running>>
  BY <1>1, FailsEvents
<1>3. /\ InWork(m) = {i} /\ WorkerHas(i, m) /\ work[i].event \in EventsOf(m)
      /\ work[i].cleanup = {}
  BY <1>1, WorkingOn, WorkFacts DEF TInv
<1>4. Free(notes[i], m) /\ scalers[i][m] = None
  BY <1>1, <1>3 DEF WorkerHas, Early
<1>5. IdsOf(work[i].old) \subseteq IdsOf(work[i].event.version)
  BY <1>2 DEF why, Outdated
<1>6. ASSUME NEW x \in AllIds, ~Wanted(m, x) PROVE ~Holds(i, m, x) /\ ~Holds(i, m, x)'
  <2>1. x \notin IdsOf(work[i].old)
    BY <1>3, <1>5, <1>6 DEF Wanted
  <2>2. ~Holds(i, m, x)
    BY <1>1, <1>3, <2>1 DEF Holds, Early
  <2>3. \A v : Becomes(i, m, v)' <=> v = None
    <3>1. ToldAlike(i, m)
      BY <1>1, <1>2, SameIsAlike
    <3> QED
      BY <1>4, <3>1, NothingTold, ToldAlikeMeans
  <2>4. ~Holds(i, m, x)'
    BY <1>2, <2>3, VersionFacts DEF Holds
  <2> QED
    BY <2>2, <2>4
<1> QED
  BY <1>1, <1>2, <1>3, <1>4, <1>6, GivesBack

(* The scalers that are put back become what they were.                    *)
LEMMA PutBackHolds ==
  ASSUME TInv, NEW m \in Manifests, NEW i \in Instances, Free(notes[i], m),
         InWork(m) = {i}, Early(i), InWork(m)' = {}, UNCHANGED <<notes, cleaning>>,
         scalers'[i][m] = work[i].old
  PROVE  \A x : Holds(i, m, x)' <=> Holds(i, m, x)
<1>1. \A x : Holds(i, m, x) <=> x \in IdsOf(work[i].old)
  BY DEF Holds
<1>2. Free(Rest(i), m) /\ Rest(i) \in Seq(NoteRec) /\ Rest(i)' = Rest(i)
  BY NothingTold, RestFacts DEF Rest
<1>3. \A v : Becomes(i, m, v)' <=> v = work[i].old
  BY <1>2, NotesMean DEF Becomes
<1>4. work[i].old \in Deployments
  BY WorkFacts DEF TInv
<1>5. \A x : Holds(i, m, x)' <=> x \in IdsOf(work[i].old)
  BY <1>3, <1>4 DEF Holds
<1> QED
  BY <1>1, <1>5

LEMMA LeftCleanUpFails ==
  ASSUME TInv, Numbered, NEW m \in Manifests, Left(m), Sound(m), aux_spoiled'[m] = {},
         NEW i \in Instances, CleanUpFails(i), m = work[i].event.manifest
  PROVE  Left(m)'
<1>1. /\ work[i].step = "refresh" /\ Busy(i) /\ Fails(i, {}) /\ {} \in SUBSET Reasons
      /\ \A j \in Instances, n \in Manifests : scalers'[j][n] =
           IF j = i /\ n = m /\ work[i].old # None THEN work[i].old ELSE scalers[j][n]
  BY CleanUpFailsStep
<1>2. /\ EventsAlike(m) /\ InWork(m)' = {} /\ deployed'[m] = deployed[m]
      /\ UNCHANGED <<status, notes, cleaning, sent, running>>
  BY <1>1, FailsEvents
<1>3. /\ InWork(m) = {i} /\ WorkerHas(i, m) /\ work[i].cleanup = {}
  BY <1>1, WorkingOn, WorkFacts DEF TInv
<1>4. Free(notes[i], m) /\ scalers[i][m] = None /\ Early(i)
  BY <1>1, <1>3 DEF WorkerHas, Early
<1>5. scalers'[i][m] = work[i].old /\ \A j \in Instances : j # i => scalers'[j][m] = scalers[j][m]
  BY <1>1, <1>4
<1>6. \A x : Holds(i, m, x)' <=> Holds(i, m, x)
  BY <1>2, <1>3, <1>4, <1>5, PutBackHolds
<1> QED
  BY <1>1, <1>2, <1>3, <1>4, <1>5, <1>6, GivesBack

LEMMA LeftTellFails ==
  ASSUME TInv, Numbered, NEW m \in Manifests, Left(m), Sound(m), aux_spoiled'[m] = {},
         NEW i \in Instances, TellFails(i), m = work[i].event.manifest
  PROVE  Left(m)'
<1> DEFINE e == work[i].event
           why == IF Unpublished(e) \/ Outdated(i) = {} THEN {} ELSE {"forgotten"}
<1>1. /\ work[i].step = "tell" /\ Busy(i)
      /\ why \in SUBSET Reasons /\ Fails(i, why)
      /\ \A j \in Instances, n \in Manifests : scalers'[j][n] =
           IF j = i /\ n = m /\ Unpublished(e) /\ work[i].old # None
           THEN work[i].old ELSE scalers[j][n]
  BY TellFailsStep
<1> HIDE DEF e, why
<1>2. /\ EventsAlike(m) /\ InWork(m)' = {} /\ why = {} /\ deployed'[m] = deployed[m]
      /\ UNCHANGED <<status, notes, cleaning, sent, running>>
  BY <1>1, FailsEvents
<1>3. /\ InWork(m) = {i} /\ WorkerHas(i, m) /\ e \in EventsOf(m)
      /\ work[i].cleanup \subseteq Outdated(i)
      /\ Unpublished(e) => work[i].cleanup = {}
  BY <1>1, WorkingOn, WorkFacts DEF TInv, e
<1>4. Free(notes[i], m) /\ scalers[i][m] = e.version /\ Early(i)
  BY <1>1, <1>3 DEF WorkerHas, Early, e
<1>5. \A j \in Instances : j # i => scalers'[j][m] = scalers[j][m]
  BY <1>1
<1>6. CASE Unpublished(e)
  <2>1. scalers'[i][m] = work[i].old
    BY <1>1, <1>4, <1>6 DEF Unpublished
  <2>2. \A x : Holds(i, m, x)' <=> Holds(i, m, x)
    BY <1>2, <1>3, <1>4, <2>1, PutBackHolds
  <2> QED
    BY <1>1, <1>2, <1>3, <1>4, <1>5, <1>6, <2>2, GivesBack
<1>7. CASE ~Unpublished(e)
  <2>1. Outdated(i) = {} /\ work[i].cleanup = {}
    BY <1>2, <1>3, <1>7 DEF why
  <2>2. IdsOf(work[i].old) \subseteq IdsOf(e.version)
    BY <2>1 DEF Outdated, e
  <2>3. scalers'[i][m] = e.version
    BY <1>1, <1>4, <1>7
  <2>4. ASSUME NEW x \in AllIds, ~Wanted(m, x) PROVE ~Holds(i, m, x) /\ ~Holds(i, m, x)'
    <3>1. x \notin IdsOf(e.version)
      BY <1>3, <2>4 DEF Wanted
    <3>2. ~Holds(i, m, x)
      BY <1>3, <1>4, <2>2, <3>1 DEF Holds
    <3>3. Free(Rest(i), m) /\ Rest(i) \in Seq(NoteRec) /\ Rest(i)' = Rest(i)
      BY <1>2, <1>4, NothingTold, RestFacts DEF Rest
    <3>4. \A v : Becomes(i, m, v)' <=> v = e.version
      BY <2>3, <3>3, NotesMean DEF Becomes
    <3>5. ~Holds(i, m, x)'
      BY <1>2, <3>1, <3>4 DEF Holds
    <3> QED
      BY <3>2, <3>5
  <2> QED
    BY <1>1, <1>2, <1>3, <1>4, <1>5, <2>1, <2>4, GivesBack
<1> QED
  BY <1>6, <1>7

LEMMA LeftCommandsFail ==
  ASSUME TInv, Numbered, NEW m \in Manifests, Left(m), Sound(m), aux_spoiled'[m] = {},
         NEW i \in Instances, CommandsFail(i) \/ ScalersGone(i), m = work[i].event.manifest
  PROVE  Left(m)'
<1>1. /\ work[i].step = "reconcile" /\ Busy(i) /\ scalers' = scalers
      /\ Lost(i) \in SUBSET Reasons /\ Fails(i, Lost(i))
  BY CommandsFailStep
<1>2. /\ EventsAlike(m) /\ InWork(m)' = {} /\ Lost(i) = {} /\ deployed'[m] = deployed[m]
      /\ UNCHANGED <<status, notes, cleaning, sent, running>>
  BY <1>1, FailsEvents
<1>3. InWork(m) = {i} /\ work[i].cleanup = {}
  BY <1>1, <1>2, WorkingOn DEF Lost
<1>4. \A x : Holds(i, m, x)' <=> Holds(i, m, x)
  <2>1. ToldAlike(i, m)
    BY <1>1, <1>2, SameIsAlike
  <2>2. ~Early(i)
    BY <1>1 DEF Early
  <2> QED
    BY <1>2, <2>1, <2>2, ToldAlikeMeans DEF Holds
<1> QED
  BY <1>1, <1>2, <1>3, <1>4, GivesBack
-----------------------------------------------------------------------------
(* What all instances are told of a manifest is the last that they know.   *)
LEMMA TellMeans ==
  ASSUME TInv, NEW m \in Manifests, NEW i \in Instances, Tell(i), m = work[i].event.manifest
  PROVE  LET e == work[i].event
         IN  /\ UNCHANGED <<deployed, status, scalers, cleaning, sent, running>>
             /\ \A j \in Instances : cleaning[j] # None => Note(j)' = Note(j)
             /\ Ups' = Ups /\ \A j \in Ups : j \in Instances
             /\ \A j \in Ups : \A v : Becomes(j, m, v)' <=> v = e.version
             /\ \A j \in Ups : DeleteFirst(Rest(j)', m) <=>
                  DeleteFirst(Rest(j), m) \/ (Free(Rest(j), m) /\ Unpublished(e))
             /\ \A j \in Ups : Free(notes[j], m) => AllAre(notes'[j], m, e.version)
<1> DEFINE e == work[i].event
           n == Notification(e)
<1>1. /\ e \in EventRec /\ n \in NoteRec
      /\ \A j \in Instances : notes'[j] =
           IF Listens(j) THEN Append(notes[j], n) ELSE notes[j]
  BY TellStep
<1>2. UNCHANGED <<deployed, status, scalers, cleaning, sent, running>>
  BY DEF Tell, lattice
<1>3. /\ n.manifest = m /\ n.version = e.version
      /\ n.type = "delete" <=> Unpublished(e)
  BY <1>1, NoteFacts DEF Unpublished
<1> HIDE DEF e, n
<1>4. ASSUME NEW j \in Instances, cleaning[j] # None PROVE Note(j)' = Note(j)
  <2> DEFINE s == notes[j]
  <2>1. s \in Seq(NoteRec) /\ s # <<>> /\ (notes'[j] = Append(s, n) \/ notes'[j] = s)
    BY <1>1, <1>4, RestFacts
  <2> HIDE DEF s
  <2>2. Head(Append(s, n)) = Head(s)
    BY <1>1, <2>1
  <2> QED
    BY <2>1, <2>2 DEF Note, s
<1>5. ASSUME NEW j \in Ups
      PROVE  /\ j \in Instances
             /\ \A v : Becomes(j, m, v)' <=> v = e.version
             /\ DeleteFirst(Rest(j)', m) <=>
                  DeleteFirst(Rest(j), m) \/ (Free(Rest(j), m) /\ Unpublished(e))
             /\ Free(notes[j], m) => AllAre(notes'[j], m, e.version)
  <2>1. j \in Instances /\ Listens(j)
    BY DEF Ups, Listens
  <2>2. notes'[j] = Append(notes[j], n) /\ Rest(j)' = Append(Rest(j), n)
    BY <1>1, <1>2, <2>1, RestTold
  <2> DEFINE s == notes[j]
             r == Rest(j)
             t == Rest(j)'
  <2>3. s \in Seq(NoteRec) /\ r \in Seq(NoteRec) /\ t = Append(r, n)
    BY <2>1, <2>2, RestFacts
  <2> HIDE DEF s, r, t
  <2>4. /\ ~Free(t, m) /\ \A v : Ends(t, m, v) <=> v = e.version
        /\ DeleteFirst(t, m) <=> DeleteFirst(r, m) \/ (Free(r, m) /\ Unpublished(e))
    BY <1>1, <1>3, <2>3, AppendMeans
  <2>5. Free(s, m) => AllAre(Append(s, n), m, e.version)
    BY <1>1, <1>3, <2>3, FreeAllAre, AppendAllAre
  <2>6. \A v : Becomes(j, m, v)' <=> v = e.version
    BY <2>4 DEF Becomes, t
  <2> QED
    BY <2>1, <2>2, <2>4, <2>5, <2>6 DEF s, r, t
<1> QED
  BY <1>2, <1>4, <1>5 DEF Ups, e

LEMMA LeftTellCreate ==
  ASSUME TInv, NEW m \in Manifests, Left(m), Sound(m), NEW i \in Instances, Tell(i),
         m = work[i].event.manifest, ~Unpublished(work[i].event)
  PROVE  Left(m)'
<1> DEFINE e == work[i].event
<1>1. /\ work[i].step = "tell" /\ Busy(i) /\ queue' = queue
      /\ \A j \in Instances : j # i => work'[j] = work[j]
      /\ work'[i].step = "reconcile" /\ work'[i].event = e /\ work'[i].cleanup = work[i].cleanup
  BY TellStep
<1>2. /\ UNCHANGED <<deployed, status, scalers, cleaning, sent, running>>
      /\ \A j \in Instances : cleaning[j] # None => Note(j)' = Note(j)
      /\ Ups' = Ups /\ \A j \in Ups : j \in Instances
      /\ \A j \in Ups : \A v : Becomes(j, m, v)' <=> v = e.version
      /\ \A j \in Ups : DeleteFirst(Rest(j), m) => DeleteFirst(Rest(j)', m)
      /\ \A j \in Ups : Free(notes[j], m) => AllAre(notes'[j], m, e.version)
  BY TellMeans
<1>3. /\ InWork(m) = {i} /\ i \in Ups /\ WorkerHas(i, m) /\ e \in EventsOf(m) /\ e.manifest = m
      /\ e \in EventRec
  BY <1>1, WorkingOn
<1>4. Free(notes[i], m) /\ scalers[i][m] = e.version
  BY <1>1, <1>3 DEF WorkerHas, Early
<1>5. ~Unpublished(e)
  OBVIOUS
<1> HIDE DEF e
<1>6. InWork(m)' = {i}
  BY <1>1, <1>3 DEF InWork, e
<1>7. EventsOf(m)' = EventsOf(m)
  <2>1. \A f : f \in EventsOf(m)' <=> f \in Queued(m)' \/ f = work'[i].event
    BY <1>6 DEF EventsOf
  <2>2. \A f : f \in EventsOf(m) <=> f \in Queued(m) \/ f = work[i].event
    BY <1>3 DEF EventsOf
  <2>3. Queued(m)' = Queued(m) /\ work'[i].event = work[i].event
    BY <1>1 DEF Queued, e
  <2> QED
    BY <2>1, <2>2, <2>3
<1>8. \A x : Wanted(m, x)' <=> Wanted(m, x)
  BY <1>2, <1>7 DEF Wanted
<1>9. WorkerHas(i, m)'
  BY <1>1, <1>2, <1>3, <1>4 DEF WorkerHas, Early
<1>10. \A j \in Instances : CleaningHas(j, m)'
  BY <1>2 DEF Left, CleaningHas
<1>11. ASSUME NEW x \in AllIds, NEW j \in Ups, Holds(j, m, x)' PROVE Wanted(m, x)'
  <2>1. ~(j \in InWork(m) /\ Early(j))'
    BY <1>1, <1>6 DEF Early
  <2>2. x \in IdsOf(e.version)
    BY <1>2, <1>11, <2>1 DEF Holds
  <2> QED
    BY <1>3, <1>8, <2>2 DEF Wanted
<1>12. ASSUME NEW x \in AllIds, WillRun(sent', running'[m], m, x) PROVE Owned(m, x)'
  <2>1. Owned(m, x)
    BY <1>2, <1>12 DEF Left
  <2>2. ~NextWill(m, x) /\ ~TellsRemoval(m)
    BY <1>1, <1>3, <1>5 DEF NextWill, TellsRemoval, e
  <2>3. WorkerWill(m, x) => WorkerWill(m, x)'
    BY <1>1, <1>3, <1>6 DEF WorkerWill
  <2>4. \A j \in Ups : NotifierDoes(j, m, x) => NotifierDoes(j, m, x)'
    BY <1>2 DEF NotifierDoes
  <2>5. \A j \in Ups : NotifierWill(j, m, x) => NotifierWill(j, m, x)'
    BY <1>2, <2>2 DEF NotifierWill
  <2> QED
    BY <1>2, <1>8, <2>1, <2>2, <2>3, <2>4, <2>5 DEF Owned
<1> QED
  BY <1>2, <1>6, <1>9, <1>10, <1>11, <1>12 DEF Left, Alike

(* An undeploy that is done: whoever has scalers will remove them.         *)
LEMMA LeftTellDelete ==
  ASSUME TInv, Numbered, NEW m \in Manifests, Left(m), Sound(m), NEW i \in Instances, Tell(i),
         m = work[i].event.manifest, Unpublished(work[i].event)
  PROVE  Left(m)'
<1> DEFINE e == work[i].event
<1>1. work[i].step = "tell" /\ Busy(i) /\ Ack(i)
  BY TellStep
<1>2. /\ UNCHANGED <<deployed, status, scalers, cleaning, sent, running>>
      /\ \A j \in Instances : cleaning[j] # None => Note(j)' = Note(j)
      /\ Ups' = Ups /\ \A j \in Ups : j \in Instances
      /\ \A j \in Ups : \A v : Becomes(j, m, v)' <=> v = e.version
      /\ \A j \in Ups : DeleteFirst(Rest(j), m) \/ Free(Rest(j), m) => DeleteFirst(Rest(j)', m)
  BY TellMeans
<1>3. InWork(m) = {i} /\ work[i].cleanup = {}
  BY <1>1, WorkingOn, WorkFacts DEF TInv
<1>4. /\ InWork(m)' = {}
      /\ \A f \in ToSet(queue) : f.number # e.number => f \in ToSet(queue')
      /\ ToSet(queue') \subseteq ToSet(queue)
  <2>1. aux_last' = aux_last
    BY DEF Tell
  <2> QED
    BY <1>1, <1>2, <2>1, AckOrder, AckTyped DEF Sound
<1>5. e.version = None /\ \A f \in ToSet(queue) : f.number = e.number => f.version = None
  BY <1>1, NumberTells DEF Unpublished
<1> HIDE DEF e
<1>6. ASSUME NEW x, Wanted(m, x) PROVE Wanted(m, x)'
  <2>1. CASE x \in IdsOf(deployed[m])
    BY <1>2, <2>1 DEF Wanted
  <2>2. CASE x \notin IdsOf(deployed[m])
    <3>1. PICK f \in EventsOf(m) : x \in IdsOf(f.version)
      BY <1>6, <2>2 DEF Wanted
    <3>2. f.version # None
      BY <3>1, VersionFacts
    <3>3. f \in Queued(m)
      BY <1>3, <1>5, <3>1, <3>2 DEF EventsOf, e
    <3>4. f \in EventsOf(m)'
      BY <1>4, <1>5, <3>2, <3>3 DEF Queued, EventsOf
    <3> QED
      BY <3>1, <3>4 DEF Wanted
  <2> QED
    BY <2>1, <2>2
<1>7. ASSUME NEW x, NEW j \in Ups PROVE ~Holds(j, m, x)'
  BY <1>2, <1>4, <1>5, VersionFacts DEF Holds
<1>8. \A j \in Instances : CleaningHas(j, m)'
  BY <1>2 DEF Left, CleaningHas
<1>9. ASSUME NEW x \in AllIds, WillRun(sent', running'[m], m, x) PROVE Owned(m, x)'
  <2>1. Owned(m, x)
    BY <1>2, <1>9 DEF Left
  <2>2. ~NextWill(m, x) /\ ~WorkerWill(m, x)
    BY <1>1, <1>3 DEF NextWill, WorkerWill
  <2>3. \A j \in Ups : NotifierDoes(j, m, x) => NotifierDoes(j, m, x)'
    BY <1>2 DEF NotifierDoes
  <2>4. \A j \in Ups : NotifierWill(j, m, x) => NotifierWill(j, m, x)'
    BY <1>2 DEF NotifierWill
  <2> QED
    BY <1>2, <1>6, <2>1, <2>2, <2>3, <2>4 DEF Owned
<1> QED
  BY <1>2, <1>4, <1>7, <1>8, <1>9 DEF Left, Alike
-----------------------------------------------------------------------------
LEMMA BecomesOne ==
  ASSUME TInv, NEW j \in Instances, NEW m, NEW v, Becomes(j, m, v), NEW w, Becomes(j, m, w)
  PROVE  v = w
<1> DEFINE s == Rest(j)
<1>1. s \in Seq(NoteRec)
  BY RestFacts
<1>2. /\ Ends(s, m, v) \/ (Free(s, m) /\ scalers[j][m] = v)
      /\ Ends(s, m, w) \/ (Free(s, m) /\ scalers[j][m] = w)
  BY DEF Becomes
<1> HIDE DEF s
<1> QED
  BY <1>1, <1>2, NotesMean

(* What is to be cleaned up is stopped, and all will have what was told.   *)
LEMMA LeftReconcile ==
  ASSUME TInv, Numbered, NEW m \in Manifests, Left(m), Sound(m), aux_spoiled'[m] = {},
         NEW i \in Instances, Reconcile(i) \/ CleanupCommandsFail(i),
         m = work[i].event.manifest
  PROVE  Left(m)'
<1> DEFINE e == work[i].event
           v == e.version
           make == ToMake(m, v)
           stop == Batch(FALSE, m, work[i].cleanup)
<1>1. /\ work[i].step = "reconcile" /\ Busy(i) /\ Ack(i)
      /\ UNCHANGED <<deployed, status, scalers, notes, cleaning, running, aux_last>>
  BY ReconcileStep
<1>2. /\ InWork(m) = {i} /\ i \in Ups /\ WorkerHas(i, m) /\ e \in EventsOf(m)
      /\ e \in EventRec /\ \A j \in Ups : j \in Instances
  BY <1>1, WorkingOn
<1>3. /\ scalers[i][m] = v /\ \A j \in Ups : Becomes(j, m, v)
  BY <1>1, <1>2 DEF WorkerHas
<1>4. sent' = (sent \o Publish(make)) \o Publish(stop)
  BY <1>3, ReconcileStep DEF Present
<1>5. /\ InWork(m)' = {}
      /\ \A f \in ToSet(queue) : f.number # e.number => f \in ToSet(queue')
      /\ ToSet(queue') \subseteq ToSet(queue)
  BY <1>1, AckOrder, AckTyped DEF Sound
<1>6. \A f \in ToSet(queue) : f.number = e.number => f.version = v
  BY <1>1, NumberTells
<1>7. v \in Deployments /\ work[i].cleanup \in SUBSET AllIds
  BY <1>2, WorkFacts, EventFacts DEF TInv
<1> HIDE DEF e, v
<1>8. ASSUME NEW x, WillRun(sent', running'[m], m, x)
      PROVE  x \notin work[i].cleanup /\ (x \in IdsOf(v) \/ WillRun(sent, running[m], m, x))
  <2> DEFINE ids == IdsOf(v) \ running[m]
             s == sent \o Publish(make)
  <2>1. make = Batch(TRUE, m, ids) /\ ids \subseteq AllIds /\ sent \in Seq(BatchRec)
    BY <1>7, ToMakeFacts DEF TInv, LatticeTyped
  <2>2. s \in Seq(BatchRec)
    <3> DEFINE yes == TRUE
    <3>1. yes \in BOOLEAN /\ make = Batch(yes, m, ids)
      BY <2>1
    <3> HIDE DEF yes, make, ids
    <3>2. sent \o Publish(Batch(yes, m, ids)) \in Seq(BatchRec)
      BY <2>1, <3>1, PublishFacts
    <3> QED
      BY <3>1, <3>2
  <2> DEFINE gone == work[i].cleanup
  <2>3. stop = Batch(FALSE, m, gone) /\ gone \subseteq AllIds
    BY <1>7
  <2>4. WillRun(s \o Publish(stop), running[m], m, x)
    BY <1>1, <1>4, <1>8
  <2> HIDE DEF make, stop, ids, s, gone
  <2>5. x \notin gone /\ WillRun(s, running[m], m, x)
    BY <2>2, <2>3, <2>4, WillRunStopped
  <2>6. x \in ids \/ WillRun(sent, running[m], m, x)
    BY <2>1, <2>5, WillRunMade DEF s
  <2> QED
    BY <2>5, <2>6 DEF ids, gone
<1> HIDE DEF make, stop
<1>9. /\ Ups' = Ups
      /\ \A j \in Instances : CleaningHas(j, m)'
  BY <1>1 DEF Ups, Left, CleaningHas, Note
<1>10. ASSUME NEW j \in Ups PROVE \A x : Holds(j, m, x)' <=> x \in IdsOf(v)
  <2>1. j \in Instances /\ ToldAlike(j, m)
    BY <1>1, <1>2, SameIsAlike
  <2>2. \A w : Becomes(j, m, w)' <=> w = v
    BY <1>3, <2>1, ToldAlikeMeans, BecomesOne
  <2> QED
    BY <1>5, <1>7, <2>2 DEF Holds
<1>11. ASSUME NEW x, x \in IdsOf(v) PROVE Wanted(m, x)' \/ NextWill(m, x)'
  <2>1. CASE EventsOf(m)' # {}
    BY <1>5, <1>9, <1>10, <1>11, <2>1 DEF NextWill
  <2>2. CASE EventsOf(m)' = {}
    <3>1. \A f \in Queued(m) : f.number = e.number
      BY <1>5, <2>2 DEF EventsOf, Queued
    <3>2. \A f \in EventsOf(m) : f.version = v
      BY <1>2, <1>6, <3>1 DEF EventsOf, Queued, e, v
    <3>3. deployed[m] = v
      BY <1>2, <3>2 DEF Sound, Ordered, LastKnown
    <3> QED
      BY <1>1, <1>11, <3>3 DEF Wanted
  <2> QED
    BY <2>1, <2>2
<1>12. ASSUME NEW x, Wanted(m, x), x \notin IdsOf(v) PROVE Wanted(m, x)'
  <2>1. CASE x \in IdsOf(deployed[m])
    BY <1>1, <2>1 DEF Wanted
  <2>2. CASE x \notin IdsOf(deployed[m])
    <3>1. PICK f \in EventsOf(m) : x \in IdsOf(f.version)
      BY <1>12, <2>2 DEF Wanted
    <3>2. f.version # v
      BY <1>12, <3>1
    <3>3. f \in Queued(m)
      BY <1>2, <3>1, <3>2 DEF EventsOf, e, v
    <3>4. f \in EventsOf(m)'
      BY <1>5, <1>6, <3>2, <3>3 DEF Queued, EventsOf
    <3> QED
      BY <3>1, <3>4 DEF Wanted
  <2> QED
    BY <2>1, <2>2
<1>13. ASSUME NEW x \in AllIds, WillRun(sent', running'[m], m, x) PROVE Owned(m, x)'
  <2>1. CASE x \in IdsOf(v)
    BY <1>11, <2>1 DEF Owned
  <2>2. CASE x \notin IdsOf(v)
    <3>1. Owned(m, x)
      BY <1>8, <1>13, <2>2 DEF Left
    <3>2. ~NextWill(m, x) /\ ~WorkerWill(m, x) /\ ~TellsRemoval(m)
      BY <1>1, <1>2, <1>8, <1>13 DEF NextWill, WorkerWill, TellsRemoval
    <3>3. \A j \in Ups : NotifierDoes(j, m, x) => NotifierDoes(j, m, x)'
      BY <1>1 DEF NotifierDoes, Note
    <3>4. \A j \in Ups : NotifierWill(j, m, x) => NotifierWill(j, m, x)'
      BY <1>1, <3>2 DEF NotifierWill, Rest
    <3> QED
      BY <1>9, <1>12, <2>2, <3>1, <3>2, <3>3, <3>4 DEF Owned
  <2> QED
    BY <2>1, <2>2
<1> QED
  BY <1>5, <1>9, <1>10, <1>13 DEF Left, Alike
-----------------------------------------------------------------------------
(* The steps that are about the lattice only.                              *)
LEMMA LeftLattice ==
  ASSUME NEW m \in Manifests, Left(m),
         UNCHANGED <<deployed, queue, status, scalers, work, notes, cleaning>>,
         \A x \in AllIds : WillRun(sent', running'[m], m, x) => Owned(m, x)
  PROVE  Left(m)'
<1>1. /\ InWork(m)' = InWork(m) /\ EventsOf(m)' = EventsOf(m) /\ Ups' = Ups
      /\ \A x : Wanted(m, x)' <=> Wanted(m, x)
  BY DEF InWork, EventsOf, Queued, Ups, Wanted
<1>2. ASSUME NEW j
      PROVE  /\ \A v : Becomes(j, m, v)' <=> Becomes(j, m, v)
             /\ \A x : NotifierDoes(j, m, x)' <=> NotifierDoes(j, m, x)
             /\ CleaningHas(j, m)' <=> CleaningHas(j, m)
             /\ \A x : NotifierWill(j, m, x)' <=> NotifierWill(j, m, x)
             /\ Early(j)' <=> Early(j)
  BY <1>1 DEF Becomes, Rest, NotifierDoes, Note, CleaningHas, NotifierWill, TellsRemoval, Early
<1>3. \A j : \A x : Holds(j, m, x)' <=> Holds(j, m, x)
  BY <1>1, <1>2 DEF Holds
<1>4. \A i : WorkerHas(i, m) => WorkerHas(i, m)'
  BY <1>1, <1>2 DEF WorkerHas
<1>5. \A x : Alike(m, x) => Alike(m, x)'
  BY <1>1, <1>3 DEF Alike
<1>6. ASSUME NEW x, Owned(m, x) PROVE Owned(m, x)'
  <2>1. NextWill(m, x) => NextWill(m, x)'
    BY <1>1, <1>3 DEF NextWill
  <2>2. WorkerWill(m, x) => WorkerWill(m, x)'
    BY <1>1 DEF WorkerWill
  <2> QED
    BY <1>1, <1>2, <1>6, <2>1, <2>2 DEF Owned
<1> QED
  BY <1>1, <1>2, <1>4, <1>5, <1>6 DEF Left

(* What an instance starts again it has, and what it has is cleaned up if  *)
(* it is not wanted.                                                       *)
LEMMA HadIsOwned ==
  ASSUME TInv, NEW m \in Manifests, Left(m), Sound(m), NEW i \in Ups, ~Busy(i),
         Free(notes[i], m), NEW x \in AllIds, x \in IdsOf(scalers[i][m]),
         \A k \in InWork(m) : Unpublished(work[k].event) \/ x \notin Outdated(k)
  PROVE  Owned(m, x)
<1> SUFFICES ASSUME ~Wanted(m, x) PROVE Owned(m, x)
  BY DEF Owned
<1>1. i \in Instances /\ status[i] = "up" /\ scalers[i][m] \in Deployments
  BY DEF Ups, TInv, StoredTyped
<1>2. /\ \A v : Becomes(i, m, v) <=> scalers[i][m] = v
      /\ Free(Rest(i), m)
  BY <1>1, NothingTold
<1>3. \A k \in InWork(m) : /\ k \in Instances /\ Busy(k) /\ work[k].event.manifest = m
                           /\ work[k].event \in EventsOf(m)
  BY EventsOfFacts
<1>4. Holds(i, m, x)
  BY <1>1, <1>2, <1>3 DEF Holds
<1>5. \A j \in Ups : Holds(j, m, x)
  BY <1>4 DEF Left, Alike
<1>6. CASE InWork(m) = {}
  <2>1. EventsOf(m) # {}
    <3> SUFFICES ASSUME EventsOf(m) = {} PROVE FALSE
      OBVIOUS
    <3>1. Queued(m) = {}
      BY DEF EventsOf
    <3>2. Follow(m)
      BY <1>6, <3>1 DEF Sound, Reached
    <3>3. scalers[i][m] = deployed[m]
      BY <1>2, <3>2, SettledHolds
    <3> QED
      BY <3>3 DEF Wanted
  <2> QED
    BY <1>5, <1>6, <2>1 DEF NextWill, Owned
<1>7. ASSUME NEW k \in InWork(m) PROVE Owned(m, x)
  <2>1. /\ k \in Instances /\ Busy(k) /\ work[k].event \in EventsOf(m)
        /\ work[k].step \in Steps
    BY <1>3, WorkFacts DEF TInv
  <2>2. InWork(m) = {k} /\ k \in Ups /\ WorkerHas(k, m) /\ x \notin IdsOf(work[k].event.version)
    BY <1>3, <1>7, <2>1, WorkingOn DEF Wanted
  <2>3. CASE work[k].step = "refresh"
    BY <1>5, <2>1, <2>2, <2>3 DEF NextWill, Owned
  <2>4. CASE work[k].step = "tell"
    <3>1. x \in Outdated(k)
      BY <1>5, <2>2, <2>4 DEF Holds, Early, Outdated
    <3>2. TellsRemoval(m)
      BY <1>7, <2>4, <3>1 DEF TellsRemoval
    <3> QED
      BY <1>2, <3>2 DEF NotifierWill, Owned
  <2>5. CASE work[k].step = "reconcile"
    <3>1. scalers[i][m] = work[k].event.version
      BY <1>2, <2>2, <2>5 DEF WorkerHas
    <3> QED
      BY <2>2, <3>1
  <2> QED
    BY <2>1, <2>3, <2>4, <2>5 DEF Steps, Busy
<1> QED
  BY <1>6, <1>7

LEMMA LeftHandleEvent ==
  ASSUME TInv, NEW m \in Manifests, Left(m), Sound(m), aux_spoiled'[m] = {},
         NEW i \in Instances, NEW n \in Manifests, HandleEvent(i, n)
  PROVE  Left(m)'
<1> DEFINE make == ToMake(n, scalers[i][n])
           ids == make.ids
<1>1. /\ status[i] = "up" /\ scalers[i][n] \in Deployments
      /\ ids = IdsOf(scalers[i][n]) \ running[n]
      /\ make = Batch(TRUE, n, ids) /\ ids \in SUBSET AllIds
      /\ sent' = sent \o Publish(make)
      /\ m = n => Lag(i, m) = {} /\ Revived(m, ids) = {}
      /\ UNCHANGED <<deployed, queue, status, scalers, work, notes, cleaning, running>>
  <2>1. /\ status[i] = "up" /\ scalers[i][n] \in Deployments
        /\ ids = IdsOf(scalers[i][n]) \ running[n]
        /\ make = Batch(TRUE, n, ids) /\ ids \in SUBSET AllIds
        /\ sent' = sent \o Publish(make)
        /\ UNCHANGED <<deployed, queue, status, scalers, work, notes, cleaning, running>>
    BY HandleEventStep
  <2>2. aux_spoiled'[m] = aux_spoiled[m] \cup IF m = n THEN Lag(i, n) \cup Revived(n, ids) ELSE {}
    <3> DEFINE why == Lag(i, n) \cup Revived(n, ids)
    <3>1. \A k \in Manifests : aux_spoiled'[k] = aux_spoiled[k] \cup IF k = n THEN why ELSE {}
      <4>1. \A k \in Manifests : aux_spoiled'[k] = aux_spoiled[k] \cup
              IF k = n THEN Lag(i, n) \cup Revived(n, ToMake(n, scalers[i][n]).ids) ELSE {}
        BY HandleEventStep
      <4> QED
        BY <4>1
    <3> HIDE DEF make, ids
    <3> QED
      BY <3>1
  <2> QED
    BY <2>1, <2>2
<1>2. ~Busy(i)
  BY DEF HandleEvent
<1> HIDE DEF make, ids
<1>3. sent \in Seq(BatchRec)
  BY DEF TInv, LatticeTyped
<1>4. ASSUME NEW x \in AllIds, WillRun(sent', running'[m], m, x), n = m /\ x \in ids
      PROVE  Owned(m, x)
  <2>1. i \in Ups /\ x \in IdsOf(scalers[i][m])
    BY <1>1, <1>4 DEF Ups
  <2>2. Free(notes[i], m)
    <3>1. DOMAIN notes[i] = 1 .. Len(notes[i])
      BY RestFacts, SeqElems
    <3> QED
      BY <1>1, <1>4, <3>1 DEF Lag, Behind, Free
  <2>3. \A k \in InWork(m) : Unpublished(work[k].event) \/ x \notin Outdated(k)
    BY <1>1, <1>4 DEF Revived
  <2> QED
    BY <1>2, <2>1, <2>2, <2>3, HadIsOwned
<1>5. ASSUME NEW x \in AllIds, WillRun(sent', running'[m], m, x), ~(n = m /\ x \in ids)
      PROVE  Owned(m, x)
  <2> DEFINE yes == TRUE
  <2>1. yes \in BOOLEAN /\ make = Batch(yes, n, ids)
    BY <1>1
  <2> HIDE DEF yes
  <2>2. WillRun(sent \o Publish(Batch(yes, n, ids)), running[m], m, x) <=>
          IF n = m /\ x \in ids THEN yes ELSE WillRun(sent, running[m], m, x)
    BY <1>1, <1>3, <2>1, WillRunPublish
  <2>3. WillRun(sent, running[m], m, x)
    BY <1>1, <1>5, <2>1, <2>2
  <2> QED
    BY <2>3 DEF Left
<1> QED
  BY <1>1, <1>4, <1>5, LeftLattice

LEMMA LeftExecute ==
  ASSUME TInv, NEW m \in Manifests, Left(m), Execute
  PROVE  Left(m)'
<1> DEFINE h == Head(sent)
<1>1. /\ sent # <<>> /\ sent' = Tail(sent) /\ h \in BatchRec
      /\ running'[m] = IF m # h.manifest THEN running[m]
                       ELSE IF h.make THEN running[m] \cup h.ids ELSE running[m] \ h.ids
  BY ExecuteStep
<1>2. UNCHANGED <<deployed, queue, status, scalers, work, notes, cleaning>>
  BY DEF Execute
<1> HIDE DEF h
<1>3. ASSUME NEW x \in AllIds, WillRun(sent', running'[m], m, x) PROVE Owned(m, x)
  <2>1. x \in running'[m] => IF About(h, m, x) THEN h.make ELSE x \in running[m]
    BY <1>1 DEF About
  <2>2. sent \in Seq(BatchRec)
    BY DEF TInv, LatticeTyped
  <2>3. WillRun(sent, running[m], m, x)
    BY <1>1, <1>3, <2>1, <2>2, WillRunTail DEF h
  <2> QED
    BY <2>3 DEF Left
<1> QED
  BY <1>2, <1>3, LeftLattice

LEMMA LeftStops ==
  ASSUME TInv, NEW m \in Manifests, Left(m), NEW n \in Manifests, Stops(n)
  PROVE  Left(m)'
<1>1. /\ running'[m] \subseteq running[m]
      /\ UNCHANGED <<deployed, queue, status, scalers, work, notes, cleaning, sent>>
  BY StopsStep
<1>2. \A x : WillRun(sent', running'[m], m, x) => WillRun(sent, running[m], m, x)
  BY <1>1 DEF WillRun
<1> QED
  BY <1>1, <1>2, LeftLattice DEF Left
-----------------------------------------------------------------------------
(* The steps of a notifier.                                                *)
LEMMA WillRunElsewhere ==
  ASSUME NEW s \in Seq(BatchRec), NEW make \in BOOLEAN, NEW n \in Manifests,
         NEW ids \in SUBSET AllIds, NEW here, NEW m, m # n, NEW x, NEW b,
         b = Batch(make, n, ids), WillRun(s \o Publish(b), here, m, x)
  PROVE  WillRun(s, here, m, x)
<1>1. WillRun(s \o Publish(Batch(make, n, ids)), here, m, x) <=>
        IF n = m /\ x \in ids THEN make ELSE WillRun(s, here, m, x)
  BY WillRunPublish
<1> QED
  BY <1>1

(* One instance handles a notification.                                    *)
NotifierOnly(j, m) ==
  /\ UNCHANGED <<deployed, queue, status, work, aux_last>>
  /\ \A k \in Instances : k # j => /\ scalers'[k][m] = scalers[k][m]
                                   /\ notes'[k] = notes[k] /\ cleaning'[k] = cleaning[k]
  /\ notes[j] # <<>> /\ notes'[j] \in {notes[j], Tail(notes[j])}
  /\ notes'[j] = Tail(notes[j]) => cleaning'[j] = None

LEMMA LeftNotedElsewhere ==
  ASSUME TInv, TInv', NEW m \in Manifests, Left(m), NEW j \in Instances, NotifierOnly(j, m),
         Note(j).manifest # m, scalers'[j][m] = scalers[j][m],
         \A x \in AllIds :
           WillRun(sent', running'[m], m, x) => WillRun(sent, running[m], m, x)
  PROVE  Left(m)'
<1>1. WorkAlike(m)
  BY WorkUntouched, KeptIsAlike DEF NotifierOnly
<1>2. ASSUME NEW k \in Instances PROVE ToldAlike(k, m)
  <2>1. CASE k = j
    BY <2>1, NotedIsAlike DEF NotifierOnly
  <2>2. CASE k # j
    BY <2>2, SameIsAlike DEF NotifierOnly
  <2> QED
    BY <2>1, <2>2
<1>3. Ups' = Ups /\ \A k \in Ups : k \in Instances
  BY DEF NotifierOnly, Ups
<1>4. \A i \in InWork(m) : i \in Ups
  BY EventsOfFacts DEF Ups
<1> QED
  BY <1>1, <1>2, <1>3, <1>4, LeftUntouched

(* It becomes no other scalers, and still sees to what it had to remove.   *)
LEMMA LeftNotedHere ==
  ASSUME TInv, NEW m \in Manifests, Left(m), NEW j \in Instances, NotifierOnly(j, m),
         j \in Ups, \A v : Becomes(j, m, v)' <=> Becomes(j, m, v),
         j \in InWork(m) => scalers'[j][m] = scalers[j][m],
         CleaningHas(j, m)',
         \A x \in AllIds :
           WillRun(sent', running'[m], m, x) =>
             /\ WillRun(sent, running[m], m, x)
             /\ NotifierDoes(j, m, x) \/ NotifierWill(j, m, x) =>
                  (NotifierDoes(j, m, x) \/ NotifierWill(j, m, x))'
  PROVE  Left(m)'
<1>1. WorkAlike(m)
  BY WorkUntouched, KeptIsAlike DEF NotifierOnly
<1>2. ASSUME NEW k \in Instances, k # j PROVE ToldAlike(k, m)
  BY <1>2, SameIsAlike DEF NotifierOnly
<1>3. Ups' = Ups /\ \A k \in Ups : k \in Instances
  BY DEF NotifierOnly, Ups
<1>4. \A k \in Ups, v \in Deployments : Becomes(k, m, v)' <=> Becomes(k, m, v)
  BY <1>2, <1>3, ToldAlikeMeans
<1>5. ASSUME NEW k \in InWork(m) PROVE StillHas(k, m)
  <2>1. k \in Instances
    BY DEF InWork
  <2>2. CASE k = j
    <3> DEFINE s == notes[j]
               t == notes'[j]
    <3>1. s \in Seq(NoteRec) /\ s # <<>> /\ t \in {s, Tail(s)}
      BY RestFacts DEF NotifierOnly
    <3>2. scalers'[j][m] = scalers[j][m]
      BY <1>5, <2>2
    <3> HIDE DEF s, t
    <3>3. Free(s, m) => Free(Tail(s), m)
      BY <3>1, TailMeans
    <3>4. \A v : AllAre(s, m, v) => AllAre(Tail(s), m, v)
      BY <3>1, TailAllAre
    <3>5. (Free(s, m) => Free(t, m)) /\ \A v : AllAre(s, m, v) => AllAre(t, m, v)
      BY <3>1, <3>3, <3>4
    <3> QED
      BY <2>2, <3>2, <3>5 DEF StillHas, s, t
  <2>3. CASE k # j
    BY <1>2, <2>1, <2>3 DEF ToldAlike, StillHas
  <2> QED
    BY <2>2, <2>3
<1>6. ASSUME NEW k \in Instances PROVE CleaningHas(k, m)'
  <2>1. CASE k # j
    BY <1>2, <2>1, ToldAlikeMeans DEF Left
  <2> QED
    BY <2>1
<1>7. TellsRemoval(m)' <=> TellsRemoval(m)
  BY <1>1 DEF WorkAlike, SameWork, TellsRemoval
<1>8. ASSUME NEW x \in AllIds, WillRun(sent', running'[m], m, x), NotifierCares(m, x)
      PROVE  NotifierCares(m, x)'
  <2>1. PICK k \in Ups : NotifierDoes(k, m, x) \/ NotifierWill(k, m, x)
    BY <1>8 DEF NotifierCares
  <2>2. CASE k = j
    BY <1>3, <1>8, <2>1, <2>2 DEF NotifierCares
  <2>3. CASE k # j
    <3>1. (NotifierDoes(k, m, x) \/ NotifierWill(k, m, x))'
      BY <1>2, <1>3, <1>7, <2>1, <2>3, ToldAlikeMeans, NotifierAlike
    <3> QED
      BY <1>3, <3>1 DEF NotifierCares
  <2> QED
    BY <2>2, <2>3
<1> QED
  BY <1>1, <1>3, <1>4, <1>5, <1>6, <1>8, LeftKept

(* The notification that a notifier handles, if it is at work too.         *)
LEMMA NoteAtWork ==
  ASSUME TInv, NEW m \in Manifests, Left(m), NEW j \in InWork(m), notes[j] # <<>>,
         Note(j).manifest = m
  PROVE  Note(j).version # None /\ scalers[j][m] = Note(j).version
<1>1. j \in Instances /\ Busy(j) /\ WorkerHas(j, m)
  BY EventsOfFacts DEF Left
<1>2. notes[j] \in Seq(NoteRec) /\ Note(j) = Head(notes[j])
  BY <1>1, RestFacts DEF Note
<1>3. ~Free(notes[j], m)
  BY <1>2, TailMeans
<1>4. /\ work[j].step \in Steps /\ work[j].step # "idle"
      /\ work[j].step = "reconcile" => work[j].event.version # None
  BY <1>1, WorkFacts DEF TInv, Unpublished
<1>5. work[j].step = "reconcile"
  BY <1>1, <1>3, <1>4 DEF WorkerHas, Early, Steps
<1>6. AllAre(notes[j], m, work[j].event.version) /\ scalers[j][m] = work[j].event.version
  BY <1>1, <1>5 DEF WorkerHas
<1>7. Note(j).version = work[j].event.version
  BY <1>2, <1>6, TailAllAre
<1> QED
  BY <1>4, <1>5, <1>6, <1>7

LEMMA LeftCreateScalers ==
  ASSUME TInv, NEW m \in Manifests, Left(m), NEW j \in Instances, CreateScalers(j)
  PROVE  Left(m)'
<1>1. /\ TInv' /\ status[j] = "up" /\ cleaning[j] = None /\ notes[j] # <<>>
      /\ Note(j).type = "create"
      /\ \A k \in Instances : notes'[k] = IF k = j THEN Tail(notes[k]) ELSE notes[k]
      /\ \A k \in Instances, n \in Manifests : scalers'[k][n] =
           IF k = j /\ n = Note(j).manifest THEN Note(j).version ELSE scalers[k][n]
      /\ UNCHANGED <<deployed, queue, status, work, cleaning, sent, running, aux_last>>
  BY CreateScalersStep DEF lattice
<1>2. NotifierOnly(j, m)
  BY <1>1 DEF NotifierOnly
<1>3. CASE Note(j).manifest # m
  BY <1>1, <1>2, <1>3, LeftNotedElsewhere
<1>4. CASE Note(j).manifest = m
  <2> DEFINE s == notes[j]
             t == Tail(notes[j])
  <2>1. /\ s \in Seq(NoteRec) /\ s # <<>> /\ Head(s) = Note(j) /\ t = Tail(s)
        /\ Rest(j) = s /\ Rest(j)' = t
    BY <1>1, RestFacts DEF Rest, Note
  <2>2. scalers'[j][m] = Note(j).version
    BY <1>1, <1>4
  <2> DEFINE h == Note(j)
  <2> HIDE DEF s, t, h
  <2>8. s \in Seq(NoteRec) /\ s # <<>> /\ Head(s) = h /\ t = Tail(s)
    BY <2>1 DEF h
  <2>9. h.manifest = m /\ h.type = "create"
    BY <1>1, <1>4 DEF h
  <2>10. /\ ~Free(s, m) /\ ~DeleteFirst(s, m)
         /\ \A v : Ends(s, m, v) <=> Ends(t, m, v) \/ (Free(t, m) /\ h.version = v)
    BY <2>8, <2>9, TailMeans
  <2>3. /\ ~Free(s, m) /\ ~DeleteFirst(s, m)
        /\ \A v : Ends(s, m, v) <=> Ends(t, m, v) \/ (Free(t, m) /\ Note(j).version = v)
    BY <2>10 DEF h
  <2>4. \A v : Becomes(j, m, v)' <=> Becomes(j, m, v)
    BY <2>1, <2>2, <2>3 DEF Becomes
  <2>5. j \in InWork(m) => scalers'[j][m] = scalers[j][m]
    BY <1>1, <1>4, <2>2, NoteAtWork
  <2>6. CleaningHas(j, m)' /\ j \in Ups
    BY <1>1 DEF CleaningHas, Ups
  <2>7. \A x : ~NotifierDoes(j, m, x) /\ ~NotifierWill(j, m, x)
    BY <1>1, <2>1, <2>3 DEF NotifierDoes, NotifierWill
  <2> QED
    BY <1>1, <1>2, <2>4, <2>5, <2>6, <2>7, LeftNotedHere
<1> QED
  BY <1>3, <1>4

LEMMA LeftRemoveScalers ==
  ASSUME TInv, NEW m \in Manifests, Left(m), NEW j \in Instances, RemoveScalers(j)
  PROVE  Left(m)'
<1> DEFINE old == scalers[j][Note(j).manifest]
<1>1. /\ TInv' /\ status[j] = "up" /\ cleaning[j] = None /\ notes[j] # <<>>
      /\ Note(j).type = "delete" /\ Note(j) \in NoteRec
      /\ \A k \in Instances : notes'[k] =
           IF k = j /\ old = None THEN Tail(notes[k]) ELSE notes[k]
      /\ \A k \in Instances : cleaning'[k] = IF k = j THEN old ELSE cleaning[k]
      /\ \A k \in Instances, n \in Manifests : scalers'[k][n] =
           IF k = j /\ n = Note(j).manifest THEN None ELSE scalers[k][n]
      /\ UNCHANGED <<deployed, queue, status, work, sent, running, aux_last>>
  BY RemoveScalersStep DEF lattice
<1>2. Note(j).version = None
  BY <1>1, NoteFacts
<1>3. old = scalers[j][Note(j).manifest]
  OBVIOUS
<1> HIDE DEF old
<1>4. notes[j] # Tail(notes[j])
  <2> DEFINE s == notes[j]
  <2>1. s \in Seq(NoteRec) /\ s # <<>>
    BY <1>1, RestFacts
  <2> HIDE DEF s
  <2>2. Len(Tail(s)) = Len(s) - 1 /\ Len(s) \in Nat \ {0}
    BY <2>1, SeqTail
  <2> DEFINE a == Len(s)
  <2> HIDE DEF a
  <2>3. a \in Nat => a - 1 # a
    OBVIOUS
  <2>4. Len(Tail(s)) # Len(s)
    BY <2>2, <2>3 DEF a
  <2>5. Tail(s) # s
    BY <2>4
  <2> QED
    BY <2>5 DEF s
<1>5. NotifierOnly(j, m)
  BY <1>1, <1>4 DEF NotifierOnly
<1>6. CASE Note(j).manifest # m
  BY <1>1, <1>5, <1>6, LeftNotedElsewhere
<1>7. CASE Note(j).manifest = m
  <2> DEFINE s == notes[j]
             t == Tail(notes[j])
  <2>1. /\ s \in Seq(NoteRec) /\ s # <<>> /\ Head(s) = Note(j) /\ t = Tail(s)
        /\ Rest(j) = s /\ Rest(j)' = t
    BY <1>1, RestFacts DEF Rest, Note
  <2>2. scalers'[j][m] = None
    BY <1>1, <1>7
  <2> DEFINE h == Note(j)
  <2> HIDE DEF s, t, h
  <2>8. s \in Seq(NoteRec) /\ s # <<>> /\ Head(s) = h /\ t = Tail(s)
    BY <2>1 DEF h
  <2>9. h.manifest = m /\ h.version = None
    BY <1>2, <1>7 DEF h
  <2>3. /\ ~Free(s, m)
        /\ \A v : Ends(s, m, v) <=> Ends(t, m, v) \/ (Free(t, m) /\ None = v)
    BY <2>8, <2>9, TailMeans
  <2>4. \A v : Becomes(j, m, v)' <=> Becomes(j, m, v)
    BY <2>1, <2>2, <2>3 DEF Becomes
  <2>5. j \notin InWork(m)
    BY <1>1, <1>2, <1>7, NoteAtWork
  <2>6. CleaningHas(j, m)' /\ j \in Ups
    BY <1>1, <2>2 DEF CleaningHas, Ups
  <2>7. ASSUME NEW x, NotifierDoes(j, m, x) \/ NotifierWill(j, m, x) PROVE NotifierDoes(j, m, x)'
    <3>1. x \in IdsOf(old)
      BY <1>1, <1>3, <1>7, <2>7 DEF NotifierDoes, NotifierWill
    <3>2. old # None
      BY <3>1, VersionFacts
    <3>3. cleaning'[j] = old /\ notes'[j] = notes[j]
      BY <1>1, <3>2
    <3> QED
      BY <1>7, <3>1, <3>2, <3>3 DEF NotifierDoes, Note
  <2> QED
    BY <1>1, <1>5, <2>4, <2>5, <2>6, <2>7, LeftNotedHere
<1> QED
  BY <1>6, <1>7
-----------------------------------------------------------------------------
(* What is removed is stopped.                                             *)
LEMMA LeftRemovalDone ==
  ASSUME TInv, NEW m \in Manifests, Left(m), aux_spoiled'[m] = {},
         NEW j \in Instances, RemovalDone(j)
  PROVE  Left(m)'
<1> DEFINE n == Note(j).manifest
           ids == IdsOf(cleaning[j])
           gone == ids \cap running[n]
           stop == ToStop(n, ids)
<1>1. /\ TInv' /\ Cleaning(j)
      /\ \A k \in Instances : notes'[k] = IF k = j THEN Tail(notes[k]) ELSE notes[k]
      /\ \A k \in Instances : cleaning'[k] = IF k = j THEN None ELSE cleaning[k]
      /\ stop = Batch(FALSE, n, gone) /\ gone \in SUBSET AllIds
      /\ sent' = sent \o Publish(stop)
      /\ aux_spoiled'[m] = aux_spoiled[m] \cup
           IF m = n /\ OnItsWay(n, ids) THEN {"in flight"} ELSE {}
      /\ UNCHANGED <<deployed, queue, status, scalers, work, running, aux_last>>
  BY RemovalDoneStep
<1>2. /\ status[j] = "up" /\ cleaning[j] # None /\ notes[j] # <<>>
      /\ Note(j) \in NoteRec /\ n \in Manifests /\ Note(j).version = None
  BY <1>1, CleaningFacts, NoteFacts
<1> HIDE DEF gone, stop
<1>3. sent \in Seq(BatchRec)
  BY DEF TInv, LatticeTyped
<1>4. NotifierOnly(j, m)
  BY <1>1, <1>2 DEF NotifierOnly
<1>5. CASE n # m
  <2> DEFINE no == FALSE
  <2>1. no \in BOOLEAN /\ stop = Batch(no, n, gone)
    BY <1>1
  <2> HIDE DEF no
  <2>2. ASSUME NEW x, WillRun(sent', running'[m], m, x)
        PROVE  WillRun(sent, running[m], m, x)
    <3>1. WillRun(sent \o Publish(stop), running[m], m, x)
      BY <1>1, <2>2
    <3>2. m # n
      BY <1>5
    <3> HIDE DEF n
    <3> QED
      BY <1>1, <1>2, <1>3, <2>1, <3>1, <3>2, WillRunElsewhere
  <2> QED
    BY <1>1, <1>4, <1>5, <2>2, LeftNotedElsewhere
<1>6. CASE n = m
  <2>1. /\ Rest(j)' = Rest(j) /\ scalers'[j][m] = scalers[j][m] /\ j \in Ups
    BY <1>1, <1>2 DEF Rest, Ups
  <2>2. \A v : Becomes(j, m, v)' <=> Becomes(j, m, v)
    BY <2>1 DEF Becomes
  <2>3. scalers[j][m] = None
    BY <1>2, <1>6 DEF Left, CleaningHas
  <2>4. ASSUME NEW x, WillRun(sent', running'[m], m, x)
        PROVE  x \notin gone /\ WillRun(sent, running[m], m, x)
    <3>1. /\ WillRun(sent \o Publish(stop), running[m], m, x)
          /\ stop = Batch(FALSE, m, gone) /\ gone \subseteq AllIds
      BY <1>1, <1>6, <2>4
    <3> QED
      BY <1>3, <3>1, WillRunStopped
  <2>5. ASSUME NEW x, WillRun(sent', running'[m], m, x)
        PROVE  ~NotifierDoes(j, m, x) /\ ~NotifierWill(j, m, x)
    <3>1. x \notin ids
      <4> SUFFICES ASSUME x \in ids PROVE FALSE
        OBVIOUS
      <4>1. ~OnItsWay(m, ids)
        BY <1>1, <1>6
      <4> HIDE DEF ids
      <4>2. x \in running[m]
        BY <2>4, <2>5, <4>1, RunsNow
      <4> QED
        BY <1>6, <2>4, <2>5, <4>2 DEF gone
    <3> QED
      BY <2>3, <3>1, VersionFacts DEF NotifierDoes, NotifierWill
  <2>6. CleaningHas(j, m)'
    BY <1>1 DEF CleaningHas
  <2> QED
    BY <1>4, <2>1, <2>2, <2>4, <2>5, <2>6, LeftNotedHere
<1> QED
  BY <1>5, <1>6

(* A removal that fails puts the scalers back, to remove them again.       *)
LEMMA LeftRemovalFails ==
  ASSUME TInv, NEW m \in Manifests, Left(m), aux_spoiled'[m] = {},
         NEW j \in Instances, RemovalFails(j)
  PROVE  Left(m)'
<1> DEFINE n == Note(j).manifest
<1>1. /\ TInv' /\ Cleaning(j)
      /\ \A k \in Instances : cleaning'[k] = IF k = j THEN None ELSE cleaning[k]
      /\ \/ notes' = notes
         \/ /\ \A k \in Instances : notes'[k] = IF k = j THEN Tail(notes[k]) ELSE notes[k]
            /\ "not retried" \in aux_spoiled'[n]
      /\ \/ \A k \in Instances, l \in Manifests : scalers'[k][l] =
              IF k = j /\ l = n THEN cleaning[j] ELSE scalers[k][l]
         \/ scalers' = scalers /\ "forgotten" \in aux_spoiled'[n]
      /\ UNCHANGED <<deployed, queue, status, work, sent, running, aux_last>>
  BY RemovalFailsStep DEF lattice
<1>2. /\ status[j] = "up" /\ cleaning[j] # None /\ notes[j] # <<>>
      /\ Note(j) \in NoteRec /\ n \in Manifests /\ Note(j).type = "delete" /\ Note(j).version = None
  BY <1>1, CleaningFacts, NoteFacts
<1>3. NotifierOnly(j, m)
  <2>1. \A k \in Instances : k # j =>
          scalers'[k][m] = scalers[k][m] /\ notes'[k] = notes[k] /\ cleaning'[k] = cleaning[k]
    BY <1>1
  <2>2. notes'[j] \in {notes[j], Tail(notes[j])} /\ cleaning'[j] = None
    BY <1>1
  <2> QED
    BY <1>1, <1>2, <2>1, <2>2 DEF NotifierOnly
<1>4. CASE n # m
  <2>1. scalers'[j][m] = scalers[j][m]
    BY <1>1, <1>4
  <2> QED
    BY <1>1, <1>3, <1>4, <2>1, LeftNotedElsewhere
<1>5. CASE n = m
  <2>1. notes' = notes /\ scalers'[j][m] = cleaning[j] /\ cleaning'[j] = None
    BY <1>1, <1>5
  <2>2. scalers[j][m] = None
    BY <1>2, <1>5 DEF Left, CleaningHas
  <2> DEFINE s == notes[j]
             t == Tail(notes[j])
             h == Note(j)
  <2>3. /\ s \in Seq(NoteRec) /\ s # <<>> /\ Head(s) = h /\ t = Tail(s)
        /\ Rest(j) = t /\ Rest(j)' = s
    BY <1>2, <2>1, RestFacts DEF Rest, Note
  <2>4. h.manifest = m /\ h.version = None /\ h.type = "delete"
    BY <1>2, <1>5
  <2> HIDE DEF s, t, h
  <2>5. /\ ~Free(s, m) /\ DeleteFirst(s, m)
        /\ \A v : Ends(s, m, v) <=> Ends(t, m, v) \/ (Free(t, m) /\ None = v)
    BY <2>3, <2>4, TailMeans
  <2>6. \A v : Becomes(j, m, v)' <=> Becomes(j, m, v)
    BY <2>2, <2>3, <2>5 DEF Becomes
  <2>7. j \notin InWork(m)
    BY <1>2, <1>5, NoteAtWork
  <2>8. CleaningHas(j, m)' /\ j \in Ups
    BY <1>2, <2>1 DEF CleaningHas, Ups
  <2>9. \A x : NotifierDoes(j, m, x) \/ NotifierWill(j, m, x) => NotifierWill(j, m, x)'
    BY <2>1, <2>2, <2>3, <2>5, VersionFacts DEF NotifierDoes, NotifierWill
  <2> QED
    BY <1>1, <1>3, <2>6, <2>7, <2>8, <2>9, LeftNotedHere
<1> QED
  BY <1>4, <1>5
-----------------------------------------------------------------------------
(* Instances go and come.                                                  *)
LEMMA LeftCrash ==
  ASSUME TInv, NEW m \in Manifests, Left(m), aux_spoiled'[m] = {}, NEW i \in Instances, Crash(i)
  PROVE  Left(m)'
<1> DEFINE e == work[i].event
<1>1. /\ TInv' /\ status[i] = "up"
      /\ \A j \in Instances : status'[j] = IF j = i THEN "down" ELSE status[j]
      /\ \A j \in Instances : notes'[j] = IF j = i THEN <<>> ELSE notes[j]
      /\ \A j \in Instances : cleaning'[j] = IF j = i THEN None ELSE cleaning[j]
      /\ work'[i] = Idle /\ \A j \in Instances : j # i => work'[j] = work[j]
      /\ \A j \in Instances, n \in Manifests :
           scalers'[j][n] = IF j = i THEN None ELSE scalers[j][n]
      /\ ToSet(queue) \subseteq ToSet(queue')
      /\ \A f \in ToSet(queue') : f \in ToSet(queue) \/ Copy(f, e)
      /\ scalers[i][m] # deployed[m] \/ Behind(i, m) \/ e.manifest = m => aux_spoiled'[m] # {}
      /\ UNCHANGED <<deployed, sent, running, aux_last>>
  BY CrashStep DEF lattice
<1>2. scalers[i][m] = deployed[m] /\ ~Behind(i, m) /\ e.manifest # m
  BY <1>1
<1>3. Free(notes[i], m)
  <2>1. DOMAIN notes[i] = 1 .. Len(notes[i])
    BY RestFacts, SeqElems
  <2> QED
    BY <1>2, <2>1 DEF Behind, Free
<1>4. WorkAlike(m)
  <2>1. work'[i].event.manifest # m
    BY <1>1, IdleFacts, EventFacts
  <2>2. \A f \in ToSet(queue') : f.manifest = m => f \in ToSet(queue)
    BY <1>1, <1>2 DEF Copy
  <2> QED
    BY <1>1, <1>2, <2>1, <2>2, WorkElsewhere, KeptIsAlike
<1>5. \A j \in Ups' : j \in Ups /\ j # i /\ j \in Instances
  BY <1>1 DEF Ups
<1>6. \A j \in Ups' : ToldAlike(j, m)
  BY <1>1, <1>5, SameIsAlike
<1>7. \A j \in Ups : j \notin Ups' => j = i
  BY <1>1 DEF Ups
<1>8. \A j \in InWork(m) : j \in Ups'
  BY <1>1, <1>2, EventsOfFacts DEF InWork, Ups
<1> QED
  BY <1>1, <1>2, <1>3, <1>4, <1>5, <1>6, <1>7, <1>8, LeftUntouched

LEMMA LeftSubscribe ==
  ASSUME TInv, NEW m \in Manifests, Left(m), NEW i \in Instances, Subscribe(i)
  PROVE  Left(m)'
<1>1. /\ TInv' /\ status[i] = "down"
      /\ \A j \in Instances : status'[j] = IF j = i THEN "starting" ELSE status[j]
      /\ UNCHANGED <<deployed, queue, scalers, work, cleaning, sent, running, aux_last>>
  BY SubscribeStep DEF lattice
<1>2. PICK k \in Instances : \A j \in Instances :
        notes'[j] = IF j = i THEN notes[k] ELSE notes[j]
  BY SubscribeStep
<1>3. Ups' = Ups /\ \A j \in Ups : j \in Instances /\ j # i
  BY <1>1 DEF Ups
<1>4. \A j \in Ups : ToldAlike(j, m)
  BY <1>1, <1>2, <1>3, SameIsAlike
<1>5. WorkAlike(m)
  BY <1>1, WorkUntouched, KeptIsAlike
<1>6. \A j \in InWork(m) : j \in Ups
  BY EventsOfFacts DEF Ups
<1> QED
  BY <1>1, <1>3, <1>4, <1>5, <1>6, LeftUntouched

(* An instance that starts when nothing is to be handled is as the others. *)
LEMMA LeftLoadManifests ==
  ASSUME TInv, NEW m \in Manifests, Left(m), Sound(m), aux_spoiled'[m] = {},
         NEW i \in Instances, LoadManifests(i)
  PROVE  Left(m)'
<1>1. /\ status[i] = "starting"
      /\ \A j \in Instances : status'[j] = IF j = i THEN "up" ELSE status[j]
      /\ \A j \in Instances, n \in Manifests :
           scalers'[j][n] = IF j = i THEN deployed[n] ELSE scalers[j][n]
      /\ aux_spoiled'[m] = aux_spoiled[m] \cup IF Pending(m) THEN {"started late"} ELSE {}
      /\ UNCHANGED <<deployed, queue, work, notes, cleaning, sent, running>>
  BY LoadManifestsStep DEF lattice
<1>2. InWork(m) = {} /\ Queued(m) = {} /\ EventsOf(m) = {}
  <2>1. ~Pending(m)
    BY <1>1
  <2>2. ToSet(queue) = {queue[k] : k \in 1 .. Len(queue)} /\ DOMAIN queue = 1 .. Len(queue)
    BY SeqElems DEF TInv, StoredTyped
  <2> QED
    BY <2>1, <2>2 DEF Pending, Queued, EventsOf
<1>3. Follow(m)
  BY <1>2 DEF Sound, Reached
<1>4. InWork(m)' = {} /\ EventsOf(m)' = {}
  BY <1>1, <1>2 DEF InWork, Queued, EventsOf
<1>5. \A x : Wanted(m, x)' <=> x \in IdsOf(deployed[m])
  BY <1>1, <1>4 DEF Wanted
<1>6. /\ \A j \in Ups : j \in Ups' /\ j # i /\ j \in Instances
      /\ \A j \in Ups' : j \in Ups \/ j = i
  BY <1>1 DEF Ups
<1>7. ASSUME NEW j \in Instances, j # i PROVE ToldAlike(j, m)
  BY <1>1, <1>7, SameIsAlike
<1>8. ASSUME NEW j \in Ups', NEW w PROVE Becomes(j, m, w)' => w = deployed[m]
  <2>1. CASE j \in Ups
    BY <1>3, <1>6, <1>7, <2>1, ToldAlikeMeans, SettledHolds
  <2>2. CASE j = i
    <3>1. Follows(i, m) /\ cleaning[i] = None
      BY <1>1, <1>3 DEF Follow, TInv, NotesTyped, NotifierShape
    <3>2. Rest(i)' = notes[i] /\ scalers'[i][m] = deployed[m]
      BY <1>1, <3>1 DEF Rest
    <3>3. notes[i] \in Seq(NoteRec) /\ (Free(notes[i], m) \/ Ends(notes[i], m, deployed[m]))
      BY <3>1, RestFacts DEF Follows
    <3> DEFINE s == notes[i]
    <3>4. Becomes(i, m, w)' => Ends(s, m, w) \/ (Free(s, m) /\ deployed[m] = w)
      BY <3>2 DEF Becomes
    <3>5. s \in Seq(NoteRec) /\ (Free(s, m) \/ Ends(s, m, deployed[m]))
      BY <3>3
    <3> HIDE DEF s
    <3> QED
      BY <2>2, <3>4, <3>5, NotesMean
  <2> QED
    BY <1>6, <2>1, <2>2
<1>9. \A j \in Ups' : \A x : Holds(j, m, x)' => Wanted(m, x)'
  BY <1>4, <1>5, <1>8 DEF Holds
<1>10. ASSUME NEW j \in Instances PROVE CleaningHas(j, m)'
  <2>1. CASE j = i
    <3>1. cleaning'[i] = None
      BY <1>1 DEF TInv, NotesTyped, NotifierShape
    <3> QED
      BY <2>1, <3>1 DEF CleaningHas
  <2>2. CASE j # i
    BY <1>7, <2>2, ToldAlikeMeans DEF Left
  <2> QED
    BY <2>1, <2>2
<1>11. ASSUME NEW x \in AllIds, WillRun(sent', running'[m], m, x) PROVE Owned(m, x)'
  <2>1. Owned(m, x)
    BY <1>1, <1>11 DEF Left
  <2>2. Wanted(m, x) => Wanted(m, x)'
    BY <1>2, <1>5 DEF Wanted
  <2>3. ~NextWill(m, x) /\ ~WorkerWill(m, x)
    BY <1>2 DEF NextWill, WorkerWill
  <2>4. TellsRemoval(m)' <=> TellsRemoval(m)
    BY <1>2, <1>4 DEF TellsRemoval
  <2>5. \A j \in Ups : /\ NotifierDoes(j, m, x) => NotifierDoes(j, m, x)'
                       /\ NotifierWill(j, m, x) => NotifierWill(j, m, x)'
    BY <1>6, <1>7, <2>4, ToldAlikeMeans, NotifierAlike
  <2> QED
    BY <1>6, <2>1, <2>2, <2>3, <2>5 DEF Owned
<1> QED
  BY <1>4, <1>9, <1>10, <1>11 DEF Left, Alike
-----------------------------------------------------------------------------
(* The steps of a worker that is at another manifest.                      *)
LEMMA LeftElsewhere ==
  ASSUME TInv, TInv', NEW m \in Manifests, Left(m), WorkAlike(m), status' = status,
         \A j \in Instances : ToldAlike(j, m),
         \A x \in AllIds :
           WillRun(sent', running'[m], m, x) => WillRun(sent, running[m], m, x)
  PROVE  Left(m)'
<1>1. Ups' = Ups /\ \A j \in Ups : j \in Instances
  BY DEF Ups
<1>2. \A i \in InWork(m) : i \in Ups
  BY EventsOfFacts DEF Ups
<1> QED
  BY <1>1, <1>2, LeftUntouched

LEMMA LeftTakeElsewhere ==
  ASSUME TInv, NEW m \in Manifests, Left(m), NEW i \in Instances, Take(i),
         m # Head(queue).manifest
  PROVE  Left(m)'
<1> DEFINE e == Head(queue)
           old == scalers[i][e.manifest]
<1>1. /\ TInv' /\ work[i] = Idle /\ e \in EventRec
      /\ ToSet(queue) = ToSet(queue') \cup {e}
      /\ \A j \in Instances : scalers'[j][m] = scalers[j][m]
      /\ work'[i] = Begun(e, old)
      /\ \A j \in Instances : j # i => work'[j] = work[j]
      /\ aux_last'[m] = aux_last[m]
  BY TakeStep
<1>2. UNCHANGED <<deployed, status, notes, cleaning, sent, running>>
  BY DEF Take, lattice
<1>3. work'[i].event = e
  <2> HIDE DEF e, old
  <2>1. Begun(e, old).event = e
    BY DEF Begun, Idle
  <2> QED
    BY <1>1, <2>1
<1>4. work[i].event.manifest # m /\ work'[i].event.manifest # m
  BY <1>1, <1>3, IdleFacts, EventFacts
<1> HIDE DEF e, old
<1>5. e.manifest # m
  BY DEF e
<1>6. WorkAlike(m)
  BY <1>1, <1>2, <1>4, <1>5, WorkElsewhere, KeptIsAlike
<1>7. \A j \in Instances : ToldAlike(j, m)
  BY <1>1, <1>2, SameIsAlike
<1> QED
  BY <1>1, <1>2, <1>6, <1>7, LeftElsewhere

LEMMA LeftRefreshElsewhere ==
  ASSUME TInv, NEW m \in Manifests, Left(m), NEW i \in Instances, Refresh(i),
         m # work[i].event.manifest
  PROVE  Left(m)'
<1> DEFINE e == work[i].event
           n == e.manifest
           stop == ToStop(n, Outdated(i))
           gone == Outdated(i) \cap running[n]
<1>1. /\ TInv' /\ Busy(i) /\ e \in EventRec
      /\ \A j \in Instances : j # i => work'[j] = work[j]
      /\ work'[i].event = e
      /\ \A j \in Instances, l \in Manifests : scalers'[j][l] =
           IF j = i /\ l = n THEN e.version ELSE scalers[j][l]
      /\ sent' = IF Unpublished(e) THEN sent \o Publish(stop) ELSE sent
  BY RefreshStep
<1>2. UNCHANGED <<deployed, queue, status, notes, cleaning, running, aux_last>>
  BY DEF Refresh
<1>3. n \in Manifests /\ m # n
  BY <1>1, AtFacts
<1>4. stop = Batch(FALSE, n, gone) /\ gone \in SUBSET AllIds /\ sent \in Seq(BatchRec)
  BY <1>3, WorkFacts, ToMakeFacts DEF TInv, LatticeTyped
<1>5. WorkAlike(m)
  BY <1>1, <1>2, <1>3, WorkElsewhere, KeptIsAlike
<1>6. \A j \in Instances : ToldAlike(j, m)
  BY <1>1, <1>2, <1>3, SameIsAlike
<1> HIDE DEF e, n, stop, gone
<1>7. ASSUME NEW x, WillRun(sent', running'[m], m, x)
      PROVE  WillRun(sent, running[m], m, x)
  <2>1. CASE sent' = sent
    BY <1>2, <1>7, <2>1
  <2>2. CASE sent' = sent \o Publish(stop)
    <3> DEFINE no == FALSE
    <3>1. no \in BOOLEAN /\ stop = Batch(no, n, gone)
      BY <1>4
    <3> HIDE DEF no
    <3>2. WillRun(sent \o Publish(stop), running[m], m, x)
      BY <1>2, <1>7, <2>2
    <3> QED
      BY <1>3, <1>4, <3>1, <3>2, WillRunElsewhere
  <2> QED
    BY <1>1, <2>1, <2>2
<1> QED
  BY <1>1, <1>2, <1>5, <1>6, <1>7, LeftElsewhere

LEMMA LeftFailsElsewhere ==
  ASSUME TInv, TInv', NEW m \in Manifests, Left(m), NEW i \in Instances, Busy(i),
         NEW why \in SUBSET Reasons, Fails(i, why), m # work[i].event.manifest,
         \A j \in Instances : scalers'[j][m] = scalers[j][m]
  PROVE  Left(m)'
<1> DEFINE e == work[i].event
<1>1. /\ work'[i] = Idle /\ \A j \in Instances : j # i => work'[j] = work[j]
      /\ ToSet(queue) \subseteq ToSet(queue')
      /\ \A f \in ToSet(queue') : f \in ToSet(queue) \/ Copy(f, e)
  BY NackTyped DEF Fails
<1>2. UNCHANGED <<deployed, status, notes, cleaning, sent, running, aux_last>>
  BY DEF Fails, lattice
<1>3. e.manifest # m /\ work'[i].event.manifest # m
  BY <1>1, IdleFacts, EventFacts
<1>4. \A f \in ToSet(queue') : f.manifest = m => f \in ToSet(queue)
  BY <1>1, <1>3 DEF Copy
<1>5. WorkAlike(m)
  BY <1>1, <1>2, <1>3, <1>4, WorkElsewhere, KeptIsAlike
<1>6. \A j \in Instances : ToldAlike(j, m)
  BY <1>2, SameIsAlike
<1> QED
  BY <1>2, <1>5, <1>6, LeftElsewhere

LEMMA LeftTellElsewhere ==
  ASSUME TInv, Numbered, NEW m \in Manifests, Left(m), NEW i \in Instances, Tell(i),
         m # work[i].event.manifest
  PROVE  Left(m)'
<1> DEFINE e == work[i].event
           n == Notification(e)
<1>1. /\ TInv' /\ Busy(i) /\ e \in EventRec /\ n \in NoteRec
      /\ \A j \in Instances : notes'[j] =
           IF Listens(j) THEN Append(notes[j], n) ELSE notes[j]
      /\ \A j \in Instances : j # i => work'[j] = work[j]
      /\ IF Unpublished(e) THEN Ack(i) ELSE queue' = queue /\ work'[i].event = e
  BY TellStep
<1>2. UNCHANGED <<deployed, status, scalers, cleaning, sent, running, aux_last>>
  BY DEF Tell, lattice
<1>3. n.manifest # m
  BY <1>1, NoteFacts
<1>4. WorkKept(m)
  <2>1. CASE Unpublished(e)
    BY <1>1, <1>2, <2>1, AckElsewhere
  <2>2. CASE ~Unpublished(e)
    BY <1>1, <1>2, <2>2, WorkElsewhere
  <2> QED
    BY <2>1, <2>2
<1>5. WorkAlike(m)
  BY <1>4, KeptIsAlike
<1> HIDE DEF n
<1>6. ASSUME NEW j \in Instances PROVE ToldAlike(j, m)
  <2>1. CASE Listens(j)
    BY <1>1, <1>2, <1>3, <2>1, TellingIsAlike
  <2>2. CASE ~Listens(j)
    BY <1>1, <1>2, <2>2, SameIsAlike
  <2> QED
    BY <2>1, <2>2
<1> QED
  BY <1>1, <1>2, <1>5, <1>6, LeftElsewhere

LEMMA LeftReconcileElsewhere ==
  ASSUME TInv, Numbered, NEW m \in Manifests, Left(m), NEW i \in Instances,
         Reconcile(i) \/ CleanupCommandsFail(i), m # work[i].event.manifest
  PROVE  Left(m)'
<1> DEFINE n == work[i].event.manifest
           v == Present(i)
           ids == IdsOf(v) \ running[n]
           gone == work[i].cleanup
           make == ToMake(n, v)
           stop == Batch(FALSE, n, gone)
           s == sent \o Publish(make)
<1>1. /\ TInv' /\ Busy(i) /\ Ack(i) /\ n \in Manifests /\ v \in Deployments
      /\ sent' = s \o Publish(stop) \/ sent' = s
      /\ UNCHANGED <<deployed, status, scalers, notes, cleaning, running, aux_last>>
  BY ReconcileStep
<1>2. WorkAlike(m)
  BY <1>1, AckElsewhere, KeptIsAlike
<1>3. \A j \in Instances : ToldAlike(j, m)
  BY <1>1, SameIsAlike
<1>4. /\ make = Batch(TRUE, n, ids) /\ ids \in SUBSET AllIds /\ gone \in SUBSET AllIds
      /\ sent \in Seq(BatchRec)
  BY <1>1, ToMakeFacts, WorkFacts DEF TInv, LatticeTyped
<1>5. m # n /\ stop = Batch(FALSE, n, gone) /\ s = sent \o Publish(make)
  OBVIOUS
<1> DEFINE yes == TRUE
           no == FALSE
<1>6. yes \in BOOLEAN /\ no \in BOOLEAN /\ make = Batch(yes, n, ids) /\ stop = Batch(no, n, gone)
  BY <1>4
<1> HIDE DEF n, v, ids, gone, make, stop, s, yes, no
<1>7. s \in Seq(BatchRec)
  <2>1. sent \o Publish(Batch(yes, n, ids)) \in Seq(BatchRec)
    BY <1>1, <1>4, <1>6, PublishFacts
  <2> QED
    BY <1>5, <1>6, <2>1
<1>8. ASSUME NEW x, WillRun(sent', running'[m], m, x)
      PROVE  WillRun(sent, running[m], m, x)
  <2>1. WillRun(s, running[m], m, x)
    <3>1. CASE sent' = s
      BY <1>1, <1>8, <3>1
    <3>2. CASE sent' = s \o Publish(stop)
      <4>1. WillRun(s \o Publish(stop), running[m], m, x)
        BY <1>1, <1>8, <3>2
      <4> QED
        BY <1>1, <1>4, <1>5, <1>6, <1>7, <4>1, WillRunElsewhere
    <3> QED
      BY <1>1, <3>1, <3>2
  <2>2. WillRun(sent \o Publish(make), running[m], m, x)
    BY <1>5, <2>1
  <2> QED
    BY <1>1, <1>4, <1>5, <1>6, <2>2, WillRunElsewhere
<1> QED
  BY <1>1, <1>2, <1>3, <1>8, LeftElsewhere

(* An event that is late is one of those that there were.                  *)
LEMMA LeftLate ==
  ASSUME TInv, NEW m \in Manifests, Left(m), NEW i \in Instances, Late(i)
  PROVE  Left(m)'
<1> DEFINE e == work[i].event
<1>1. /\ TInv' /\ Busy(i) /\ e \in EventRec
      /\ \A j \in Instances : j # i => work'[j] = work[j]
      /\ work'[i] = [work[i] EXCEPT !.late = TRUE]
      /\ ToSet(queue) \subseteq ToSet(queue')
      /\ \A f \in ToSet(queue') : f \in ToSet(queue) \/ Copy(f, e)
  BY LateStep
<1>2. UNCHANGED <<deployed, status, scalers, notes, cleaning, sent, running>>
  BY DEF Late, lattice
<1>3. \A j \in Instances : SameWork(j)
  <2>1. SameWork(i)
    <3>1. work[i] \in WorkRec
      BY WorkFacts DEF TInv
    <3> QED
      BY <1>1, <3>1 DEF WorkRec, SameWork
  <2> QED
    BY <1>1, <2>1 DEF SameWork
<1>4. InWork(m)' = InWork(m) /\ \A j \in InWork(m) : j \in Instances
  BY <1>3 DEF InWork, SameWork
<1>5. e.manifest = m => e \in EventsOf(m)
  BY <1>1, EventsOfFacts
<1>6. EventsAlike(m)
  <2>1. ASSUME NEW f \in EventsOf(m)' PROVE \E g \in EventsOf(m) : Copy(f, g)
    <3>1. CASE f \in Queued(m)'
      <4>1. f.manifest = m /\ (f \in Queued(m) \/ Copy(f, e))
        BY <1>1, <3>1 DEF Queued
      <4>2. CASE f \in Queued(m)
        BY <4>2, CopyFacts DEF EventsOf
      <4>3. CASE Copy(f, e)
        <5>1. e.manifest = m
          BY <4>1, <4>3 DEF Copy
        <5> QED
          BY <1>5, <4>3, <5>1
      <4> QED
        BY <4>1, <4>2, <4>3
    <3>2. CASE f \notin Queued(m)'
      <4>1. PICK j \in InWork(m) : f = work'[j].event
        BY <1>4, <2>1, <3>2 DEF EventsOf
      <4>2. f = work[j].event
        BY <1>3, <1>4, <4>1 DEF SameWork
      <4> QED
        BY <4>1, <4>2, CopyFacts DEF EventsOf
    <3> QED
      BY <3>1, <3>2
  <2>2. ASSUME NEW g \in EventsOf(m) PROVE g \in EventsOf(m)'
    <3>1. Queued(m) \subseteq Queued(m)'
      BY <1>1 DEF Queued
    <3> QED
      BY <1>3, <1>4, <2>2, <3>1 DEF EventsOf, SameWork
  <2> QED
    BY <2>1, <2>2, CopyFacts DEF EventsAlike
<1>7. WorkAlike(m)
  BY <1>2, <1>3, <1>4, <1>6 DEF WorkAlike
<1>8. \A j \in Instances : ToldAlike(j, m)
  BY <1>2, SameIsAlike
<1> QED
  BY <1>1, <1>2, <1>7, <1>8, LeftElsewhere
-----------------------------------------------------------------------------
(* Step by step, all that runs belongs to someone.                         *)
LEMMA NextLeft ==
  ASSUME TInv, TInv', Numbered, [Next]_vars, NEW m \in Manifests, Left(m), Sound(m), Calm(m)'
  PROVE  Left(m)'
<1>0. aux_spoiled'[m] = {}
  BY DEF Calm
<1>1. ASSUME NEW i \in Instances, RefreshFails(i) PROVE Left(m)'
  <2>1. CASE m = work[i].event.manifest
    BY <1>0, <1>1, <2>1, LeftRefreshFails
  <2>2. CASE m # work[i].event.manifest
    BY <1>1, <2>2, RefreshFailsStep, LeftFailsElsewhere
  <2> QED
    BY <2>1, <2>2
<1>2. ASSUME NEW i \in Instances, CleanUpFails(i) PROVE Left(m)'
  <2>1. CASE m = work[i].event.manifest
    BY <1>0, <1>2, <2>1, LeftCleanUpFails
  <2>2. CASE m # work[i].event.manifest
    <3>1. Busy(i) /\ Fails(i, {}) /\ {} \in SUBSET Reasons
      BY <1>2, CleanUpFailsStep
    <3>2. \A j \in Instances : scalers'[j][m] = scalers[j][m]
      BY <1>2, <2>2, CleanUpFailsStep
    <3> QED
      BY <2>2, <3>1, <3>2, LeftFailsElsewhere
  <2> QED
    BY <2>1, <2>2
<1>3. ASSUME NEW i \in Instances, TellFails(i) PROVE Left(m)'
  <2>1. CASE m = work[i].event.manifest
    BY <1>0, <1>3, <2>1, LeftTellFails
  <2>2. CASE m # work[i].event.manifest
    <3> DEFINE why == IF Unpublished(work[i].event) \/ Outdated(i) = {} THEN {} ELSE {"forgotten"}
    <3>1. Busy(i) /\ Fails(i, why) /\ why \in SUBSET Reasons
      BY <1>3, TellFailsStep
    <3>2. \A j \in Instances : scalers'[j][m] = scalers[j][m]
      BY <1>3, <2>2, TellFailsStep
    <3> HIDE DEF why
    <3> QED
      BY <2>2, <3>1, <3>2, LeftFailsElsewhere
  <2> QED
    BY <2>1, <2>2
<1>4. ASSUME NEW i \in Instances, CommandsFail(i) \/ ScalersGone(i) PROVE Left(m)'
  <2>1. CASE m = work[i].event.manifest
    BY <1>0, <1>4, <2>1, LeftCommandsFail
  <2>2. CASE m # work[i].event.manifest
    BY <1>4, <2>2, CommandsFailStep, LeftFailsElsewhere
  <2> QED
    BY <2>1, <2>2
<1>5. ASSUME NEW i \in Instances, Take(i) PROVE Left(m)'
  BY <1>0, <1>5, LeftTake, LeftTakeElsewhere
<1>6. ASSUME NEW i \in Instances, Refresh(i) PROVE Left(m)'
  BY <1>0, <1>6, LeftRefresh, LeftRefreshElsewhere
<1>7. ASSUME NEW i \in Instances, Tell(i) PROVE Left(m)'
  BY <1>7, LeftTellCreate, LeftTellDelete, LeftTellElsewhere
<1>8. ASSUME NEW i \in Instances, Reconcile(i) \/ CleanupCommandsFail(i) PROVE Left(m)'
  BY <1>0, <1>8, LeftReconcile, LeftReconcileElsewhere
<1>9. ASSUME NEW i \in Instances, Worker(i) \/ Notifier(i) PROVE Left(m)'
  BY <1>0, <1>4, <1>5, <1>6, <1>7, <1>8, <1>9,
     LeftCreateScalers, LeftRemoveScalers, LeftRemovalDone DEF Worker, Notifier
<1>10. ASSUME NEW i \in Instances, Faults(i) PROVE Left(m)'
  BY <1>0, <1>1, <1>2, <1>3, <1>4, <1>8, <1>10, LeftLate, LeftRemovalFails, LeftCrash DEF Faults
<1>11. ASSUME NEW i \in Instances, Subscribe(i) \/ LoadManifests(i) PROVE Left(m)'
  BY <1>0, <1>11, LeftSubscribe, LeftLoadManifests
<1>12. ASSUME NEW i \in Instances, NEW n \in Manifests, HandleEvent(i, n) PROVE Left(m)'
  BY <1>0, <1>12, LeftHandleEvent
<1>13. ASSUME NEW n \in Manifests, NEW v \in Deployments, Change(n, v) PROVE Left(m)'
  <2>1. CASE m = n
    BY <1>13, <2>1, LeftChange
  <2>2. CASE m # n
    <3> DEFINE e == Event(n, v, changes')
    <3>1. /\ e.manifest = n /\ ToSet(queue') = ToSet(queue) \cup {e}
          /\ deployed'[m] = deployed[m]
      BY <1>13, <2>2, ChangeStep DEF Event
    <3>2. UNCHANGED <<status, scalers, work, notes, cleaning, sent, running, aux_last>>
      BY <1>13 DEF Change, lattice
    <3> HIDE DEF e
    <3>3. WorkKept(m)
      BY <2>2, <3>1, <3>2 DEF WorkKept, Queued, InWork
    <3>4. WorkAlike(m)
      BY <3>3, KeptIsAlike
    <3>5. \A j \in Instances : ToldAlike(j, m)
      BY <3>2, SameIsAlike
    <3> QED
      BY <3>2, <3>4, <3>5, LeftElsewhere
  <2> QED
    BY <2>1, <2>2
<1>14. ASSUME Execute \/ (\E n \in Manifests : Stops(n)) PROVE Left(m)'
  BY <1>14, LeftExecute, LeftStops
<1>15. ASSUME UNCHANGED vars PROVE Left(m)'
  <2>1. /\ UNCHANGED <<deployed, queue, status, scalers, work, notes, cleaning>>
        /\ UNCHANGED <<sent, running>>
    BY <1>15 DEF vars, lattice
  <2> QED
    BY <2>1, LeftLattice DEF Left
<1> QED
  BY <1>9, <1>10, <1>11, <1>12, <1>13, <1>14, <1>15 DEF Next

LEMMA NextCInv == CInv /\ [Next]_vars => CInv'
<1> SUFFICES ASSUME CInv, [Next]_vars PROVE CInv'
  OBVIOUS
<1>1. SInv /\ SInv' /\ TInv /\ TInv' /\ Numbered
  BY NextSInv DEF CInv, SInv
<1>2. ASSUME NEW m \in Manifests PROVE OrderInv(m)' /\ LeftInv(m)'
  <2>1. OrderInv(m) /\ LeftInv(m) /\ AgreeInv(m)
    BY <1>1 DEF CInv, SInv
  <2>2. OrderInv(m)'
    BY <1>1, <2>1, NextOrder
  <2>3. ASSUME Calm(m)' PROVE Left(m)'
    <3>1. Calm(m)
      BY <1>1, <2>3, GoodBefore DEF Calm
    <3>2. Good(m)
      BY <3>1 DEF Calm, Good
    <3>3. Left(m) /\ Sound(m)
      BY <2>1, <3>1, <3>2 DEF LeftInv, AgreeInv, OrderInv, Sound
    <3> QED
      BY <1>1, <2>3, <3>3, NextLeft
  <2> QED
    BY <2>2, <2>3 DEF LeftInv
<1> QED
  BY <1>1, <1>2 DEF CInv

LEMMA InitCInv == Init => CInv
<1> SUFFICES ASSUME Init PROVE CInv
  OBVIOUS
<1>1. SInv /\ TInv
  BY InitSInv DEF SInv
<1>2. /\ queue = <<>> /\ sent = <<>> /\ changes = 0
      /\ \A i \in Instances : work[i] = Idle /\ notes[i] = <<>> /\ cleaning[i] = None
      /\ \A m \in Manifests : /\ \A i \in Instances : scalers[i][m] = deployed[m]
                              /\ running[m] = IdsOf(deployed[m]) /\ aux_last[m] = 0
  BY DEF Init
<1>3. ToSet(queue) = {} /\ Len(queue) = 0 /\ Len(sent) = 0
  BY <1>2 DEF ToSet
<1>4. ASSUME NEW m \in Manifests PROVE OrderInv(m) /\ Left(m)
  <2>1. InWork(m) = {} /\ Queued(m) = {} /\ EventsOf(m) = {}
    <3>1. InWork(m) = {}
      BY <1>2, IdleFacts, EventFacts DEF InWork
    <3> QED
      BY <1>3, <3>1 DEF EventsOf, Queued
  <2>2. OrderInv(m)
    BY <1>2, <1>3, <2>1 DEF OrderInv, Ordered, Sorted, QueueLater, LastKnown
  <2>3. deployed[m] \in Deployments
    BY <1>1 DEF TInv, StoredTyped
  <2>4. ASSUME NEW j \in Instances, NEW x PROVE Holds(j, m, x) <=> x \in IdsOf(deployed[m])
    <3>1. Free(Rest(j), m) /\ \A v : ~Ends(Rest(j), m, v)
      BY <1>2, NoNotes DEF Rest
    <3> QED
      BY <1>2, <2>1, <2>3, <3>1 DEF Holds, Becomes
  <2>5. \A j \in Ups : j \in Instances
    BY DEF Ups
  <2>6. \A x : Wanted(m, x) <=> x \in IdsOf(deployed[m])
    BY <2>1 DEF Wanted
  <2>7. \A x : WillRun(sent, running[m], m, x) => x \in IdsOf(deployed[m])
    BY <1>2, <1>3 DEF WillRun
  <2>8. \A j \in Instances : CleaningHas(j, m)
    BY <1>2 DEF CleaningHas
  <2> QED
    BY <2>1, <2>2, <2>4, <2>5, <2>6, <2>7, <2>8 DEF Left, Alike, Owned
<1> QED
  BY <1>1, <1>4 DEF CInv, LeftInv

(* In the end only what is wanted belongs to someone.                      *)
LEMMA NothingAtTheEnd == CInv => NothingLeft
<1> SUFFICES ASSUME CInv, NEW m \in Manifests, Handled(m), sent = <<>>, aux_spoiled[m] = {},
                    NEW x \in running[m]
             PROVE  x \in IdsOf(deployed[m])
  BY DEF NothingLeft
<1>1. TInv /\ Left(m)
  BY DEF CInv, SInv, LeftInv, Calm
<1>2. x \in AllIds
  BY <1>1 DEF TInv, LatticeTyped
<1>3. /\ InWork(m) = {} /\ Queued(m) = {}
      /\ \A i \in Instances : cleaning[i] = None /\ Free(notes[i], m) /\ Rest(i) = notes[i]
  BY <1>1, AllHandled
<1>4. EventsOf(m) = {}
  BY <1>3 DEF EventsOf
<1>5. WillRun(sent, running[m], m, x)
  <2>1. Len(sent) = 0
    OBVIOUS
  <2> QED
    BY <2>1 DEF WillRun
<1>6. Owned(m, x)
  BY <1>1, <1>2, <1>5 DEF Left
<1>7. ~NextWill(m, x) /\ ~WorkerWill(m, x) /\ ~TellsRemoval(m)
  BY <1>3, <1>4 DEF NextWill, WorkerWill, TellsRemoval
<1>8. ASSUME NEW j \in Ups PROVE ~NotifierDoes(j, m, x) /\ ~NotifierWill(j, m, x)
  <2>1. j \in Instances
    BY DEF Ups
  <2>2. ~DeleteFirst(Rest(j), m)
    BY <1>1, <1>3, <2>1, NothingTold
  <2> QED
    BY <1>3, <1>7, <2>1, <2>2 DEF NotifierDoes, NotifierWill
<1>9. Wanted(m, x)
  BY <1>6, <1>7, <1>8 DEF Owned
<1> QED
  BY <1>4, <1>9 DEF Wanted

(* When all changes of a manifest have been handled, all notifications     *)
(* about it read and all commands carried out, and nothing went wrong with *)
(* it, no resource runs that the deployed version has not: whatever an     *)
(* upgrade or an undeploy drops has been stopped, by the instance that     *)
(* handled the event or by those that were told (NothingLeft).             *)
THEOREM NothingIsLeftRunning == Spec => []NothingLeft
<1>1. Spec => []CInv
  BY InitCInv, NextCInv, PTL DEF Spec
<1> QED
  BY <1>1, NothingAtTheEnd, PTL
=============================================================================
