----------------------- MODULE ProviderScaler_proofs ------------------------
(***************************************************************************)
(* Proofs about ProviderScaler: what a reconciliation commands, and what   *)
(* that makes of the providers on the hosts.                               *)
(***************************************************************************)
EXTENDS ProviderScaler, Spreads_proofs
-----------------------------------------------------------------------------
(* What is commanded.                                                      *)

States ==
  {s \in [known : SUBSET Hosts, listed : [Hosts -> Owners \cup {NoOne}], runs : SUBSET Hosts] :
     \A h \in Hosts : s.listed[h] # NoOne => h \in s.known}

AnyConfig ==
  {c \in [kind : {"spread", "daemon"}, id : Ids, instances : Nat, spreads : SpreadLists] : IsConfig(c)}

Outcomes ==
  {o \in [commands : SUBSET Commands, status : {"failed", "deployed", "reconciling"}] :
     IsFiniteSet(o.commands)}

Unwanted(c) == [c EXCEPT !.instances = 0]

LEMMA Configured ==
  /\ Configs \subseteq AnyConfig /\ NoConfig \notin Configs /\ NoOne \notin Owners
  /\ \A c \in AnyConfig : Unwanted(c) \in AnyConfig
<1>1. Configs \subseteq AnyConfig /\ NoConfig \notin Configs /\ NoOne \notin Owners
  BY ProviderScalerAssumption DEF AnyConfig
<1>2. ASSUME NEW c \in AnyConfig PROVE Unwanted(c) \in AnyConfig
  <2> DEFINE d == Unwanted(c)
             Record == [kind : {"spread", "daemon"}, id : Ids, instances : Nat, spreads : SpreadLists]
  <2>1. c \in Record /\ IsConfig(c)
    BY DEF AnyConfig
  <2>2. d \in Record /\ d.spreads = c.spreads
    BY <2>1 DEF Unwanted
  <2> HIDE DEF d
  <2>3. Spreads(d) = Spreads(c)
    BY <2>2 DEF Spreads
  <2>4. Weight(d) = Weight(c)
    BY <2>3 DEF Weight
  <2>5. IsConfig(d)
    BY <2>1, <2>2, <2>4 DEF IsConfig
  <2> QED
    BY <2>2, <2>5 DEF AnyConfig, d
<1> QED
  BY <1>1, <1>2

LEMMA SpreadFacts ==
  ASSUME NEW c \in AnyConfig, NEW i \in DOMAIN Spreads(c)
  PROVE  /\ Spreads(c)[i].name \in Names /\ Spreads(c)[i].hosts \in SUBSET Hosts
         /\ ComputeSpread(c)[i] \in Nat
         /\ Owner(c, i) \in Owners
<1>1. IsConfig(c) /\ c.id \in Ids
  BY DEF AnyConfig
<1>2. Spreads(c)[i] \in [name : Names, weight : Nat, hosts : SUBSET Hosts]
  BY <1>1, ConfigFacts
<1>3. ComputeSpread(c)[i] \in Nat
  BY <1>1, Numbers
<1>4. Owner(c, i) \in Owners
  BY <1>1, <1>2 DEF Owner, Owners
<1> QED
  BY <1>2, <1>3, <1>4

LEMMA CommandType ==
  ASSUME NEW T \in SUBSET Hosts, NEW owner \in Owners
  PROVE  LET stops == {Stop(h) : h \in T}
             starts == {Start(h, owner) : h \in T}
         IN  /\ stops \in SUBSET Commands /\ IsFiniteSet(stops)
             /\ starts \in SUBSET Commands /\ IsFiniteSet(starts)
<1> DEFINE f == [h \in T |-> Stop(h)]
           g == [h \in T |-> Start(h, owner)]
<1>1. IsFiniteSet(T)
  BY SpreadsAssumption, FS_Subset
<1>2. DOMAIN f = T /\ DOMAIN g = T
  OBVIOUS
<1>3. {Stop(h) : h \in T} = {f[h] : h \in DOMAIN f} /\ {Start(h, owner) : h \in T} = {g[h] : h \in DOMAIN g}
  OBVIOUS
<1>4. {Stop(h) : h \in T} \in SUBSET Commands /\ {Start(h, owner) : h \in T} \in SUBSET Commands
  BY DEF Commands
<1> HIDE DEF f, g
<1>5. IsFiniteSet({f[h] : h \in DOMAIN f}) /\ IsFiniteSet({g[h] : h \in DOMAIN g})
  BY <1>1, <1>2, ImageFinite
<1> QED
  BY <1>3, <1>4, <1>5

LEMMA RemoveType ==
  ASSUME NEW c, NEW s \in States
  PROVE  RemoveIneligible(c, s) \in SUBSET Commands /\ IsFiniteSet(RemoveIneligible(c, s))
<1> DEFINE T == {h \in s.known \ Matched(c) : s.listed[h] \in OfId(c.id)}
<1>1. T \in SUBSET Hosts
  BY DEF States
<1>2. Others \in Owners
  BY DEF Owners
<1>3. RemoveIneligible(c, s) = {Stop(h) : h \in T}
  BY DEF RemoveIneligible
<1> HIDE DEF T
<1> QED
  BY <1>1, <1>2, <1>3, CommandType

LEMMA TakenType ==
  ASSUME NEW S, NEW n, NEW T \in Taken(S, n)
  PROVE  T \in SUBSET S
BY DEF Taken, kSubset

LEMMA MovesType ==
  ASSUME NEW c \in AnyConfig, NEW s \in States, NEW i \in DOMAIN Spreads(c), NEW m \in Moves(c, s, i)
  PROVE  m \in SUBSET Commands /\ IsFiniteSet(m)
<1> DEFINE owner == Owner(c, i)
           E == Eligible(s, Spreads(c)[i])
           R == Running(c, s, i)
<1>1. E \in SUBSET Hosts /\ R \in SUBSET E /\ RunningForSpread(c, s, i) \in SUBSET R /\ owner \in Owners
  BY SpreadFacts DEF Eligible, Running, RunningForSpread
<1>2. CASE c.kind = "spread"
  <2>1. m \in SpreadMoves(c, s, i)
    BY <1>2 DEF Moves
  <2>2. \/ \E T \in Taken(RunningForSpread(c, s, i), TooMany(c, s, i)) : m = {Stop(h) : h \in T}
        \/ \E T \in Taken(E \ R, Missing(c, s, i)) : m = {Start(h, owner) : h \in T}
    BY <2>1 DEF SpreadMoves
  <2>3. \E T \in SUBSET Hosts : m = {Stop(h) : h \in T} \/ m = {Start(h, owner) : h \in T}
    <3> HIDE DEF E, R, owner
    <3> QED
      BY <1>1, <2>2, TakenType
  <2> HIDE DEF owner
  <2> QED
    BY <1>1, <2>3, CommandType
<1>3. CASE c.kind # "spread"
  <2> DEFINE T == IF c.instances = 0 THEN R ELSE {}
             U == E \ R
  <2>1. m \in DaemonMoves(c, s, i)
    BY <1>3 DEF Moves
  <2>2. m = {Stop(h) : h \in T} \cup {Start(h, owner) : h \in U}
    BY <2>1 DEF DaemonMoves
  <2>3. T \in SUBSET Hosts /\ U \in SUBSET Hosts
    BY <1>1
  <2> HIDE DEF owner, T, U
  <2> QED
    BY <1>1, <2>2, <2>3, CommandType, FS_Union
<1> QED
  BY <1>2, <1>3

LEMMA CandidatesType ==
  ASSUME NEW c \in AnyConfig, NEW s \in States, NEW cmds \in Candidates(c, s)
  PROVE  /\ cmds \in SUBSET Commands /\ IsFiniteSet(cmds)
         /\ \E f \in [DOMAIN Spreads(c) -> SUBSET Commands] :
              /\ cmds = UNION {f[i] : i \in DOMAIN Spreads(c)}
              /\ \A i \in DOMAIN Spreads(c) : f[i] \in Moves(c, s, i)
<1> DEFINE I == DOMAIN Spreads(c)
           M == [i \in I |-> Moves(c, s, i)]
<1>1. PICK f \in [I -> UNION {M[i] : i \in I}] :
        cmds = UNION {f[i] : i \in I} /\ \A i \in I : f[i] \in M[i]
  BY DEF Candidates
<1>2. IsFiniteSet(I)
  BY ConfigFacts DEF AnyConfig
<1>3. \A i \in I : f[i] \in Moves(c, s, i)
  BY <1>1
<1> HIDE DEF M
<1>4. \A i \in I : f[i] \in SUBSET Commands /\ IsFiniteSet(f[i])
  BY <1>3, MovesType
<1> HIDE DEF I
<1>5. IsFiniteSet({f[i] : i \in I})
  <2>1. DOMAIN f = I
    BY <1>1
  <2> QED
    BY <1>2, <2>1, ImageFinite
<1>6. IsFiniteSet(cmds)
  <2>1. \A T \in {f[i] : i \in I} : IsFiniteSet(T)
    BY <1>4
  <2>2. IsFiniteSet(UNION {f[i] : i \in I})
    BY <1>5, <2>1, FS_UNION
  <2> QED
    BY <1>1, <2>2
<1>7. f \in [I -> SUBSET Commands]
  BY <1>1, <1>4
<1> QED
  BY <1>1, <1>3, <1>4, <1>6, <1>7 DEF I

LEMMA OutcomeType ==
  ASSUME NEW c \in AnyConfig, NEW s \in States, NEW o \in Reconciled(c, s)
  PROVE  o \in Outcomes
<1>1. CASE RemoveIneligible(c, s) # {}
  <2>1. o = [commands |-> RemoveIneligible(c, s), status |-> "reconciling"]
    BY <1>1 DEF Reconciled
  <2> QED
    BY <2>1, RemoveType DEF Outcomes
<1>2. CASE RemoveIneligible(c, s) = {}
  <2>1. PICK cmds \in Candidates(c, s) : o = Result(c, s, cmds)
    BY <1>2 DEF Reconciled
  <2>2. cmds \in SUBSET Commands /\ IsFiniteSet(cmds)
    BY CandidatesType
  <2> QED
    BY <2>1, <2>2 DEF Result, Outcomes
<1> QED
  BY <1>1, <1>2
-----------------------------------------------------------------------------
(* Type correctness.                                                       *)

Statuses == {"reconciling", "deployed", "failed", "undeployed"}

Asks == StartsOf(Commands)

LEMMA TFacts ==
  ASSUME TypeOK
  PROVE  /\ config \in Configs \cup {NoConfig} /\ up \in SUBSET Hosts
         /\ placed \in [Hosts -> Owners \cup {NoOne}] /\ store \in States
         /\ expected \in SUBSET Asks /\ failing \in BOOLEAN
         /\ sent \in Seq(Commands) /\ told \in Seq(Events)
         /\ status \in Statuses /\ faults \in 0 .. MaxFaults
BY DEF TypeOK, States, Statuses, Asks

LEMMA TSome ==
  ASSUME config' \in Configs \cup {NoConfig}, up' \in SUBSET Hosts,
         placed' \in [Hosts -> Owners \cup {NoOne}], store' \in States,
         expected' \in SUBSET Asks, failing' \in BOOLEAN,
         sent' \in Seq(Commands), told' \in Seq(Events),
         status' \in Statuses, faults' \in 0 .. MaxFaults
  PROVE  TypeOK'
BY DEF TypeOK, States, Statuses, Asks

LEMMA TFault ==
  ASSUME TypeOK, Fault
  PROVE  faults' \in 0 .. MaxFaults
BY ProviderScalerAssumption DEF TypeOK, Fault

LEMMA Queue ==
  ASSUME NEW S, NEW q \in Seq(S), q # <<>>
  PROVE  Head(q) \in S /\ Tail(q) \in Seq(S)
OBVIOUS

LEMMA CommandKinds ==
  ASSUME NEW cmd \in Commands
  PROVE  /\ cmd.host \in Hosts
         /\ \/ cmd.type = "start" /\ cmd.owner \in Owners /\ cmd = Start(cmd.host, cmd.owner)
            \/ cmd.type = "stop" /\ cmd.owner = NoOne /\ cmd = Stop(cmd.host)
BY DEF Commands, Start, Stop

LEMMA EventType ==
  ASSUME NEW type \in {"started", "stopped", "failed"}, NEW h \in Hosts, NEW owner \in Owners
  PROVE  Event(type, h, owner) \in Events
BY DEF Events

LEMMA PublishType ==
  ASSUME NEW c \in Configs \cup {NoConfig}, NEW s \in States, Publish(c, s)
  PROVE  status' \in Statuses
<1>1. CASE c = NoConfig
  BY <1>1 DEF Publish, Statuses
<1>2. CASE c # NoConfig /\ failing'
  BY <1>2 DEF Publish, Statuses
<1>3. CASE c # NoConfig /\ ~failing'
  <2>1. status' \in {o.status : o \in Reconciled(c, s)}
    BY <1>3 DEF Publish
  <2>2. PICK o \in Reconciled(c, s) : status' = o.status
    BY <2>1
  <2>3. c \in AnyConfig
    BY <1>3, Configured
  <2>4. o \in Outcomes
    BY <2>2, <2>3, OutcomeType
  <2> QED
    BY <2>2, <2>4 DEF Outcomes, Statuses
<1> QED
  BY <1>1, <1>2, <1>3

LEMMA SendType ==
  ASSUME NEW o \in Outcomes, NEW q \in Seq(Commands)
  PROVE  /\ q \o SetToSeq(o.commands) \in Seq(Commands) /\ SetToSeq(o.commands) \in Seq(Commands)
         /\ StartsOf(o.commands) \in SUBSET Asks
<1>1. SetToSeq(o.commands) \in Seq(o.commands) /\ o.commands \in SUBSET Commands
  BY Listed DEF Outcomes
<1>2. SetToSeq(o.commands) \in Seq(Commands)
  BY <1>1
<1>3. StartsOf(o.commands) \in SUBSET Asks
  BY <1>1 DEF StartsOf, Asks
<1> QED
  BY <1>2, <1>3

LEMMA ReactType ==
  ASSUME TypeOK, NEW s \in States, React(s)
  PROVE  /\ expected' \in SUBSET Asks /\ sent' \in Seq(Commands) /\ status' \in Statuses
         /\ failing' = failing
<1>1. config \in Configs \cup {NoConfig} /\ sent \in Seq(Commands) /\ expected \in SUBSET Asks
  BY TFacts
<1>2. status' \in Statuses /\ failing' = failing
  BY <1>1, PublishType DEF React
<1>3. CASE config # NoConfig /\ expected = {} /\ ~failing
  <2>1. PICK o \in Reconciled(config, s) :
          expected' = StartsOf(o.commands) /\ sent' = sent \o SetToSeq(o.commands)
    BY <1>3 DEF React
  <2>2. o \in Outcomes
    BY <1>1, <1>3, Configured, OutcomeType
  <2> QED
    BY <1>1, <1>2, <2>1, <2>2, SendType
<1>4. CASE ~(config # NoConfig /\ expected = {} /\ ~failing)
  BY <1>1, <1>2, <1>4 DEF React
<1> QED
  BY <1>3, <1>4

LEMMA IgnoreType ==
  ASSUME TypeOK, NEW s \in States, Ignore(s)
  PROVE  /\ expected' \in SUBSET Asks /\ sent' \in Seq(Commands) /\ status' \in Statuses
         /\ failing' = failing
BY TFacts, PublishType DEF Ignore

LEMMA AfterEventType ==
  ASSUME NEW s \in States, NEW e \in Events
  PROVE  AfterEvent(s, e) \in States
<1>1. /\ s.known \in SUBSET Hosts /\ s.runs \in SUBSET Hosts
      /\ s.listed \in [Hosts -> Owners \cup {NoOne}]
      /\ \A h \in Hosts : s.listed[h] # NoOne => h \in s.known
      /\ s = [known |-> s.known, listed |-> s.listed, runs |-> s.runs]
  BY DEF States
<1>2. e.host \in Hosts /\ e.owner \in Owners
  BY DEF Events, Event
<1>3. AfterStarted(s, e) \in States
  <2> DEFINE new == AfterStarted(s, e)
             owner == IF e.host \in s.known \ s.runs THEN e.owner ELSE s.listed[e.host]
  <2>0. new = [s EXCEPT !.runs = s.runs \cup {e.host}, !.listed = [s.listed EXCEPT ![e.host] = owner]]
    BY <1>2 DEF AfterStarted, States
  <2>1. new = [known |-> s.known, listed |-> [s.listed EXCEPT ![e.host] = owner],
               runs |-> s.runs \cup {e.host}]
    BY <1>1, <2>0
  <2>2. owner \in Owners \cup {NoOne} /\ (owner # NoOne => e.host \in s.known)
    BY <1>1, <1>2
  <2> HIDE DEF owner, new
  <2>3. [s.listed EXCEPT ![e.host] = owner] \in [Hosts -> Owners \cup {NoOne}]
    BY <1>1, <1>2, <2>2
  <2>4. \A h \in Hosts : [s.listed EXCEPT ![e.host] = owner][h] # NoOne => h \in s.known
    BY <1>1, <1>2, <2>2
  <2> QED
    BY <1>1, <1>2, <2>1, <2>3, <2>4 DEF States, new
<1>4. AfterStopped(s, e) \in States
  <2> DEFINE new == AfterStopped(s, e)
  <2>0. new = [s EXCEPT !.runs = s.runs \ {e.host}, !.listed = [s.listed EXCEPT ![e.host] = NoOne]]
    BY <1>2 DEF AfterStopped, States
  <2>1. new = [known |-> s.known, listed |-> [s.listed EXCEPT ![e.host] = NoOne],
               runs |-> s.runs \ {e.host}]
    BY <1>1, <2>0
  <2> HIDE DEF new
  <2>2. [s.listed EXCEPT ![e.host] = NoOne] \in [Hosts -> Owners \cup {NoOne}]
    BY <1>1, <1>2
  <2>3. \A h \in Hosts : [s.listed EXCEPT ![e.host] = NoOne][h] # NoOne => h \in s.known
    BY <1>1, <1>2
  <2> QED
    BY <1>1, <1>2, <2>1, <2>2, <2>3 DEF States, new
<1> QED
  BY <1>3, <1>4 DEF AfterEvent

LEMMA AfterHeartbeatType ==
  ASSUME TypeOK, NEW h \in Hosts
  PROVE  AfterHeartbeat(store, h) \in States
<1> DEFINE new == AfterHeartbeat(store, h)
<1>1. store \in States /\ placed[h] \in Owners \cup {NoOne}
  BY TFacts
<1>2. new = [known |-> store.known \cup {h}, listed |-> [store.listed EXCEPT ![h] = placed[h]],
             runs |-> IF placed[h] = NoOne THEN store.runs ELSE store.runs \cup {h}]
  BY DEF AfterHeartbeat
<1> HIDE DEF new
<1>3. [store.listed EXCEPT ![h] = placed[h]] \in [Hosts -> Owners \cup {NoOne}]
  BY <1>1 DEF States
<1>4. \A g \in Hosts : [store.listed EXCEPT ![h] = placed[h]][g] # NoOne => g \in store.known \cup {h}
  BY <1>1 DEF States
<1>5. new.known \in SUBSET Hosts /\ new.runs \in SUBSET Hosts
  BY <1>1, <1>2 DEF States
<1> QED
  BY <1>2, <1>3, <1>4, <1>5 DEF States, new

LEMMA TInit == Init => TypeOK
<1> SUFFICES ASSUME Init PROVE TypeOK
  OBVIOUS
<1>1. PICK b \in Beginnings : config = b[1] /\ placed = [h \in Hosts |-> IF h \in b[2] THEN Others ELSE NoOne]
  BY DEF Init
<1>2. config \in Configs /\ MaxFaults \in Nat
  BY <1>1, ProviderScalerAssumption
<1>3. placed \in [Hosts -> Owners \cup {NoOne}]
  BY <1>1 DEF Owners
<1>4. store \in [known : SUBSET Hosts, listed : [Hosts -> Owners \cup {NoOne}], runs : SUBSET Hosts]
  BY DEF Init
<1>5. \A h \in Hosts : store.listed[h] = NoOne
  BY DEF Init
<1>6. sent \in Seq(Commands) /\ told \in Seq(Events) /\ expected \in SUBSET StartsOf(Commands)
  BY DEF Init
<1>7. failing \in BOOLEAN /\ up \in SUBSET Hosts
  BY DEF Init
<1>9. faults \in 0 .. MaxFaults
  <2>1. faults = 0
    BY DEF Init
  <2> QED
    BY <1>2, <2>1
<1>8. status \in {"reconciling", "deployed", "failed", "undeployed"}
  BY DEF Init
<1> QED
  BY <1>2, <1>3, <1>4, <1>5, <1>6, <1>7, <1>8, <1>9 DEF TypeOK

LEMMA TCarry ==
  ASSUME TypeOK, NEW cmd \in Commands, Carry(cmd)
  PROVE  placed' \in [Hosts -> Owners \cup {NoOne}] /\ told' \in Seq(Events)
<1> DEFINE h == cmd.host
<1>1. h \in Hosts /\ (cmd.type = "start" => cmd.owner \in Owners) /\ cmd.type \in {"start", "stop"}
  BY CommandKinds
<1>2. placed \in [Hosts -> Owners \cup {NoOne}] /\ told \in Seq(Events)
  BY TFacts
<1>3. CASE cmd.type = "start" /\ placed[h] = NoOne
  <2>1. placed' = [placed EXCEPT ![h] = cmd.owner] /\ told' = Append(told, Event("started", h, cmd.owner))
    BY <1>3 DEF Carry
  <2>2. Event("started", h, cmd.owner) \in Events
    BY <1>1, <1>3, EventType
  <2> QED
    BY <1>1, <1>2, <1>3, <2>1, <2>2
<1>4. CASE cmd.type = "start" /\ placed[h] # NoOne
  <2>1. placed' = placed /\ told' = Append(told, Event("failed", h, cmd.owner))
    BY <1>4 DEF Carry
  <2>2. Event("failed", h, cmd.owner) \in Events
    BY <1>1, <1>4, EventType
  <2> QED
    BY <1>1, <1>2, <1>4, <2>1, <2>2
<1>5. CASE cmd.type = "stop" /\ placed[h] # NoOne
  <2>1. placed' = [placed EXCEPT ![h] = NoOne] /\ told' = Append(told, Event("stopped", h, placed[h]))
    BY <1>5 DEF Carry
  <2>2. Event("stopped", h, placed[h]) \in Events
    BY <1>1, <1>2, <1>5, EventType
  <2> QED
    BY <1>1, <1>2, <1>5, <2>1, <2>2
<1>6. CASE cmd.type = "stop" /\ placed[h] = NoOne
  BY <1>2, <1>6 DEF Carry
<1> QED
  BY <1>1, <1>3, <1>4, <1>5, <1>6

LEMMA TExecute ==
  ASSUME TypeOK, Execute \/ ExecuteTwice \/ StartFails
  PROVE  TypeOK'
<1>1. sent # <<>> /\ Head(sent) \in Commands /\ Tail(sent) \in Seq(Commands)
  BY TFacts, Queue DEF Execute, ExecuteTwice, StartFails
<1>2. sent' \in Seq(Commands) /\ UNCHANGED <<wadm, up>>
  BY <1>1, TFacts DEF Execute, ExecuteTwice, StartFails
<1>3. faults' \in 0 .. MaxFaults
  BY TFacts, TFault DEF Execute, ExecuteTwice, StartFails
<1>4. placed' \in [Hosts -> Owners \cup {NoOne}] /\ told' \in Seq(Events)
  <2>1. CASE Carry(Head(sent))
    BY <1>1, <2>1, TCarry
  <2>2. CASE UNCHANGED <<placed, told>>
    BY <2>2, TFacts
  <2>3. CASE StartFails
    <3>1. PICK cmd \in Commands : cmd = Head(sent)
      BY <1>1
    <3>2. told' = Append(told, Event("failed", cmd.host, cmd.owner)) /\ placed' = placed /\ cmd.type = "start"
      BY <2>3, <3>1 DEF StartFails
    <3>3. Event("failed", cmd.host, cmd.owner) \in Events
      BY <3>2, CommandKinds, EventType
    <3> QED
      BY <3>2, <3>3, TFacts
  <2> QED
    BY <2>1, <2>2, <2>3 DEF Execute, ExecuteTwice
<1> QED
  BY <1>2, <1>3, <1>4, TFacts, TSome DEF wadm

LEMMA THost ==
  ASSUME TypeOK, NEW h \in Hosts, HostDies(h) \/ HostStarts(h)
  PROVE  TypeOK'
<1>1. up' \in SUBSET Hosts /\ placed' \in [Hosts -> Owners \cup {NoOne}]
  BY TFacts DEF HostDies, HostStarts
<1>2. faults' \in 0 .. MaxFaults
  BY TFacts, TFault DEF HostDies, HostStarts
<1>3. UNCHANGED <<wadm, sent, told>>
  BY DEF HostDies, HostStarts
<1> QED
  BY <1>1, <1>2, <1>3, TFacts, TSome DEF wadm

LEMMA TProviderEvent ==
  ASSUME TypeOK, ProviderEvent
  PROVE  TypeOK'
<1>1. PICK e \in Events : e = Head(told) /\ told' = Tail(told) /\ told' \in Seq(Events)
  BY TFacts, Queue DEF ProviderEvent
<1>2. PICK s \in States : s = AfterEvent(store, e)
  BY <1>1, TFacts, AfterEventType
<1>3. store' = s /\ (RemoveEvent(s, e) \/ React(s) \/ Ignore(s)) /\ UNCHANGED <<config, up, placed, faults>>
  BY <1>1, <1>2 DEF ProviderEvent
<1>4. expected' \in SUBSET Asks /\ sent' \in Seq(Commands) /\ status' \in Statuses /\ failing' \in BOOLEAN
  <2>1. CASE RemoveEvent(s, e)
    <3>1. expected' \in SUBSET Asks /\ sent' = sent /\ Publish(config, s)
      BY <2>1, TFacts DEF RemoveEvent
    <3>2. failing' \in BOOLEAN
      BY <2>1 DEF RemoveEvent
    <3> QED
      BY <3>1, <3>2, TFacts, PublishType
  <2>2. CASE React(s)
    BY <2>2, TFacts, ReactType
  <2>3. CASE Ignore(s)
    BY <2>3, TFacts, IgnoreType
  <2> QED
    BY <1>3, <2>1, <2>2, <2>3
<1> QED
  BY <1>1, <1>3, <1>4, TFacts, TSome

LEMMA THeartbeat ==
  ASSUME TypeOK, NEW h \in Hosts, HostHeartbeat(h)
  PROVE  TypeOK'
<1>1. PICK s \in States : s = AfterHeartbeat(store, h)
  BY AfterHeartbeatType
<1>2. store' = s /\ (React(s) \/ Ignore(s)) /\ UNCHANGED <<config, up, placed, told, faults>>
  BY <1>1 DEF HostHeartbeat
<1>3. expected' \in SUBSET Asks /\ sent' \in Seq(Commands) /\ status' \in Statuses /\ failing' = failing
  BY <1>2, ReactType, IgnoreType
<1> QED
  BY <1>2, <1>3, TFacts, TSome

LEMMA TReap ==
  ASSUME TypeOK, Reap
  PROVE  TypeOK'
<1>1. store' \in States
  <2>1. store \in States
    BY TFacts
  <2>2. store' = [known |-> store.known \cap up,
                  listed |-> [h \in Hosts |-> IF h \in up THEN store.listed[h] ELSE NoOne],
                  runs |-> store.runs \cap store.known \cap up]
    BY DEF Reap
  <2>3. [h \in Hosts |-> IF h \in up THEN store.listed[h] ELSE NoOne] \in [Hosts -> Owners \cup {NoOne}]
    BY <2>1 DEF States
  <2> QED
    BY <2>1, <2>2, <2>3 DEF States
<1>2. UNCHANGED <<config, up, placed, expected, failing, sent, told, status, faults>>
  BY DEF Reap
<1> QED
  BY <1>1, <1>2, TFacts, TSome

LEMMA TStop ==
  ASSUME TypeOK, StopWaiting \/ StopTooEarly \/ StopBackingOff
  PROVE  TypeOK'
<1>1. expected' \in SUBSET Asks /\ failing' \in BOOLEAN /\ faults' \in 0 .. MaxFaults
  BY TFacts, TFault DEF StopWaiting, StopTooEarly, StopBackingOff
<1>2. UNCHANGED <<config, up, placed, store, sent, told, status>>
  BY DEF StopWaiting, StopTooEarly, StopBackingOff
<1> QED
  BY <1>1, <1>2, TFacts, TSome

LEMMA CleanupType ==
  ASSUME NEW c \in Configs, NEW s \in States, NEW o \in Cleanup(c, s)
  PROVE  o \in Outcomes
<1>1. Unwanted(c) \in AnyConfig
  BY Configured
<1> QED
  BY <1>1, OutcomeType DEF Cleanup, Unwanted

LEMMA TDeploy ==
  ASSUME TypeOK, NEW c \in Configs, Deploy(c)
  PROVE  TypeOK'
<1> DEFINE replaced == config # NoConfig /\ config.id # c.id
<1>1. PICK o \in Reconciled(c, store),
           old \in IF replaced THEN Cleanup(config, store) ELSE {[commands |-> {}]} :
        expected' = StartsOf(o.commands) /\ sent' = sent \o SetToSeq(o.commands) \o SetToSeq(old.commands)
  BY DEF Deploy
<1>2. o \in Outcomes
  BY TFacts, Configured, OutcomeType
<1>3. sent \o SetToSeq(o.commands) \in Seq(Commands) /\ expected' \in SUBSET Asks
  BY <1>1, <1>2, TFacts, SendType
<1>4. SetToSeq(old.commands) \in Seq(Commands)
  <2>1. CASE replaced
    <3>1. old \in Outcomes
      BY <1>1, <2>1, TFacts, CleanupType
    <3> QED
      BY <3>1, TFacts, SendType
  <2>2. CASE ~replaced
    <3>1. old.commands = {}
      BY <1>1, <2>2
    <3>2. SetToSeq({}) \in Seq({})
      BY FS_EmptySet, Listed
    <3> QED
      BY <3>1, <3>2
  <2> QED
    BY <2>1, <2>2
<1>5. sent' \in Seq(Commands)
  BY <1>1, <1>3, <1>4
<1>6. status' \in Statuses /\ faults' \in 0 .. MaxFaults /\ config' = c /\ failing' = FALSE
  BY TFacts, TFault, PublishType DEF Deploy
<1>7. UNCHANGED <<up, placed, store, told>>
  BY DEF Deploy
<1> QED
  BY <1>3, <1>5, <1>6, <1>7, TFacts, TSome

LEMMA TUndeploy ==
  ASSUME TypeOK, Undeploy
  PROVE  TypeOK'
<1>1. PICK old \in Cleanup(config, store) : sent' = sent \o SetToSeq(old.commands)
  BY DEF Undeploy
<1>2. config \in Configs
  BY TFacts DEF Undeploy
<1>3. old \in Outcomes
  BY <1>1, <1>2, TFacts, CleanupType
<1>4. sent' \in Seq(Commands)
  BY <1>1, <1>3, TFacts, SendType
<1>5. config' = NoConfig /\ expected' = {} /\ failing' = FALSE /\ status' = "undeployed"
  BY DEF Undeploy
<1>6. faults' \in 0 .. MaxFaults
  BY TFault DEF Undeploy
<1>7. UNCHANGED <<up, placed, store, told>>
  BY DEF Undeploy
<1>8. status' \in Statuses
  BY <1>5 DEF Statuses
<1> QED
  BY <1>4, <1>5, <1>6, <1>7, <1>8, TFacts, TSome

LEMMA TStep == TypeOK /\ [Next]_vars => TypeOK'
<1> SUFFICES ASSUME TypeOK, [Next]_vars PROVE TypeOK'
  OBVIOUS
<1>1. CASE Execute \/ ExecuteTwice \/ StartFails
  BY <1>1, TExecute
<1>2. CASE ProviderEvent
  BY <1>2, TProviderEvent
<1>3. CASE Reap
  BY <1>3, TReap
<1>4. CASE StopWaiting \/ StopTooEarly \/ StopBackingOff
  BY <1>4, TStop
<1>5. CASE Undeploy
  BY <1>5, TUndeploy
<1>6. CASE \E h \in Hosts : HostHeartbeat(h) \/ HostDies(h) \/ HostStarts(h)
  BY <1>6, THeartbeat, THost
<1>7. CASE \E c \in Configs : Deploy(c)
  BY <1>7, TDeploy
<1>8. CASE UNCHANGED vars
  BY <1>8 DEF vars, wadm, TypeOK
<1> QED
  BY <1>1, <1>2, <1>3, <1>4, <1>5, <1>6, <1>7, <1>8 DEF Next

(* Whatever is stored, commanded and told has its type, and a host without *)
(* a record lists no provider.                                             *)
THEOREM TypeCorrect == Spec => []TypeOK
BY TInit, TStep, PTL DEF Spec
-----------------------------------------------------------------------------
(* Clean-up.                                                               *)

LEMMA TheSmaller ==
  ASSUME NEW j \in Int, NEW k \in Int
  PROVE  Min({j, k}) = (IF j <= k THEN j ELSE k) /\ Max({j, k}) = (IF j <= k THEN k ELSE j)
<1> DEFINE low == IF j <= k THEN j ELSE k
           high == IF j <= k THEN k ELSE j
           S == {j, k}
<1>1. low \in S /\ (\A y \in S : low <= y) /\ \A x \in S : (\A y \in S : x <= y) => x = low
  OBVIOUS
<1>2. high \in S /\ (\A y \in S : high >= y) /\ \A x \in S : (\A y \in S : x >= y) => x = high
  OBVIOUS
<1> HIDE DEF low, high, S
<1>3. Min(S) = low
  BY <1>1 DEF Min
<1>4. Max(S) = high
  BY <1>2 DEF Max
<1> QED
  BY <1>3, <1>4 DEF low, high, S

LEMMA TakesAll ==
  ASSUME NEW S, IsFiniteSet(S), NEW n \in Nat, Cardinality(S) <= n
  PROVE  Taken(S, n) = {S}
<1>1. Cardinality(S) \in Nat
  BY FS_CardinalityType
<1>2. Min({Cardinality(S), n}) = Cardinality(S)
  BY <1>1, TheSmaller
<1>3. \A T \in SUBSET S : Cardinality(T) = Cardinality(S) => T = S
  BY FS_Subset
<1> QED
  BY <1>2, <1>3 DEF Taken, kSubset

LEMMA TakesNone ==
  ASSUME NEW S, IsFiniteSet(S)
  PROVE  Taken(S, 0) = {{}}
<1>1. Cardinality(S) \in Nat
  BY FS_CardinalityType
<1>2. Min({Cardinality(S), 0}) = 0
  BY <1>1, TheSmaller
<1>3. \A T \in SUBSET S : IsFiniteSet(T)
  BY FS_Subset
<1>4. \A T \in SUBSET S : Cardinality(T) = 0 <=> T = {}
  BY <1>3, FS_EmptySet
<1> QED
  BY <1>2, <1>4 DEF Taken, kSubset

LEMMA HostSets ==
  ASSUME NEW c \in AnyConfig, NEW s \in States, NEW i \in DOMAIN Spreads(c)
  PROVE  LET E == Eligible(s, Spreads(c)[i])
             R == Running(c, s, i)
             mine == RunningForSpread(c, s, i)
         IN  /\ E \in SUBSET Hosts /\ R \in SUBSET E /\ mine \in SUBSET R
             /\ IsFiniteSet(E) /\ IsFiniteSet(R) /\ IsFiniteSet(mine)
             /\ IsFiniteSet(E \ R) /\ IsFiniteSet(R \ mine)
             /\ Cardinality(R) \in Nat /\ Cardinality(R \ mine) \in Nat
             /\ Cardinality(mine) \in Nat /\ Cardinality(mine) <= Cardinality(R)
<1> DEFINE E == Eligible(s, Spreads(c)[i])
           R == Running(c, s, i)
           mine == RunningForSpread(c, s, i)
<1>1. E \in SUBSET Hosts /\ R \in SUBSET E /\ mine \in SUBSET R
  BY SpreadFacts DEF Eligible, Running, RunningForSpread
<1> HIDE DEF E, R, mine
<1>2. IsFiniteSet(E)
  BY <1>1, SpreadsAssumption, FS_Subset
<1>3. IsFiniteSet(R) /\ IsFiniteSet(E \ R)
  BY <1>1, <1>2, FS_Subset
<1>4. IsFiniteSet(mine) /\ IsFiniteSet(R \ mine) /\ Cardinality(mine) <= Cardinality(R)
  BY <1>1, <1>3, FS_Subset
<1>5. Cardinality(R) \in Nat /\ Cardinality(R \ mine) \in Nat /\ Cardinality(mine) \in Nat
  BY <1>3, <1>4, FS_CardinalityType
<1> QED
  BY <1>1, <1>2, <1>3, <1>4, <1>5 DEF E, R, mine

(* A spread that is to have no instances stops all that are its own.       *)
LEMMA StopsAll ==
  ASSUME NEW c \in AnyConfig, c.kind = "spread", c.instances = 0, NEW s \in States,
         NEW i \in DOMAIN Spreads(c), NEW m \in Moves(c, s, i)
  PROVE  m = {Stop(h) : h \in RunningForSpread(c, s, i)}
<1> DEFINE E == Eligible(s, Spreads(c)[i])
           R == Running(c, s, i)
           mine == RunningForSpread(c, s, i)
           r == Cardinality(R)
           o == Cardinality(R \ mine)
<1>1. ComputeSpread(c)[i] = 0
  BY NoneForNone DEF AnyConfig
<1>2. /\ mine \in SUBSET R /\ IsFiniteSet(R) /\ IsFiniteSet(mine) /\ IsFiniteSet(E \ R)
      /\ r \in Nat /\ o \in Nat /\ Cardinality(mine) <= r
  BY HostSets
<1>3. TooMany(c, s, i) = Max({0, r - 0}) /\ Missing(c, s, i) = Max({0, 0 - r - o})
  BY <1>1 DEF TooMany, Missing
<1>4. m \in IF TooMany(c, s, i) > 0
            THEN {{Stop(h) : h \in T} : T \in Taken(mine, TooMany(c, s, i))}
            ELSE {{Start(h, Owner(c, i)) : h \in T} : T \in Taken(E \ R, Missing(c, s, i))}
  BY DEF Moves, SpreadMoves
<1>5. R = {} <=> r = 0
  BY <1>2, FS_EmptySet
<1> HIDE DEF E, R, mine, r, o
<1>6. TooMany(c, s, i) = r /\ Missing(c, s, i) = 0
  <2>1. Max({0, r - 0}) = r
    BY <1>2, TheSmaller
  <2>2. Max({0, 0 - r - o}) = 0
    <3> DEFINE x == 0 - r - o
    <3>1. x \in Int /\ x <= 0
      BY <1>2
    <3> HIDE DEF x
    <3>2. Max({0, x}) = IF 0 <= x THEN x ELSE 0
      BY <3>1, TheSmaller
    <3>3. Max({0, x}) = 0
      BY <3>1, <3>2
    <3> QED
      BY <3>3 DEF x
  <2> QED
    BY <1>3, <2>1, <2>2
<1>7. CASE r > 0
  <2>1. Taken(mine, r) = {mine}
    BY <1>2, TakesAll DEF r
  <2>2. m = {Stop(h) : h \in mine}
    BY <1>4, <1>6, <1>7, <2>1
  <2> QED
    BY <2>2 DEF mine
<1>8. CASE r = 0
  <2>1. Taken(E \ R, 0) = {{}}
    BY <1>2, TakesNone
  <2>2. m = {Start(h, Owner(c, i)) : h \in {}}
    <3>1. ~(TooMany(c, s, i) > 0)
      BY <1>6, <1>8
    <3>2. PICK T \in Taken(E \ R, Missing(c, s, i)) : m = {Start(h, Owner(c, i)) : h \in T}
      BY <1>4, <3>1
    <3>3. T \in Taken(E \ R, 0)
      BY <1>6
    <3>4. T = {}
      BY <2>1, <3>3
    <3> QED
      BY <3>2, <3>4
  <2>3. mine = {}
    BY <1>2, <1>5, <1>8
  <2>4. m = {Stop(h) : h \in mine}
    BY <2>2, <2>3
  <2> QED
    BY <2>4 DEF mine
<1> QED
  BY <1>2, <1>7, <1>8

(* A spread scaler that is not wanted any more stops all that it runs, and *)
(* commands nothing else, unless a provider of a spread is on a host that  *)
(* is not the spread's.                                                    *)
THEOREM CleanupIsComplete == Spec => []CleansUp
<1>1. TypeOK => CleansUp
  <2> SUFFICES ASSUME TypeOK, Calm, config # NoConfig, config.kind = "spread", InPlace,
                      RemoveIneligible(config, store) = {}, NEW o \in Cleanup(config, store)
               PROVE  o.commands = {Stop(h) : h \in {h \in Hosts : placed[h] \in Own(config)}}
    BY DEF CleansUp
  <2> DEFINE c == Unwanted(config)
             I == DOMAIN Spreads(config)
             Mine(i) == RunningForSpread(config, store, i)
             rid == {h \in Hosts : placed[h] \in Own(config)}
  <2>1. config \in AnyConfig /\ c \in AnyConfig /\ store \in States
    BY TFacts, Configured
  <2>2. c.kind = "spread" /\ c.instances = 0 /\ c.spreads = config.spreads /\ c.id = config.id
    BY <2>1 DEF AnyConfig, Unwanted
  <2>3. Spreads(c) = Spreads(config)
    BY <2>2 DEF Spreads
  <2>4. RemoveIneligible(c, store) = {}
    BY <2>2, <2>3 DEF RemoveIneligible, Matched
  <2>5. PICK cmds \in Candidates(c, store) : o = Result(c, store, cmds)
    BY <2>4 DEF Cleanup, Reconciled, Unwanted
  <2>6. PICK f \in [DOMAIN Spreads(c) -> SUBSET Commands] :
          cmds = UNION {f[i] : i \in DOMAIN Spreads(c)} /\ \A i \in DOMAIN Spreads(c) : f[i] \in Moves(c, store, i)
    BY <2>1, CandidatesType
  <2>7. \A i \in I : RunningForSpread(c, store, i) = Mine(i)
    BY <2>2, <2>3 DEF RunningForSpread, Running, Owner
  <2> HIDE DEF c
  <2>8. \A i \in I : f[i] = {Stop(h) : h \in Mine(i)}
    <3>1. \A i \in DOMAIN Spreads(c) : f[i] = {Stop(h) : h \in RunningForSpread(c, store, i)}
      BY <2>1, <2>2, <2>6, StopsAll
    <3> QED
      BY <2>3, <2>7, <3>1
  <2>9. \A h \in Hosts : h \in rid <=> \E i \in I : h \in Mine(i)
    <3>1. ASSUME NEW h \in Hosts, NEW i \in I, h \in Mine(i)
          PROVE  h \in rid
      BY <3>1 DEF RunningForSpread, Calm, Own
    <3>2. ASSUME NEW h \in Hosts, h \in rid
          PROVE  \E i \in I : h \in Mine(i)
      <4>1. PICK i \in I : placed[h] = Owner(config, i)
        BY <3>2 DEF Own
      <4>2. h \in Spreads(config)[i].hosts
        BY <4>1 DEF InPlace
      <4>3. store.listed[h] = Owner(config, i) /\ Owner(config, i) # NoOne
        BY <2>1, <4>1, SpreadFacts, Configured DEF Calm
      <4>4. h \in store.known
        BY <2>1, <4>3 DEF States
      <4>5. h \in Mine(i)
        BY <4>2, <4>3, <4>4 DEF RunningForSpread, Running, Eligible
      <4> QED
        BY <4>5
    <3> QED
      BY <3>1, <3>2
  <2>10. \A i \in I : Mine(i) \in SUBSET Hosts
    BY <2>1, HostSets
  <2> HIDE DEF Mine, I, rid
  <2>11. cmds = {Stop(h) : h \in rid}
    <3>1. cmds = UNION {f[i] : i \in I}
      BY <2>3, <2>6 DEF I
    <3>2. \A h \in rid : h \in Hosts
      BY DEF rid
    <3> QED
      BY <2>8, <2>9, <2>10, <3>1, <3>2
  <2>12. o.commands = cmds
    BY <2>5 DEF Result
  <2> QED
    BY <2>11, <2>12 DEF rid
<1> QED
  BY <1>1, TypeCorrect, PTL
-----------------------------------------------------------------------------
(* What a reconciliation starts.                                           *)

(* Spreads that share no host.                                             *)
Disjoint(c) ==
  \A i, j \in DOMAIN Spreads(c) : i = j \/ Spreads(c)[i].hosts \cap Spreads(c)[j].hosts = {}

StartedOn(c, i, cmds) ==
  {h \in Spreads(c)[i].hosts : \E cmd \in cmds : cmd.host = h /\ cmd.type = "start"}

LEMMA MoveOfSpread ==
  ASSUME NEW c \in AnyConfig, c.kind = "spread", NEW s \in States, NEW i \in DOMAIN Spreads(c),
         NEW m \in Moves(c, s, i)
  PROVE  LET R == Running(c, s, i)
         IN  \/ \E T \in SUBSET R : m = {Stop(h) : h \in T}
             \/ \E T \in SUBSET (Eligible(s, Spreads(c)[i]) \ R) :
                  /\ m = {Start(h, Owner(c, i)) : h \in T}
                  /\ T = {} \/ Cardinality(T) + Cardinality(R) <= ComputeSpread(c)[i]
<1> DEFINE E == Eligible(s, Spreads(c)[i])
           R == Running(c, s, i)
           mine == RunningForSpread(c, s, i)
           r == Cardinality(R)
           o == Cardinality(R \ mine)
           k == ComputeSpread(c)[i]
<1>1. k \in Nat
  BY SpreadFacts
<1>2. mine \in SUBSET R /\ IsFiniteSet(E \ R) /\ r \in Nat /\ o \in Nat
  BY HostSets
<1>3. Missing(c, s, i) = Max({0, k - r - o})
  BY DEF Missing
<1>4. m \in IF TooMany(c, s, i) > 0
            THEN {{Stop(h) : h \in T} : T \in Taken(mine, TooMany(c, s, i))}
            ELSE {{Start(h, Owner(c, i)) : h \in T} : T \in Taken(E \ R, Missing(c, s, i))}
  BY DEF Moves, SpreadMoves
<1> HIDE DEF E, R, mine, r, o, k
<1>5. CASE TooMany(c, s, i) > 0
  <2>1. PICK T \in Taken(mine, TooMany(c, s, i)) : m = {Stop(h) : h \in T}
    BY <1>4, <1>5
  <2>2. T \in SUBSET R
    BY <1>2, TakenType
  <2> QED
    BY <2>1, <2>2 DEF R
<1>6. CASE ~(TooMany(c, s, i) > 0)
  <2>1. PICK T \in Taken(E \ R, Missing(c, s, i)) : m = {Start(h, Owner(c, i)) : h \in T}
    BY <1>4, <1>6
  <2> DEFINE x == k - r - o
             d == Cardinality(E \ R)
             y == Max({0, x})
  <2>2. x \in Int /\ d \in Nat
    BY <1>1, <1>2, FS_CardinalityType
  <2>3. T \in SUBSET (E \ R) /\ Cardinality(T) = Min({d, y})
    BY <1>3, <2>1 DEF Taken, kSubset
  <2>4. IsFiniteSet(T)
    BY <1>2, <2>3, FS_Subset
  <2>5. Cardinality(T) \in Nat /\ (T = {} <=> Cardinality(T) = 0)
    BY <2>4, FS_CardinalityType, FS_EmptySet
  <2> HIDE DEF x, d, y
  <2>6. y = IF 0 <= x THEN x ELSE 0
    BY <2>2, TheSmaller DEF y
  <2>7. y \in Nat /\ Min({d, y}) = IF d <= y THEN d ELSE y
    BY <2>2, <2>6, TheSmaller
  <2>8. Cardinality(T) <= y
    BY <2>2, <2>3, <2>7
  <2>9. T = {} \/ Cardinality(T) + r <= k
    <3>1. CASE 0 <= x
      <4>1. Cardinality(T) <= k - r - o
        BY <2>6, <2>8, <3>1 DEF x
      <4> QED
        BY <1>1, <1>2, <2>5, <4>1
    <3>2. CASE ~(0 <= x)
      BY <2>5, <2>6, <2>8, <3>2
    <3> QED
      BY <3>1, <3>2
  <2> QED
    BY <2>1, <2>3, <2>9 DEF E, R, r, k
<1> QED
  BY <1>5, <1>6

(* A host is told to stop what it has, or once to start what it has not;   *)
(* and a spread that starts some has then no more than its number.         *)
LEMMA PlanStarts ==
  ASSUME NEW c \in AnyConfig, c.kind = "spread", Disjoint(c), NEW s \in States, NEW o \in Reconciled(c, s)
  PROVE  /\ \A cmd \in o.commands :
              \/ cmd.type = "stop" /\ s.listed[cmd.host] # NoOne
              \/ cmd.type = "start" /\ cmd.host \in s.known /\ s.listed[cmd.host] = NoOne
         /\ \A cmd, other \in o.commands :
              cmd.type = "start" /\ other.type = "start" /\ cmd.host = other.host => cmd = other
         /\ \A i \in DOMAIN Spreads(c) :
              LET T == StartedOn(c, i, o.commands)
              IN  T = {} \/ Cardinality(T) + Cardinality(Running(c, s, i)) <= ComputeSpread(c)[i]
<1> DEFINE I == DOMAIN Spreads(c)
<1>1. CASE RemoveIneligible(c, s) # {}
  <2>1. o.commands = RemoveIneligible(c, s)
    BY <1>1 DEF Reconciled
  <2>2. ASSUME NEW cmd \in o.commands
        PROVE  cmd.type = "stop" /\ s.listed[cmd.host] # NoOne
    <3>1. PICK h \in s.known \ Matched(c) : s.listed[h] \in OfId(c.id) /\ cmd = Stop(h)
      BY <2>1, <2>2 DEF RemoveIneligible
    <3>2. c.id \in Ids
      BY DEF AnyConfig
    <3>3. s.listed[h] \in Owners
      BY <3>1, <3>2 DEF OfId, Owners
    <3> QED
      BY <3>1, <3>3, Configured DEF Stop
  <2>3. \A i \in I : StartedOn(c, i, o.commands) = {}
    BY <2>2 DEF StartedOn
  <2> QED
    BY <2>2, <2>3
<1>2. CASE RemoveIneligible(c, s) = {}
  <2>1. PICK cmds \in Candidates(c, s) : o = Result(c, s, cmds)
    BY <1>2 DEF Reconciled
  <2>2. o.commands = cmds
    BY <2>1 DEF Result
  <2>3. PICK f \in [I -> SUBSET Commands] :
          cmds = UNION {f[i] : i \in I} /\ \A i \in I : f[i] \in Moves(c, s, i)
    BY CandidatesType
  <2>4. ASSUME NEW i \in I, NEW cmd \in f[i], cmd.type = "start"
        PROVE  cmd = Start(cmd.host, Owner(c, i)) /\ cmd.host \in Eligible(s, Spreads(c)[i]) \ Running(c, s, i)
    <3>1. f[i] \in Moves(c, s, i)
      BY <2>3
    <3>2. \/ \E T \in SUBSET Running(c, s, i) : f[i] = {Stop(h) : h \in T}
          \/ \E T \in SUBSET (Eligible(s, Spreads(c)[i]) \ Running(c, s, i)) :
               f[i] = {Start(h, Owner(c, i)) : h \in T}
      BY <3>1, MoveOfSpread
    <3> QED
      BY <2>4, <3>2 DEF Start, Stop
  <2>5. ASSUME NEW i \in I, NEW cmd \in f[i], cmd.type # "start"
        PROVE  cmd.type = "stop" /\ s.listed[cmd.host] # NoOne
    <3>1. f[i] \in Moves(c, s, i)
      BY <2>3
    <3>2. \/ \E T \in SUBSET Running(c, s, i) : f[i] = {Stop(h) : h \in T}
          \/ \E T \in SUBSET (Eligible(s, Spreads(c)[i]) \ Running(c, s, i)) :
               f[i] = {Start(h, Owner(c, i)) : h \in T}
      BY <3>1, MoveOfSpread
    <3>3. PICK T \in SUBSET Running(c, s, i) : f[i] = {Stop(h) : h \in T}
      BY <2>5, <3>2 DEF Start
    <3> QED
      BY <3>3 DEF Stop, Running
  <2>6. ASSUME NEW cmd \in cmds
        PROVE  \/ cmd.type = "stop" /\ s.listed[cmd.host] # NoOne
               \/ cmd.type = "start" /\ cmd.host \in s.known /\ s.listed[cmd.host] = NoOne
    <3>1. PICK i \in I : cmd \in f[i]
      BY <2>3
    <3>2. CASE cmd.type = "start"
      BY <2>4, <3>1, <3>2 DEF Running, Eligible
    <3>3. CASE cmd.type # "start"
      BY <2>5, <3>1, <3>3
    <3> QED
      BY <3>2, <3>3
  <2>7. ASSUME NEW i \in I, NEW j \in I, NEW cmd \in f[i], NEW other \in f[j],
               cmd.type = "start", cmd.host = other.host \/ cmd.host \in Spreads(c)[j].hosts, other.type = "start"
        PROVE  i = j
    <3>1. cmd.host \in Spreads(c)[i].hosts /\ other.host \in Spreads(c)[j].hosts
      BY <2>4, <2>7 DEF Eligible
    <3> QED
      BY <2>7, <3>1 DEF Disjoint
  <2>8. ASSUME NEW cmd \in cmds, NEW other \in cmds,
               cmd.type = "start", other.type = "start", cmd.host = other.host
        PROVE  cmd = other
    <3>1. PICK i \in I, j \in I : cmd \in f[i] /\ other \in f[j]
      BY <2>3
    <3>2. i = j
      BY <2>7, <2>8, <3>1
    <3> QED
      BY <2>4, <2>8, <3>1, <3>2
  <2>9. ASSUME NEW i \in I
        PROVE  LET T == StartedOn(c, i, cmds)
               IN  T = {} \/ Cardinality(T) + Cardinality(Running(c, s, i)) <= ComputeSpread(c)[i]
    <3> DEFINE T == StartedOn(c, i, cmds)
               r == Cardinality(Running(c, s, i))
               k == ComputeSpread(c)[i]
    <3>1. f[i] \in Moves(c, s, i)
      BY <2>3
    <3>2. ASSUME NEW h \in T PROVE \E cmd \in f[i] : cmd.host = h /\ cmd.type = "start"
      <4>1. PICK cmd \in cmds : cmd.host = h /\ cmd.type = "start" /\ h \in Spreads(c)[i].hosts
        BY DEF StartedOn
      <4>2. PICK j \in I : cmd \in f[j]
        BY <2>3
      <4>3. cmd.host \in Spreads(c)[j].hosts
        BY <2>4, <4>1, <4>2 DEF Eligible
      <4>4. j = i
        BY <4>1, <4>3 DEF Disjoint
      <4> QED
        BY <4>1, <4>2, <4>4
    <3>3. CASE \E U \in SUBSET Running(c, s, i) : f[i] = {Stop(h) : h \in U}
      <4>1. T = {}
        BY <3>2, <3>3 DEF Stop
      <4> QED
        BY <4>1
    <3>4. CASE \E U \in SUBSET (Eligible(s, Spreads(c)[i]) \ Running(c, s, i)) :
                 /\ f[i] = {Start(h, Owner(c, i)) : h \in U}
                 /\ U = {} \/ Cardinality(U) + r <= k
      <4>1. PICK U \in SUBSET (Eligible(s, Spreads(c)[i]) \ Running(c, s, i)) :
                   /\ f[i] = {Start(h, Owner(c, i)) : h \in U}
                   /\ U = {} \/ Cardinality(U) + r <= k
        BY <3>4
      <4>2. T \in SUBSET U
        BY <3>2, <4>1 DEF Start
      <4>3. IsFiniteSet(U) /\ r \in Nat /\ k \in Nat
        <5>1. IsFiniteSet(Eligible(s, Spreads(c)[i]) \ Running(c, s, i)) /\ r \in Nat
          BY HostSets
        <5> QED
          BY <5>1, FS_Subset, SpreadFacts
      <4> HIDE DEF T, r, k
      <4>4. Cardinality(T) <= Cardinality(U) /\ IsFiniteSet(T)
        BY <4>2, <4>3, FS_Subset
      <4>5. Cardinality(T) \in Nat /\ Cardinality(U) \in Nat
        BY <4>3, <4>4, FS_CardinalityType
      <4>6. T = {} \/ Cardinality(T) + r <= k
        BY <4>1, <4>2, <4>3, <4>4, <4>5
      <4> QED
        BY <4>6 DEF T, r, k
    <3> QED
      BY <3>1, <3>3, <3>4, MoveOfSpread
  <2> QED
    BY <2>2, <2>6, <2>8, <2>9
<1> QED
  BY <1>1, <1>2
-----------------------------------------------------------------------------
(* While nothing goes wrong, every host is at one of five points: nothing  *)
(* is heard of it yet; it has no provider, and may be told to start one,   *)
(* which is awaited; one has started, and that is on its way to wadm; it   *)
(* has one; it has stopped its one, and that is on its way.                *)

(* Commands q, or events t, none of which is about a host.                 *)
Clear(h, q) == \A n \in DOMAIN q : q[n].host # h

(* An event on the host h among the events t, and no other on h.           *)
Says(h, t, type) ==
  \E n \in DOMAIN t : /\ t[n].host = h /\ t[n].type = type
                      /\ \A m \in DOMAIN t : t[m].host = h => m = n

Unasked(h, q) == \A n \in DOMAIN q : q[n].host = h => q[n].type = "stop"

(* One start, which is awaited, after all the stops.                       *)
Asked(h, q, x) ==
  \E n \in DOMAIN q : /\ q[n].host = h /\ q[n].type = "start" /\ q[n] \in x
                      /\ \A m \in DOMAIN q : q[m].host = h /\ m # n =>
                                               m < n /\ q[m].type = "stop"

Unheard(h, s, p, t, q) ==
  /\ h \notin s.known /\ s.listed[h] = NoOne /\ h \notin s.runs
  /\ p[h] \in {NoOne, Others}
  /\ Clear(h, t) /\ Clear(h, q)

Vacant(h, s, p, t, q, x) ==
  /\ h \in s.known /\ s.listed[h] = NoOne /\ h \notin s.runs
  /\ p[h] = NoOne
  /\ Clear(h, t) /\ (Unasked(h, q) \/ Asked(h, q, x))

Begun(h, s, p, t, q, x) ==
  /\ h \in s.known /\ s.listed[h] = NoOne /\ h \notin s.runs
  /\ p[h] # NoOne
  /\ Says(h, t, "started") /\ Clear(h, q)
  /\ \A n \in DOMAIN t : t[n].host = h => t[n].owner = p[h]
  /\ Start(h, p[h]) \in x

Settled(h, s, p, t, q) ==
  /\ h \in s.known /\ s.listed[h] # NoOne
  /\ p[h] = s.listed[h]
  /\ Clear(h, t) /\ Unasked(h, q)

Ended(h, s, p, t, q) ==
  /\ h \in s.known /\ s.listed[h] # NoOne
  /\ p[h] = NoOne
  /\ Says(h, t, "stopped") /\ Unasked(h, q)

InOrder(s, p, t, q, x) ==
  \A h \in Hosts : \/ Unheard(h, s, p, t, q)
                   \/ Vacant(h, s, p, t, q, x)
                   \/ Begun(h, s, p, t, q, x)
                   \/ Settled(h, s, p, t, q)
                   \/ Ended(h, s, p, t, q)

(* The hosts of a spread that have a provider, or are going to.            *)
Held(H, p, q) ==
  {h \in H : p[h] \notin {NoOne, Others}
               \/ \E n \in DOMAIN q : q[n].host = h /\ q[n].type = "start"}

Bounded(c, p, q) ==
  \A i \in DOMAIN Spreads(c) :
    Cardinality(Held(Spreads(c)[i].hosts, p, q)) <= ComputeSpread(c)[i]

Orderly ==
  faults = 0 =>
    /\ config \in Configs /\ up = Hosts
    /\ config.kind = "spread" =>
         InOrder(store, placed, told, sent, expected) /\ Bounded(config, placed, sent)

OInv == TypeOK /\ Orderly

LEMMA Tails ==
  ASSUME NEW S, NEW q \in Seq(S), q # <<>>
  PROVE  /\ Head(q) = q[1] /\ 1 \in DOMAIN q
         /\ \A n \in DOMAIN Tail(q) : n + 1 \in DOMAIN q /\ Tail(q)[n] = q[n + 1]
         /\ \A n \in DOMAIN q : n # 1 => n - 1 \in DOMAIN Tail(q) /\ Tail(q)[n - 1] = q[n]
         /\ DOMAIN q \in SUBSET Int /\ DOMAIN Tail(q) \in SUBSET Int
<1>1. Len(q) \in Nat /\ Len(q) > 0 /\ DOMAIN q = 1 .. Len(q)
  OBVIOUS
<1>2. Len(Tail(q)) = Len(q) - 1 /\ \A n \in 1 .. Len(q) - 1 : Tail(q)[n] = q[n + 1]
  OBVIOUS
<1>3. DOMAIN Tail(q) = 1 .. Len(q) - 1
  BY <1>1, <1>2
<1>4. Head(q) = q[1]
  OBVIOUS
<1>5. \A n \in DOMAIN q : n # 1 => n - 1 \in DOMAIN Tail(q) /\ Tail(q)[n - 1] = q[n]
  <2> SUFFICES ASSUME NEW n \in DOMAIN q, n # 1
               PROVE  n - 1 \in DOMAIN Tail(q) /\ Tail(q)[n - 1] = q[n]
    OBVIOUS
  <2>1. n - 1 \in 1 .. Len(q) - 1 /\ (n - 1) + 1 = n
    BY <1>1
  <2> QED
    BY <1>2, <1>3, <2>1
<1> QED
  BY <1>1, <1>2, <1>3, <1>4, <1>5

(* What is handled or carried out does not matter to the other hosts.      *)
LEMMA TailKeeps ==
  ASSUME NEW S, NEW q \in Seq(S), q # <<>>, NEW h, NEW x
  PROVE  /\ Clear(h, q) => Clear(h, Tail(q))
         /\ Unasked(h, q) => Unasked(h, Tail(q))
         /\ Asked(h, q, x) /\ ~(Head(q).host = h /\ Head(q).type = "start") => Asked(h, Tail(q), x)
         /\ \A type : Says(h, q, type) /\ Head(q).host # h => Says(h, Tail(q), type)
<1> DEFINE t == Tail(q)
<1>1. /\ Head(q) = q[1] /\ 1 \in DOMAIN q
      /\ \A n \in DOMAIN t : n + 1 \in DOMAIN q /\ t[n] = q[n + 1]
      /\ \A n \in DOMAIN q : n # 1 => n - 1 \in DOMAIN t /\ t[n - 1] = q[n]
      /\ DOMAIN q \in SUBSET Int /\ DOMAIN t \in SUBSET Int
  BY Tails
<1> HIDE DEF t
<1>2. ASSUME Clear(h, q) PROVE Clear(h, t)
  BY <1>1, <1>2 DEF Clear
<1>3. ASSUME Unasked(h, q) PROVE Unasked(h, t)
  BY <1>1, <1>3 DEF Unasked
<1>4. ASSUME Asked(h, q, x), ~(q[1].host = h /\ q[1].type = "start") PROVE Asked(h, t, x)
  <2>1. PICK n \in DOMAIN q : /\ q[n].host = h /\ q[n].type = "start" /\ q[n] \in x
                              /\ \A m \in DOMAIN q : q[m].host = h /\ m # n => m < n /\ q[m].type = "stop"
    BY <1>4 DEF Asked
  <2>2. n # 1
    BY <1>4, <2>1
  <2>3. n - 1 \in DOMAIN t /\ t[n - 1] = q[n]
    BY <1>1, <2>2
  <2>4. ASSUME NEW m \in DOMAIN t, t[m].host = h, m # n - 1
        PROVE  m < n - 1 /\ t[m].type = "stop"
    <3>1. m + 1 \in DOMAIN q /\ t[m] = q[m + 1] /\ m \in Int /\ n \in Int
      BY <1>1
    <3>2. m + 1 # n
      BY <2>4, <3>1
    <3>3. m + 1 < n /\ q[m + 1].type = "stop"
      BY <2>1, <2>4, <3>1, <3>2
    <3> QED
      BY <3>1, <3>3
  <2> QED
    BY <2>1, <2>3, <2>4 DEF Asked
<1>5. ASSUME NEW type, Says(h, q, type), q[1].host # h PROVE Says(h, t, type)
  <2>1. PICK n \in DOMAIN q : /\ q[n].host = h /\ q[n].type = type
                              /\ \A m \in DOMAIN q : q[m].host = h => m = n
    BY <1>5 DEF Says
  <2>2. n # 1
    BY <1>5, <2>1
  <2>3. n - 1 \in DOMAIN t /\ t[n - 1] = q[n]
    BY <1>1, <2>2
  <2>4. ASSUME NEW m \in DOMAIN t, t[m].host = h
        PROVE  m = n - 1
    <3>1. m + 1 \in DOMAIN q /\ t[m] = q[m + 1] /\ m \in Int /\ n \in Int
      BY <1>1
    <3>2. m + 1 = n
      BY <2>1, <2>4, <3>1
    <3> QED
      BY <3>1, <3>2
  <2> QED
    BY <2>1, <2>3, <2>4 DEF Says
<1> QED
  BY <1>1, <1>2, <1>3, <1>4, <1>5 DEF t

LEMMA AppendKeeps ==
  ASSUME NEW S, NEW t \in Seq(S), NEW e, NEW h
  PROVE  LET new == Append(t, e)
         IN  /\ e.host # h /\ Clear(h, t) => Clear(h, new)
             /\ e.host # h => \A type : Says(h, t, type) => Says(h, new, type)
             /\ \A n \in DOMAIN new : new[n] = e \/ (n \in DOMAIN t /\ new[n] = t[n])
             /\ e.host = h /\ Clear(h, t) => /\ Says(h, new, e.type)
                                             /\ \A n \in DOMAIN new : new[n].host = h => new[n] = e
<1> DEFINE new == Append(t, e)
           k == Len(t) + 1
<1>1. DOMAIN t = 1 .. Len(t) /\ DOMAIN new = 1 .. k /\ Len(t) \in Nat
  OBVIOUS
<1>2. new[k] = e /\ \A n \in 1 .. Len(t) : new[n] = t[n]
  OBVIOUS
<1>3. k \in DOMAIN new /\ k \notin DOMAIN t /\ \A n \in DOMAIN new : n = k \/ n \in DOMAIN t
  BY <1>1
<1>4. \A n \in DOMAIN t : n \in DOMAIN new /\ new[n] = t[n]
  BY <1>1, <1>2
<1> HIDE DEF new, k
<1>5. ASSUME e.host # h, Clear(h, t) PROVE Clear(h, new)
  BY <1>2, <1>3, <1>4, <1>5 DEF Clear
<1>6. ASSUME e.host # h, NEW type, Says(h, t, type) PROVE Says(h, new, type)
  <2>1. PICK n \in DOMAIN t : /\ t[n].host = h /\ t[n].type = type
                              /\ \A m \in DOMAIN t : t[m].host = h => m = n
    BY <1>6 DEF Says
  <2>2. n \in DOMAIN new /\ new[n] = t[n]
    BY <1>4
  <2>3. \A m \in DOMAIN new : new[m].host = h => m = n
    BY <1>2, <1>3, <1>4, <1>6, <2>1
  <2> QED
    BY <2>1, <2>2, <2>3 DEF Says
<1>7. ASSUME e.host = h, Clear(h, t)
      PROVE  Says(h, new, e.type) /\ \A n \in DOMAIN new : new[n].host = h => new[n] = e
  <2>1. \A n \in DOMAIN new : new[n].host = h => n = k
    BY <1>3, <1>4, <1>7 DEF Clear
  <2> QED
    BY <1>2, <1>3, <1>7, <2>1 DEF Says
<1> QED
  BY <1>2, <1>3, <1>4, <1>5, <1>6, <1>7 DEF new

LEMMA Fewer ==
  ASSUME NEW c \in AnyConfig, NEW p, NEW q, NEW p2, NEW q2, Bounded(c, p, q),
         \A i \in DOMAIN Spreads(c) : Held(Spreads(c)[i].hosts, p2, q2) \subseteq Held(Spreads(c)[i].hosts, p, q)
  PROVE  Bounded(c, p2, q2)
<1> SUFFICES ASSUME NEW i \in DOMAIN Spreads(c)
             PROVE  Cardinality(Held(Spreads(c)[i].hosts, p2, q2)) <= ComputeSpread(c)[i]
  BY DEF Bounded
<1> DEFINE A == Held(Spreads(c)[i].hosts, p, q)
           B == Held(Spreads(c)[i].hosts, p2, q2)
<1>1. B \in SUBSET A /\ A \in SUBSET Hosts /\ ComputeSpread(c)[i] \in Nat
  BY SpreadFacts DEF Held
<1>2. Cardinality(A) <= ComputeSpread(c)[i]
  BY DEF Bounded
<1> HIDE DEF A, B
<1>3. IsFiniteSet(A)
  BY <1>1, SpreadsAssumption, FS_Subset
<1>4. IsFiniteSet(B) /\ Cardinality(B) <= Cardinality(A)
  BY <1>1, <1>3, FS_Subset
<1>5. Cardinality(A) \in Nat /\ Cardinality(B) \in Nat
  BY <1>3, <1>4, FS_CardinalityType
<1> QED
  BY <1>1, <1>2, <1>4, <1>5 DEF A, B

(* With nothing awaited no host is about to start one.                     *)
LEMMA NothingAsked ==
  ASSUME NEW s, NEW p, NEW t, NEW q, InOrder(s, p, t, q, {}), NEW h \in Hosts
  PROVE  \/ Unheard(h, s, p, t, q)
         \/ Vacant(h, s, p, t, q, {}) /\ Unasked(h, q)
         \/ Settled(h, s, p, t, q)
         \/ Ended(h, s, p, t, q)
BY DEF InOrder, Vacant, Begun, Asked

LEMMA SendOrder ==
  ASSUME NEW c \in AnyConfig, c.kind = "spread", Disjoint(c), NEW s \in States,
         NEW p, NEW t, NEW q \in Seq(Commands), InOrder(s, p, t, q, {}), Bounded(c, p, q),
         NEW o \in Reconciled(c, s)
  PROVE  /\ InOrder(s, p, t, q \o SetToSeq(o.commands), StartsOf(o.commands))
         /\ Bounded(c, p, q \o SetToSeq(o.commands))
<1> DEFINE cmds == o.commands
           w == SetToSeq(cmds)
           z == q \o w
           k == Len(q)
           x == StartsOf(cmds)
<1>1. cmds \in SUBSET Commands /\ IsFiniteSet(cmds)
  BY OutcomeType DEF Outcomes
<1>2. /\ w \in Seq(cmds) /\ ToSet(w) = cmds
      /\ \A i, j \in DOMAIN w : w[i] = w[j] => i = j
  <2>1. /\ w \in Seq(cmds) /\ ToSet(w) = cmds /\ Len(w) = Cardinality(cmds)
        /\ \A i, j \in 1 .. Cardinality(cmds) : w[i] = w[j] => i = j
    BY <1>1, Listed
  <2>2. DOMAIN w = 1 .. Cardinality(cmds)
    BY <2>1
  <2> QED
    BY <2>1, <2>2
<1>3. /\ \A cmd \in cmds : \/ cmd.type = "stop" /\ s.listed[cmd.host] # NoOne
                           \/ cmd.type = "start" /\ cmd.host \in s.known /\ s.listed[cmd.host] = NoOne
      /\ \A cmd, other \in cmds :
           cmd.type = "start" /\ other.type = "start" /\ cmd.host = other.host => cmd = other
      /\ \A i \in DOMAIN Spreads(c) :
           LET T == StartedOn(c, i, cmds)
           IN  T = {} \/ Cardinality(T) + Cardinality(Running(c, s, i)) <= ComputeSpread(c)[i]
  BY PlanStarts
<1> HIDE DEF cmds, w
<1>4. k \in Nat /\ DOMAIN q = 1 .. k /\ DOMAIN w = 1 .. Len(w) /\ Len(w) \in Nat /\ DOMAIN z = 1 .. k + Len(w)
  BY <1>2
<1>5. /\ \A n \in 1 .. k : z[n] = q[n]
      /\ \A n \in 1 .. k + Len(w) : n > k => z[n] = w[n - k]
  BY <1>2, <1>4
<1>6. /\ \A n \in DOMAIN q : n \in DOMAIN z /\ z[n] = q[n]
      /\ \A n \in DOMAIN z : \/ n \in DOMAIN q /\ z[n] = q[n]
                             \/ n > k /\ z[n] \in cmds
  <2>1. \A n \in DOMAIN w : w[n] \in cmds
    BY <1>2
  <2>2. \A n \in DOMAIN z : n \in DOMAIN q \/ (n > k /\ n - k \in DOMAIN w)
    BY <1>4
  <2> QED
    BY <1>4, <1>5, <2>1, <2>2
<1>7. \A cmd \in cmds : \E n \in DOMAIN z : n > k /\ z[n] = cmd
  <2> SUFFICES ASSUME NEW cmd \in cmds PROVE \E n \in DOMAIN z : n > k /\ z[n] = cmd
    OBVIOUS
  <2>1. PICK i \in DOMAIN w : w[i] = cmd
    BY <1>2 DEF ToSet
  <2>2. i + k \in DOMAIN z /\ i + k > k /\ (i + k) - k = i
    BY <1>4
  <2> QED
    BY <1>4, <1>5, <2>1, <2>2
<1>8. \A n, m \in DOMAIN z : n > k /\ m > k /\ z[n] = z[m] => n = m
  <2> SUFFICES ASSUME NEW n \in DOMAIN z, NEW m \in DOMAIN z, n > k, m > k, z[n] = z[m]
               PROVE  n = m
    OBVIOUS
  <2>1. n - k \in DOMAIN w /\ m - k \in DOMAIN w /\ w[n - k] = w[m - k] /\ n \in Int /\ m \in Int
    BY <1>4, <1>5
  <2>2. n - k = m - k
    BY <1>2, <2>1
  <2> QED
    BY <1>4, <2>1, <2>2
<1>9. \A h \in Hosts, n \in DOMAIN q : q[n].host = h => q[n].type = "stop"
  BY NothingAsked DEF Unheard, Settled, Ended, Clear, Unasked
<1>10. DOMAIN z \in SUBSET Int /\ \A n \in DOMAIN q, m \in DOMAIN z : m > k => n < m
  BY <1>4
<1> HIDE DEF z, k
<1>11. InOrder(s, p, t, z, x)
  <2> SUFFICES ASSUME NEW h \in Hosts
               PROVE  \/ Unheard(h, s, p, t, z) \/ Vacant(h, s, p, t, z, x)
                      \/ Settled(h, s, p, t, z) \/ Ended(h, s, p, t, z)
    BY DEF InOrder
  <2>1. CASE Unheard(h, s, p, t, q)
    <3>1. h \notin s.known /\ s.listed[h] = NoOne /\ Clear(h, q)
      BY <2>1 DEF Unheard
    <3>2. \A cmd \in cmds : cmd.host # h
      BY <1>3, <3>1
    <3>3. Clear(h, z)
      BY <1>6, <3>1, <3>2 DEF Clear
    <3> QED
      BY <2>1, <3>3 DEF Unheard
  <2>2. CASE Vacant(h, s, p, t, q, {}) /\ Unasked(h, q)
    <3>1. s.listed[h] = NoOne /\ \A n \in DOMAIN q : q[n].host = h => q[n].type = "stop"
      BY <2>2 DEF Vacant, Unasked
    <3>2. \A cmd \in cmds : cmd.host = h => cmd.type = "start"
      BY <1>3, <3>1
    <3>3. CASE \A cmd \in cmds : cmd.host # h
      <4>1. Unasked(h, z)
        BY <1>6, <3>1, <3>3 DEF Unasked
      <4> QED
        BY <2>2, <4>1 DEF Vacant
    <3>4. CASE \E cmd \in cmds : cmd.host = h
      <4>1. PICK cmd \in cmds : cmd.host = h
        BY <3>4
      <4>2. cmd.type = "start" /\ \A other \in cmds : other.host = h => other = cmd
        BY <1>3, <3>2, <4>1
      <4>3. PICK n \in DOMAIN z : n > k /\ z[n] = cmd
        BY <1>7
      <4>4. cmd \in x
        BY <4>2 DEF StartsOf
      <4>5. ASSUME NEW m \in DOMAIN z, z[m].host = h, m # n
            PROVE  m < n /\ z[m].type = "stop"
        <5>1. CASE m \in DOMAIN q /\ z[m] = q[m]
          BY <1>10, <3>1, <4>3, <4>5, <5>1
        <5>2. CASE m > k /\ z[m] \in cmds
          <6>1. z[m] = z[n]
            BY <4>2, <4>3, <4>5, <5>2
          <6> QED
            BY <1>8, <4>3, <4>5, <5>2, <6>1
        <5> QED
          BY <1>6, <5>1, <5>2
      <4>6. Asked(h, z, x)
        BY <4>1, <4>2, <4>3, <4>4, <4>5 DEF Asked
      <4> QED
        BY <2>2, <4>6 DEF Vacant
    <3> QED
      BY <3>3, <3>4
  <2>3. CASE Settled(h, s, p, t, q) \/ Ended(h, s, p, t, q)
    <3>1. s.listed[h] # NoOne /\ \A n \in DOMAIN q : q[n].host = h => q[n].type = "stop"
      BY <2>3 DEF Settled, Ended, Unasked
    <3>2. \A cmd \in cmds : cmd.host = h => cmd.type = "stop"
      BY <1>3, <3>1
    <3>3. Unasked(h, z)
      BY <1>6, <3>1, <3>2 DEF Unasked
    <3> QED
      BY <2>3, <3>3 DEF Settled, Ended
  <2> QED
    BY <2>1, <2>2, <2>3, NothingAsked
<1>12. Bounded(c, p, z)
  <2> SUFFICES ASSUME NEW i \in DOMAIN Spreads(c)
               PROVE  Cardinality(Held(Spreads(c)[i].hosts, p, z)) <= ComputeSpread(c)[i]
    BY DEF Bounded
  <2> DEFINE H == Spreads(c)[i].hosts
             T == StartedOn(c, i, cmds)
             R == Running(c, s, i)
             A == Held(H, p, q)
             B == Held(H, p, z)
             n == ComputeSpread(c)[i]
  <2>1. H \in SUBSET Hosts /\ n \in Nat
    BY SpreadFacts
  <2>2. B \subseteq T \cup A
    <3> SUFFICES ASSUME NEW h \in B PROVE h \in T \cup A
      OBVIOUS
    <3>1. h \in H
      BY DEF Held
    <3>2. CASE p[h] \notin {NoOne, Others}
      BY <3>1, <3>2 DEF Held
    <3>3. CASE \E m \in DOMAIN z : z[m].host = h /\ z[m].type = "start"
      BY <1>6, <3>1, <3>3 DEF Held, StartedOn
    <3> QED
      BY <3>2, <3>3 DEF Held
  <2>3. A \subseteq R
    <3> SUFFICES ASSUME NEW h \in A PROVE h \in R
      OBVIOUS
    <3>1. h \in H /\ h \in Hosts
      BY <2>1 DEF Held
    <3>2. p[h] \notin {NoOne, Others}
      BY <1>9, <3>1 DEF Held
    <3>3. Settled(h, s, p, t, q)
      BY <3>1, <3>2, NothingAsked DEF Unheard, Vacant, Ended
    <3> QED
      BY <3>1, <3>3 DEF Settled, Running, Eligible
  <2>4. Cardinality(A) <= n
    BY DEF Bounded
  <2>5. T = {} \/ Cardinality(T) + Cardinality(R) <= n
    BY <1>3
  <2>6. T \in SUBSET Hosts /\ R \in SUBSET Hosts /\ A \in SUBSET Hosts /\ B \in SUBSET Hosts
    BY <2>1 DEF StartedOn, Running, Eligible, Held
  <2> HIDE DEF T, R, A, B, H, n
  <2>7. IsFiniteSet(T) /\ IsFiniteSet(R) /\ IsFiniteSet(A) /\ IsFiniteSet(B)
    BY <2>6, SpreadsAssumption, FS_Subset
  <2>8. CASE T = {}
    <3>1. B \in SUBSET A
      BY <2>2, <2>8
    <3>2. Cardinality(B) <= Cardinality(A) /\ Cardinality(A) \in Nat /\ Cardinality(B) \in Nat
      BY <2>7, <3>1, FS_Subset, FS_CardinalityType
    <3> QED
      BY <2>1, <2>4, <3>2 DEF B, H, n
  <2>9. CASE Cardinality(T) + Cardinality(R) <= n
    <3>1. B \in SUBSET (T \cup R)
      BY <2>2, <2>3
    <3>2. IsFiniteSet(T \cup R) /\ Cardinality(T \cup R) = Cardinality(T) + Cardinality(R) - Cardinality(T \cap R)
      BY <2>7, FS_Union
    <3>3. Cardinality(T \cap R) \in Nat
      BY <2>7, FS_Intersection, FS_CardinalityType
    <3>4. Cardinality(B) <= Cardinality(T \cup R)
      BY <3>1, <3>2, FS_Subset
    <3>5. Cardinality(T) \in Nat /\ Cardinality(R) \in Nat /\ Cardinality(B) \in Nat
      BY <2>7, FS_CardinalityType
    <3> QED
      BY <2>1, <2>9, <3>2, <3>3, <3>4, <3>5 DEF B, H, n
  <2> QED
    BY <2>5, <2>8, <2>9
<1> QED
  BY <1>11, <1>12 DEF cmds, w, z, x

(* An event is heard, and no longer awaited.                               *)
LEMMA HeardOrder ==
  ASSUME NEW s \in States, NEW p \in [Hosts -> Owners \cup {NoOne}],
         NEW t \in Seq(Events), t # <<>>, NEW q, NEW x, NEW y,
         InOrder(s, p, t, q, x), \A cmd \in x : cmd.host # Head(t).host => cmd \in y
  PROVE  InOrder(AfterEvent(s, Head(t)), p, Tail(t), q, y)
<1> SUFFICES ASSUME NEW h \in Hosts, NEW new, new = AfterEvent(s, Head(t))
             PROVE  \/ Unheard(h, new, p, Tail(t), q) \/ Vacant(h, new, p, Tail(t), q, y)
                    \/ Begun(h, new, p, Tail(t), q, y)
                    \/ Settled(h, new, p, Tail(t), q) \/ Ended(h, new, p, Tail(t), q)
  BY DEF InOrder
<1> DEFINE e == Head(t)
           rest == Tail(t)
<1>1. e \in Events /\ e = t[1] /\ 1 \in DOMAIN t /\ e.host \in Hosts
  BY Queue, Tails DEF Events, Event
<1>2. /\ s.known \in SUBSET Hosts /\ s.runs \in SUBSET Hosts
      /\ s.listed \in [Hosts -> Owners \cup {NoOne}]
  BY DEF States
<1>3. /\ Clear(h, t) => Clear(h, rest)
      /\ \A type : Says(h, t, type) /\ e.host # h => Says(h, rest, type)
      /\ \A n \in DOMAIN rest : n + 1 \in DOMAIN t /\ rest[n] = t[n + 1] /\ n \in Int
  BY TailKeeps, Tails
<1>4. /\ new.known = s.known
      /\ \A g \in Hosts : g # e.host => new.listed[g] = s.listed[g] /\ (g \in new.runs <=> g \in s.runs)
  BY <1>1, <1>2 DEF AfterEvent, AfterStarted, AfterStopped, States
<1>5. CASE h # e.host
  <2>1. new.listed[h] = s.listed[h] /\ (h \in new.runs <=> h \in s.runs) /\ new.known = s.known
    BY <1>4, <1>5
  <2> HIDE DEF e, rest
  <2>2. CASE Unheard(h, s, p, t, q)
    BY <1>3, <2>1, <2>2 DEF Unheard, rest
  <2>3. CASE Vacant(h, s, p, t, q, x)
    <3>1. Asked(h, q, x) => Asked(h, q, y)
      BY <1>5 DEF Asked, e
    <3> QED
      BY <1>3, <2>1, <2>3, <3>1 DEF Vacant, rest
  <2>4. CASE Begun(h, s, p, t, q, x)
    <3>1. Start(h, p[h]) \in y
      BY <1>5, <2>4 DEF Begun, Start, e
    <3>2. Says(h, rest, "started")
      BY <1>3, <1>5, <2>4 DEF Begun
    <3>3. \A n \in DOMAIN rest : rest[n].host = h => rest[n].owner = p[h]
      BY <1>3, <2>4 DEF Begun
    <3> QED
      BY <2>1, <2>4, <3>1, <3>2, <3>3 DEF Begun, rest
  <2>5. CASE Settled(h, s, p, t, q)
    BY <1>3, <2>1, <2>5 DEF Settled, rest
  <2>6. CASE Ended(h, s, p, t, q)
    BY <1>3, <1>5, <2>1, <2>6 DEF Ended, rest
  <2> QED
    BY <2>2, <2>3, <2>4, <2>5, <2>6 DEF InOrder
<1>6. CASE h = e.host
  <2>1. ~Clear(h, t)
    BY <1>1, <1>6 DEF Clear
  <2>2. ASSUME NEW type, Says(h, t, type)
        PROVE  e.type = type /\ Clear(h, rest)
    <3>1. PICK n \in DOMAIN t : t[n].host = h /\ t[n].type = type /\ \A m \in DOMAIN t : t[m].host = h => m = n
      BY <2>2 DEF Says
    <3>2. n = 1
      BY <1>1, <1>6, <3>1
    <3>3. \A m \in DOMAIN rest : m + 1 # 1
      <4>1. \A m \in DOMAIN rest : m \in Int /\ m > 0
        <5>1. rest \in Seq(Events)
          BY Queue
        <5> HIDE DEF rest
        <5> QED
          BY <5>1
      <4> QED
        BY <4>1
    <3>4. Clear(h, rest)
      BY <1>3, <3>1, <3>2, <3>3 DEF Clear
    <3> QED
      BY <1>1, <3>1, <3>2, <3>4
  <2>3. CASE Begun(h, s, p, t, q, x)
    <3>1. e.type = "started" /\ Clear(h, rest) /\ e.owner = p[h] /\ h \in s.known /\ h \notin s.runs
      BY <1>1, <1>6, <2>2, <2>3 DEF Begun
    <3>2. new.listed[h] = p[h]
      BY <1>2, <1>6, <3>1 DEF AfterEvent, AfterStarted, States
    <3>3. Unasked(h, q)
      BY <2>3 DEF Begun, Clear, Unasked
    <3> QED
      BY <1>4, <2>3, <3>1, <3>2, <3>3 DEF Begun, Settled
  <2>4. CASE Ended(h, s, p, t, q)
    <3>1. e.type = "stopped" /\ Clear(h, rest)
      BY <2>2, <2>4 DEF Ended
    <3>2. new.listed[h] = NoOne /\ h \notin new.runs
      BY <1>2, <1>6, <3>1 DEF AfterEvent, AfterStopped, States
    <3> QED
      BY <1>4, <2>4, <3>1, <3>2 DEF Ended, Vacant
  <2> QED
    BY <2>1, <2>3, <2>4 DEF InOrder, Unheard, Vacant, Settled
<1> QED
  BY <1>5, <1>6

LEMMA HeartbeatOrder ==
  ASSUME TypeOK, NEW x, NEW q, InOrder(store, placed, told, q, x),
         NEW g \in Hosts, Clear(g, told)
  PROVE  InOrder(AfterHeartbeat(store, g), placed, told, q, x)
<1> SUFFICES ASSUME NEW h \in Hosts, NEW new, new = AfterHeartbeat(store, g)
             PROVE  \/ Unheard(h, new, placed, told, q) \/ Vacant(h, new, placed, told, q, x)
                    \/ Begun(h, new, placed, told, q, x)
                    \/ Settled(h, new, placed, told, q) \/ Ended(h, new, placed, told, q)
  BY DEF InOrder
<1>1. store \in States /\ store.listed \in [Hosts -> Owners \cup {NoOne}]
  BY TFacts DEF States
<1>2. /\ new.known = store.known \cup {g}
      /\ new.listed = [store.listed EXCEPT ![g] = placed[g]]
      /\ new.runs = IF placed[g] = NoOne THEN store.runs ELSE store.runs \cup {g}
  BY DEF AfterHeartbeat
<1>3. CASE h # g
  <2>1. /\ h \in new.known <=> h \in store.known
        /\ new.listed[h] = store.listed[h]
        /\ h \in new.runs <=> h \in store.runs
    BY <1>1, <1>2, <1>3
  <2>2. CASE Unheard(h, store, placed, told, q)
    BY <2>1, <2>2 DEF Unheard
  <2>3. CASE Vacant(h, store, placed, told, q, x)
    BY <2>1, <2>3 DEF Vacant
  <2>4. CASE Begun(h, store, placed, told, q, x)
    BY <2>1, <2>4 DEF Begun
  <2>5. CASE Settled(h, store, placed, told, q)
    BY <2>1, <2>5 DEF Settled
  <2>6. CASE Ended(h, store, placed, told, q)
    BY <2>1, <2>6 DEF Ended
  <2> QED
    BY <2>2, <2>3, <2>4, <2>5, <2>6 DEF InOrder
<1>4. CASE h = g
  <2>1. /\ h \in new.known /\ new.listed[h] = placed[h]
        /\ placed[h] = NoOne => (h \in new.runs <=> h \in store.runs)
    BY <1>1, <1>2, <1>4
  <2>2. CASE Unheard(h, store, placed, told, q)
    <3>1. Clear(h, q) /\ Unasked(h, q) /\ Clear(h, told)
      BY <2>2 DEF Unheard, Clear, Unasked
    <3>2. CASE placed[h] = NoOne
      BY <2>1, <2>2, <3>1, <3>2 DEF Unheard, Vacant
    <3>3. CASE placed[h] # NoOne
      BY <2>1, <3>1, <3>3 DEF Settled
    <3> QED
      BY <3>2, <3>3
  <2>3. CASE Vacant(h, store, placed, told, q, x)
    BY <2>1, <2>3 DEF Vacant
  <2>4. CASE Settled(h, store, placed, told, q)
    BY <2>1, <2>4 DEF Settled
  <2>5. ~Begun(h, store, placed, told, q, x) /\ ~Ended(h, store, placed, told, q)
    BY <1>4 DEF Begun, Ended, Says, Clear
  <2> QED
    BY <2>2, <2>3, <2>4, <2>5 DEF InOrder
<1> QED
  BY <1>3, <1>4

LEMMA ExecuteOrder ==
  ASSUME TypeOK, up = Hosts, InOrder(store, placed, told, sent, expected), Execute,
         NEW c \in AnyConfig, Bounded(c, placed, sent)
  PROVE  InOrder(store, placed', told', sent', expected) /\ Bounded(c, placed', sent')
<1>0. PICK q : q = Tail(sent)
  OBVIOUS
<1>1. PICK cmd \in Commands : cmd = Head(sent) /\ q = Tail(sent) /\ sent # <<>>
  BY <1>0, TFacts, Queue DEF Execute
<1>2. PICK g \in Hosts : g = cmd.host
  BY CommandKinds
<1>3. Carry(cmd) /\ sent' = q
  BY <1>1, <1>2, CommandKinds DEF Execute
<1>4. sent \in Seq(Commands) /\ told \in Seq(Events) /\ placed \in [Hosts -> Owners \cup {NoOne}]
  BY TFacts
<1>5. /\ cmd = sent[1] /\ 1 \in DOMAIN sent
      /\ \A n \in DOMAIN q : n + 1 \in DOMAIN sent /\ q[n] = sent[n + 1]
      /\ \A n \in DOMAIN q : n \in Int /\ n > 0
      /\ \A n \in DOMAIN sent : n \in Int /\ n >= 1
  <2>1. q \in Seq(Commands)
    BY <1>1, <1>4
  <2>2. /\ cmd = sent[1] /\ 1 \in DOMAIN sent
        /\ \A n \in DOMAIN q : n + 1 \in DOMAIN sent /\ q[n] = sent[n + 1]
    BY <1>1, <1>4, Tails
  <2>3. \A n \in DOMAIN q : n \in Int /\ n > 0
    BY <2>1
  <2>4. \A n \in DOMAIN sent : n \in Int /\ n >= 1
    BY <1>4
  <2> QED
    BY <2>2, <2>3, <2>4
<1>6. \A h : /\ Clear(h, sent) => Clear(h, q)
             /\ Unasked(h, sent) => Unasked(h, q)
             /\ \A x : Asked(h, sent, x) /\ ~(g = h /\ cmd.type = "start") => Asked(h, q, x)
  BY <1>1, <1>2, <1>4, TailKeeps
<1>7. \/ /\ cmd.type = "start" /\ placed[g] = NoOne
         /\ placed' = [placed EXCEPT ![g] = cmd.owner]
         /\ told' = Append(told, Event("started", g, cmd.owner))
      \/ /\ cmd.type = "start" /\ placed[g] # NoOne
         /\ told' = Append(told, Event("failed", g, cmd.owner)) /\ placed' = placed
      \/ /\ cmd.type = "stop" /\ placed[g] # NoOne
         /\ placed' = [placed EXCEPT ![g] = NoOne]
         /\ told' = Append(told, Event("stopped", g, placed[g]))
      \/ cmd.type = "stop" /\ placed[g] = NoOne /\ placed' = placed /\ told' = told
  <2>1. cmd.type = "start" \/ cmd.type = "stop"
    BY CommandKinds
  <2> QED
    BY <1>2, <1>3, <2>1 DEF Carry
<1>8. ~Clear(g, sent) /\ (cmd.type = "start" => ~Unasked(g, sent))
  BY <1>2, <1>5 DEF Clear, Unasked
<1>9. cmd.type = "start" => placed[g] = NoOne
  BY <1>8 DEF InOrder, Unheard, Vacant, Begun, Settled, Ended
<1>10. ASSUME NEW h \in Hosts, h # g
       PROVE  \/ Unheard(h, store, placed', told', q) \/ Vacant(h, store, placed', told', q, expected)
              \/ Begun(h, store, placed', told', q, expected)
              \/ Settled(h, store, placed', told', q) \/ Ended(h, store, placed', told', q)
  <2>1. placed'[h] = placed[h]
    BY <1>4, <1>7, <1>10
  <2>2. PICK t : t = told'
    OBVIOUS
  <2>3. PICK p : p = placed'
    OBVIOUS
  <2>4. t = told \/ \E e : e.host # h /\ t = Append(told, e)
    BY <1>7, <1>10, <2>2 DEF Event
  <2>5. /\ Clear(h, told) => Clear(h, t)
        /\ \A type : Says(h, told, type) => Says(h, t, type)
        /\ \A n \in DOMAIN t : t[n].host = h => n \in DOMAIN told /\ t[n] = told[n]
    <3>1. CASE t = told
      BY <3>1
    <3>2. CASE \E e : e.host # h /\ t = Append(told, e)
      <4>1. PICK e : e.host # h /\ t = Append(told, e)
        BY <3>2
      <4>2. Clear(h, told) => Clear(h, t)
        BY <1>4, <4>1, AppendKeeps
      <4>3. ASSUME NEW type, Says(h, told, type) PROVE Says(h, t, type)
        BY <1>4, <4>1, <4>3, AppendKeeps
      <4>4. ASSUME NEW n \in DOMAIN t, t[n].host = h
            PROVE  n \in DOMAIN told /\ t[n] = told[n]
        <5>1. t[n] = e \/ (n \in DOMAIN told /\ t[n] = told[n])
          BY <1>4, <4>1, AppendKeeps
        <5> QED
          BY <4>1, <4>4, <5>1
      <4> QED
        BY <4>2, <4>3, <4>4
    <3> QED
      BY <2>4, <3>1, <3>2
  <2>6. CASE Unheard(h, store, placed, told, sent)
    <3>1. Unheard(h, store, p, t, q)
      BY <1>6, <2>1, <2>3, <2>5, <2>6 DEF Unheard
    <3> QED
      BY <2>2, <2>3, <3>1
  <2>7. CASE Vacant(h, store, placed, told, sent, expected)
    <3>1. Vacant(h, store, p, t, q, expected)
      BY <1>6, <1>10, <2>1, <2>3, <2>5, <2>7 DEF Vacant
    <3> QED
      BY <2>2, <2>3, <3>1
  <2>8. CASE Begun(h, store, placed, told, sent, expected)
    <3>1. Begun(h, store, p, t, q, expected)
      BY <1>6, <2>1, <2>3, <2>5, <2>8 DEF Begun
    <3> QED
      BY <2>2, <2>3, <3>1
  <2>9. CASE Settled(h, store, placed, told, sent)
    <3>1. Settled(h, store, p, t, q)
      BY <1>6, <2>1, <2>3, <2>5, <2>9 DEF Settled
    <3> QED
      BY <2>2, <2>3, <3>1
  <2>10. CASE Ended(h, store, placed, told, sent)
    <3>1. Ended(h, store, p, t, q)
      BY <1>6, <2>1, <2>3, <2>5, <2>10 DEF Ended
    <3> QED
      BY <2>2, <2>3, <3>1
  <2> QED
    BY <2>6, <2>7, <2>8, <2>9, <2>10 DEF InOrder
<1>11. ASSUME NEW t, t = told', NEW p, p = placed'
       PROVE  \/ Vacant(g, store, p, t, q, expected) \/ Begun(g, store, p, t, q, expected)
              \/ Settled(g, store, p, t, q) \/ Ended(g, store, p, t, q)
  <2>1. CASE cmd.type = "start"
    <3>1. placed[g] = NoOne /\ p[g] = cmd.owner /\ t = Append(told, Event("started", g, cmd.owner))
      BY <1>4, <1>7, <1>9, <1>11, <2>1
    <3>2. Vacant(g, store, placed, told, sent, expected) /\ Asked(g, sent, expected)
      BY <1>8, <2>1 DEF InOrder, Unheard, Vacant, Begun, Settled, Ended
    <3>3. cmd \in expected /\ \A m \in DOMAIN sent : sent[m].host = g => m = 1
      <4>1. PICK n \in DOMAIN sent : /\ sent[n].host = g /\ sent[n].type = "start" /\ sent[n] \in expected
                                     /\ \A m \in DOMAIN sent : sent[m].host = g /\ m # n =>
                                                                 m < n /\ sent[m].type = "stop"
        BY <3>2 DEF Asked
      <4>2. n = 1
        BY <1>2, <1>5, <2>1, <4>1
      <4>3. \A m \in DOMAIN sent : ~(m < 1)
        BY <1>5
      <4> QED
        BY <1>5, <4>1, <4>2, <4>3
    <3>4. Clear(g, q)
      <4>1. \A n \in DOMAIN q : n + 1 # 1
        BY <1>5
      <4> QED
        BY <1>5, <3>3, <4>1 DEF Clear
    <3>5. cmd.owner \in Owners /\ cmd = Start(g, cmd.owner)
      BY <1>2, <2>1, CommandKinds
    <3>6. PICK e : e = Event("started", g, cmd.owner)
      OBVIOUS
    <3>7. e.host = g /\ e.type = "started" /\ e.owner = cmd.owner
      BY <3>6 DEF Event
    <3>8. Says(g, t, "started") /\ \A n \in DOMAIN t : t[n].host = g => t[n] = e
      <4>1. Clear(g, told) /\ t = Append(told, e)
        BY <3>1, <3>2, <3>6 DEF Vacant
      <4>2. Says(g, Append(told, e), e.type)
        BY <1>4, <3>7, <4>1, AppendKeeps
      <4>3. ASSUME NEW n \in DOMAIN Append(told, e), Append(told, e)[n].host = g
            PROVE  Append(told, e)[n] = e
        <5>1. Append(told, e)[n] = e \/ (n \in DOMAIN told /\ Append(told, e)[n] = told[n])
          BY <1>4, AppendKeeps
        <5> QED
          BY <4>1, <4>3, <5>1 DEF Clear
      <4> QED
        BY <3>7, <4>1, <4>2, <4>3
    <3>9. p[g] # NoOne
      BY <3>1, <3>5, Configured
    <3>10. Begun(g, store, p, t, q, expected)
      BY <3>1, <3>2, <3>3, <3>4, <3>5, <3>7, <3>8, <3>9 DEF Begun, Vacant
    <3> QED
      BY <3>10
  <2>2. CASE cmd.type = "stop" /\ placed[g] # NoOne
    <3>1. p[g] = NoOne /\ t = Append(told, Event("stopped", g, placed[g]))
      BY <1>4, <1>7, <1>11, <2>2
    <3>2. Settled(g, store, placed, told, sent)
      BY <1>8, <2>2 DEF InOrder, Unheard, Vacant, Begun, Ended
    <3>0. PICK e : e = Event("stopped", g, placed[g])
      OBVIOUS
    <3>3. e.host = g /\ e.type = "stopped"
      BY <3>0 DEF Event
    <3>4. Says(g, t, "stopped")
      <4>1. Clear(g, told) /\ t = Append(told, e)
        BY <3>0, <3>1, <3>2 DEF Settled
      <4>2. Says(g, Append(told, e), e.type)
        BY <1>4, <3>3, <4>1, AppendKeeps
      <4> QED
        BY <3>3, <4>1, <4>2
    <3>5. Ended(g, store, p, t, q)
      BY <1>6, <3>1, <3>2, <3>4 DEF Settled, Ended
    <3> QED
      BY <3>5
  <2>3. CASE cmd.type = "stop" /\ placed[g] = NoOne
    <3>1. p = placed /\ t = told
      BY <1>7, <1>11, <2>3
    <3>2. Vacant(g, store, placed, told, sent, expected) \/ Ended(g, store, placed, told, sent)
      BY <1>8, <2>3 DEF InOrder, Unheard, Begun, Settled
    <3>3. CASE Vacant(g, store, placed, told, sent, expected)
      <4>1. Unasked(g, q) \/ Asked(g, q, expected)
        BY <1>6, <2>3, <3>3 DEF Vacant
      <4> QED
        BY <3>1, <3>3, <4>1 DEF Vacant
    <3>4. CASE Ended(g, store, placed, told, sent)
      BY <1>6, <3>1, <3>4 DEF Ended
    <3> QED
      BY <3>2, <3>3, <3>4
  <2> QED
    BY <2>1, <2>2, <2>3, CommandKinds
<1>12. InOrder(store, placed', told', q, expected)
  BY <1>10, <1>11 DEF InOrder
<1>13. ASSUME NEW p, p = placed'
       PROVE  Bounded(c, p, q)
  <2> SUFFICES ASSUME NEW H, H \in SUBSET Hosts, NEW h \in Held(H, p, q)
               PROVE  h \in Held(H, placed, sent)
    <3>1. \A i \in DOMAIN Spreads(c) : Spreads(c)[i].hosts \in SUBSET Hosts
      BY SpreadFacts
    <3> QED
      BY <3>1, Fewer
  <2>1. h \in H /\ h \in Hosts
    BY DEF Held
  <2>2. CASE \E n \in DOMAIN q : q[n].host = h /\ q[n].type = "start"
    BY <1>5, <2>1, <2>2 DEF Held
  <2>3. CASE p[h] \notin {NoOne, Others}
    <3>1. CASE p[h] = placed[h]
      BY <2>1, <2>3, <3>1 DEF Held
    <3>2. CASE p[h] # placed[h]
      <4>1. h = g /\ cmd.type = "start"
        BY <1>4, <1>7, <1>13, <2>1, <2>3, <3>2
      <4>2. 1 \in DOMAIN sent /\ sent[1].host = h /\ sent[1].type = "start"
        BY <1>2, <1>5, <4>1
      <4> QED
        BY <2>1, <4>2 DEF Held
    <3> QED
      BY <3>1, <3>2
  <2> QED
    BY <2>2, <2>3 DEF Held
<1> QED
  BY <1>3, <1>12, <1>13

LEMMA ReactOrder ==
  ASSUME TypeOK, config \in Configs, config.kind = "spread", Disjoint(config),
         NEW s \in States, NEW t, InOrder(s, placed, t, sent, expected),
         Bounded(config, placed, sent), React(s) \/ Ignore(s)
  PROVE  InOrder(s, placed, t, sent', expected') /\ Bounded(config, placed, sent')
<1>1. CASE React(s) /\ config # NoConfig /\ expected = {} /\ ~failing
  <2>1. PICK o \in Reconciled(config, s) :
          expected' = StartsOf(o.commands) /\ sent' = sent \o SetToSeq(o.commands)
    BY <1>1 DEF React
  <2>2. config \in AnyConfig /\ sent \in Seq(Commands)
    BY Configured, TFacts
  <2>3. InOrder(s, placed, t, sent, {})
    BY <1>1
  <2>4. /\ InOrder(s, placed, t, sent \o SetToSeq(o.commands), StartsOf(o.commands))
        /\ Bounded(config, placed, sent \o SetToSeq(o.commands))
    BY <2>2, <2>3, SendOrder
  <2> QED
    BY <2>1, <2>4
<1>2. CASE UNCHANGED <<expected, sent>>
  BY <1>2
<1>3. React(s) => (config # NoConfig /\ expected = {} /\ ~failing) \/ UNCHANGED <<expected, sent>>
  BY DEF React
<1> QED
  BY <1>1, <1>2, <1>3 DEF Ignore

LEMMA WaitingEnds ==
  ASSUME TypeOK, InOrder(store, placed, told, sent, expected), UnderWay = {}
  PROVE  InOrder(store, placed, told, sent, {})
<1>1. ASSUME NEW h \in Hosts, Asked(h, sent, expected)
      PROVE  FALSE
  <2>1. PICK n \in DOMAIN sent : sent[n] \in expected
    BY <1>1 DEF Asked
  <2>2. sent[n] \in ToSet(sent)
    BY DEF ToSet
  <2> QED
    BY <2>1, <2>2 DEF UnderWay
<1>2. ASSUME NEW h \in Hosts, Begun(h, store, placed, told, sent, expected)
      PROVE  FALSE
  <2>1. PICK n \in DOMAIN told : told[n].host = h /\ told[n].type = "started"
    BY <1>2 DEF Begun, Says
  <2>2. told[n].owner = placed[h] /\ Start(h, placed[h]) \in expected
    BY <1>2, <2>1 DEF Begun
  <2>3. Start(h, placed[h]) \in Awaited(told[n])
    BY <2>1, <2>2 DEF Awaited, Start
  <2>4. told[n] \in ToSet(told)
    BY DEF ToSet
  <2> QED
    BY <2>2, <2>3, <2>4 DEF UnderWay
<1> QED
  BY <1>1, <1>2 DEF InOrder, Vacant

LEMMA OInit == Init => OInv
<1> SUFFICES ASSUME Init PROVE OInv
  OBVIOUS
<1>1. TypeOK
  BY TInit
<1>2. PICK b \in Beginnings : config = b[1] /\ placed = [h \in Hosts |-> IF h \in b[2] THEN Others ELSE NoOne]
  BY DEF Init
<1>3. config \in Configs /\ up = Hosts
  BY <1>2, ProviderScalerAssumption DEF Init
<1>4. sent = <<>> /\ told = <<>> /\ store = [known |-> {}, listed |-> [h \in Hosts |-> NoOne], runs |-> {}]
  BY DEF Init
<1>5. \A h \in Hosts : Clear(h, told) /\ Clear(h, sent)
  BY <1>4 DEF Clear
<1>6. \A h \in Hosts : placed[h] \in {NoOne, Others}
  BY <1>2
<1>7. \A h \in Hosts : Unheard(h, store, placed, told, sent)
  BY <1>4, <1>5, <1>6 DEF Unheard
<1>8. Bounded(config, placed, sent)
  <2> SUFFICES ASSUME NEW i \in DOMAIN Spreads(config)
               PROVE  Cardinality(Held(Spreads(config)[i].hosts, placed, sent)) <= ComputeSpread(config)[i]
    BY DEF Bounded
  <2>1. Spreads(config)[i].hosts \in SUBSET Hosts /\ ComputeSpread(config)[i] \in Nat
    BY <1>3, Configured, SpreadFacts
  <2>2. Held(Spreads(config)[i].hosts, placed, sent) = {}
    BY <1>4, <1>6, <2>1 DEF Held
  <2> QED
    BY <2>1, <2>2, FS_EmptySet
<1> QED
  BY <1>1, <1>3, <1>7, <1>8 DEF OInv, Orderly, InOrder

LEMMA OStep ==
  ASSUME \A c \in Configs : Disjoint(c), OInv, [Next]_vars
  PROVE  OInv'
<1>1. TypeOK /\ TypeOK'
  BY TStep DEF OInv
<1>2. CASE Fault
  <2>1. faults' # 0
    BY <1>1, <1>2, TFacts, ProviderScalerAssumption DEF Fault
  <2> QED
    BY <1>1, <2>1 DEF OInv, Orderly
<1>3. CASE UNCHANGED vars
  BY <1>1, <1>3 DEF OInv, Orderly, vars, wadm
<1>4. CASE faults' = faults /\ faults = 0
  <2>0. config \in Configs /\ up = Hosts
    BY <1>4 DEF OInv, Orderly
  <2> DEFINE Fits(s, p, t, q, x) ==
               config.kind = "spread" => InOrder(s, p, t, q, x) /\ Bounded(config, p, q)
  <2>1. Fits(store, placed, told, sent, expected)
    BY <1>4 DEF OInv, Orderly
  <2>2. config \in AnyConfig /\ Disjoint(config)
    BY <2>0, Configured
  <2>3. CASE Execute
    <3>1. UNCHANGED <<wadm, up, faults>>
      BY <2>3 DEF Execute
    <3>2. Fits(store, placed', told', sent', expected)
      BY <1>1, <2>0, <2>1, <2>2, <2>3, ExecuteOrder
    <3> QED
      BY <1>1, <2>0, <3>1, <3>2 DEF OInv, Orderly, wadm
  <2>4. CASE ProviderEvent
    <3>0. PICK t : t = Tail(told)
      OBVIOUS
    <3>1. PICK e \in Events, s \in States :
            e = Head(told) /\ s = AfterEvent(store, e) /\ t = Tail(told) /\ told # <<>>
      BY <1>1, <2>4, <3>0, TFacts, Queue, AfterEventType DEF ProviderEvent
    <3>2. /\ told' = t /\ store' = s /\ UNCHANGED <<config, up, placed, faults>>
          /\ \/ Awaited(e) # {} /\ RemoveEvent(s, e)
             \/ Awaited(e) = {} /\ (React(s) \/ Ignore(s))
      BY <2>4, <3>1 DEF ProviderEvent
    <3>3. Fits(s, placed, t, sent', expected')
      <4>1. CASE Awaited(e) # {} /\ RemoveEvent(s, e)
        <5>1. PICK y : y = expected \ Awaited(e)
          OBVIOUS
        <5>2. \A cmd \in expected : cmd.host # e.host => cmd \in y
          BY <5>1 DEF Awaited
        <5>3. Fits(s, placed, t, sent, y)
          BY <1>1, <2>1, <3>1, <5>2, TFacts, HeardOrder
        <5>4. sent' = sent /\ expected' = y
          BY <4>1, <5>1 DEF RemoveEvent
        <5> QED
          BY <5>3, <5>4
      <4>2. CASE Awaited(e) = {} /\ (React(s) \/ Ignore(s))
        <5>1. Fits(s, placed, t, sent, expected)
          BY <1>1, <2>1, <3>1, TFacts, HeardOrder
        <5> QED
          BY <1>1, <2>0, <2>2, <4>2, <5>1, ReactOrder
      <4> QED
        BY <3>2, <4>1, <4>2
    <3> QED
      BY <1>1, <2>0, <3>2, <3>3 DEF OInv, Orderly
  <2>5. CASE Reap
    <3>1. PICK s : s = [known |-> store.known \cap up,
                        listed |-> [h \in Hosts |-> IF h \in up THEN store.listed[h] ELSE NoOne],
                        runs |-> store.runs \cap store.known \cap up]
      OBVIOUS
    <3>2. store' = s /\ UNCHANGED <<config, up, placed, expected, failing, sent, told, status, faults>>
      BY <2>5, <3>1 DEF Reap
    <3>3. \A h \in Hosts : /\ h \in s.known <=> h \in store.known
                           /\ s.listed[h] = store.listed[h]
                           /\ h \in s.runs => h \in store.runs
      BY <1>1, <2>0, <3>1, TFacts
    <3>4. Fits(s, placed, told, sent, expected)
      <4>1. SUFFICES ASSUME NEW h \in Hosts, config.kind = "spread"
                     PROVE  \/ Unheard(h, s, placed, told, sent) \/ Vacant(h, s, placed, told, sent, expected)
                            \/ Begun(h, s, placed, told, sent, expected)
                            \/ Settled(h, s, placed, told, sent) \/ Ended(h, s, placed, told, sent)
        BY <2>1 DEF InOrder
      <4>2. \/ Unheard(h, store, placed, told, sent) \/ Vacant(h, store, placed, told, sent, expected)
            \/ Begun(h, store, placed, told, sent, expected)
            \/ Settled(h, store, placed, told, sent) \/ Ended(h, store, placed, told, sent)
        BY <2>1, <4>1 DEF InOrder
      <4> QED
        BY <3>3, <4>2 DEF Unheard, Vacant, Begun, Settled, Ended
    <3> QED
      BY <1>1, <2>0, <3>2, <3>4 DEF OInv, Orderly
  <2>6. CASE StopWaiting
    <3>1. UnderWay = {} /\ expected' = {} /\ UNCHANGED <<config, store, up, placed, sent, told, faults>>
      BY <2>6 DEF StopWaiting
    <3>2. Fits(store, placed, told, sent, {})
      BY <1>1, <2>1, <3>1, WaitingEnds
    <3> QED
      BY <1>1, <2>0, <3>1, <3>2 DEF OInv, Orderly
  <2>7. CASE StopBackingOff
    BY <1>1, <2>0, <2>1, <2>7 DEF StopBackingOff, OInv, Orderly
  <2>8. CASE \E g \in Hosts : HostHeartbeat(g)
    <3>1. PICK g \in Hosts : HostHeartbeat(g)
      BY <2>8
    <3>2. PICK s \in States : s = AfterHeartbeat(store, g)
      BY <1>1, AfterHeartbeatType
    <3>3. store' = s /\ (React(s) \/ Ignore(s)) /\ UNCHANGED <<config, up, placed, told, faults>>
      BY <3>1, <3>2 DEF HostHeartbeat
    <3>4. Clear(g, told)
      BY <3>1 DEF HostHeartbeat, Clear, ToSet
    <3>5. Fits(s, placed, told, sent, expected)
      BY <1>1, <2>1, <3>2, <3>4, HeartbeatOrder
    <3>6. Fits(s, placed, told, sent', expected')
      BY <1>1, <2>0, <2>2, <3>3, <3>5, ReactOrder
    <3> QED
      BY <1>1, <2>0, <3>3, <3>6 DEF OInv, Orderly
  <2>9. CASE \E g \in Hosts : HostStarts(g)
    BY <2>0, <2>9 DEF HostStarts
  <2>10. CASE Fault
    BY <1>2, <2>10
  <2>11. ExecuteTwice \/ StartFails \/ StopTooEarly \/ Undeploy => Fault
    BY DEF ExecuteTwice, StartFails, StopTooEarly, Undeploy
  <2>12. (\E h \in Hosts : HostDies(h)) \/ (\E c \in Configs : Deploy(c)) => Fault
    BY DEF HostDies, Deploy
  <2> QED
    BY <1>3, <2>3, <2>4, <2>5, <2>6, <2>7, <2>8, <2>9, <2>10, <2>11, <2>12 DEF Next
<1>5. CASE faults' # 0
  BY <1>1, <1>5 DEF OInv, Orderly
<1>6. Fault \/ faults' = faults
  BY DEF Next, vars, Execute, ExecuteTwice, StartFails, ProviderEvent, Reap, StopWaiting, StopTooEarly,
         StopBackingOff, Undeploy, HostHeartbeat, HostDies, HostStarts, Deploy
<1> QED
  BY <1>2, <1>4, <1>5, <1>6

(* While nothing goes wrong, a spread has never more providers than asked  *)
(* for, whatever is stopped and started again because others run the       *)
(* provider too, if the spreads of a config share no host: with one in     *)
(* common, a spread counts those of the other among its own.               *)
THEOREM NeverTooMany ==
  ASSUME \A c \in Configs : Disjoint(c)
  PROVE  Spec => []NoOvershoot
<1>1. OInv => NoOvershoot
  <2> SUFFICES ASSUME OInv, faults = 0, config.kind = "spread", NEW i \in DOMAIN Spreads(config)
               PROVE  Cardinality({h \in On(i) : placed[h] # Others}) <= ComputeSpread(config)[i]
    BY DEF NoOvershoot
  <2> DEFINE A == Held(Spreads(config)[i].hosts, placed, sent)
             B == {h \in On(i) : placed[h] # Others}
             k == ComputeSpread(config)[i]
  <2>1. config \in AnyConfig /\ Cardinality(A) <= k
    BY Configured DEF OInv, Orderly, Bounded
  <2>2. B \in SUBSET A /\ A \in SUBSET Hosts /\ k \in Nat
    BY <2>1, SpreadFacts DEF On, Held
  <2> HIDE DEF A, B, k
  <2>3. IsFiniteSet(A)
    BY <2>2, SpreadsAssumption, FS_Subset
  <2>4. IsFiniteSet(B) /\ Cardinality(B) <= Cardinality(A)
    BY <2>2, <2>3, FS_Subset
  <2>5. Cardinality(A) \in Nat /\ Cardinality(B) \in Nat
    BY <2>3, <2>4, FS_CardinalityType
  <2> QED
    BY <2>1, <2>2, <2>4, <2>5 DEF B, k
<1>2. OInv /\ [Next]_vars => OInv'
  BY OStep
<1> QED
  BY <1>1, <1>2, OInit, PTL DEF Spec
=============================================================================
