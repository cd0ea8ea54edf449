------------------------ MODULE SpreadScaler_proofs -------------------------
(***************************************************************************)
(* Proofs about SpreadScaler: what a reconciliation commands, and what     *)
(* that makes of the instances on the hosts.                               *)
(***************************************************************************)
EXTENDS SpreadScaler, Spreads_proofs
-----------------------------------------------------------------------------
(* What is commanded.  Only what removes has no spread.                    *)

Good == {cmd \in AnyCommand : cmd.spread = NoName => cmd.count = 0}

States ==
  {s \in [known : SUBSET Hosts, listed : SUBSET Hosts, seen : [Hosts -> [Names -> Nat]]] :
     s.listed \subseteq s.known}

AnyConfig ==
  {c \in [kind : {"spread", "daemon"}, instances : Nat, spreads : SpreadLists] : IsConfig(c)}

LEMMA Configured ==
  /\ Configs \subseteq AnyConfig /\ NoConfig \notin Configs
  /\ \A c \in AnyConfig : [c EXCEPT !.instances = 0] \in AnyConfig
<1>1. Configs \subseteq AnyConfig /\ NoConfig \notin Configs
  BY SpreadScalerAssumption DEF AnyConfig
<1>2. ASSUME NEW c \in AnyConfig PROVE [c EXCEPT !.instances = 0] \in AnyConfig
  <2> DEFINE d == [c EXCEPT !.instances = 0]
  <2>1. c \in [kind : {"spread", "daemon"}, instances : Nat, spreads : SpreadLists] /\ IsConfig(c)
    BY DEF AnyConfig
  <2>2. d \in [kind : {"spread", "daemon"}, instances : Nat, spreads : SpreadLists] /\ d.spreads = c.spreads
    BY <2>1
  <2> HIDE DEF d
  <2>3. Spreads(d) = Spreads(c)
    BY <2>2 DEF Spreads
  <2>4. Weight(d) = Weight(c)
    BY <2>3 DEF Weight
  <2>5. IsConfig(d)
    BY <2>1, <2>2, <2>4 DEF IsConfig
  <2> QED
    BY <2>2, <2>5 DEF AnyConfig, d
<1> QED
  BY <1>1, <1>2

LEMMA RemoveType ==
  ASSUME NEW c, NEW s \in States
  PROVE  RemoveIneligible(c, s) \in SUBSET Good /\ IsFiniteSet(RemoveIneligible(c, s))
<1> DEFINE H == s.listed \ Matched(c)
           f == [h \in H |-> Command(h, NoName, 0)]
<1>1. H \in SUBSET Hosts
  BY DEF States
<1>2. IsFiniteSet(H)
  BY <1>1, SpreadsAssumption, FS_Subset
<1>3. RemoveIneligible(c, s) = {f[h] : h \in DOMAIN f}
  BY DEF RemoveIneligible
<1>4. IsFiniteSet({f[h] : h \in DOMAIN f})
  <2>1. DOMAIN f = H
    OBVIOUS
  <2> HIDE DEF f
  <2> QED
    BY <1>2, <2>1, ImageFinite
<1>5. \A h \in H : f[h] \in Good
  BY <1>1 DEF Good, AnyCommand, Command
<1> QED
  BY <1>3, <1>4, <1>5

(* A host that has to stop some keeps no more than it has.                 *)
LEMMA Kept ==
  ASSUME NEW s \in States, NEW n \in Names, NEW k \in Nat,
         NEW gone \in SUBSET {h \in Hosts : s.seen[h][n] > 0},
         NEW last \in {h \in Hosts : s.seen[h][n] > 0}, last \notin gone,
         LET excess == SumFunctionOnSet(Seen(s, n), {h \in Hosts : s.seen[h][n] > 0}) - k
         IN  /\ SumFunctionOnSet(Seen(s, n), gone) <= excess
             /\ excess <= SumFunctionOnSet(Seen(s, n), gone \cup {last})
  PROVE  LET excess == SumFunctionOnSet(Seen(s, n), {h \in Hosts : s.seen[h][n] > 0}) - k
         IN  /\ excess \in Nat /\ SumFunctionOnSet(Seen(s, n), gone) \in Nat
             /\ s.seen[last][n] - (excess - SumFunctionOnSet(Seen(s, n), gone)) \in Nat
             /\ SumFunctionOnSet(Seen(s, n), gone \cup {last}) =
                  s.seen[last][n] + SumFunctionOnSet(Seen(s, n), gone)
<1> DEFINE f == Seen(s, n)
           runs == {h \in Hosts : s.seen[h][n] > 0}
           On(S) == SumFunctionOnSet(f, S)
           excess == On(runs) - k
<1>1. \A h \in Hosts : f[h] \in Nat /\ f[h] = s.seen[h][n]
  BY DEF States, Seen
<1>2. runs \in SUBSET Hosts /\ gone \in SUBSET Hosts /\ last \in Hosts
  OBVIOUS
<1>3. IsFiniteSet(runs) /\ IsFiniteSet(gone)
  BY <1>2, SpreadsAssumption, FS_Subset
<1> HIDE DEF f, runs
<1>4. On(runs) \in Nat /\ On(gone) \in Nat
  BY <1>1, <1>2, <1>3, SumNat
<1>5. On(gone \cup {last}) = f[last] + On(gone)
  <2>1. \A x \in gone \cup {last} : f[x] \in Int
    BY <1>1, <1>2
  <2> HIDE DEF On
  <2>2. SumFunctionOnSet(f, gone \cup {last}) = f[last] + SumFunctionOnSet(f, gone)
    BY <1>3, <2>1, SumIn
  <2> QED
    BY <2>2 DEF On
<1>6. On(gone) <= excess /\ excess <= On(gone \cup {last})
  BY DEF f, runs
<1> HIDE DEF On
<1>7. excess \in Nat /\ f[last] - (excess - On(gone)) \in Nat
  BY <1>1, <1>2, <1>4, <1>5, <1>6
<1> QED
  BY <1>1, <1>2, <1>4, <1>5, <1>7 DEF f, runs, On

LEMMA MovesType ==
  ASSUME NEW c \in AnyConfig, NEW s \in States, NEW i \in DOMAIN Spreads(c), NEW m \in Moves(c, s, i)
  PROVE  m \in SUBSET Good /\ IsFiniteSet(m) /\ \A cmd \in m : cmd.spread = Spreads(c)[i].name
<1> DEFINE spread == Spreads(c)[i]
           n == spread.name
           k == ComputeSpread(c)[i]
<1>1. IsConfig(c)
  BY DEF AnyConfig
<1>2. spread \in [name : Names, weight : Nat, hosts : SUBSET Hosts]
  BY <1>1, ConfigFacts
<1>3. k \in Nat
  BY <1>1, Numbers
<1>4. n \in Names /\ n # NoName
  BY <1>2, SpreadScalerAssumption
<1>5. m \in {{}} \/ m \in Starts(s, spread, k) \/ m \in Stops(s, n, k)
  BY DEF Moves
<1> HIDE DEF n, k, spread
<1>6. CASE m \in {{}}
  BY <1>6, FS_EmptySet
<1>7. CASE m \in Starts(s, spread, k)
  <2>1. PICK h \in Eligible(s, spread) : m = {Command(h, n, k)}
    BY <1>7 DEF Starts, n
  <2>2. h \in Hosts
    BY <1>2 DEF Eligible
  <2>3. Command(h, n, k) \in Good /\ Command(h, n, k).spread = n
    BY <1>3, <1>4, <2>2 DEF Command, Good, AnyCommand
  <2>4. IsFiniteSet(m)
    BY <2>1, FS_Singleton
  <2> QED
    BY <2>1, <2>3, <2>4 DEF n, spread
<1>8. CASE m \in Stops(s, n, k)
  <2> DEFINE f == Seen(s, n)
             runs == {h \in Hosts : s.seen[h][n] > 0}
             On(S) == SumFunctionOnSet(f, S)
             excess == On(runs) - k
  <2>1. PICK o \in (SUBSET runs) \X runs :
          /\ o[2] \notin o[1] /\ On(o[1]) <= excess /\ excess <= On(o[1] \cup {o[2]})
          /\ m = {Command(h, n, IF h \in o[1] THEN 0
                                ELSE s.seen[h][n] - (IF h = o[2] THEN excess - On(o[1]) ELSE 0)) : h \in runs}
    BY <1>8 DEF Stops
  <2> DEFINE count == [h \in runs |-> IF h \in o[1] THEN 0
                                ELSE s.seen[h][n] - (IF h = o[2] THEN excess - On(o[1]) ELSE 0)]
             cmds == [h \in runs |-> Command(h, n, count[h])]
  <2>2. s.seen[o[2]][n] - (excess - On(o[1])) \in Nat
    BY <1>3, <1>4, <2>1, Kept
  <2>3. \A h \in runs : s.seen[h][n] \in Nat
    BY <1>4 DEF States
  <2>4. \A h \in runs : count[h] \in Nat
    <3> HIDE DEF On, excess
    <3> QED
      BY <2>2, <2>3
  <2>5. m = {cmds[h] : h \in DOMAIN cmds} /\ DOMAIN cmds = runs
    BY <2>1
  <2>6. IsFiniteSet(runs) /\ runs \in SUBSET Hosts
    BY SpreadsAssumption, FS_Subset
  <2> HIDE DEF count, runs
  <2>7. \A h \in runs : cmds[h] \in Good /\ cmds[h].spread = n
    BY <1>4, <2>4, <2>6 DEF Command, Good, AnyCommand
  <2> HIDE DEF cmds
  <2>8. IsFiniteSet(m)
    BY <2>5, <2>6, ImageFinite
  <2> QED
    BY <2>5, <2>7, <2>8 DEF n, spread
<1> QED
  BY <1>5, <1>6, <1>7, <1>8

LEMMA CandidatesType ==
  ASSUME NEW c \in AnyConfig, NEW s \in States, NEW cmds \in Candidates(c, s)
  PROVE  /\ cmds \in SUBSET Good /\ IsFiniteSet(cmds)
         /\ \E f \in [DOMAIN Spreads(c) -> SUBSET Good] :
              /\ cmds = UNION {f[i] : i \in DOMAIN Spreads(c)}
              /\ \A i \in DOMAIN Spreads(c) :
                   f[i] \in Moves(c, s, i) /\ \A cmd \in f[i] : cmd.spread = Spreads(c)[i].name
<1> DEFINE I == DOMAIN Spreads(c)
<1>1. PICK f \in [I -> UNION {Moves(c, s, i) : i \in I}] :
        cmds = UNION {f[i] : i \in I} /\ \A i \in I : f[i] \in Moves(c, s, i)
  BY DEF Candidates
<1>2. IsFiniteSet(I)
  BY ConfigFacts DEF AnyConfig
<1> HIDE DEF I
<1>3. \A i \in I : f[i] \in SUBSET Good /\ IsFiniteSet(f[i]) /\ \A cmd \in f[i] : cmd.spread = Spreads(c)[i].name
  BY <1>1, MovesType DEF I
<1>4. IsFiniteSet({f[i] : i \in I})
  <2>1. DOMAIN f = I
    BY <1>1
  <2> QED
    BY <1>2, <2>1, ImageFinite
<1>5. IsFiniteSet(cmds)
  <2>1. \A T \in {f[i] : i \in I} : IsFiniteSet(T)
    BY <1>3
  <2>2. IsFiniteSet(UNION {f[i] : i \in I})
    BY <1>4, <2>1, FS_UNION
  <2> QED
    BY <1>1, <2>2
<1>6. f \in [I -> SUBSET Good]
  BY <1>1, <1>3
<1> QED
  BY <1>1, <1>3, <1>5, <1>6 DEF I

Outcomes ==
  {o \in [commands : SUBSET Good, status : {"failed", "deployed", "reconciling"}] : IsFiniteSet(o.commands)}

LEMMA ResultType ==
  ASSUME NEW c, NEW s, NEW cmds \in SUBSET Good, IsFiniteSet(cmds)
  PROVE  Result(c, s, cmds) \in Outcomes
BY DEF Result, Outcomes

LEMMA DaemonType ==
  ASSUME NEW c \in AnyConfig, NEW s \in States
  PROVE  DaemonOutcome(c, s) \in Outcomes
<1> DEFINE I == DOMAIN Spreads(c)
           Lacking(i) == {h \in Eligible(s, Spreads(c)[i]) : s.seen[h][Spreads(c)[i].name] # c.instances}
           Told(i) == {Command(h, Spreads(c)[i].name, c.instances) : h \in Lacking(i)}
           f == [i \in I |-> Told(i)]
           cmds == UNION {Told(i) : i \in I}
<1>1. IsFiniteSet(I) /\ c.instances \in Nat
  BY ConfigFacts DEF AnyConfig, IsConfig
<1>2. ASSUME NEW i \in I PROVE Told(i) \in SUBSET Good /\ IsFiniteSet(Told(i))
  <2> DEFINE n == Spreads(c)[i].name
             cmd == [h \in Lacking(i) |-> Command(h, n, c.instances)]
  <2>1. Spreads(c)[i] \in [name : Names, weight : Nat, hosts : SUBSET Hosts]
    BY ConfigFacts DEF AnyConfig
  <2>2. n \in Names /\ n # NoName /\ Lacking(i) \in SUBSET Hosts
    BY <2>1, SpreadScalerAssumption DEF Eligible
  <2>3. IsFiniteSet(Lacking(i))
    BY <2>2, SpreadsAssumption, FS_Subset
  <2>4. Told(i) = {cmd[h] : h \in DOMAIN cmd} /\ DOMAIN cmd = Lacking(i)
    OBVIOUS
  <2> HIDE DEF n, Lacking
  <2>5. \A h \in Lacking(i) : cmd[h] \in Good
    BY <1>1, <2>2 DEF Good, Command, AnyCommand
  <2> HIDE DEF cmd, Told
  <2> QED
    BY <2>3, <2>4, <2>5, ImageFinite
<1>3. cmds = UNION {f[i] : i \in DOMAIN f} /\ DOMAIN f = I /\ \A i \in I : f[i] = Told(i)
  OBVIOUS
<1>4. DaemonOutcome(c, s) = Result(c, s, cmds)
  BY DEF DaemonOutcome
<1> HIDE DEF I, f, Told, cmds
<1>5. IsFiniteSet({f[i] : i \in DOMAIN f})
  BY <1>1, <1>3, ImageFinite
<1>6. IsFiniteSet(cmds)
  BY <1>2, <1>3, <1>5, FS_UNION
<1>7. cmds \in SUBSET Good
  BY <1>2, <1>3
<1> QED
  BY <1>4, <1>6, <1>7, ResultType

LEMMA OutcomeType ==
  ASSUME NEW c \in AnyConfig, NEW s \in States, NEW o \in Reconciled(c, s)
  PROVE  o \in Outcomes
<1>1. CASE RemoveIneligible(c, s) # {}
  <2>1. o = [commands |-> RemoveIneligible(c, s), status |-> "reconciling"]
    BY <1>1 DEF Reconciled
  <2> QED
    BY <2>1, RemoveType DEF Outcomes
<1>2. CASE RemoveIneligible(c, s) = {} /\ c.kind = "spread"
  <2>1. o \in SpreadOutcomes(c, s)
    BY <1>2 DEF Reconciled
  <2>2. PICK cmds \in Candidates(c, s) :
          o = IF Conflict(c, s, cmds) THEN [commands |-> {}, status |-> "failed"] ELSE Result(c, s, cmds)
    BY <2>1 DEF SpreadOutcomes
  <2>3. Result(c, s, cmds) \in Outcomes
    BY CandidatesType, ResultType
  <2> QED
    BY <2>2, <2>3, FS_EmptySet DEF Outcomes
<1>3. CASE RemoveIneligible(c, s) = {} /\ c.kind = "daemon"
  <2>1. o = DaemonOutcome(c, s)
    BY <1>3 DEF Reconciled
  <2> QED
    BY <2>1, DaemonType
<1> QED
  BY <1>1, <1>2, <1>3 DEF AnyConfig
-----------------------------------------------------------------------------
(* Type correctness.                                                       *)

TInv == TypeOK /\ sent \in Seq(Good) /\ told \in Seq(Good)

Statuses == {"reconciling", "deployed", "failed", "undeployed"}

LEMMA PublishType ==
  ASSUME NEW c \in Configs \cup {NoConfig}, NEW s \in States, Publish(c, s)
  PROVE  status' \in Statuses
<1>1. CASE c = NoConfig
  BY <1>1 DEF Publish, Statuses
<1>2. CASE c # NoConfig
  <2>1. PICK o \in Reconciled(c, s) : status' = o.status
    BY <1>2 DEF Publish
  <2>2. c \in AnyConfig
    BY <1>2, Configured
  <2>3. o \in Outcomes
    BY <2>1, <2>2, OutcomeType
  <2> QED
    BY <2>1, <2>3 DEF Outcomes, Statuses
<1> QED
  BY <1>1, <1>2

LEMMA SendType ==
  ASSUME NEW o \in Outcomes, NEW q \in Seq(Good)
  PROVE  /\ q \o SetToSeq(o.commands) \in Seq(Good) /\ SetToSeq(o.commands) \in Seq(Good)
         /\ o.commands \in SUBSET AnyCommand
<1>1. SetToSeq(o.commands) \in Seq(o.commands) /\ o.commands \in SUBSET Good
  BY Listed DEF Outcomes
<1>2. SetToSeq(o.commands) \in Seq(Good)
  BY <1>1
<1> QED
  BY <1>1, <1>2 DEF Good

LEMMA ReactType ==
  ASSUME TInv, NEW s \in States, NEW waiting \in SUBSET AnyCommand, React(config, s, waiting)
  PROVE  expected' \in SUBSET AnyCommand /\ sent' \in Seq(Good) /\ status' \in Statuses
<1>1. config \in Configs \cup {NoConfig} /\ sent \in Seq(Good)
  BY DEF TInv, TypeOK
<1>2. status' \in Statuses
  BY <1>1, PublishType DEF React
<1>3. CASE waiting = {} /\ config # NoConfig
  <2>1. PICK o \in Reconciled(config, s) : expected' = o.commands /\ sent' = sent \o SetToSeq(o.commands)
    BY <1>3 DEF React
  <2>2. o \in Outcomes
    BY <1>1, <1>3, Configured, OutcomeType
  <2> QED
    BY <1>1, <1>2, <2>1, <2>2, SendType
<1>4. CASE ~(waiting = {} /\ config # NoConfig)
  BY <1>1, <1>2, <1>4 DEF React
<1> QED
  BY <1>3, <1>4

LEMMA StoreType ==
  ASSUME TInv
  PROVE  store \in States
BY DEF TInv, TypeOK, States

LEMMA AfterScaledType ==
  ASSUME NEW s \in States, NEW cmd \in Good
  PROVE  AfterScaled(s, cmd) \in States
<1> DEFINE h == cmd.host
           listed == IF cmd.count = 0 THEN s.listed \ {h} ELSE s.listed \cup ({h} \cap s.known)
           seen == [s.seen EXCEPT ![h] = IF cmd.spread = NoName THEN @
                                         ELSE [@ EXCEPT ![cmd.spread] = cmd.count]]
<1>1. h \in Hosts /\ cmd.count \in Nat /\ (cmd.spread = NoName \/ cmd.spread \in Names)
  BY DEF Good, AnyCommand
<1>2. s.seen \in [Hosts -> [Names -> Nat]] /\ s.listed \in SUBSET s.known /\ s.known \in SUBSET Hosts
  BY DEF States
<1>3. seen \in [Hosts -> [Names -> Nat]]
  BY <1>1, <1>2
<1>4. listed \in SUBSET s.known
  BY <1>2
<1>5. AfterScaled(s, cmd) = [s EXCEPT !.listed = listed, !.seen = seen]
  BY DEF AfterScaled, States
<1> HIDE DEF listed, seen
<1> QED
  BY <1>2, <1>3, <1>4, <1>5 DEF States

LEMMA AfterHeartbeatType ==
  ASSUME NEW s \in States, NEW h \in Hosts, NEW now \in [spread : Names, count : Nat]
  PROVE  AfterHeartbeat(s, h, now) \in States
<1> DEFINE new == AfterHeartbeat(s, h, now)
<1>1. NothingSeen \in [Names -> Nat]
  BY DEF NothingSeen
<1>2. [NothingSeen EXCEPT ![now.spread] = now.count] \in [Names -> Nat]
  BY <1>1
<1>3. new.seen \in [Hosts -> [Names -> Nat]]
  BY <1>2 DEF AfterHeartbeat, States
<1>4. new.known \in SUBSET Hosts /\ new.listed \in SUBSET Hosts /\ new.listed \subseteq new.known
  BY DEF AfterHeartbeat, States
<1>5. new = [known |-> new.known, listed |-> new.listed, seen |-> new.seen]
  BY DEF AfterHeartbeat
<1> HIDE DEF new
<1>6. new \in [known : SUBSET Hosts, listed : SUBSET Hosts, seen : [Hosts -> [Names -> Nat]]]
  BY <1>3, <1>4, <1>5
<1> QED
  BY <1>4, <1>6 DEF States, new

LEMMA Queue ==
  ASSUME NEW S, NEW q \in Seq(S), q # <<>>
  PROVE  Head(q) \in S /\ Tail(q) \in Seq(S)
OBVIOUS

LEMMA TInit == Init => TInv
<1> SUFFICES ASSUME Init PROVE TInv
  OBVIOUS
<1>1. Default \in Names /\ MaxFaults \in Nat
  BY SpreadsAssumption, SpreadScalerAssumption
<1>2. placed \in [Hosts -> [spread : Names, count : Nat]]
  BY <1>1 DEF Init
<1>3. store \in States
  BY DEF Init, States, NothingSeen
<1>4. sent \in Seq(Good) /\ told \in Seq(Good) /\ sent \in Seq(AnyCommand) /\ told \in Seq(AnyCommand)
  BY DEF Init
<1>5. config \in Configs /\ up \in SUBSET Hosts /\ expected \in SUBSET AnyCommand /\ faults \in 0 .. MaxFaults
  BY <1>1 DEF Init
<1>6. status \in {"reconciling", "deployed", "failed", "undeployed"}
  BY DEF Init
<1> QED
  BY <1>2, <1>3, <1>4, <1>5, <1>6 DEF TInv, TypeOK, States

LEMMA TSome ==
  ASSUME config' \in Configs \cup {NoConfig}, up' \in SUBSET Hosts,
         placed' \in [Hosts -> [spread : Names, count : Nat]], store' \in States,
         expected' \in SUBSET AnyCommand, sent' \in Seq(Good), told' \in Seq(Good),
         status' \in Statuses, faults' \in 0 .. MaxFaults
  PROVE  TInv'
<1>1. Good \subseteq AnyCommand
  BY DEF Good
<1>2. sent' \in Seq(AnyCommand) /\ told' \in Seq(AnyCommand)
  BY <1>1
<1> QED
  BY <1>2 DEF TInv, TypeOK, States, Statuses

LEMMA TFault ==
  ASSUME TInv, Fault
  PROVE  faults' \in 0 .. MaxFaults
BY SpreadScalerAssumption DEF TInv, TypeOK, Fault

LEMMA TFacts ==
  ASSUME TInv
  PROVE  /\ config \in Configs \cup {NoConfig} /\ up \in SUBSET Hosts
         /\ placed \in [Hosts -> [spread : Names, count : Nat]] /\ store \in States
         /\ expected \in SUBSET AnyCommand /\ sent \in Seq(Good) /\ told \in Seq(Good)
         /\ status \in Statuses /\ faults \in 0 .. MaxFaults
BY StoreType DEF TInv, TypeOK, Statuses

LEMMA TScaled ==
  ASSUME TInv, ComponentScaled
  PROVE  TInv'
<1> DEFINE cmd == Head(told)
           s == AfterScaled(store, cmd)
           awaited == {e \in expected : SameAnnotations(cmd, e)}
<1>1. cmd \in Good /\ told' \in Seq(Good)
  BY TFacts, Queue DEF ComponentScaled
<1>2. store' = s /\ s \in States
  BY <1>1, TFacts, AfterScaledType DEF ComponentScaled
<1>3. UNCHANGED <<config, up, placed, faults>>
  BY DEF ComponentScaled
<1>4. expected' \in SUBSET AnyCommand /\ sent' \in Seq(Good) /\ status' \in Statuses
  <2>1. CASE awaited # {}
    <3>1. expected' = expected \ awaited /\ UNCHANGED sent /\ Publish(config, s)
      BY <2>1 DEF ComponentScaled
    <3> HIDE DEF awaited, s
    <3> QED
      BY <1>2, <3>1, TFacts, PublishType
  <2>2. CASE awaited = {}
    <3>1. React(config, s, expected)
      BY <2>2 DEF ComponentScaled
    <3> HIDE DEF awaited, s
    <3> QED
      BY <1>2, <3>1, TFacts, ReactType
  <2> QED
    BY <2>1, <2>2
<1> HIDE DEF cmd, s, awaited
<1> QED
  BY <1>1, <1>2, <1>3, <1>4, TFacts, TSome

LEMMA TExecute ==
  ASSUME TInv, Execute
  PROVE  TInv'
<1> DEFINE cmd == Head(sent)
<1>1. cmd \in Good /\ sent' \in Seq(Good)
  BY TFacts, Queue DEF Execute
<1>2. placed' \in [Hosts -> [spread : Names, count : Nat]] /\ told' \in Seq(Good)
  <2>1. CASE cmd.host \in up
    <3>1. /\ placed' = [placed EXCEPT ![cmd.host] =
                   [spread |-> IF cmd.count = 0 THEN Default ELSE cmd.spread, count |-> cmd.count]]
          /\ told' = Append(told, cmd)
      BY <2>1 DEF Execute
    <3> HIDE DEF cmd
    <3>2. [spread |-> IF cmd.count = 0 THEN Default ELSE cmd.spread, count |-> cmd.count]
            \in [spread : Names, count : Nat]
      BY <1>1, SpreadsAssumption DEF Good, AnyCommand
    <3>3. placed' \in [Hosts -> [spread : Names, count : Nat]]
      BY <3>1, <3>2, TFacts
    <3> QED
      BY <1>1, <3>1, <3>3, TFacts
  <2>2. CASE cmd.host \notin up
    BY <2>2, TFacts DEF Execute
  <2> QED
    BY <2>1, <2>2
<1>3. UNCHANGED <<config, up, store, expected, status, faults>>
  BY DEF Execute
<1> QED
  BY <1>1, <1>2, <1>3, TFacts, TSome

LEMMA THost ==
  ASSUME TInv, NEW h \in Hosts, HostDies(h) \/ HostStarts(h)
  PROVE  TInv'
<1>1. up' \in SUBSET Hosts
  BY TFacts DEF HostDies, HostStarts
<1>2. placed' \in [Hosts -> [spread : Names, count : Nat]]
  <2>1. [spread |-> Default, count |-> 0] \in [spread : Names, count : Nat]
    BY SpreadsAssumption
  <2> QED
    BY <2>1, TFacts DEF HostDies, HostStarts
<1>3. faults' \in 0 .. MaxFaults
  BY TFacts, TFault DEF HostDies, HostStarts
<1>4. UNCHANGED <<config, store, expected, sent, told, status>>
  BY DEF HostDies, HostStarts
<1> QED
  BY <1>1, <1>2, <1>3, <1>4, TFacts, TSome

LEMMA THeartbeat ==
  ASSUME TInv, NEW h \in Hosts, HostHeartbeat(h)
  PROVE  TInv'
<1> DEFINE s == AfterHeartbeat(store, h, placed[h])
<1>1. store' = s /\ s \in States
  <2>1. placed[h] \in [spread : Names, count : Nat]
    BY TFacts
  <2> QED
    BY <2>1, TFacts, AfterHeartbeatType DEF HostHeartbeat
<1>2. React(config, s, expected) \/ Ignore(config, s)
  BY DEF HostHeartbeat
<1>3. UNCHANGED <<config, up, placed, told, faults>>
  BY DEF HostHeartbeat
<1> HIDE DEF s
<1>4. expected' \in SUBSET AnyCommand /\ sent' \in Seq(Good) /\ status' \in Statuses
  <2>1. CASE React(config, s, expected)
    BY <1>1, <2>1, TFacts, ReactType
  <2>2. CASE Ignore(config, s)
    BY <1>1, <2>2, TFacts, PublishType DEF Ignore
  <2> QED
    BY <1>2, <2>1, <2>2
<1> QED
  BY <1>1, <1>3, <1>4, TFacts, TSome

LEMMA TReap ==
  ASSUME TInv, Reap
  PROVE  TInv'
<1>1. store' \in States
  <2>1. NothingSeen \in [Names -> Nat]
    BY DEF NothingSeen
  <2>2. store'.seen \in [Hosts -> [Names -> Nat]]
    BY <2>1, TFacts DEF Reap, States
  <2>3. store' = [known |-> store'.known, listed |-> store'.listed, seen |-> store'.seen]
    BY DEF Reap
  <2>4. store'.known \in SUBSET Hosts /\ store'.listed \in SUBSET Hosts /\ store'.listed \subseteq store'.known
    BY TFacts DEF Reap, States
  <2> QED
    BY <2>2, <2>3, <2>4 DEF States
<1>2. UNCHANGED <<config, up, placed, expected, sent, told, status, faults>>
  BY DEF Reap
<1> QED
  BY <1>1, <1>2, TFacts, TSome

LEMMA TStop ==
  ASSUME TInv, StopWaiting \/ StopTooEarly
  PROVE  TInv'
<1>1. expected' = {} /\ faults' \in 0 .. MaxFaults
  BY TFacts, TFault DEF StopWaiting, StopTooEarly
<1>2. UNCHANGED <<config, up, placed, store, sent, told, status>>
  BY DEF StopWaiting, StopTooEarly
<1> QED
  BY <1>1, <1>2, TFacts, TSome

LEMMA TDeploy ==
  ASSUME TInv, NEW c \in Configs, Deploy(c)
  PROVE  TInv'
<1>1. PICK o \in Reconciled(c, store), old \in IF Outdated(c) THEN Cleanup(config, store) ELSE {[commands |-> {}]} :
        expected' = o.commands /\ sent' = sent \o SetToSeq(o.commands) \o SetToSeq(old.commands)
  BY DEF Deploy
<1>2. o \in Outcomes
  BY TFacts, Configured, OutcomeType
<1>3. sent \o SetToSeq(o.commands) \in Seq(Good) /\ expected' \in SUBSET AnyCommand
  BY <1>1, <1>2, TFacts, SendType
<1>4. SetToSeq(old.commands) \in Seq(Good)
  <2>1. CASE Outdated(c)
    <3>1. [config EXCEPT !.instances = 0] \in AnyConfig
      BY <2>1, TFacts, Configured DEF Outdated
    <3>2. old \in Outcomes
      BY <1>1, <2>1, <3>1, TFacts, OutcomeType DEF Cleanup
    <3> QED
      BY <3>2, TFacts, SendType
  <2>2. CASE ~Outdated(c)
    <3>1. old.commands = {}
      BY <1>1, <2>2
    <3>2. SetToSeq({}) \in Seq({})
      BY FS_EmptySet, Listed
    <3> QED
      BY <3>1, <3>2
  <2> QED
    BY <2>1, <2>2
<1>5. sent' \in Seq(Good)
  BY <1>1, <1>3, <1>4
<1>6. status' \in Statuses /\ faults' \in 0 .. MaxFaults /\ config' = c
  BY TFacts, TFault, PublishType DEF Deploy
<1>7. UNCHANGED <<up, placed, store, told>>
  BY DEF Deploy
<1> QED
  BY <1>3, <1>5, <1>6, <1>7, TFacts, TSome

LEMMA TUndeploy ==
  ASSUME TInv, Undeploy
  PROVE  TInv'
<1>1. PICK old \in Cleanup(config, store) : sent' = sent \o SetToSeq(old.commands)
  BY DEF Undeploy
<1>2. [config EXCEPT !.instances = 0] \in AnyConfig
  BY TFacts, Configured DEF Undeploy
<1>3. old \in Outcomes
  BY <1>1, <1>2, TFacts, OutcomeType DEF Cleanup
<1>4. sent' \in Seq(Good)
  BY <1>1, <1>3, TFacts, SendType
<1>5. config' = NoConfig /\ expected' = {} /\ status' \in Statuses /\ faults' \in 0 .. MaxFaults
  BY TFacts, TFault DEF Undeploy, Statuses
<1>6. UNCHANGED <<up, placed, store, told>>
  BY DEF Undeploy
<1> QED
  BY <1>4, <1>5, <1>6, TFacts, TSome

LEMMA TStep == TInv /\ [Next]_vars => TInv'
<1> SUFFICES ASSUME TInv, [Next]_vars PROVE TInv'
  OBVIOUS
<1>1. CASE ComponentScaled
  BY <1>1, TScaled
<1>2. CASE Execute
  BY <1>2, TExecute
<1>3. CASE Reap
  BY <1>3, TReap
<1>4. CASE StopWaiting \/ StopTooEarly
  BY <1>4, TStop
<1>5. CASE Undeploy
  BY <1>5, TUndeploy
<1>6. CASE \E h \in Hosts : HostHeartbeat(h) \/ HostDies(h) \/ HostStarts(h)
  BY <1>6, THeartbeat, THost
<1>7. CASE \E c \in Configs : Deploy(c)
  BY <1>7, TDeploy
<1>8. CASE UNCHANGED vars
  BY <1>8 DEF vars, TInv, TypeOK
<1> QED
  BY <1>1, <1>2, <1>3, <1>4, <1>5, <1>6, <1>7, <1>8 DEF Next

LEMMA TAlways == Spec => []TInv
BY TInit, TStep, PTL DEF Spec

(* Whatever is stored, commanded and told has its type: no number of       *)
(* instances is ever negative, and only what removes a host that is not    *)
(* eligible is without a spread.                                           *)
THEOREM TypeCorrect == Spec => []TypeOK
<1>1. TInv => TypeOK
  BY DEF TInv
<1> QED
  BY <1>1, TAlways, PTL

(* The configs that can be deployed all divide without a rest.             *)
THEOREM AddsUpAlways == Spec => []SpreadAddsUp
<1>1. TypeOK => SpreadAddsUp
  BY SpreadScalerAssumption, SpreadsAddUp DEF TypeOK, SpreadAddsUp
<1> QED
  BY <1>1, TypeCorrect, PTL
-----------------------------------------------------------------------------
(* Of one spread, a host is told at most once what to run, and if what     *)
(* runs is in place only hosts that are eligible are.                      *)

LEMMA SpreadFacts ==
  ASSUME NEW c \in AnyConfig, NEW i \in DOMAIN Spreads(c)
  PROVE  /\ Spreads(c)[i].name \in Names /\ Spreads(c)[i].hosts \in SUBSET Hosts
         /\ ComputeSpread(c)[i] \in Nat /\ Spreads(c)[i].name # NoName
<1>1. Spreads(c)[i] \in [name : Names, weight : Nat, hosts : SUBSET Hosts]
  BY ConfigFacts DEF AnyConfig
<1>2. ComputeSpread(c)[i] \in Nat
  BY Numbers DEF AnyConfig
<1> QED
  BY <1>1, <1>2, SpreadScalerAssumption

LEMMA MovesOnce ==
  ASSUME NEW c \in AnyConfig, NEW s \in States, NEW i \in DOMAIN Spreads(c), NEW m \in Moves(c, s, i),
         NEW cmd \in m
  PROVE  /\ cmd.spread = Spreads(c)[i].name
         /\ InPlace(s, Spreads(c)[i]) => cmd.host \in Eligible(s, Spreads(c)[i])
         /\ \A d \in m : d.host = cmd.host => d = cmd
<1> DEFINE spread == Spreads(c)[i]
           n == spread.name
           k == ComputeSpread(c)[i]
<1>1. m \in {{}} \/ m \in Starts(s, spread, k) \/ m \in Stops(s, n, k)
  BY DEF Moves
<1> HIDE DEF k, spread
<1>2. CASE m \in {{}}
  BY <1>2
<1>3. CASE m \in Starts(s, spread, k)
  <2>1. PICK h \in Eligible(s, spread) : m = {Command(h, n, k)}
    BY <1>3 DEF Starts
  <2>2. cmd = Command(h, n, k) /\ \A d \in m : d = cmd
    BY <2>1
  <2> QED
    BY <2>1, <2>2 DEF Command, spread
<1>4. CASE m \in Stops(s, n, k)
  <2> DEFINE runs == {h \in Hosts : s.seen[h][n] > 0}
             On(S) == SumFunctionOnSet(Seen(s, n), S)
             excess == On(runs) - k
  <2>1. PICK o \in (SUBSET runs) \X runs :
          m = {Command(h, n, IF h \in o[1] THEN 0
                             ELSE s.seen[h][n] - (IF h = o[2] THEN excess - On(o[1]) ELSE 0)) : h \in runs}
    BY <1>4 DEF Stops
  <2> DEFINE count == [h \in runs |-> IF h \in o[1] THEN 0
                                ELSE s.seen[h][n] - (IF h = o[2] THEN excess - On(o[1]) ELSE 0)]
  <2>2. m = {Command(h, n, count[h]) : h \in runs}
    BY <2>1
  <2> HIDE DEF count
  <2>3. PICK h \in runs : cmd = Command(h, n, count[h])
    BY <2>2
  <2>4. cmd.host = h /\ cmd.spread = n
    BY <2>3 DEF Command
  <2>5. \A d \in m : d.host = cmd.host => d = cmd
    BY <2>2, <2>3, <2>4 DEF Command
  <2>6. InPlace(s, spread) => h \in Eligible(s, spread)
    BY <2>3 DEF InPlace
  <2> QED
    BY <2>4, <2>5, <2>6 DEF spread
<1> QED
  BY <1>1, <1>2, <1>3, <1>4
-----------------------------------------------------------------------------
(* The plan.                                                               *)

(* Spreads that share neither their annotations nor a host.                *)
Apart(c) ==
  \A i, j \in DOMAIN Spreads(c) :
    i = j \/ /\ Spreads(c)[i].name # Spreads(c)[j].name
             /\ Spreads(c)[i].hosts \cap Spreads(c)[j].hosts = {}

LEMMA MaxOne == ASSUME NEW k \in Int PROVE Max({k}) = k
<1>1. Max({k}) = CHOOSE x \in {k} : \A y \in {k} : x >= y
  BY DEF Max
<1>2. \E x \in {k} : \A y \in {k} : x >= y
  OBVIOUS
<1> QED
  BY <1>1, <1>2

LEMMA SumOne ==
  ASSUME NEW S, IsFiniteSet(S), NEW f, NEW x \in S, f[x] \in Nat, \A y \in S : y = x \/ f[y] = 0
  PROVE  SumFunctionOnSet(f, S) = f[x]
<1> DEFINE R == S \ {x}
<1>1. IsFiniteSet(R) /\ \A y \in R : f[y] = 0
  BY FS_RemoveElement
<1> HIDE DEF R
<1>2. SumFunctionOnSet(f, R) = 0
  BY <1>1, SumNat
<1>3. \A y \in S : f[y] \in Int
  OBVIOUS
<1>4. SumFunctionOnSet(f, S) = f[x] + SumFunctionOnSet(f, R)
  BY <1>3, SumOut DEF R
<1> QED
  BY <1>2, <1>4

LEMMA PlanOfSpread ==
  ASSUME NEW c \in AnyConfig, Apart(c), NEW s \in States,
         \A i \in DOMAIN Spreads(c) : InPlace(s, Spreads(c)[i]),
         NEW cmds \in Candidates(c, s), ~Conflict(c, s, cmds), NEW i \in DOMAIN Spreads(c)
  PROVE  SumFunction([h \in Eligible(s, Spreads(c)[i]) |-> Applied(s, cmds, h, Spreads(c)[i].name)])
           = ComputeSpread(c)[i]
<1> DEFINE sp == Spreads(c)
           I == DOMAIN sp
           served == {sp[j].name : j \in {j \in I : Eligible(s, sp[j]) # {}}}
           Counts(h) == {cmd.count : cmd \in {cmd \in cmds : cmd.host = h}}
           There(h) == [n \in served |-> s.seen[h][n]]
           Projected(h) == IF Counts(h) # {} THEN Max(Counts(h)) ELSE SumFunction(There(h))
           n == sp[i].name
           E == Eligible(s, sp[i])
<1>1. SumFunction([h \in E |-> Projected(h)]) = ComputeSpread(c)[i]
  BY DEF Conflict
<1>2. PICK f \in [I -> SUBSET Good] :
        cmds = UNION {f[j] : j \in I} /\ \A j \in I : f[j] \in Moves(c, s, j)
  BY CandidatesType
<1>3. \A j \in I : \A cmd \in f[j] : cmd.spread = sp[j].name /\ cmd.host \in Eligible(s, sp[j])
  BY <1>2, MovesOnce
<1>4. ASSUME NEW h \in E, NEW cmd \in cmds, cmd.host = h
      PROVE  cmd \in f[i] /\ cmd.spread = n /\ cmd.count \in Nat
  <2>1. PICK j \in I : cmd \in f[j]
    BY <1>2
  <2>2. h \in sp[j].hosts /\ h \in sp[i].hosts
    BY <1>3, <1>4, <2>1 DEF Eligible
  <2>3. j = i
    BY <2>2 DEF Apart
  <2> QED
    BY <1>2, <1>3, <2>1, <2>3 DEF Good, AnyCommand
<1>5. ASSUME NEW h \in E PROVE Projected(h) = Applied(s, cmds, h, n)
  <2> DEFINE new == {cmd \in cmds : cmd.host = h /\ cmd.spread = n}
             mine == {cmd \in cmds : cmd.host = h}
  <2>1. new = mine
    BY <1>4, <1>5
  <2>2. CASE mine = {}
    <3>1. Applied(s, cmds, h, n) = s.seen[h][n]
      BY <2>1, <2>2 DEF Applied
    <3>2. n \in served /\ h \in Hosts /\ n \in Names
      BY <1>5, SpreadFacts DEF Eligible
    <3>3. ASSUME NEW y \in served, y # n PROVE s.seen[h][y] = 0
      <4>1. PICK j \in I : y = sp[j].name
        OBVIOUS
      <4>2. y \in Names
        BY <4>1, SpreadFacts
      <4>3. s.seen[h][y] > 0 => h \in sp[j].hosts
        BY <3>2, <4>1 DEF InPlace, Eligible
      <4>4. h \notin sp[j].hosts
        BY <1>5, <3>3, <4>1 DEF Apart, Eligible
      <4>5. s.seen[h][y] \in Nat
        BY <3>2, <4>2 DEF States
      <4> QED
        BY <4>3, <4>4, <4>5
    <3>4. s.seen[h][n] \in Nat
      BY <3>2 DEF States
    <3>5. IsFiniteSet(served)
      <4> DEFINE names == [j \in I |-> sp[j].name]
      <4>1. IsFiniteSet(I)
        BY ConfigFacts DEF AnyConfig
      <4>2. IsFiniteSet({names[j] : j \in DOMAIN names})
        BY <4>1, ImageFinite
      <4>3. served \in SUBSET {names[j] : j \in DOMAIN names}
        OBVIOUS
      <4> QED
        BY <4>2, <4>3, FS_Subset
    <3> DEFINE t == There(h)
    <3>6. /\ t[n] = s.seen[h][n] /\ DOMAIN t = served
          /\ \A y \in served : y = n \/ t[y] = 0
      BY <3>2, <3>3
    <3>7. Counts(h) = {}
      BY <2>2
    <3> HIDE DEF served
    <3>8. Projected(h) = SumFunction(t)
      BY <3>7
    <3> HIDE DEF t, Projected
    <3>9. SumFunctionOnSet(t, served) = t[n]
      BY <3>2, <3>4, <3>5, <3>6, SumOne
    <3> QED
      BY <3>1, <3>6, <3>8, <3>9 DEF SumFunction
  <2>3. CASE mine # {}
    <3>1. PICK cmd \in mine : TRUE
      BY <2>3
    <3>2. cmd \in f[i] /\ cmd.count \in Nat /\ cmd.host = h
      BY <1>4, <1>5, <3>1
    <3>3. \A d \in mine : d = cmd
      <4>1. \A d \in mine : d \in f[i] /\ d.host = h
        BY <1>4, <1>5
      <4> QED
        BY <1>2, <3>2, <4>1, MovesOnce
    <3>4. mine = {cmd} /\ new = {cmd}
      BY <2>1, <3>1, <3>3
    <3>5. Counts(h) = {cmd.count}
      BY <3>4
    <3>6. Projected(h) = cmd.count
      <4>1. Counts(h) # {} /\ Max(Counts(h)) = cmd.count
        BY <3>2, <3>5, MaxOne
      <4> HIDE DEF Counts
      <4> QED
        BY <4>1
    <3>7. Applied(s, cmds, h, n) = cmd.count
      BY <3>4 DEF Applied
    <3> QED
      BY <3>6, <3>7
  <2> QED
    BY <2>2, <2>3
<1>6. [h \in E |-> Projected(h)] = [h \in E |-> Applied(s, cmds, h, n)]
  <2> HIDE DEF Projected, E, n
  <2> QED
    BY <1>5
<1> QED
  BY <1>1, <1>6

LEMMA PlanOfDaemon ==
  ASSUME NEW c \in AnyConfig, NEW s \in States, NEW i \in DOMAIN Spreads(c),
         NEW h \in Eligible(s, Spreads(c)[i])
  PROVE  Applied(s, DaemonOutcome(c, s).commands, h, Spreads(c)[i].name) = c.instances
<1> DEFINE I == DOMAIN Spreads(c)
           Lacking(j) == {g \in Eligible(s, Spreads(c)[j]) : s.seen[g][Spreads(c)[j].name] # c.instances}
           Told(j) == {Command(g, Spreads(c)[j].name, c.instances) : g \in Lacking(j)}
           cmds == UNION {Told(j) : j \in I}
           n == Spreads(c)[i].name
           new == {cmd \in cmds : cmd.host = h /\ cmd.spread = n}
<1>1. DaemonOutcome(c, s).commands = cmds
  BY DEF DaemonOutcome, Result
<1>2. \A cmd \in cmds : cmd.count = c.instances
  BY DEF Command
<1>3. CASE new = {}
  <2> DEFINE cmd == Command(h, n, c.instances)
  <2>1. cmd.host = h /\ cmd.spread = n
    BY DEF Command
  <2>2. s.seen[h][n] = c.instances
    <3>1. SUFFICES ASSUME h \in Lacking(i) PROVE FALSE
      OBVIOUS
    <3>2. cmd \in Told(i)
      BY <3>1
    <3> HIDE DEF cmd, Told
    <3>3. cmd \in new
      BY <2>1, <3>2
    <3> QED
      BY <1>3, <3>3
  <2> QED
    BY <1>1, <1>3, <2>2 DEF Applied
<1>4. CASE new # {}
  BY <1>1, <1>2, <1>4 DEF Applied
<1> QED
  BY <1>3, <1>4

LEMMA Plan ==
  ASSUME NEW c \in AnyConfig, Apart(c), NEW s \in States,
         \A i \in DOMAIN Spreads(c) : InPlace(s, Spreads(c)[i]),
         NEW o \in Reconciled(c, s), NEW i \in DOMAIN Spreads(c)
  PROVE  \/ o.commands \subseteq RemoveIneligible(c, s)
         \/ Exact(c, i, [h \in Eligible(s, Spreads(c)[i]) |-> Applied(s, o.commands, h, Spreads(c)[i].name)])
<1>1. CASE RemoveIneligible(c, s) # {}
  <2>1. o = [commands |-> RemoveIneligible(c, s), status |-> "reconciling"]
    BY <1>1 DEF Reconciled
  <2> QED
    BY <2>1
<1>2. CASE RemoveIneligible(c, s) = {} /\ c.kind = "spread"
  <2>1. PICK cmds \in Candidates(c, s) :
          o = IF Conflict(c, s, cmds) THEN [commands |-> {}, status |-> "failed"] ELSE Result(c, s, cmds)
    BY <1>2 DEF Reconciled, SpreadOutcomes
  <2>2. CASE Conflict(c, s, cmds)
    BY <2>1, <2>2
  <2>3. CASE ~Conflict(c, s, cmds)
    <3>1. o.commands = cmds
      BY <2>1, <2>3 DEF Result
    <3> QED
      BY <1>2, <2>3, <3>1, PlanOfSpread DEF Exact
  <2> QED
    BY <2>2, <2>3
<1>3. CASE RemoveIneligible(c, s) = {} /\ c.kind = "daemon"
  <2>1. o = DaemonOutcome(c, s)
    BY <1>3 DEF Reconciled
  <2> QED
    BY <1>3, <2>1, PlanOfDaemon DEF Exact
<1> QED
  BY <1>1, <1>2, <1>3 DEF AnyConfig

(* What the scaler commands gives every spread its number, in whatever     *)
(* order the hash maps are walked, and for the spreads and hosts of every  *)
(* config whose spreads share no host.                                     *)
THEOREM PlansAreExact ==
  ASSUME \A c \in Configs : Apart(c)
  PROVE  Spec => []PlanIsExact
<1>1. TInv => PlanIsExact
  <2>1. SUFFICES ASSUME TInv, AllInPlace, NEW o \in Reconciled(config, store), NEW i \in DOMAIN Spreads(config)
                 PROVE  \/ o.commands \subseteq RemoveIneligible(config, store)
                        \/ LET spread == Spreads(config)[i]
                           IN  Exact(config, i, [h \in Eligible(store, spread) |->
                                                   Applied(store, o.commands, h, spread.name)])
    BY DEF PlanIsExact
  <2>2. config \in Configs /\ config \in AnyConfig /\ store \in States
    BY <2>1, TFacts, Configured DEF AllInPlace
  <2> QED
    BY <2>1, <2>2, Plan DEF AllInPlace
<1> QED
  BY <1>1, TAlways, PTL
-----------------------------------------------------------------------------
(* The cleanup.                                                            *)

LEMMA StopsAll ==
  ASSUME NEW s \in States, NEW n \in Names, NEW m \in Stops(s, n, 0)
  PROVE  m = {Command(h, n, 0) : h \in {h \in Hosts : s.seen[h][n] > 0}}
<1> DEFINE f == Seen(s, n)
           runs == {h \in Hosts : s.seen[h][n] > 0}
           On(S) == SumFunctionOnSet(f, S)
           excess == On(runs) - 0
           Left(gone, last, h) == IF h \in gone THEN 0
                                  ELSE s.seen[h][n] - (IF h = last THEN excess - On(gone) ELSE 0)
<1>1. PICK gone \in SUBSET runs, last \in runs :
        /\ last \notin gone /\ On(gone) <= excess /\ excess <= On(gone \cup {last})
        /\ m = {Command(h, n, Left(gone, last, h)) : h \in runs}
  BY DEF Stops
<1> DEFINE all == gone \cup {last}
<1>2. \A h \in runs : f[h] = s.seen[h][n] /\ f[h] \in Nat /\ f[h] # 0
  BY DEF States, Seen
<1>3. IsFiniteSet(runs)
  BY SpreadsAssumption, FS_Subset
<1>4. /\ excess \in Nat /\ On(gone) \in Nat
      /\ On(all) = s.seen[last][n] + On(gone)
  <2>1. 0 \in Nat
    OBVIOUS
  <2> QED
    BY <1>1, <2>1, Kept
<1>5. all \in SUBSET runs /\ last \in runs /\ last \notin gone
  BY <1>1
<1> HIDE DEF f, runs, all
<1>6. On(all) <= On(runs) /\ (On(all) = On(runs) => \A h \in runs \ all : f[h] = 0) /\ On(runs) \in Nat
  <2>1. \A h \in runs : f[h] \in Nat
    BY <1>2
  <2>2. On(runs) \in Nat
    BY <1>3, <2>1, SumNat
  <2>3. On(all) <= On(runs) /\ (On(all) = On(runs) => \A h \in runs \ all : f[h] = 0)
    BY <1>3, <1>5, <2>1, SumPart
  <2> QED
    BY <2>2, <2>3
<1>7. s.seen[last][n] \in Nat
  BY <1>2, <1>5
<1>8. On(runs) <= On(all) /\ excess = On(runs)
  BY <1>1, <1>6 DEF all
<1> HIDE DEF On
<1>9. On(all) = On(runs)
  BY <1>4, <1>6, <1>7, <1>8
<1>10. all = runs
  BY <1>2, <1>5, <1>6, <1>9
<1>11. s.seen[last][n] - (excess - On(gone)) = 0
  BY <1>4, <1>7, <1>8, <1>9
<1> HIDE DEF excess
<1>12. \A h \in runs : Left(gone, last, h) = 0
  BY <1>10, <1>11 DEF all
<1> QED
  BY <1>1, <1>12 DEF runs

LEMMA CleanupOfSpread ==
  ASSUME NEW c \in AnyConfig, c.instances = 0, NEW s \in States, NEW i \in DOMAIN Spreads(c),
         InPlace(s, Spreads(c)[i]), NEW m \in Moves(c, s, i)
  PROVE  LET n == Spreads(c)[i].name
         IN  m = {Command(h, n, 0) : h \in {h \in Hosts : s.seen[h][n] > 0}}
<1> DEFINE n == Spreads(c)[i].name
           f == Seen(s, n)
           now == Current(s, n)
<1>1. n \in Names /\ ComputeSpread(c)[i] = 0
  BY SpreadFacts, NoneForNone DEF AnyConfig
<1>2. \A h \in Hosts : f[h] = s.seen[h][n] /\ f[h] \in Nat
  BY <1>1 DEF Seen, States
<1>3. now = SumFunctionOnSet(f, Hosts)
  BY DEF Current, SumFunction, Seen
<1>4. Eligible(s, Spreads(c)[i]) # {}
  BY DEF InPlace
<1> HIDE DEF f, now
<1>5. now \in Nat /\ ((\A h \in Hosts : f[h] = 0) <=> now = 0)
  BY <1>2, <1>3, SpreadsAssumption, SumNat
<1>6. CASE now = 0
  <2>1. m = {}
    BY <1>1, <1>4, <1>6 DEF Moves, now
  <2> QED
    BY <1>2, <1>5, <1>6, <2>1
<1>7. CASE now # 0
  <2>1. ~(now < 0)
    BY <1>5
  <2>2. m \in Stops(s, n, 0)
    BY <1>1, <1>4, <1>7, <2>1 DEF Moves, now
  <2> QED
    BY <1>1, <2>2, StopsAll
<1> QED
  BY <1>6, <1>7

LEMMA Removes ==
  ASSUME NEW c \in AnyConfig, c.instances = 0, NEW s \in States, RemoveIneligible(c, s) = {},
         \A i \in DOMAIN Spreads(c) : InPlace(s, Spreads(c)[i]),
         NEW o \in Reconciled(c, s), NEW i \in DOMAIN Spreads(c), NEW h \in Hosts,
         s.seen[h][Spreads(c)[i].name] > 0
  PROVE  Command(h, Spreads(c)[i].name, 0) \in o.commands
<1> DEFINE sp == Spreads(c)
           I == DOMAIN sp
           Runs(n) == {g \in Hosts : s.seen[g][n] > 0}
           Told(n) == {Command(g, n, 0) : g \in Runs(n)}
<1>1. CASE c.kind = "spread"
  <2>1. PICK cmds \in Candidates(c, s) :
          o = IF Conflict(c, s, cmds) THEN [commands |-> {}, status |-> "failed"] ELSE Result(c, s, cmds)
    BY <1>1 DEF Reconciled, SpreadOutcomes
  <2>2. PICK f \in [I -> SUBSET Good] :
          cmds = UNION {f[j] : j \in I} /\ \A j \in I : f[j] \in Moves(c, s, j)
    BY CandidatesType
  <2>3. \A j \in I : f[j] = Told(sp[j].name)
    BY <2>2, CleanupOfSpread
  <2>4. cmds = UNION {Told(sp[j].name) : j \in I}
    BY <2>2, <2>3
  <2>5. \A cmd \in cmds : cmd.count = 0
    BY <2>4 DEF Command
  <2>6. \A j \in I, g \in Hosts : s.seen[g][sp[j].name] > 0 => \E cmd \in cmds : cmd.host = g
    <3>1. SUFFICES ASSUME NEW j \in I, NEW g \in Hosts, s.seen[g][sp[j].name] > 0
                   PROVE  \E cmd \in cmds : cmd.host = g
      OBVIOUS
    <3> DEFINE cmd == Command(g, sp[j].name, 0)
    <3>2. cmd.host = g
      BY DEF Command
    <3>3. cmd \in Told(sp[j].name)
      BY <3>1
    <3> HIDE DEF cmd, Told
    <3>4. cmd \in cmds
      BY <2>4, <3>3
    <3> QED
      BY <3>2, <3>4
  <2> DEFINE served == {sp[j].name : j \in {j \in I : Eligible(s, sp[j]) # {}}}
             Counts(g) == {cmd.count : cmd \in {cmd \in cmds : cmd.host = g}}
             There(g) == [n \in served |-> s.seen[g][n]]
             Projected(g) == IF Counts(g) # {} THEN Max(Counts(g)) ELSE SumFunction(There(g))
  <2>7. IsFiniteSet(served) /\ served \subseteq {sp[j].name : j \in I}
    <3> DEFINE names == [j \in I |-> sp[j].name]
    <3>1. IsFiniteSet(I)
      BY ConfigFacts DEF AnyConfig
    <3>2. IsFiniteSet({names[j] : j \in DOMAIN names})
      BY <3>1, ImageFinite
    <3>3. served \in SUBSET {names[j] : j \in DOMAIN names}
      OBVIOUS
    <3> QED
      BY <3>2, <3>3, FS_Subset
  <2>8. ASSUME NEW g \in Hosts PROVE Projected(g) = 0
    <3>1. CASE Counts(g) # {}
      <4>1. Counts(g) = {0}
        BY <2>5, <3>1
      <4>2. Max(Counts(g)) = 0
        BY <4>1, MaxOne
      <4> HIDE DEF Counts
      <4> QED
        BY <3>1, <4>2
    <3>2. CASE Counts(g) = {}
      <4> DEFINE t == There(g)
      <4>1. \A cmd \in cmds : cmd.host # g
        BY <3>2
      <4>2. \A n \in served : t[n] = 0
        <5>1. SUFFICES ASSUME NEW j \in I PROVE s.seen[g][sp[j].name] = 0
          BY <2>7
        <5>2. s.seen[g][sp[j].name] \in Nat
          BY SpreadFacts DEF States
        <5>3. ~(s.seen[g][sp[j].name] > 0)
          BY <2>6, <4>1
        <5> QED
          BY <5>2, <5>3
      <4>3. DOMAIN t = served
        OBVIOUS
      <4>4. Projected(g) = SumFunction(t)
        BY <3>2
      <4> HIDE DEF t, served, Projected
      <4>5. SumFunctionOnSet(t, served) = 0
        BY <2>7, <4>2, SumNat
      <4> QED
        BY <4>3, <4>4, <4>5 DEF SumFunction
    <3> QED
      BY <3>1, <3>2
  <2>9. ~Conflict(c, s, cmds)
    <3>1. SUFFICES ASSUME NEW j \in I
                   PROVE  SumFunction([g \in Eligible(s, sp[j]) |-> Projected(g)]) = ComputeSpread(c)[j]
      BY DEF Conflict
    <3> DEFINE E == Eligible(s, sp[j])
               p == [g \in E |-> Projected(g)]
    <3>2. E \in SUBSET Hosts
      BY SpreadFacts DEF Eligible
    <3>3. IsFiniteSet(E)
      BY <3>2, SpreadsAssumption, FS_Subset
    <3> HIDE DEF E, Projected
    <3>4. \A g \in E : p[g] = 0
      BY <2>8, <3>2
    <3>5. DOMAIN p = E
      OBVIOUS
    <3> HIDE DEF p
    <3>6. SumFunctionOnSet(p, E) = 0
      BY <3>3, <3>4, SumNat
    <3>7. ComputeSpread(c)[j] = 0
      BY NoneForNone DEF AnyConfig
    <3> QED
      BY <3>5, <3>6, <3>7 DEF SumFunction, p, E
  <2>10. o.commands = cmds
    BY <2>1, <2>9 DEF Result
  <2> QED
    BY <2>4, <2>10
<1>2. CASE c.kind = "daemon"
  <2>1. o = DaemonOutcome(c, s)
    BY <1>2 DEF Reconciled
  <2>2. h \in {g \in Eligible(s, sp[i]) : s.seen[g][sp[i].name] # c.instances}
    BY DEF InPlace
  <2>3. o.commands = UNION {{Command(g, sp[j].name, c.instances) : g \in
                               {g \in Eligible(s, sp[j]) : s.seen[g][sp[j].name] # c.instances}} : j \in I}
    BY <2>1 DEF DaemonOutcome, Result
  <2> HIDE DEF sp, I
  <2>4. Command(h, sp[i].name, c.instances) \in o.commands
    BY <2>2, <2>3 DEF I, sp
  <2> QED
    BY <2>4 DEF sp
<1> QED
  BY <1>1, <1>2 DEF AnyConfig

(* A scaler that is not wanted any more tells every host that runs some of *)
(* its instances to stop them all.  This needs no assumption about hosts   *)
(* that spreads share: zero instances are never in conflict.               *)
THEOREM CleanupIsComplete == Spec => []CleansUp
<1>1. TInv => CleansUp
  <2>1. SUFFICES ASSUME TInv, AllInPlace, Known, RemoveIneligible(config, store) = {},
                        NEW o \in Cleanup(config, store), NEW i \in DOMAIN Spreads(config), NEW h \in Hosts,
                        Running(h, Spreads(config)[i].name) > 0
                 PROVE  Command(h, Spreads(config)[i].name, 0) \in o.commands
    BY DEF CleansUp
  <2> DEFINE c == [config EXCEPT !.instances = 0]
             n == Spreads(config)[i].name
  <2>2. config \in AnyConfig /\ c \in AnyConfig /\ store \in States
    BY <2>1, TFacts, Configured DEF AllInPlace
  <2>3. c.instances = 0 /\ c.spreads = config.spreads
    BY <2>2 DEF AnyConfig
  <2>4. o \in Reconciled(c, store)
    BY DEF Cleanup
  <2> HIDE DEF c
  <2>5. Spreads(c) = Spreads(config)
    BY <2>3 DEF Spreads
  <2>6. RemoveIneligible(c, store) = {}
    BY <2>1, <2>5 DEF RemoveIneligible, Matched
  <2>7. \A j \in DOMAIN Spreads(c) : InPlace(store, Spreads(c)[j])
    BY <2>1, <2>5 DEF AllInPlace
  <2>8. store.seen[h][n] > 0
    BY <2>1, <2>2, SpreadFacts DEF Known
  <2>9. Command(h, Spreads(c)[i].name, 0) \in o.commands
    BY <2>2, <2>3, <2>4, <2>5, <2>6, <2>7, <2>8, Removes
  <2> QED
    BY <2>5, <2>9
<1> QED
  BY <1>1, TAlways, PTL
-----------------------------------------------------------------------------
(* While nothing goes wrong.                                               *)

Line == told \o sent    \* the commands under way, the oldest first

Target(c, i) == IF c.kind = "spread" THEN ComputeSpread(c)[i] ELSE c.instances

(* Something of spread i of config c belongs on host h.                    *)
OfSpread(c, i, h, n) == h \in Eligible(store, Spreads(c)[i]) /\ n = Spreads(c)[i].name

Busy(h, n) == Running(h, n) > 0 \/ \E cmd \in ToSet(Line) : cmd.host = h /\ cmd.spread = n

(* All that is awaited is under way, a host is told one thing at a time,   *)
(* which is to run the number of one of its spreads.                       *)
Awaiting == expected = ToSet(Line)

Single == \A i, j \in 1 .. Len(Line) : Line[i].host = Line[j].host => i = j

Ordered ==
  \A cmd \in ToSet(Line) : \E i \in DOMAIN Spreads(config) :
    OfSpread(config, i, cmd.host, cmd.spread) /\ cmd.count = Target(config, i)

(* What is stored is what runs, but for what is told and not heard yet.    *)
Accurate ==
  /\ \A cmd \in ToSet(told) : Running(cmd.host, cmd.spread) = cmd.count
  /\ \A h \in Hosts, n \in Names :
       \/ \E cmd \in ToSet(told) : cmd.host = h /\ cmd.spread = n
       \/ store.seen[h][n] = Running(h, n)

Belongs ==
  \A h \in Hosts : placed[h].count > 0 =>
    \E i \in DOMAIN Spreads(config) :
      OfSpread(config, i, h, placed[h].spread) /\ placed[h].count = Target(config, i)

(* Of a spread that has a number for all its hosts one host has them all.  *)
Alone ==
  config.kind = "spread" =>
    \A i \in DOMAIN Spreads(config), h, g \in Hosts :
      Busy(h, Spreads(config)[i].name) /\ Busy(g, Spreads(config)[i].name) => h = g

Recorded ==
  /\ store.listed \subseteq Matched(config)
  /\ \A h \in Hosts, n \in Names : store.seen[h][n] > 0 => h \in store.listed

Smooth ==
  /\ config \in Configs /\ up = Hosts
  /\ Awaiting /\ Single /\ Ordered /\ Accurate /\ Belongs /\ Alone /\ Recorded

NInv == faults = 0 => Smooth

LEMMA Lines ==
  ASSUME NEW p \in Seq(Good), NEW q \in Seq(Good)
  PROVE  /\ p \o q \in Seq(Good) /\ ToSet(p) \subseteq ToSet(p \o q) /\ ToSet(q) \subseteq ToSet(p \o q)
         /\ ToSet(p \o q) \subseteq Good
         /\ (p = <<>> /\ q = <<>>) <=> ToSet(p \o q) = {}
<1> DEFINE r == p \o q
<1>1. r \in Seq(Good) /\ Len(r) = Len(p) + Len(q) /\ Len(p) \in Nat /\ Len(q) \in Nat
  OBVIOUS
<1>2. /\ \A i \in 1 .. Len(p) : r[i] = p[i]
      /\ \A i \in 1 .. Len(q) : r[Len(p) + i] = q[i]
  OBVIOUS
<1>3. DOMAIN p = 1 .. Len(p) /\ DOMAIN q = 1 .. Len(q) /\ DOMAIN r = 1 .. Len(r)
  BY <1>1
<1> HIDE DEF r
<1>4. ToSet(p) \subseteq ToSet(r)
  BY <1>1, <1>2, <1>3 DEF ToSet
<1>5. ToSet(q) \subseteq ToSet(r)
  <2>1. \A i \in 1 .. Len(q) : Len(p) + i \in 1 .. Len(r)
    BY <1>1
  <2> QED
    BY <1>2, <1>3, <2>1 DEF ToSet
<1>6. ToSet(r) \subseteq Good
  BY <1>1 DEF ToSet
<1>7. ASSUME p = <<>>, q = <<>> PROVE ToSet(r) = {}
  <2>1. Len(r) = 0
    BY <1>1, <1>7
  <2> QED
    BY <1>3, <2>1 DEF ToSet
<1>8. ASSUME ToSet(r) = {} PROVE p = <<>> /\ q = <<>>
  <2>1. Len(p) = 0 /\ Len(q) = 0
    <3>1. DOMAIN r = {}
      BY <1>8 DEF ToSet
    <3>2. 1 \notin 1 .. Len(r)
      BY <1>3, <3>1
    <3>3. Len(r) \in Nat /\ ~(1 <= Len(r))
      BY <1>1, <3>2
    <3> QED
      BY <1>1, <3>3
  <2> QED
    BY <2>1, EmptySeq
<1> QED
  BY <1>1, <1>4, <1>5, <1>6, <1>7, <1>8 DEF r

LEMMA LineMoves ==
  ASSUME NEW p \in Seq(Good), NEW q \in Seq(Good), q # <<>>
  PROVE  Append(p, Head(q)) \o Tail(q) = p \o q
<1> DEFINE a == Append(p, Head(q))
           t == Tail(q)
<1>1. Len(p) \in Nat /\ Len(q) \in Nat /\ Len(q) >= 1 /\ Head(q) \in Good
  BY EmptySeq
<1>2. /\ a \in Seq(Good) /\ Len(a) = Len(p) + 1 /\ a[Len(p) + 1] = q[1]
      /\ \A i \in 1 .. Len(p) : a[i] = p[i]
  BY <1>1
<1>3. t \in Seq(Good) /\ Len(t) = Len(q) - 1 /\ \A i \in 1 .. Len(q) - 1 : t[i] = q[i + 1]
  BY <1>1
<1> HIDE DEF a, t
<1>4. a \o t \in Seq(Good) /\ p \o q \in Seq(Good) /\ Len(a \o t) = Len(p) + Len(q) /\ Len(p \o q) = Len(p) + Len(q)
  <2>1. /\ a \o t \in Seq(Good) /\ p \o q \in Seq(Good)
        /\ Len(a \o t) = Len(a) + Len(t) /\ Len(p \o q) = Len(p) + Len(q)
    <3>1. a \in Seq(Good) /\ t \in Seq(Good)
      BY <1>2, <1>3
    <3> QED
      BY <3>1, ConcatProperties
  <2>2. Len(a) + Len(t) = Len(p) + Len(q)
    BY <1>1, <1>2, <1>3
  <2> QED
    BY <2>1, <2>2
<1>5. \A i \in 1 .. Len(p) + Len(q) : (a \o t)[i] = IF i <= Len(a) THEN a[i] ELSE t[i - Len(a)]
  BY <1>1, <1>2, <1>3
<1>6. \A i \in 1 .. Len(p) + Len(q) : (p \o q)[i] = IF i <= Len(p) THEN p[i] ELSE q[i - Len(p)]
  BY <1>1
<1>7. \A i \in 1 .. Len(p) + Len(q) : (a \o t)[i] = (p \o q)[i]
  <2>1. SUFFICES ASSUME NEW i \in 1 .. Len(p) + Len(q) PROVE (a \o t)[i] = (p \o q)[i]
    OBVIOUS
  <2>2. CASE i <= Len(p)
    BY <1>1, <1>2, <1>5, <1>6, <2>2
  <2>3. CASE i = Len(p) + 1
    BY <1>1, <1>2, <1>5, <1>6, <2>3
  <2>4. CASE i > Len(p) + 1
    <3>1. i - Len(a) \in 1 .. Len(q) - 1 /\ (i - Len(a)) + 1 = i - Len(p) /\ ~(i <= Len(a)) /\ ~(i <= Len(p))
      BY <1>1, <1>2, <2>4
    <3>2. t[i - Len(a)] = q[i - Len(p)]
      BY <1>3, <3>1
    <3> QED
      BY <1>5, <1>6, <3>1, <3>2
  <2>5. i \in Int /\ Len(p) \in Int
    BY <1>1
  <2>6. i <= Len(p) \/ i = Len(p) + 1 \/ i > Len(p) + 1
    BY <2>5
  <2> QED
    BY <2>2, <2>3, <2>4, <2>6
<1>8. a \o t = p \o q
  BY <1>4, <1>7, SeqEqual
<1> QED
  BY <1>8 DEF a, t

LEMMA LineShrinks ==
  ASSUME NEW p \in Seq(Good), NEW q \in Seq(Good), p # <<>>,
         \A i, j \in 1 .. Len(p \o q) : (p \o q)[i].host = (p \o q)[j].host => i = j
  PROVE  LET r == p \o q
             t == Tail(p) \o q
         IN  /\ t \in Seq(Good) /\ Len(t) = Len(r) - 1 /\ \A i \in 1 .. Len(t) : t[i] = r[i + 1]
             /\ ToSet(t) = ToSet(r) \ {Head(p)} /\ Head(p) \in ToSet(r)
             /\ ToSet(Tail(p)) = ToSet(p) \ {Head(p)} /\ Head(p) \in ToSet(p)
             /\ \A x \in ToSet(r) : x.host = Head(p).host => x = Head(p)
<1> DEFINE r == p \o q
           t == Tail(p) \o q
<1>1. Len(p) \in Nat /\ Len(q) \in Nat /\ Len(p) >= 1 /\ Head(p) \in Good /\ Head(p) = p[1]
  BY EmptySeq
<1>2. Tail(p) \in Seq(Good) /\ Len(Tail(p)) = Len(p) - 1 /\ \A i \in 1 .. Len(p) - 1 : Tail(p)[i] = p[i + 1]
  BY <1>1
<1>3. /\ r \in Seq(Good) /\ Len(r) = Len(p) + Len(q)
      /\ \A i \in 1 .. Len(r) : r[i] = IF i <= Len(p) THEN p[i] ELSE q[i - Len(p)]
  BY <1>1
<1>4. /\ t \in Seq(Good) /\ Len(t) = Len(p) - 1 + Len(q)
      /\ \A i \in 1 .. Len(t) : t[i] = IF i <= Len(p) - 1 THEN Tail(p)[i] ELSE q[i - (Len(p) - 1)]
  BY <1>1, <1>2
<1> HIDE DEF r, t
<1>5. Len(t) = Len(r) - 1
  BY <1>1, <1>3, <1>4
<1>6. \A i \in 1 .. Len(t) : t[i] = r[i + 1]
  <2>1. SUFFICES ASSUME NEW i \in 1 .. Len(t) PROVE t[i] = r[i + 1]
    OBVIOUS
  <2>2. i \in Int /\ i + 1 \in 1 .. Len(r)
    BY <1>1, <1>3, <1>4
  <2>3. CASE i <= Len(p) - 1
    BY <1>1, <1>2, <1>3, <1>4, <2>2, <2>3
  <2>4. CASE ~(i <= Len(p) - 1)
    <3>1. i - (Len(p) - 1) = (i + 1) - Len(p) /\ ~(i + 1 <= Len(p))
      BY <1>1, <2>2, <2>4
    <3> QED
      BY <1>3, <1>4, <2>2, <2>4, <3>1
  <2> QED
    BY <2>3, <2>4
<1>7. r[1] = Head(p) /\ 1 \in 1 .. Len(r)
  BY <1>1, <1>3
<1>8. \A i \in 1 .. Len(r) : r[i].host = Head(p).host => i = 1
  BY <1>7 DEF r
<1>9. DOMAIN r = 1 .. Len(r) /\ DOMAIN t = 1 .. Len(t) /\ DOMAIN p = 1 .. Len(p) /\ DOMAIN Tail(p) = 1 .. Len(Tail(p))
  BY <1>2, <1>3, <1>4
<1>10. \A x \in ToSet(r) : x.host = Head(p).host => x = Head(p)
  BY <1>7, <1>8, <1>9 DEF ToSet
<1>11. Head(p) \in ToSet(r) /\ Head(p) \in ToSet(p)
  BY <1>1, <1>7, <1>9 DEF ToSet
<1>12. ToSet(t) = ToSet(r) \ {Head(p)}
  <2>1. ASSUME NEW x \in ToSet(t) PROVE x \in ToSet(r) /\ x # Head(p)
    <3>1. PICK i \in 1 .. Len(t) : x = t[i]
      BY <1>9 DEF ToSet
    <3>2. x = r[i + 1] /\ i + 1 \in 1 .. Len(r) /\ i + 1 # 1
      BY <1>1, <1>3, <1>4, <1>6, <3>1
    <3> QED
      BY <1>8, <1>9, <3>2 DEF ToSet
  <2>2. ASSUME NEW x \in ToSet(r), x # Head(p) PROVE x \in ToSet(t)
    <3>1. PICK i \in 1 .. Len(r) : x = r[i]
      BY <1>9 DEF ToSet
    <3>2. i # 1
      BY <1>7, <2>2, <3>1
    <3>3. i - 1 \in 1 .. Len(t) /\ (i - 1) + 1 = i
      BY <1>1, <1>3, <1>4, <3>1, <3>2
    <3>4. x = t[i - 1]
      BY <1>6, <3>1, <3>3
    <3> QED
      BY <1>9, <3>3, <3>4 DEF ToSet
  <2> QED
    BY <2>1, <2>2
<1>13. ToSet(Tail(p)) = ToSet(p) \ {Head(p)}
  <2>1. ASSUME NEW x \in ToSet(Tail(p)) PROVE x \in ToSet(p) /\ x # Head(p)
    <3>1. PICK i \in 1 .. Len(p) - 1 : x = p[i + 1]
      BY <1>2, <1>9 DEF ToSet
    <3>2. i + 1 \in 1 .. Len(p) /\ i + 1 # 1 /\ i + 1 \in 1 .. Len(r) /\ r[i + 1] = p[i + 1]
      BY <1>1, <1>3
    <3> QED
      BY <1>8, <1>9, <3>1, <3>2 DEF ToSet
  <2>2. ASSUME NEW x \in ToSet(p), x # Head(p) PROVE x \in ToSet(Tail(p))
    <3>1. PICK i \in 1 .. Len(p) : x = p[i]
      BY <1>9 DEF ToSet
    <3>2. i - 1 \in 1 .. Len(p) - 1 /\ (i - 1) + 1 = i
      BY <1>1, <2>2, <3>1
    <3>3. i - 1 \in DOMAIN Tail(p) /\ Tail(p)[i - 1] = x
      BY <1>2, <1>9, <3>1, <3>2
    <3> QED
      BY <3>3 DEF ToSet
  <2> QED
    BY <2>1, <2>2
<1> QED
  BY <1>4, <1>5, <1>6, <1>10, <1>11, <1>12, <1>13 DEF r, t

(* The bits of NInv that its proof combines: a host has to do with one     *)
(* spread only.                                                            *)
LEMMA SmoothFacts ==
  ASSUME TInv, Smooth
  PROVE  /\ config \in AnyConfig /\ told \in Seq(Good) /\ sent \in Seq(Good)
         /\ Line \in Seq(Good) /\ ToSet(told) \subseteq ToSet(Line) /\ ToSet(Line) \subseteq Good
         /\ \A h \in Hosts, n \in Names : Running(h, n) \in Nat /\ store.seen[h][n] \in Nat
         /\ \A i \in DOMAIN Spreads(config) : Target(config, i) \in Nat
<1>1. config \in AnyConfig /\ told \in Seq(Good) /\ sent \in Seq(Good)
  BY TFacts, Configured DEF Smooth
<1>2. Line \in Seq(Good) /\ ToSet(told) \subseteq ToSet(Line) /\ ToSet(Line) \subseteq Good
  BY <1>1, Lines DEF Line
<1>3. \A h \in Hosts, n \in Names : Running(h, n) \in Nat /\ store.seen[h][n] \in Nat
  BY TFacts DEF Running, States
<1>4. \A i \in DOMAIN Spreads(config) : Target(config, i) \in Nat
  BY <1>1, SpreadFacts DEF Target, AnyConfig
<1> QED
  BY <1>1, <1>2, <1>3, <1>4

LEMMA BusyAt ==
  ASSUME TInv, Smooth, NEW h \in Hosts, NEW n \in Names, Busy(h, n)
  PROVE  \E i \in DOMAIN Spreads(config) : OfSpread(config, i, h, n)
<1>1. CASE Running(h, n) > 0
  <2>1. placed[h].spread = n /\ placed[h].count > 0
    BY <1>1 DEF Running
  <2> QED
    BY <2>1 DEF Smooth, Belongs
<1>2. CASE \E cmd \in ToSet(Line) : cmd.host = h /\ cmd.spread = n
  BY <1>2 DEF Smooth, Ordered
<1> QED
  BY <1>1, <1>2 DEF Busy

LEMMA OneSpread ==
  ASSUME TInv, Smooth, Apart(config), NEW h \in Hosts,
         NEW n \in Names, Busy(h, n), NEW m \in Names, Busy(h, m)
  PROVE  n = m
<1>1. PICK i \in DOMAIN Spreads(config) : OfSpread(config, i, h, n)
  BY BusyAt
<1>2. PICK j \in DOMAIN Spreads(config) : OfSpread(config, j, h, m)
  BY BusyAt
<1>3. i = j
  BY <1>1, <1>2 DEF Apart, OfSpread, Eligible
<1> QED
  BY <1>1, <1>2, <1>3 DEF OfSpread

LEMMA RunningNumber ==
  ASSUME TInv, Smooth, Apart(config), NEW h \in Hosts, NEW i \in DOMAIN Spreads(config),
         Running(h, Spreads(config)[i].name) > 0
  PROVE  Running(h, Spreads(config)[i].name) = Target(config, i)
<1> DEFINE n == Spreads(config)[i].name
<1>1. placed[h].spread = n /\ placed[h].count > 0 /\ Running(h, n) = placed[h].count
  BY DEF Running
<1>2. PICK j \in DOMAIN Spreads(config) :
        OfSpread(config, j, h, n) /\ placed[h].count = Target(config, j)
  BY <1>1 DEF Smooth, Belongs
<1>3. j = i
  BY <1>2 DEF Apart, OfSpread
<1> QED
  BY <1>1, <1>2, <1>3

(* Whatever is under way, there is no more than one of a spread's numbers. *)
LEMMA NoneTooMany ==
  ASSUME TInv, Smooth, Apart(config), NEW i \in DOMAIN Spreads(config)
  PROVE  LET on == [h \in Hosts |-> Running(h, Spreads(config)[i].name)]
         IN  IF config.kind = "spread" THEN SumFunction(on) \in {0, ComputeSpread(config)[i]}
             ELSE \A h \in Hosts : on[h] <= config.instances
<1> DEFINE n == Spreads(config)[i].name
           on == [h \in Hosts |-> Running(h, n)]
           k == Target(config, i)
<1>1. n \in Names /\ k \in Nat /\ \A h \in Hosts : on[h] \in Nat
  BY SmoothFacts, SpreadFacts
<1>2. \A h \in Hosts : on[h] = 0 \/ on[h] = k
  <2>1. \A h \in Hosts : Running(h, n) > 0 => Running(h, n) = k
    BY RunningNumber
  <2> QED
    BY <1>1, <2>1
<1>3. \A h \in Hosts : on[h] # 0 => Busy(h, n)
  BY <1>1 DEF Busy
<1>4. DOMAIN on = Hosts
  OBVIOUS
<1> HIDE DEF on, n, k
<1>5. CASE config.kind = "spread"
  <2>1. k = ComputeSpread(config)[i]
    BY <1>5 DEF Target, k
  <2>2. SumFunctionOnSet(on, Hosts) \in {0, k}
    <3>1. CASE \A h \in Hosts : on[h] = 0
      BY <3>1, SpreadsAssumption, SumNat
    <3>2. CASE \E h \in Hosts : on[h] # 0
      <4>1. PICK h \in Hosts : on[h] # 0
        BY <3>2
      <4>2. \A g \in Hosts : g = h \/ on[g] = 0
        BY <1>3, <1>5, <4>1 DEF Smooth, Alone, n
      <4>3. SumFunctionOnSet(on, Hosts) = on[h]
        BY <1>1, <4>2, SpreadsAssumption, SumOne
      <4> QED
        BY <1>2, <4>1, <4>3
    <3> QED
      BY <3>1, <3>2
  <2> QED
    BY <1>4, <1>5, <2>1, <2>2 DEF SumFunction, on, n
<1>6. CASE config.kind # "spread"
  <2>1. k = config.instances
    BY <1>6 DEF Target, k
  <2> QED
    BY <1>1, <1>2, <1>6, <2>1 DEF on, n
<1> QED
  BY <1>5, <1>6

LEMMA SmoothExecute ==
  ASSUME TInv, Smooth, Apart(config), Execute
  PROVE  Smooth'
<1>0. PICK cmd : cmd = Head(sent)
  OBVIOUS
<1> DEFINE h == cmd.host
           n == cmd.spread
           new == [spread |-> IF cmd.count = 0 THEN Default ELSE n, count |-> cmd.count]
<1>1. sent # <<>> /\ sent' = Tail(sent) /\ UNCHANGED <<config, up, store, expected, status, faults>>
  BY DEF Execute
<1>2. sent \in Seq(Good) /\ told \in Seq(Good) /\ placed \in [Hosts -> [spread : Names, count : Nat]]
  BY TFacts
<1>3. Len(sent) \in Nat /\ Len(sent) >= 1 /\ cmd = sent[1] /\ cmd \in Good /\ Len(told) \in Nat
  BY <1>0, <1>1, <1>2, EmptySeq
<1>4. cmd \in ToSet(Line)
  <2>1. cmd \in ToSet(sent)
    BY <1>2, <1>3 DEF ToSet
  <2> QED
    BY <1>2, <2>1, Lines DEF Line
<1>5. PICK i \in DOMAIN Spreads(config) : OfSpread(config, i, h, n) /\ cmd.count = Target(config, i)
  BY <1>4 DEF Smooth, Ordered
<1>6. h \in Hosts /\ n \in Names /\ cmd.count \in Nat
  BY <1>3, <1>5, SmoothFacts, SpreadFacts DEF Good, AnyCommand, OfSpread
<1>7. placed' = [placed EXCEPT ![h] = new] /\ told' = Append(told, cmd)
  <2>1. h \in up
    BY <1>6 DEF Smooth
  <2> QED
    BY <1>0, <2>1 DEF Execute
<1>8. Line' = Line
  BY <1>0, <1>1, <1>2, <1>7, LineMoves DEF Line
<1>9. placed'[h] = new /\ \A g \in Hosts \ {h} : placed'[g] = placed[g]
  BY <1>2, <1>6, <1>7
<1>10. /\ \A m \in Names : Running(h, m)' = IF m = n THEN cmd.count ELSE 0
       /\ \A g \in Hosts \ {h}, m \in Names : Running(g, m)' = Running(g, m)
  BY <1>6, <1>9 DEF Running
<1>11. ToSet(told') = ToSet(told) \cup {cmd}
  <2>1. /\ told' \in Seq(Good) /\ Len(told') = Len(told) + 1 /\ told'[Len(told) + 1] = cmd
        /\ \A j \in 1 .. Len(told) : told'[j] = told[j]
    BY <1>2, <1>3, <1>7
  <2>2. DOMAIN told' = 1 .. Len(told) + 1 /\ DOMAIN told = 1 .. Len(told)
    BY <1>2, <2>1
  <2> QED
    BY <1>3, <2>1, <2>2 DEF ToSet
<1>12. \A d \in ToSet(told) : d.host # h
  <2>1. SUFFICES ASSUME NEW j \in 1 .. Len(told), told[j].host = h PROVE FALSE
    BY <1>2 DEF ToSet
  <2>2. /\ Line[j] = told[j] /\ Line[Len(told) + 1] = cmd
        /\ j \in 1 .. Len(Line) /\ Len(told) + 1 \in 1 .. Len(Line)
    BY <1>2, <1>3 DEF Line
  <2>3. j = Len(told) + 1
    BY <2>1, <2>2 DEF Smooth, Single
  <2> QED
    BY <1>3, <2>3
<1>13. Awaiting' /\ Single'
  BY <1>1, <1>8 DEF Smooth, Awaiting, Single
<1>14. Ordered'
  BY <1>1, <1>8 DEF Smooth, Ordered, OfSpread, Target
<1>15. Accurate'
  <2>1. ASSUME NEW d \in ToSet(told') PROVE Running(d.host, d.spread)' = d.count
    <3>1. CASE d = cmd
      BY <1>6, <1>10, <3>1
    <3>2. CASE d # cmd
      <4>1. d \in ToSet(told) /\ d.host # h
        BY <1>11, <1>12, <3>2
      <4>2. d \in ToSet(Line) /\ d \in Good
        BY <4>1, SmoothFacts
      <4>3. d.host \in Hosts \ {h} /\ d.spread \in Names
        BY <4>1, <4>2, SmoothFacts, SpreadFacts DEF Smooth, Ordered, OfSpread, Good, AnyCommand
      <4> QED
        BY <1>10, <4>1, <4>3 DEF Smooth, Accurate
    <3> QED
      BY <3>1, <3>2
  <2>2. ASSUME NEW g \in Hosts, NEW m \in Names
        PROVE  (\E d \in ToSet(told') : d.host = g /\ d.spread = m) \/ store'.seen[g][m] = Running(g, m)'
    <3>1. CASE g # h
      BY <1>1, <1>10, <1>11, <3>1 DEF Smooth, Accurate
    <3>2. CASE g = h /\ m = n
      BY <1>11, <3>2
    <3>3. CASE g = h /\ m # n
      <4>1. Busy(h, n)
        BY <1>4 DEF Busy
      <4>2. ~Busy(h, m)
        BY <1>6, <3>3, <4>1, OneSpread
      <4>3. Running(h, m) = 0
        BY <1>6, <4>2, SmoothFacts DEF Busy
      <4>4. store.seen[h][m] = Running(h, m)
        BY <1>6, <1>12 DEF Smooth, Accurate
      <4> QED
        BY <1>1, <1>6, <1>10, <3>3, <4>3, <4>4
    <3> QED
      BY <3>1, <3>2, <3>3
  <2> QED
    BY <2>1, <2>2 DEF Accurate
<1>16. Belongs'
  <2>1. SUFFICES ASSUME NEW g \in Hosts, placed'[g].count > 0
                 PROVE  \E j \in DOMAIN Spreads(config) :
                          OfSpread(config, j, g, placed'[g].spread) /\ placed'[g].count = Target(config, j)
    BY <1>1 DEF Belongs, OfSpread, Target
  <2>2. CASE g = h
    BY <1>5, <1>9, <2>1, <2>2
  <2>3. CASE g # h
    BY <1>9, <2>1, <2>3 DEF Smooth, Belongs
  <2> QED
    BY <2>2, <2>3
<1>17. \A g \in Hosts, m \in Names : Busy(g, m)' => Busy(g, m)
  <2>1. SUFFICES ASSUME NEW g \in Hosts, NEW m \in Names, Running(g, m)' > 0 PROVE Busy(g, m)
    BY <1>8 DEF Busy
  <2>2. CASE g = h
    <3>1. m = n
      BY <1>10, <2>1, <2>2
    <3> QED
      BY <1>4, <2>2, <3>1 DEF Busy
  <2>3. CASE g # h
    BY <1>10, <2>1, <2>3 DEF Busy
  <2> QED
    BY <2>2, <2>3
<1>18. Alone'
  BY <1>1, <1>17, SmoothFacts, SpreadFacts DEF Smooth, Alone
<1>19. Recorded'
  BY <1>1 DEF Smooth, Recorded
<1> QED
  BY <1>1, <1>13, <1>14, <1>15, <1>16, <1>18, <1>19 DEF Smooth

LEMMA SmoothHeard ==
  ASSUME TInv, Smooth, Apart(config), ComponentScaled
  PROVE  Smooth'
<1>0. PICK cmd : cmd = Head(told)
  OBVIOUS
<1> DEFINE h == cmd.host
           n == cmd.spread
           awaited == {e \in expected : SameAnnotations(cmd, e)}
<1>1. told # <<>> /\ told' = Tail(told) /\ store' = AfterScaled(store, cmd) /\ UNCHANGED <<config, up, placed, faults>>
  BY <1>0 DEF ComponentScaled
<1>2. sent \in Seq(Good) /\ told \in Seq(Good) /\ store \in States
  BY TFacts
<1>3. /\ cmd \in ToSet(Line) /\ cmd \in ToSet(told) /\ ToSet(told') = ToSet(told) \ {cmd}
      /\ \A x \in ToSet(Line) : x.host = h => x = cmd
  BY <1>0, <1>1, <1>2, LineShrinks DEF Line, Smooth, Single
<1>4. PICK i \in DOMAIN Spreads(config) : OfSpread(config, i, h, n) /\ cmd.count = Target(config, i)
  BY <1>3 DEF Smooth, Ordered
<1>5. h \in Hosts /\ n \in Names /\ cmd.count \in Nat /\ n # NoName
  BY <1>3, <1>4, SmoothFacts, SpreadFacts DEF Good, AnyCommand, OfSpread
<1>6. awaited = {cmd}
  BY <1>3 DEF Smooth, Awaiting, SameAnnotations
<1>7. expected' = expected \ {cmd} /\ UNCHANGED sent
  BY <1>0, <1>6 DEF ComponentScaled
<1>8. /\ Line' \in Seq(Good) /\ Len(Line') = Len(Line) - 1 /\ \A j \in 1 .. Len(Line') : Line'[j] = Line[j + 1]
      /\ ToSet(Line') = ToSet(Line) \ {cmd}
  <2>1. \A j, k \in 1 .. Len(told \o sent) : (told \o sent)[j].host = (told \o sent)[k].host => j = k
    BY DEF Line, Smooth, Single
  <2>2. Line' = Tail(told) \o sent
    BY <1>1, <1>7 DEF Line
  <2> DEFINE r == told \o sent
             t == Tail(told) \o sent
  <2>3. /\ t \in Seq(Good) /\ Len(t) = Len(r) - 1 /\ \A j \in 1 .. Len(t) : t[j] = r[j + 1]
        /\ ToSet(t) = ToSet(r) \ {Head(told)}
    BY <1>1, <1>2, <2>1, LineShrinks
  <2>4. Line = r
    BY DEF Line
  <2> HIDE DEF r, t
  <2>5. Line' = t
    BY <2>2 DEF t
  <2> QED
    BY <1>0, <2>3, <2>4, <2>5
<1>9. /\ store'.known = store.known
      /\ store'.listed = IF cmd.count = 0 THEN store.listed \ {h} ELSE store.listed \cup ({h} \cap store.known)
      /\ \A g \in Hosts, m \in Names :
           store'.seen[g][m] = IF g = h /\ m = n THEN cmd.count ELSE store.seen[g][m]
  BY <1>1, <1>2, <1>5 DEF AfterScaled, States
<1>10. Awaiting'
  BY <1>7, <1>8 DEF Smooth, Awaiting
<1>11. Single'
  <2>1. SUFFICES ASSUME NEW j \in 1 .. Len(Line'), NEW k \in 1 .. Len(Line'), Line'[j].host = Line'[k].host
                 PROVE  j = k
    BY DEF Single
  <2>2. Len(Line) \in Nat
    BY SmoothFacts
  <2>3. j + 1 \in 1 .. Len(Line) /\ k + 1 \in 1 .. Len(Line)
    BY <1>8, <2>2
  <2>4. j + 1 = k + 1
    BY <1>8, <2>1, <2>3 DEF Smooth, Single
  <2> QED
    BY <2>4
<1>12. Ordered'
  BY <1>1, <1>8, <1>9 DEF Smooth, Ordered, OfSpread, Target, Eligible
<1>13. \A g \in Hosts, m \in Names : Running(g, m)' = Running(g, m)
  BY <1>1 DEF Running
<1>14. Accurate'
  <2>1. ASSUME NEW d \in ToSet(told') PROVE Running(d.host, d.spread)' = d.count
    BY <1>1, <1>3 DEF Smooth, Accurate, Running
  <2>2. ASSUME NEW g \in Hosts, NEW m \in Names
        PROVE  (\E d \in ToSet(told') : d.host = g /\ d.spread = m) \/ store'.seen[g][m] = Running(g, m)'
    <3>1. CASE g = h /\ m = n
      <4>1. Running(h, n) = cmd.count
        BY <1>3 DEF Smooth, Accurate
      <4> QED
        BY <1>9, <1>13, <3>1, <4>1
    <3>2. CASE ~(g = h /\ m = n)
      BY <1>3, <1>9, <1>13, <3>2 DEF Smooth, Accurate
    <3> QED
      BY <3>1, <3>2
  <2> QED
    BY <2>1, <2>2 DEF Accurate
<1>15. Belongs'
  BY <1>1, <1>9 DEF Smooth, Belongs, OfSpread, Target, Eligible
<1>16. Alone'
  <2>1. \A g \in Hosts, m \in Names : Busy(g, m)' => Busy(g, m)
    BY <1>8, <1>13 DEF Busy
  <2>2. \A j \in DOMAIN Spreads(config) : Spreads(config)[j].name \in Names
    BY SmoothFacts, SpreadFacts
  <2>3. SUFFICES ASSUME config.kind = "spread", NEW j \in DOMAIN Spreads(config), NEW f \in Hosts, NEW g \in Hosts,
                        NEW m \in Names, m = Spreads(config)[j].name, Busy(f, m)', Busy(g, m)'
                 PROVE  f = g
    BY <1>1, <2>2 DEF Alone
  <2>4. Busy(f, m) /\ Busy(g, m)
    BY <2>1, <2>3
  <2> QED
    BY <2>3, <2>4 DEF Smooth, Alone
<1>17. h \in store.known /\ h \in Matched(config)
  BY <1>4 DEF OfSpread, Eligible, Matched
<1>18. Recorded'
  <2>1. store'.listed \subseteq Matched(config')
    BY <1>1, <1>9, <1>17 DEF Smooth, Recorded
  <2>2. ASSUME NEW g \in Hosts, NEW m \in Names, store'.seen[g][m] > 0 PROVE g \in store'.listed
    <3>1. CASE g # h
      <4>1. g \in store.listed
        BY <1>9, <2>2, <3>1 DEF Smooth, Recorded
      <4> QED
        BY <1>9, <3>1, <4>1
    <3>2. CASE g = h /\ m = n
      BY <1>5, <1>9, <1>17, <2>2, <3>2
    <3>3. CASE g = h /\ m # n
      <4>1. ~Busy(h, m)
        <5>1. Busy(h, n)
          BY <1>3 DEF Busy
        <5> QED
          BY <1>5, <3>3, <5>1, OneSpread
      <4>2. Running(h, m) = 0 /\ ~\E d \in ToSet(told) : d.host = h /\ d.spread = m
        BY <1>5, <4>1, SmoothFacts DEF Busy
      <4>3. store.seen[h][m] = 0
        BY <1>5, <4>2 DEF Smooth, Accurate
      <4> QED
        BY <1>5, <1>9, <2>2, <3>3, <4>3
    <3> QED
      BY <3>1, <3>2, <3>3
  <2> QED
    BY <2>1, <2>2 DEF Recorded
<1> QED
  BY <1>1, <1>10, <1>11, <1>12, <1>14, <1>15, <1>16, <1>18 DEF Smooth

(* What is planned where every spread has all of its number on one host,   *)
(* or none of it yet: the number of each spread that has none, on one of   *)
(* its hosts.  There is nothing to stop.                                   *)
LEMMA PlansStart ==
  ASSUME NEW c \in AnyConfig, Apart(c), NEW s \in States, RemoveIneligible(c, s) = {},
         c.kind = "spread" =>
           \A i \in DOMAIN Spreads(c) : Current(s, Spreads(c)[i].name) \in {0, ComputeSpread(c)[i]},
         NEW o \in Reconciled(c, s)
  PROVE  /\ \A cmd \in o.commands : \E i \in DOMAIN Spreads(c) :
              /\ cmd.host \in Eligible(s, Spreads(c)[i]) /\ cmd.spread = Spreads(c)[i].name
              /\ cmd.count = Target(c, i)
              /\ c.kind = "spread" => \A h \in Hosts : s.seen[h][Spreads(c)[i].name] = 0
         /\ \A cmd, d \in o.commands : cmd.host = d.host => cmd = d
         /\ c.kind = "spread" => \A cmd, d \in o.commands : cmd.spread = d.spread => cmd = d
<1> DEFINE sp == Spreads(c)
           I == DOMAIN sp
<1>1. CASE c.kind = "spread"
  <2>1. PICK cmds \in Candidates(c, s) :
          o = IF Conflict(c, s, cmds) THEN [commands |-> {}, status |-> "failed"] ELSE Result(c, s, cmds)
    BY <1>1 DEF Reconciled, SpreadOutcomes
  <2>2. PICK f \in [I -> SUBSET Good] :
          cmds = UNION {f[j] : j \in I} /\ \A j \in I : f[j] \in Moves(c, s, j)
    BY CandidatesType
  <2>3. o.commands \subseteq cmds
    BY <2>1 DEF Result
  <2>4. ASSUME NEW i \in I
        PROVE  \/ f[i] = {}
               \/ \E h \in Eligible(s, sp[i]) :
                    /\ f[i] = {Command(h, sp[i].name, ComputeSpread(c)[i])}
                    /\ \A g \in Hosts : s.seen[g][sp[i].name] = 0
    <3> DEFINE n == sp[i].name
               k == ComputeSpread(c)[i]
               now == Current(s, n)
               q == Seen(s, n)
    <3>1. n \in Names /\ k \in Nat /\ now \in {0, k} /\ f[i] \in Moves(c, s, i)
      BY <1>1, <2>2, SpreadFacts
    <3>2. \A h \in Hosts : q[h] = s.seen[h][n] /\ q[h] \in Nat
      BY <3>1 DEF Seen, States
    <3>3. now = SumFunctionOnSet(q, Hosts)
      BY DEF Current, SumFunction, Seen
    <3>4. f[i] \in {{}} \/ (now < k /\ f[i] \in Starts(s, sp[i], k)) \/ (now # k /\ ~(now < k))
      BY <3>1 DEF Moves
    <3> HIDE DEF n, k, now, q
    <3>5. now = 0 => \A h \in Hosts : q[h] = 0
      <4>1. (\A h \in Hosts : q[h] = 0) <=> SumFunctionOnSet(q, Hosts) = 0
        BY <3>2, SpreadsAssumption, SumNat
      <4> QED
        BY <3>3, <4>1
    <3>6. CASE now < k /\ f[i] \in Starts(s, sp[i], k)
      <4>1. \A g \in Hosts : s.seen[g][n] = 0
        BY <3>1, <3>2, <3>5, <3>6
      <4>2. PICK h \in Eligible(s, sp[i]) : f[i] = {Command(h, n, k)}
        BY <3>6 DEF Starts, n
      <4> QED
        BY <4>1, <4>2 DEF n, k
    <3> QED
      BY <3>1, <3>4, <3>6
  <2>5. \A i \in I : \A cmd \in f[i] :
          /\ cmd.host \in Eligible(s, sp[i]) /\ cmd.spread = sp[i].name /\ cmd.count = Target(c, i)
          /\ \A h \in Hosts : s.seen[h][sp[i].name] = 0
          /\ \A d \in f[i] : d = cmd
    BY <1>1, <2>4 DEF Command, Target
  <2> HIDE DEF sp, I
  <2>6. \A cmd \in o.commands : \E i \in I :
           /\ cmd.host \in Eligible(s, sp[i]) /\ cmd.spread = sp[i].name /\ cmd.count = Target(c, i)
           /\ \A h \in Hosts : s.seen[h][sp[i].name] = 0
    BY <2>2, <2>3, <2>5
  <2>7. ASSUME NEW cmd \in o.commands, NEW d \in o.commands, cmd.host = d.host \/ cmd.spread = d.spread
        PROVE  cmd = d
    <3>1. PICK i \in I : cmd \in f[i]
      BY <2>2, <2>3
    <3>2. PICK j \in I : d \in f[j]
      BY <2>2, <2>3
    <3>3. /\ cmd.host \in sp[i].hosts /\ d.host \in sp[j].hosts
          /\ cmd.spread = sp[i].name /\ d.spread = sp[j].name
      BY <2>5, <3>1, <3>2 DEF Eligible
    <3>4. i = j
      BY <2>7, <3>3 DEF Apart, sp, I
    <3> QED
      BY <2>5, <3>1, <3>2, <3>4
  <2> QED
    BY <2>6, <2>7 DEF sp, I
<1>2. CASE c.kind = "daemon"
  <2> DEFINE Lacking(j) == {g \in Eligible(s, sp[j]) : s.seen[g][sp[j].name] # c.instances}
             Told(j) == {Command(g, sp[j].name, c.instances) : g \in Lacking(j)}
  <2>1. o = DaemonOutcome(c, s)
    BY <1>2 DEF Reconciled
  <2>2. o.commands = UNION {Told(j) : j \in I}
    BY <2>1 DEF DaemonOutcome, Result
  <2>3. \A j \in I : \A cmd \in Told(j) :
          cmd.host \in Eligible(s, sp[j]) /\ cmd.spread = sp[j].name /\ cmd.count = c.instances
    BY DEF Command
  <2>4. \A j \in I : \A cmd, d \in Told(j) : cmd.host = d.host => cmd = d
    BY DEF Command
  <2> HIDE DEF Told, sp, I
  <2>5. ASSUME NEW cmd \in o.commands, NEW d \in o.commands, cmd.host = d.host PROVE cmd = d
    <3>1. PICK i \in I : cmd \in Told(i)
      BY <2>2
    <3>2. PICK j \in I : d \in Told(j)
      BY <2>2
    <3>3. cmd.host \in sp[i].hosts /\ d.host \in sp[j].hosts
      BY <2>3, <3>1, <3>2 DEF Eligible
    <3>4. i = j
      BY <2>5, <3>3 DEF Apart, sp, I
    <3> QED
      BY <2>4, <2>5, <3>1, <3>2, <3>4
  <2>6. \A cmd \in o.commands : \E i \in I :
          cmd.host \in Eligible(s, sp[i]) /\ cmd.spread = sp[i].name /\ cmd.count = Target(c, i)
    BY <1>2, <2>2, <2>3 DEF Target
  <2> QED
    BY <1>2, <2>5, <2>6 DEF sp, I
<1> QED
  BY <1>1, <1>2 DEF AnyConfig

(* A heartbeat tells what is known already, but that the host is there.    *)
LEMMA HeartbeatStore ==
  ASSUME TInv, Smooth, Apart(config), NEW h \in Hosts, HostHeartbeat(h)
  PROVE  /\ store' \in States /\ store.known \subseteq store'.known
         /\ \A g \in Hosts, n \in Names : store'.seen[g][n] = store.seen[g][n]
         /\ store'.listed \subseteq Matched(config)
         /\ \A g \in Hosts, n \in Names : store'.seen[g][n] > 0 => g \in store'.listed
<1> DEFINE now == placed[h]
           s == store'
<1>1. s = AfterHeartbeat(store, h, now) /\ \A cmd \in ToSet(told) : cmd.host # h
  BY DEF HostHeartbeat
<1>2. now \in [spread : Names, count : Nat] /\ store \in States /\ s \in States
  BY <1>1, TFacts, AfterHeartbeatType
<1>3. \A n \in Names : store.seen[h][n] = Running(h, n)
  BY <1>1 DEF Smooth, Accurate
<1>4. \A n \in Names : Running(h, n) = IF n = now.spread THEN now.count ELSE 0
  BY DEF Running
<1>5. [NothingSeen EXCEPT ![now.spread] = now.count] = [n \in Names |-> IF n = now.spread THEN now.count ELSE 0]
  BY <1>2 DEF NothingSeen
<1>6. /\ s.known = store.known \cup {h}
      /\ s.listed = IF now.count > 0 THEN store.listed \cup {h} ELSE store.listed \ {h}
      /\ \/ s.seen = store.seen
         \/ s.seen = [store.seen EXCEPT ![h] = [NothingSeen EXCEPT ![now.spread] = now.count]]
  BY <1>1 DEF AfterHeartbeat
<1>7. \A g \in Hosts, n \in Names : s.seen[g][n] = store.seen[g][n]
  <2>1. CASE s.seen = store.seen
    BY <2>1
  <2>2. CASE s.seen = [store.seen EXCEPT ![h] = [n \in Names |-> IF n = now.spread THEN now.count ELSE 0]]
    BY <1>2, <1>3, <1>4, <2>2 DEF States
  <2> QED
    BY <1>5, <1>6, <2>1, <2>2
<1>8. s.listed \subseteq Matched(config)
  <2>1. now.count > 0 => h \in Matched(config)
    BY DEF Smooth, Belongs, OfSpread, Eligible, Matched
  <2> QED
    BY <1>6, <2>1 DEF Smooth, Recorded
<1>9. ASSUME NEW g \in Hosts, NEW n \in Names, s.seen[g][n] > 0 PROVE g \in s.listed
  <2>1. g \in store.listed
    BY <1>7, <1>9 DEF Smooth, Recorded
  <2>2. CASE g # h
    BY <1>6, <2>1, <2>2
  <2>3. CASE g = h
    <3>1. now.count > 0
      BY <1>2, <1>3, <1>4, <1>7, <1>9, <2>3
    <3> QED
      BY <1>6, <2>1, <3>1
  <2> QED
    BY <2>2, <2>3
<1> QED
  BY <1>2, <1>6, <1>7, <1>8, <1>9

LEMMA ApartLine ==
  ASSUME NEW S \in SUBSET Good, IsFiniteSet(S), \A cmd, d \in S : cmd.host = d.host => cmd = d
  PROVE  LET q == <<>> \o (<<>> \o SetToSeq(S))
         IN  ToSet(q) = S /\ \A i, j \in 1 .. Len(q) : q[i].host = q[j].host => i = j
<1> DEFINE q == SetToSeq(S)
<1>1. q \in Seq(S) /\ ToSet(q) = S /\ Len(q) = Cardinality(S) /\ Cardinality(S) \in Nat
  BY Listed, FS_CardinalityType
<1>2. \A i, j \in 1 .. Cardinality(S) : q[i] = q[j] => i = j
  BY Listed
<1> HIDE DEF q
<1>3. <<>> \o (<<>> \o q) = q
  BY <1>1, ConcatEmptySeq
<1>4. \A i \in 1 .. Len(q) : q[i] \in S
  BY <1>1
<1> QED
  BY <1>1, <1>2, <1>3, <1>4 DEF q

LEMMA SmoothHeartbeat ==
  ASSUME TInv, Smooth, Apart(config), NEW h \in Hosts, HostHeartbeat(h)
  PROVE  Smooth'
<1>1. /\ UNCHANGED <<config, up, placed, told, faults>>
      /\ \/ Ignore(config, store') \/ React(config, store', expected)
  BY DEF HostHeartbeat
<1>2. /\ store' \in States /\ store.known \subseteq store'.known
      /\ \A g \in Hosts, n \in Names : store'.seen[g][n] = store.seen[g][n]
  BY HeartbeatStore
<1>3. \A i \in DOMAIN Spreads(config) : \A g, n : OfSpread(config, i, g, n) => OfSpread(config, i, g, n)'
  BY <1>1, <1>2 DEF OfSpread, Eligible
<1>4. \A g, n : Running(g, n)' = Running(g, n)
  BY <1>1 DEF Running
<1>5. Belongs'
  BY <1>1, <1>3 DEF Smooth, Belongs, Target
<1>6. Accurate'
  BY <1>1, <1>2, <1>4 DEF Smooth, Accurate
<1>7. Recorded'
  BY <1>1, HeartbeatStore DEF Recorded
<1>8. CASE UNCHANGED <<expected, sent>>
  <2>1. Line' = Line
    BY <1>1, <1>8 DEF Line
  <2>2. \A g, n : Busy(g, n)' = Busy(g, n)
    BY <1>4, <2>1 DEF Busy
  <2>3. Awaiting' /\ Single' /\ Ordered' /\ Alone'
    BY <1>1, <1>3, <1>8, <2>1, <2>2 DEF Smooth, Awaiting, Single, Ordered, Alone, Target
  <2> QED
    BY <1>1, <1>5, <1>6, <1>7, <2>3 DEF Smooth
<1>9. CASE expected = {} /\ \E o \in Reconciled(config, store') :
             expected' = o.commands /\ sent' = sent \o SetToSeq(o.commands)
  <2>1. PICK o \in Reconciled(config, store') :
          expected' = o.commands /\ sent' = sent \o SetToSeq(o.commands)
    BY <1>9
  <2>2. told = <<>> /\ sent = <<>> /\ ToSet(told) = {} /\ ToSet(Line) = {}
    <3>1. ToSet(Line) = {}
      BY <1>9 DEF Smooth, Awaiting
    <3> QED
      BY <3>1, SmoothFacts, Lines DEF Line
  <2>3. config \in AnyConfig
    BY SmoothFacts
  <2>4. \A g \in Hosts, n \in Names : store'.seen[g][n] = Running(g, n)
    BY <1>2, <2>2 DEF Smooth, Accurate
  <2>5. RemoveIneligible(config, store') = {}
    BY HeartbeatStore DEF RemoveIneligible
  <2>6. ASSUME config.kind = "spread", NEW i \in DOMAIN Spreads(config)
        PROVE  Current(store', Spreads(config)[i].name) \in {0, ComputeSpread(config)[i]}
    <3> DEFINE n == Spreads(config)[i].name
    <3>1. n \in Names
      BY <2>3, SpreadFacts
    <3>2. Seen(store', n) = [g \in Hosts |-> Running(g, n)]
      BY <2>4, <3>1 DEF Seen
    <3> QED
      BY <2>6, <3>2, NoneTooMany DEF Current
  <2>7. /\ \A cmd \in o.commands : \E i \in DOMAIN Spreads(config) :
             /\ cmd.host \in Eligible(store', Spreads(config)[i]) /\ cmd.spread = Spreads(config)[i].name
             /\ cmd.count = Target(config, i)
             /\ config.kind = "spread" => \A g \in Hosts : store'.seen[g][Spreads(config)[i].name] = 0
        /\ \A cmd, d \in o.commands : cmd.host = d.host => cmd = d
        /\ config.kind = "spread" => \A cmd, d \in o.commands : cmd.spread = d.spread => cmd = d
    BY <1>2, <2>3, <2>5, <2>6, PlansStart
  <2>8. o.commands \in SUBSET Good /\ IsFiniteSet(o.commands)
    BY <1>2, <2>3, OutcomeType DEF Outcomes
  <2>9. Line' = <<>> \o (<<>> \o SetToSeq(o.commands))
    BY <1>1, <2>1, <2>2 DEF Line
  <2>10. ToSet(Line') = o.commands /\ Single'
    BY <2>7, <2>8, <2>9, ApartLine DEF Single
  <2>11. Awaiting'
    BY <2>1, <2>10 DEF Awaiting
  <2>12. Ordered'
    <3>1. SUFFICES ASSUME NEW cmd \in o.commands
                   PROVE  \E i \in DOMAIN Spreads(config) :
                            /\ cmd.host \in Eligible(store', Spreads(config)[i])
                            /\ cmd.spread = Spreads(config)[i].name /\ cmd.count = Target(config, i)
      BY <1>1, <2>10 DEF Ordered, OfSpread, Target
    <3> QED
      BY <2>7
  <2>13. Alone'
    <3>1. SUFFICES ASSUME config.kind = "spread", NEW i \in DOMAIN Spreads(config), NEW f \in Hosts, NEW g \in Hosts,
                          NEW n \in Names, n = Spreads(config)[i].name, Busy(f, n)', Busy(g, n)'
                   PROVE  f = g
      <4>1. \A i \in DOMAIN Spreads(config) : Spreads(config)[i].name \in Names
        BY <2>3, SpreadFacts
      <4> QED
        BY <1>1, <4>1 DEF Alone
    <3>2. \A e \in Hosts : Busy(e, n)' <=>
            Running(e, n) > 0 \/ \E cmd \in o.commands : cmd.host = e /\ cmd.spread = n
      BY <1>4, <2>10 DEF Busy
    <3>3. CASE Running(f, n) > 0 \/ Running(g, n) > 0
      <4>1. ~\E cmd \in o.commands : cmd.spread = n
        <5>1. \E e \in Hosts : store'.seen[e][n] # 0
          BY <2>4, <3>3, SmoothFacts
        <5> QED
          BY <2>7, <3>1, <5>1
      <4>2. Running(f, n) > 0 /\ Running(g, n) > 0
        BY <3>1, <3>2, <4>1
      <4> QED
        BY <3>1, <4>2 DEF Smooth, Alone, Busy
    <3>4. CASE ~(Running(f, n) > 0 \/ Running(g, n) > 0)
      <4>1. PICK cmd \in o.commands : cmd.host = f /\ cmd.spread = n
        BY <3>1, <3>2, <3>4
      <4>2. PICK d \in o.commands : d.host = g /\ d.spread = n
        BY <3>1, <3>2, <3>4
      <4> QED
        BY <2>7, <3>1, <4>1, <4>2
    <3> QED
      BY <3>3, <3>4
  <2> QED
    BY <1>1, <1>5, <1>6, <1>7, <2>10, <2>11, <2>12, <2>13 DEF Smooth
<1> QED
  BY <1>1, <1>8, <1>9 DEF Ignore, React

LEMMA SmoothReap ==
  ASSUME TInv, Smooth, Reap
  PROVE  Smooth'
<1>1. UNCHANGED <<config, up, placed, expected, sent, told, status, faults>>
  BY DEF Reap
<1>2. store \in States /\ store.listed \subseteq Hosts /\ store.known \subseteq Hosts
  BY TFacts DEF States
<1>3. /\ store'.known = store.known /\ store'.listed = store.listed
      /\ store'.seen = [h \in Hosts |-> IF h \in store.listed THEN store.seen[h] ELSE NothingSeen]
  BY <1>2 DEF Reap, Smooth
<1>4. \A h \in Hosts, n \in Names : store'.seen[h][n] = store.seen[h][n]
  <2>1. SUFFICES ASSUME NEW h \in Hosts, NEW n \in Names, h \notin store.listed
                 PROVE  store.seen[h][n] = 0
    BY <1>3 DEF NothingSeen
  <2>2. store.seen[h][n] \in Nat /\ ~(store.seen[h][n] > 0)
    BY <2>1, SmoothFacts DEF Smooth, Recorded
  <2> QED
    BY <2>2
<1>5. Line' = Line
  BY <1>1 DEF Line
<1>6. /\ \A i \in DOMAIN Spreads(config) : \A g, n : OfSpread(config, i, g, n)' <=> OfSpread(config, i, g, n)
      /\ \A g, n : Running(g, n)' = Running(g, n)
  BY <1>1, <1>3 DEF OfSpread, Eligible, Running
<1>7. \A g, n : Busy(g, n)' = Busy(g, n)
  BY <1>5, <1>6 DEF Busy
<1>8. Awaiting' /\ Single' /\ Ordered' /\ Belongs'
  BY <1>1, <1>5, <1>6 DEF Smooth, Awaiting, Single, Ordered, Belongs, Target
<1>9. Accurate' /\ Recorded' /\ Alone'
  BY <1>1, <1>3, <1>4, <1>6, <1>7 DEF Smooth, Accurate, Recorded, Alone
<1> QED
  BY <1>1, <1>8, <1>9 DEF Smooth

LEMMA NInit == Init => NInv
<1> SUFFICES ASSUME Init PROVE Smooth
  BY DEF NInv
<1>1. config \in Configs /\ up = Hosts
  BY DEF Init
<1>2. told = <<>> /\ sent = <<>> /\ expected = {}
  BY DEF Init
<1>3. Line = <<>> /\ Len(Line) = 0 /\ ToSet(Line) = {} /\ ToSet(told) = {}
  BY <1>2 DEF Line, ToSet
<1>4. \A h \in Hosts : placed[h].count = 0
  BY DEF Init
<1>5. \A h \in Hosts : \A n : Running(h, n) = 0
  BY <1>4 DEF Running
<1>6. \A h \in Hosts, n \in Names : store.seen[h][n] = 0
  BY DEF Init, NothingSeen
<1>7. store.listed = {}
  BY DEF Init
<1>8. Awaiting /\ Single /\ Ordered
  BY <1>2, <1>3 DEF Awaiting, Single, Ordered
<1>9. Accurate /\ Belongs
  BY <1>3, <1>4, <1>5, <1>6 DEF Accurate, Belongs
<1>10. Alone
  BY <1>3, <1>5 DEF Alone, Busy
<1>11. Recorded
  BY <1>6, <1>7 DEF Recorded
<1> QED
  BY <1>1, <1>8, <1>9, <1>10, <1>11 DEF Smooth

LEMMA NStep ==
  ASSUME \A c \in Configs : Apart(c)
  PROVE  TInv /\ NInv /\ [Next]_vars => NInv'
<1> SUFFICES ASSUME TInv, NInv, [Next]_vars, faults' = 0 PROVE Smooth'
  BY DEF NInv
<1>1. faults \in Nat
  BY SpreadScalerAssumption DEF TInv, TypeOK
<1>2. ~Fault
  BY <1>1 DEF Fault
<1>3. faults = 0
  BY <1>1, <1>2 DEF Next, vars, ComponentScaled, Execute, Reap, StopWaiting, StopTooEarly, Undeploy,
                    HostHeartbeat, HostDies, HostStarts, Deploy
<1>4. Smooth /\ Apart(config)
  BY <1>3 DEF NInv, Smooth
<1>5. CASE ComponentScaled
  BY <1>4, <1>5, SmoothHeard
<1>6. CASE Execute
  BY <1>4, <1>6, SmoothExecute
<1>7. CASE Reap
  BY <1>4, <1>7, SmoothReap
<1>8. CASE StopWaiting
  <2>1. ToSet(sent) \cup ToSet(told) = ToSet(Line)
    <3>1. ToSet(Line) \subseteq ToSet(sent) \cup ToSet(told)
      <4>1. SUFFICES ASSUME NEW j \in 1 .. Len(Line) PROVE Line[j] \in ToSet(sent) \cup ToSet(told)
        BY SmoothFacts, <1>4 DEF ToSet
      <4>2. told \in Seq(Good) /\ sent \in Seq(Good)
        BY TFacts
      <4>3. /\ j \in 1 .. Len(told) + Len(sent) /\ Len(told) \in Nat /\ Len(sent) \in Nat
            /\ Line[j] = IF j <= Len(told) THEN told[j] ELSE sent[j - Len(told)]
        BY <4>2, ConcatProperties DEF Line
      <4>4. CASE j <= Len(told)
        <5>1. j \in 1 .. Len(told)
          BY <4>3, <4>4
        <5> QED
          BY <4>2, <4>3, <4>4, <5>1 DEF ToSet
      <4>5. CASE ~(j <= Len(told))
        <5>1. j - Len(told) \in 1 .. Len(sent)
          BY <4>3, <4>5
        <5> QED
          BY <4>2, <4>3, <4>5, <5>1 DEF ToSet
      <4> QED
        BY <4>4, <4>5
    <3>2. ToSet(sent) \subseteq ToSet(Line) /\ ToSet(told) \subseteq ToSet(Line)
      BY TFacts, Lines DEF Line
    <3> QED
      BY <3>1, <3>2
  <2> QED
    BY <1>4, <1>8, <2>1 DEF StopWaiting, UnderWay, Smooth, Awaiting
<1>9. CASE StopTooEarly \/ Undeploy
  BY <1>2, <1>9 DEF StopTooEarly, Undeploy
<1>10. CASE \E h \in Hosts : HostHeartbeat(h) \/ HostDies(h) \/ HostStarts(h)
  <2>1. PICK h \in Hosts : HostHeartbeat(h) \/ HostDies(h) \/ HostStarts(h)
    BY <1>10
  <2>2. CASE HostHeartbeat(h)
    BY <1>4, <2>2, SmoothHeartbeat
  <2>3. CASE HostDies(h) \/ HostStarts(h)
    BY <1>2, <1>4, <2>3 DEF HostDies, HostStarts, Smooth
  <2> QED
    BY <2>1, <2>2, <2>3
<1>11. CASE \E c \in Configs : Deploy(c)
  BY <1>2, <1>11 DEF Deploy
<1>12. CASE UNCHANGED vars
  BY <1>4, <1>12 DEF vars, Smooth, Awaiting, Single, Ordered, Accurate, Belongs, Alone, Recorded, Line, Busy,
                     Running, OfSpread
<1> QED
  BY <1>5, <1>6, <1>7, <1>8, <1>9, <1>10, <1>11, <1>12 DEF Next

(* While no host dies, no wait ends too early and the manifest stays,      *)
(* there are never more instances than were asked for: not even between    *)
(* a command and its event, when heartbeats come and the store is behind.  *)
THEOREM NeverTooMany ==
  ASSUME \A c \in Configs : Apart(c)
  PROVE  Spec => []NoOvershoot
<1>1. TInv /\ NInv => NoOvershoot
  <2>1. SUFFICES ASSUME TInv, Smooth, NEW i \in DOMAIN Spreads(config)
                 PROVE  LET on == [h \in Hosts |-> Running(h, Spreads(config)[i].name)]
                        IN  IF config.kind = "spread" THEN SumFunction(on) <= ComputeSpread(config)[i]
                            ELSE \A h \in Hosts : on[h] <= config.instances
    BY DEF NInv, NoOvershoot
  <2>2. Apart(config) /\ config \in AnyConfig
    BY <2>1, SmoothFacts DEF Smooth
  <2>3. ComputeSpread(config)[i] \in Nat
    BY <2>2, SpreadFacts
  <2> QED
    BY <2>1, <2>2, <2>3, NoneTooMany
<1>2. Spec => []NInv
  BY NInit, NStep, TAlways, PTL DEF Spec
<1> QED
  BY <1>1, <1>2, TAlways, PTL
=============================================================================
