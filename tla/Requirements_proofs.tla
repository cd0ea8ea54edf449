------------------------- MODULE Requirements_proofs -------------------------
(***************************************************************************)
(* Proofs about Requirements, for any manifests that clients send: that    *)
(* what validation accepts can be converted, that the links of a manifest  *)
(* do not fight over a config, and that configs of others are left alone.  *)
(***************************************************************************)
EXTENDS Requirements, TLAPS, NaturalsInduction, WellFoundedInduction, SequenceTheorems,
        FunctionTheorems, FiniteSetTheorems
-----------------------------------------------------------------------------
(* Lists.  What flattening a list of lists gives is found by descent to    *)
(* the least length for which it would not.                                *)

LEMMA Least ==
  ASSUME NEW T \in SUBSET Nat, T # {}
  PROVE  \E k \in T : \A j \in T : k <= j
<1>1. PICK k \in T : \A j \in T : ~(<<j, k>> \in OpToRel(<, Nat))
  BY NatLessThanWellFounded, WFMin
<1>2. ASSUME NEW j \in T PROVE k <= j
  <2>1. <<j, k>> \in Nat \X Nat
    OBVIOUS
  <2>2. ~(j < k)
    BY <1>1, <2>1 DEF OpToRel
  <2> QED
    BY <2>2
<1> QED
  BY <1>2

LEMMA ToSetConcat ==
  ASSUME NEW S, NEW s \in Seq(S), NEW t \in Seq(S)
  PROVE  s \o t \in Seq(S) /\ ToSet(s \o t) = ToSet(s) \cup ToSet(t)
<1>1. /\ s \o t \in Seq(S) /\ DOMAIN (s \o t) = 1 .. Len(s) + Len(t)
      /\ \A i \in 1 .. Len(s) + Len(t) :
           (s \o t)[i] = IF i <= Len(s) THEN s[i] ELSE t[i - Len(s)]
  OBVIOUS
<1>2. /\ DOMAIN s = 1 .. Len(s) /\ DOMAIN t = 1 .. Len(t) /\ Len(s) \in Nat /\ Len(t) \in Nat
  OBVIOUS
<1>3. ASSUME NEW x \in ToSet(s) PROVE x \in ToSet(s \o t)
  <2>1. PICK i \in 1 .. Len(s) : x = s[i]
    BY <1>2 DEF ToSet
  <2>2. i \in 1 .. Len(s) + Len(t) /\ (s \o t)[i] = x
    BY <1>1, <1>2, <2>1
  <2> QED
    BY <1>1, <2>2 DEF ToSet
<1>4. ASSUME NEW x \in ToSet(t) PROVE x \in ToSet(s \o t)
  <2>1. PICK i \in 1 .. Len(t) : x = t[i]
    BY <1>2 DEF ToSet
  <2>2. Len(s) + i \in 1 .. Len(s) + Len(t) /\ (s \o t)[Len(s) + i] = x
    BY <1>1, <1>2, <2>1
  <2> QED
    BY <1>1, <2>2 DEF ToSet
<1>5. ASSUME NEW x \in ToSet(s \o t) PROVE x \in ToSet(s) \cup ToSet(t)
  <2>1. PICK i \in 1 .. Len(s) + Len(t) : x = (s \o t)[i]
    BY <1>1 DEF ToSet
  <2>2. i <= Len(s) => i \in 1 .. Len(s) /\ x = s[i]
    BY <1>1, <1>2, <2>1
  <2>3. ~(i <= Len(s)) => i - Len(s) \in 1 .. Len(t) /\ x = t[i - Len(s)]
    BY <1>1, <1>2, <2>1
  <2> QED
    BY <1>2, <2>2, <2>3 DEF ToSet
<1> QED
  BY <1>1, <1>3, <1>4, <1>5

LEMMA FlattenFacts ==
  ASSUME NEW ss, IsList(ss), \A i \in DOMAIN ss : IsList(ss[i])
  PROVE  /\ IsList(FlattenSeq(ss))
         /\ ToSet(FlattenSeq(ss)) = UNION {ToSet(ss[i]) : i \in DOMAIN ss}
<1> DEFINE n == Len(ss)
           Flat(f, k) == f = [i \in 1 .. k |-> IF i = 1 THEN ss[i] ELSE f[i - 1] \o ss[i]]
           Upto(k) == UNION {ToSet(ss[i]) : i \in 1 .. k}
           S == UNION {ToSet(ss[i]) : i \in DOMAIN ss}
<1>1. n \in Nat /\ DOMAIN ss = 1 .. n
  BY DEF IsList
<1>2. ASSUME NEW i \in 1 .. n PROVE ss[i] \in Seq(S) /\ ToSet(ss[i]) \subseteq S
  <2>1. ToSet(ss[i]) \subseteq S
    BY <1>1
  <2> HIDE DEF S
  <2>2. ss[i] \in Seq(ToSet(ss[i]))
    BY <1>1 DEF IsList
  <2> QED
    BY <2>1, <2>2, SeqMonotonic
<1>3. CASE n = 0
  <2>1. ss = <<>> /\ FlattenSeq(ss) = ss
    BY <1>1, <1>3 DEF FlattenSeq, IsList
  <2>2. ToSet(<<>>) = {} /\ S = {}
    BY <1>1, <1>3 DEF ToSet
  <2> QED
    BY <2>1, <2>2
<1>4. CASE n # 0
  <2> HIDE DEF n
  <2>1. ASSUME NEW k \in 0 .. n PROVE \E f : Flat(f, k)
    <3> DEFINE Bad == {j \in 0 .. n : ~ \E f : Flat(f, j)}
    <3>1. SUFFICES ASSUME Bad # {} PROVE FALSE
      OBVIOUS
    <3>2. PICK b \in Bad : \A j \in Bad : b <= j
      <4> HIDE DEF Flat, S, Upto
      <4>1. Bad \in SUBSET Nat
        BY <1>1
      <4> HIDE DEF Bad
      <4> QED
        BY <3>1, <4>1, Least
    <3>3. b # 0
      <4>1. Flat([i \in 1 .. 0 |-> ss[i]], 0)
        OBVIOUS
      <4> QED
        BY <4>1
    <3>4. b - 1 \in 0 .. n /\ b \in 1 .. n /\ \E f : Flat(f, b - 1)
      <4> HIDE DEF Flat
      <4>1. b \in 0 .. n
        OBVIOUS
      <4>2. b - 1 \in 0 .. n /\ b \in 1 .. n /\ ~(b <= b - 1)
        BY <1>1, <3>3, <4>1
      <4>3. b - 1 \notin Bad
        BY <3>2, <4>2
      <4> QED
        BY <4>2, <4>3
    <3>5. PICK f : Flat(f, b - 1)
      <4> HIDE DEF Flat
      <4> QED
        BY <3>4
    <3> DEFINE g == [i \in 1 .. b |-> IF i < b THEN f[i]
                                      ELSE IF i = 1 THEN ss[i] ELSE f[i - 1] \o ss[i]]
    <3>6. ASSUME NEW i \in 1 .. b
          PROVE  g[i] = IF i = 1 THEN ss[i] ELSE g[i - 1] \o ss[i]
      <4>1. i # 1 => i - 1 \in 1 .. b /\ i - 1 < b /\ g[i - 1] = f[i - 1]
        BY <3>4
      <4>2. CASE i < b
        <5>1. i \in 1 .. b - 1 /\ g[i] = f[i]
          BY <3>4, <4>2
        <5>2. f[i] = IF i = 1 THEN ss[i] ELSE f[i - 1] \o ss[i]
          BY <3>5, <5>1
        <5> QED
          BY <4>1, <5>1, <5>2
      <4>3. CASE ~(i < b)
        <5>1. g[i] = IF i = 1 THEN ss[i] ELSE f[i - 1] \o ss[i]
          BY <4>3
        <5> QED
          BY <4>1, <5>1
      <4> QED
        BY <4>2, <4>3
    <3>7. g = [i \in 1 .. b |-> g[i]]
      OBVIOUS
    <3> HIDE DEF g
    <3>8. Flat(g, b)
      BY <3>6, <3>7
    <3> QED
      BY <3>2, <3>8
  <2> DEFINE F == CHOOSE f : Flat(f, n)
  <2>2. Flat(F, n)
    <3> HIDE DEF Flat
    <3>1. \E f : Flat(f, n)
      BY <1>1, <2>1
    <3> QED
      BY <3>1
  <2>3. FlattenSeq(ss) = F[n]
    BY <1>4 DEF FlattenSeq, n
  <2> HIDE DEF F
  <2>4. ASSUME NEW k \in 1 .. n PROVE F[k] \in Seq(S) /\ ToSet(F[k]) = Upto(k)
    <3> DEFINE Bad == {j \in 1 .. n : ~(F[j] \in Seq(S) /\ ToSet(F[j]) = Upto(j))}
    <3>1. SUFFICES ASSUME Bad # {} PROVE FALSE
      OBVIOUS
    <3>2. PICK b \in Bad : \A j \in Bad : b <= j
      <4> HIDE DEF Flat, S, Upto
      <4>1. Bad \in SUBSET Nat
        BY <1>1
      <4> HIDE DEF Bad
      <4> QED
        BY <3>1, <4>1, Least
    <3>3. b \in 1 .. n
      OBVIOUS
    <3>4. F[b] = IF b = 1 THEN ss[b] ELSE F[b - 1] \o ss[b]
      BY <2>2, <3>3
    <3>5. CASE b = 1
      <4>1. F[b] = ss[1] /\ 1 \in 1 .. n
        BY <3>3, <3>4, <3>5
      <4>2. Upto(b) = ToSet(ss[1])
        BY <3>5
      <4> QED
        BY <1>2, <4>1, <4>2
    <3>6. CASE b # 1
      <4>1. b - 1 \in 1 .. n /\ ~(b <= b - 1)
        BY <1>1, <3>3, <3>6
      <4>2. F[b - 1] \in Seq(S) /\ ToSet(F[b - 1]) = Upto(b - 1)
        <5> HIDE DEF S, Upto
        <5>1. b - 1 \notin Bad
          BY <3>2, <4>1
        <5> QED
          BY <4>1, <5>1
      <4>3. ss[b] \in Seq(S) /\ F[b] = F[b - 1] \o ss[b]
        BY <1>2, <3>3, <3>4, <3>6
      <4>4. F[b] \in Seq(S) /\ ToSet(F[b]) = ToSet(F[b - 1]) \cup ToSet(ss[b])
        <5> HIDE DEF S, Upto, Bad
        <5> QED
          BY <4>2, <4>3, ToSetConcat
      <4>5. Upto(b) = Upto(b - 1) \cup ToSet(ss[b])
        <5>1. \A i \in 1 .. b : i \in 1 .. b - 1 \/ i = b
          BY <3>3
        <5>2. \A i \in 1 .. b - 1 : i \in 1 .. b
          BY <3>3
        <5>3. b \in 1 .. b
          BY <3>3
        <5> QED
          BY <5>1, <5>2, <5>3
      <4> QED
        BY <4>2, <4>4, <4>5
    <3> QED
      BY <3>5, <3>6
  <2>5. Upto(n) = S /\ n \in 1 .. n
    BY <1>1, <1>4
  <2> QED
    BY <2>3, <2>4, <2>5 DEF IsList
<1> QED
  BY <1>3, <1>4

LEMMA ImageFinite ==
  ASSUME NEW S, IsFiniteSet(S), NEW f, DOMAIN f = S
  PROVE  IsFiniteSet({f[x] : x \in S})
<1> DEFINE T == {f[x] : x \in S}
           g == [x \in S |-> f[x]]
<1>1. g \in Surjection(S, T)
  BY DEF Surjection
<1> QED
  BY <1>1, FS_Surjection

LEMMA ListOf ==
  ASSUME NEW n \in Nat, NEW f, f = [i \in 1 .. n |-> f[i]]
  PROVE  IsList(f) /\ Len(f) = n /\ DOMAIN f = 1 .. n
<1>1. f \in [1 .. n -> ToSet(f)] /\ DOMAIN f = 1 .. n
  BY DEF ToSet
<1> QED
  BY <1>1 DEF IsList

LEMMA ListFinite ==
  ASSUME NEW s, IsList(s)
  PROVE  /\ IsFiniteSet(ToSet(s)) /\ DOMAIN s = 1 .. Len(s) /\ Len(s) \in Nat
<1>1. DOMAIN s = 1 .. Len(s) /\ Len(s) \in Nat
  BY DEF IsList
<1>2. IsFiniteSet(DOMAIN s)
  BY <1>1, FS_Interval
<1>3. IsFiniteSet({s[i] : i \in DOMAIN s})
  BY <1>2, ImageFinite
<1> QED
  BY <1>1, <1>3 DEF ToSet

LEMMA ListsConcat ==
  ASSUME NEW s, NEW t, IsList(s), IsList(t)
  PROVE  IsList(s \o t) /\ ToSet(s \o t) = ToSet(s) \cup ToSet(t)
<1> DEFINE S == ToSet(s) \cup ToSet(t)
<1>1. s \in Seq(S) /\ t \in Seq(S)
  BY SeqMonotonic DEF IsList
<1>2. s \o t \in Seq(S) /\ ToSet(s \o t) = S
  <2> HIDE DEF S
  <2>1. s \o t \in Seq(S) /\ ToSet(s \o t) = ToSet(s) \cup ToSet(t)
    BY <1>1, ToSetConcat
  <2> QED
    BY <2>1 DEF S
<1> QED
  BY <1>2 DEF IsList

LEMMA Single == ASSUME NEW x PROVE IsList(<<x>>) /\ ToSet(<<x>>) = {x}
BY DEF IsList, ToSet

LEMMA Nothing == IsList(<<>>) /\ ToSet(<<>>) = {}
BY DEF IsList, ToSet

LEMMA AmongFacts ==
  ASSUME NEW s, IsList(s), NEW T
  PROVE  IsList(Among(s, T)) /\ ToSet(Among(s, T)) = ToSet(s) \cap T
<1> DEFINE ss == [i \in DOMAIN s |-> IF s[i] \in T THEN <<s[i]>> ELSE <<>>]
<1>1. DOMAIN s = 1 .. Len(s) /\ Len(s) \in Nat
  BY DEF IsList
<1>2. IsList(ss) /\ DOMAIN ss = DOMAIN s
  <2>1. DOMAIN ss = 1 .. Len(s) /\ ss = [i \in 1 .. Len(s) |-> ss[i]]
    BY <1>1
  <2> HIDE DEF ss
  <2> QED
    BY <1>1, <2>1, ListOf
<1>3. ASSUME NEW i \in DOMAIN ss
      PROVE  IsList(ss[i]) /\ ToSet(ss[i]) = IF s[i] \in T THEN {s[i]} ELSE {}
  <2>1. CASE s[i] \in T
    <3>1. ss[i] = <<s[i]>>
      BY <1>2, <1>3, <2>1
    <3> QED
      BY <2>1, <3>1, Single
  <2>2. CASE s[i] \notin T
    <3>1. ss[i] = <<>>
      BY <1>2, <1>3, <2>2
    <3> QED
      BY <2>2, <3>1, Nothing
  <2> QED
    BY <2>1, <2>2
<1>4. Among(s, T) = FlattenSeq(ss)
  BY DEF Among
<1> HIDE DEF ss
<1>5. /\ IsList(FlattenSeq(ss))
      /\ ToSet(FlattenSeq(ss)) = UNION {ToSet(ss[i]) : i \in DOMAIN ss}
  BY <1>2, <1>3, FlattenFacts
<1>6. UNION {ToSet(ss[i]) : i \in DOMAIN ss} = ToSet(s) \cap T
  <2>1. \A x : x \in UNION {ToSet(ss[i]) : i \in DOMAIN ss} <=>
                 \E i \in DOMAIN s : x = s[i] /\ s[i] \in T
    BY <1>2, <1>3
  <2>2. \A x : x \in ToSet(s) \cap T <=> \E i \in DOMAIN s : x = s[i] /\ s[i] \in T
    BY DEF ToSet
  <2> QED
    BY <2>1, <2>2
<1> QED
  BY <1>4, <1>5, <1>6

(* In a list that has as many members as places each is in one place.      *)
LEMMA NoRepeatsMeans ==
  ASSUME NEW s, IsList(s), NoRepeats(s), NEW i \in DOMAIN s, NEW j \in DOMAIN s, s[i] = s[j]
  PROVE  i = j
<1> DEFINE I == 1 .. Len(s)
           T == ToSet(s)
<1>1. DOMAIN s = I /\ Len(s) \in Nat /\ s \in [I -> T]
  BY DEF IsList
<1>2. s \in Surjection(I, T)
  BY <1>1 DEF Surjection, ToSet
<1>3. IsFiniteSet(I) /\ Cardinality(I) = Len(s)
  <2>1. PICK n \in Nat : n = Len(s)
    BY <1>1
  <2>2. IsFiniteSet(1 .. n) /\ Cardinality(1 .. n) = IF 1 > n THEN 0 ELSE n - 1 + 1
    BY FS_Interval
  <2> QED
    BY <2>1, <2>2
<1>4. Cardinality(I) = Cardinality(T)
  BY <1>3 DEF NoRepeats
<1> HIDE DEF I, T
<1>5. s \in Injection(I, T)
  BY <1>2, <1>3, <1>4, FS_SurjSameCardinalityImpliesInj
<1> QED
  BY <1>1, <1>5 DEF Injection, IsInjective
-----------------------------------------------------------------------------
(* Manifests.                                                              *)

Whole(c) ==
  /\ IsList(c.traits) /\ IsList(c.config) /\ IsList(c.secrets)
  /\ \A t \in ToSet(c.traits) : IsLink(t) /\ t.as = "link" =>
       /\ IsList(t.source.config) /\ IsList(t.source.secrets)
       /\ IsList(t.to.config) /\ IsList(t.to.secrets)

LEMMA LinksFacts ==
  ASSUME NEW c, Whole(c)
  PROVE  /\ IsList(Links(c))
         /\ ToSet(Links(c)) = {t \in ToSet(c.traits) : IsLink(t) /\ t.as = "link"}
         /\ \A t \in ToSet(Links(c)) : /\ IsList(t.source.config) /\ IsList(t.source.secrets)
                                       /\ IsList(t.to.config) /\ IsList(t.to.secrets)
<1> DEFINE T == {t \in ToSet(c.traits) : IsLink(t) /\ t.as = "link"}
<1>1. Links(c) = Among(c.traits, T) /\ T \subseteq ToSet(c.traits)
  BY DEF Links
<1>2. \A t \in T : /\ IsList(t.source.config) /\ IsList(t.source.secrets)
                   /\ IsList(t.to.config) /\ IsList(t.to.secrets)
  BY DEF Whole
<1>3. IsList(c.traits)
  BY DEF Whole
<1> HIDE DEF T
<1>4. IsList(Links(c)) /\ ToSet(Links(c)) = T
  BY <1>1, <1>3, AmongFacts
<1> QED
  BY <1>2, <1>4 DEF T

(* All secrets of a component and of its links are looked at.              *)
LEMMA SecretsFacts ==
  ASSUME NEW c, Whole(c)
  PROVE  /\ ToSet(c.secrets) \subseteq ToSet(Secrets(c))
         /\ \A t \in ToSet(Links(c)) :
              ToSet(t.to.secrets) \cup ToSet(t.source.secrets) \subseteq ToSet(Secrets(c))
<1> DEFINE ls == Links(c)
           ss == [i \in DOMAIN ls |-> ls[i].to.secrets \o ls[i].source.secrets]
<1>1. /\ IsList(ls) /\ IsList(c.secrets)
      /\ \A t \in ToSet(ls) : IsList(t.source.secrets) /\ IsList(t.to.secrets)
  BY LinksFacts DEF Whole
<1>2. Secrets(c) = FlattenSeq(ss) \o c.secrets
  BY DEF Secrets, EachOf
<1> HIDE DEF ls
<1>3. DOMAIN ls = 1 .. Len(ls) /\ Len(ls) \in Nat
  BY <1>1, ListFinite
<1>4. IsList(ss) /\ DOMAIN ss = DOMAIN ls
  <2>1. ss = [i \in 1 .. Len(ls) |-> ss[i]]
    BY <1>3
  <2> HIDE DEF ss
  <2> QED
    BY <1>3, <2>1, ListOf
<1>5. ASSUME NEW i \in DOMAIN ls
      PROVE  /\ IsList(ss[i])
             /\ ToSet(ss[i]) = ToSet(ls[i].to.secrets) \cup ToSet(ls[i].source.secrets)
  <2>1. ls[i] \in ToSet(ls) /\ ss[i] = ls[i].to.secrets \o ls[i].source.secrets
    BY DEF ToSet
  <2>2. IsList(ls[i].to.secrets) /\ IsList(ls[i].source.secrets)
    BY <1>1, <2>1
  <2> HIDE DEF ss
  <2> QED
    BY <2>1, <2>2, ListsConcat
<1> HIDE DEF ss
<1>6. /\ IsList(FlattenSeq(ss))
      /\ ToSet(FlattenSeq(ss)) = UNION {ToSet(ss[i]) : i \in DOMAIN ss}
  BY <1>4, <1>5, FlattenFacts
<1>7. ToSet(Secrets(c)) = ToSet(FlattenSeq(ss)) \cup ToSet(c.secrets)
  BY <1>1, <1>2, <1>6, ListsConcat
<1>8. ASSUME NEW t \in ToSet(ls)
      PROVE  ToSet(t.to.secrets) \cup ToSet(t.source.secrets) \subseteq ToSet(FlattenSeq(ss))
  <2>1. PICK i \in DOMAIN ls : t = ls[i]
    BY DEF ToSet
  <2>2. ToSet(ss[i]) = ToSet(t.to.secrets) \cup ToSet(t.source.secrets)
    BY <1>5, <2>1
  <2>3. ToSet(ss[i]) \subseteq ToSet(FlattenSeq(ss))
    BY <1>4, <1>6, <2>1
  <2> QED
    BY <2>2, <2>3
<1> QED
  BY <1>7, <1>8 DEF ls

LEMMA ConfigScalersFacts ==
  ASSUME NEW app, NEW gs, IsList(gs)
  PROVE  /\ IsList(ConfigScalers(app, gs)) /\ IsFiniteSet(ToSet(ConfigScalers(app, gs)))
         /\ \A r \in ToSet(ConfigScalers(app, gs)) : \E g \in ToSet(gs) :
              r = [name |-> ConfigName(app, g), value |-> g.value,
                   secret |-> FALSE, policies |-> {}]
<1> DEFINE s == ConfigScalers(app, gs)
<1>1. DOMAIN gs = 1 .. Len(gs) /\ Len(gs) \in Nat
  BY ListFinite
<1>2. /\ s = [i \in 1 .. Len(gs) |-> s[i]]
      /\ \A i \in 1 .. Len(gs) :
           s[i] = [name |-> ConfigName(app, gs[i]), value |-> gs[i].value,
                   secret |-> FALSE, policies |-> {}]
  BY <1>1 DEF ConfigScalers
<1> HIDE DEF s
<1>3. IsList(s) /\ DOMAIN s = 1 .. Len(gs) /\ IsFiniteSet(ToSet(s))
  BY <1>1, <1>2, ListOf, ListFinite
<1>4. ASSUME NEW r \in ToSet(s)
      PROVE  \E g \in ToSet(gs) :
               r = [name |-> ConfigName(app, g), value |-> g.value,
                    secret |-> FALSE, policies |-> {}]
  <2>1. PICK i \in 1 .. Len(gs) : r = s[i]
    BY <1>3 DEF ToSet
  <2>2. gs[i] \in ToSet(gs)
    BY <1>1 DEF ToSet
  <2> QED
    BY <1>2, <2>1, <2>2
<1> QED
  BY <1>3, <1>4 DEF s

LEMMA SecretScalersFacts ==
  ASSUME NEW m, NEW secrets, IsList(secrets)
  PROVE  /\ IsList(SecretScalers(m, secrets)) /\ IsFiniteSet(ToSet(SecretScalers(m, secrets)))
         /\ \A r \in ToSet(SecretScalers(m, secrets)) :
              r.secret /\ \E g \in ToSet(secrets) :
                            r.policies = {p \in m.policies : p.name = g.policy}
<1> DEFINE s == SecretScalers(m, secrets)
<1>1. DOMAIN secrets = 1 .. Len(secrets) /\ Len(secrets) \in Nat
  BY ListFinite
<1>2. /\ s = [i \in 1 .. Len(secrets) |-> s[i]]
      /\ \A i \in 1 .. Len(secrets) :
           s[i].secret /\ s[i].policies = {p \in m.policies : p.name = secrets[i].policy}
  BY <1>1 DEF SecretScalers
<1> HIDE DEF s
<1>3. IsList(s) /\ DOMAIN s = 1 .. Len(secrets) /\ IsFiniteSet(ToSet(s))
  BY <1>1, <1>2, ListOf, ListFinite
<1>4. ASSUME NEW r \in ToSet(s)
      PROVE  r.secret /\ \E g \in ToSet(secrets) :
                           r.policies = {p \in m.policies : p.name = g.policy}
  <2>1. PICK i \in 1 .. Len(secrets) : r = s[i]
    BY <1>3 DEF ToSet
  <2>2. secrets[i] \in ToSet(secrets)
    BY <1>1 DEF ToSet
  <2> QED
    BY <1>2, <2>1, <2>2
<1> QED
  BY <1>3, <1>4 DEF s

(* What the scaler of a link requires.                                     *)
LEMMA LinkRequires ==
  ASSUME NEW m, NEW c, Whole(c), NEW t \in ToSet(Links(c)), NEW x, Resolves(x)
  PROVE  /\ LinkScaler(m, c, t, x).id.kind = "link"
         /\ LinkScaler(m, c, t, x).requires =
              ToSet(ConfigScalers(m.name, t.source.config))
                \cup ToSet(ConfigScalers(m.name, t.to.config))
                \cup ToSet(SecretScalers(m, t.source.secrets))
                \cup ToSet(SecretScalers(m, t.to.secrets))
<1> DEFINE from == ConfigScalers(m.name, t.source.config)
           to == ConfigScalers(m.name, t.to.config)
           fromSecrets == SecretScalers(m, t.source.secrets)
           toSecrets == SecretScalers(m, t.to.secrets)
<1>1. /\ LinkScaler(m, c, t, x).id.kind = "link"
      /\ LinkScaler(m, c, t, x).requires = ToSet(from \o to) \cup ToSet(fromSecrets \o toSecrets)
  BY DEF LinkScaler
<1>2. IsList(from) /\ IsList(to) /\ IsList(fromSecrets) /\ IsList(toSecrets)
  <2>1. /\ IsList(t.source.config) /\ IsList(t.source.secrets)
        /\ IsList(t.to.config) /\ IsList(t.to.secrets)
    BY LinksFacts
  <2> QED
    BY <2>1, ConfigScalersFacts, SecretScalersFacts
<1> HIDE DEF from, to, fromSecrets, toSecrets
<1>3. ToSet(from \o to) = ToSet(from) \cup ToSet(to)
  BY <1>2, ListsConcat
<1>4. ToSet(fromSecrets \o toSecrets) = ToSet(fromSecrets) \cup ToSet(toSecrets)
  BY <1>2, ListsConcat
<1> QED
  BY <1>1, <1>3, <1>4 DEF from, to, fromSecrets, toSecrets

(* Flattening what is made of each member of a list.                       *)
LEMMA EachFacts ==
  ASSUME NEW s, IsList(s), NEW ss, ss = [i \in DOMAIN s |-> ss[i]],
         \A i \in DOMAIN s : IsList(ss[i])
  PROVE  /\ IsList(FlattenSeq(ss))
         /\ \A x : x \in ToSet(FlattenSeq(ss)) <=> \E i \in DOMAIN s : x \in ToSet(ss[i])
<1>1. DOMAIN s = 1 .. Len(s) /\ Len(s) \in Nat
  BY ListFinite
<1>2. ss = [i \in 1 .. Len(s) |-> ss[i]]
  BY <1>1
<1>3. IsList(ss) /\ DOMAIN ss = DOMAIN s
  BY <1>1, <1>2, ListOf
<1>4. /\ IsList(FlattenSeq(ss))
      /\ ToSet(FlattenSeq(ss)) = UNION {ToSet(ss[i]) : i \in DOMAIN ss}
  BY <1>3, FlattenFacts
<1> QED
  BY <1>3, <1>4

(* What a scaler in the list of those of a component may be.               *)
Placed(m, c, s) == ~Resolves(c) /\ s = Placeholder("spreadscaler", c)
Linking(m, c, s) ==
  \E t \in ToSet(Links(c)), x \in ToSet(m.components) : s = LinkScaler(m, c, t, x)
Working(m, c, s) ==
  \E kind \in {"spreadscaler", "daemonscaler"} : s = WorkloadScaler(m, c, kind)

LEMMA TraitScalersFacts ==
  ASSUME NEW m, IsList(m.components), NEW c, Whole(c), NEW t \in ToSet(c.traits)
  PROVE  /\ IsList(TraitScalers(m, c, t))
         /\ \A s \in ToSet(TraitScalers(m, c, t)) : Linking(m, c, s) \/ Working(m, c, s)
<1> DEFINE now == TraitScalers(m, c, t)
           workload == IsScaler(t) /\ t.as = "scaler" /\ c.image # None
           link == IsLink(t) /\ t.as = "link"
<1>1. CASE workload
  <2>1. now = <<WorkloadScaler(m, c, t.type)>> /\ t.type \in {"spreadscaler", "daemonscaler"}
    BY <1>1 DEF TraitScalers, IsScaler, IsLink
  <2>2. IsList(now) /\ ToSet(now) = {WorkloadScaler(m, c, t.type)}
    BY <2>1, Single
  <2> QED
    BY <2>1, <2>2 DEF Working
<1>2. CASE ~workload /\ link
  <2> DEFINE T == {x \in ToSet(m.components) : x.name = t.target /\ ~(c.capability /\ x.capability)}
             targets == Among(m.components, T)
  <2>1. now = LinkTo(m, c, t) /\ t \in ToSet(Links(c))
    BY <1>2, LinksFacts DEF TraitScalers
  <2>2. LinkTo(m, c, t) = IF targets = <<>> THEN <<>> ELSE <<LinkScaler(m, c, t, Head(targets))>>
    BY DEF LinkTo
  <2>3. T \subseteq ToSet(m.components)
    OBVIOUS
  <2> HIDE DEF T
  <2>4. IsList(targets) /\ ToSet(targets) \subseteq ToSet(m.components)
    BY <2>3, AmongFacts
  <2> HIDE DEF targets
  <2>5. CASE targets = <<>>
    BY <2>1, <2>2, <2>5, Nothing
  <2>6. CASE targets # <<>>
    <3>1. Head(targets) \in ToSet(targets)
      BY <2>4, <2>6 DEF IsList
    <3>2. now = <<LinkScaler(m, c, t, Head(targets))>>
      BY <2>1, <2>2, <2>6
    <3>3. IsList(now) /\ ToSet(now) = {LinkScaler(m, c, t, Head(targets))}
      BY <3>2, Single
    <3> QED
      BY <2>1, <2>4, <3>1, <3>3 DEF Linking
  <2> QED
    BY <2>5, <2>6
<1>3. CASE ~workload /\ ~link
  <2>1. now = <<>>
    BY <1>3 DEF TraitScalers
  <2> QED
    BY <2>1, Nothing
<1> QED
  BY <1>1, <1>2, <1>3

LEMMA ComponentScalersFacts ==
  ASSUME NEW m, IsList(m.components), NEW c, Whole(c)
  PROVE  /\ IsList(ComponentScalers(m, c))
         /\ \A s \in ToSet(ComponentScalers(m, c)) :
              Placed(m, c, s) \/ Linking(m, c, s) \/ Working(m, c, s)
<1> DEFINE ss == [i \in DOMAIN c.traits |-> TraitScalers(m, c, c.traits[i])]
           default == DefaultScaler(m, c)
<1>1. CASE ~Resolves(c)
  <2>1. ComponentScalers(m, c) = <<Placeholder("spreadscaler", c)>>
    BY <1>1 DEF ComponentScalers
  <2>2. /\ IsList(ComponentScalers(m, c))
        /\ ToSet(ComponentScalers(m, c)) = {Placeholder("spreadscaler", c)}
    BY <2>1, Single
  <2> QED
    BY <1>1, <2>2 DEF Placed
<1>2. CASE Resolves(c)
  <2>1. ComponentScalers(m, c) = FlattenSeq(ss) \o default
    BY <1>2 DEF ComponentScalers, EachOf
  <2>2. IsList(c.traits)
    BY DEF Whole
  <2>3. ASSUME NEW i \in DOMAIN c.traits
        PROVE  /\ IsList(ss[i])
               /\ \A s \in ToSet(ss[i]) : Linking(m, c, s) \/ Working(m, c, s)
    <3>1. PICK t \in ToSet(c.traits) : t = c.traits[i]
      BY DEF ToSet
    <3>2. ss[i] = TraitScalers(m, c, t)
      BY <3>1
    <3> HIDE DEF ss
    <3> QED
      BY <3>2, TraitScalersFacts
  <2>4. ss = [i \in DOMAIN c.traits |-> ss[i]]
    OBVIOUS
  <2>5. IsList(default) /\ \A s \in ToSet(default) : Working(m, c, s)
    <3>1. default = <<WorkloadScaler(m, c, "spreadscaler")>> \/ default = <<>>
      BY DEF DefaultScaler
    <3>2. Working(m, c, WorkloadScaler(m, c, "spreadscaler"))
      BY DEF Working
    <3> HIDE DEF default
    <3>3. CASE default = <<WorkloadScaler(m, c, "spreadscaler")>>
      BY <3>2, <3>3, Single
    <3>4. CASE default = <<>>
      BY <3>4, Nothing
    <3> QED
      BY <3>1, <3>3, <3>4
  <2> HIDE DEF ss, default
  <2>6. /\ IsList(FlattenSeq(ss))
        /\ \A x : x \in ToSet(FlattenSeq(ss)) <=> \E i \in DOMAIN c.traits : x \in ToSet(ss[i])
    BY <2>2, <2>3, <2>4, EachFacts
  <2>7. /\ IsList(ComponentScalers(m, c))
        /\ ToSet(ComponentScalers(m, c)) = ToSet(FlattenSeq(ss)) \cup ToSet(default)
    BY <2>1, <2>5, <2>6, ListsConcat
  <2> QED
    BY <2>3, <2>5, <2>6, <2>7
<1> QED
  BY <1>1, <1>2

(* Each scaler of a manifest belongs to one of its components.             *)
LEMMA ScalersFacts ==
  ASSUME NEW m, IsParsed(m)
  PROVE  /\ IsList(ScalersOf(m))
         /\ \A s \in ToSet(ScalersOf(m)) : \E c \in ToSet(m.components) :
              Placed(m, c, s) \/ Linking(m, c, s) \/ Working(m, c, s)
<1> DEFINE cs == m.components
           ss == [i \in DOMAIN cs |-> ComponentScalers(m, cs[i])]
<1>1. ScalersOf(m) = FlattenSeq(ss)
  BY DEF ScalersOf, EachOf
<1>2. IsList(m.components) /\ \A c \in ToSet(m.components) : Whole(c)
  BY DEF IsParsed, Whole
<1>3. ASSUME NEW i \in DOMAIN cs
      PROVE  /\ IsList(ss[i])
             /\ \A s \in ToSet(ss[i]) : \E c \in ToSet(m.components) :
                  Placed(m, c, s) \/ Linking(m, c, s) \/ Working(m, c, s)
  <2>1. PICK c \in ToSet(m.components) : c = cs[i]
    BY DEF ToSet
  <2>2. ss[i] = ComponentScalers(m, c) /\ Whole(c)
    BY <1>2, <2>1
  <2> HIDE DEF ss, cs
  <2>3. /\ IsList(ComponentScalers(m, c))
        /\ \A s \in ToSet(ComponentScalers(m, c)) :
             Placed(m, c, s) \/ Linking(m, c, s) \/ Working(m, c, s)
    BY <1>2, <2>2, ComponentScalersFacts
  <2> QED
    BY <2>2, <2>3
<1>4. ss = [i \in DOMAIN cs |-> ss[i]]
  OBVIOUS
<1> HIDE DEF ss
<1>5. /\ IsList(FlattenSeq(ss))
      /\ \A x : x \in ToSet(FlattenSeq(ss)) <=> \E i \in DOMAIN cs : x \in ToSet(ss[i])
  BY <1>2, <1>3, <1>4, EachFacts
<1> QED
  BY <1>1, <1>3, <1>5

LEMMA WorkRequires ==
  ASSUME NEW m, NEW c, Whole(c), NEW kind
  PROVE  /\ WorkloadScaler(m, c, kind).id.kind = kind
         /\ WorkloadScaler(m, c, kind).requires =
              ToSet(ConfigScalers(m.name, c.config)) \cup ToSet(SecretScalers(m, c.secrets))
BY DEF WorkloadScaler

(* A requirement of a scaler whose component and target resolve.           *)
LEMMA RequirementsFacts ==
  ASSUME NEW m, IsParsed(m), \A c \in ToSet(m.components) : Resolves(c),
         NEW s \in ToSet(ScalersOf(m))
  PROVE  /\ s.id.kind \in {"link", "spreadscaler", "daemonscaler"}
         /\ IsFiniteSet(s.requires)
         /\ \A r \in s.requires : r.secret =>
              \E c \in ToSet(m.components) : \E g \in ToSet(Secrets(c)) :
                r.policies = {p \in m.policies : p.name = g.policy}
         /\ s.id.kind = "link" => \A r \in s.requires : ~r.secret =>
              \E c \in ToSet(m.components) : \E t \in ToSet(Links(c)) :
                \E g \in ToSet(t.source.config) \cup ToSet(t.to.config) :
                  r = [name |-> ConfigName(m.name, g), value |-> g.value,
                       secret |-> FALSE, policies |-> {}]
<1>1. PICK c \in ToSet(m.components) : Linking(m, c, s) \/ Working(m, c, s)
  BY ScalersFacts DEF Placed
<1>2. Whole(c)
  BY DEF IsParsed, Whole
<1>3. CASE Linking(m, c, s)
  <2>1. PICK t \in ToSet(Links(c)), x \in ToSet(m.components) : s = LinkScaler(m, c, t, x)
    BY <1>3 DEF Linking
  <2>2. /\ IsList(t.source.config) /\ IsList(t.source.secrets)
        /\ IsList(t.to.config) /\ IsList(t.to.secrets)
    BY <1>2, LinksFacts
  <2> DEFINE A == ToSet(ConfigScalers(m.name, t.source.config))
             B == ToSet(ConfigScalers(m.name, t.to.config))
             C == ToSet(SecretScalers(m, t.source.secrets))
             D == ToSet(SecretScalers(m, t.to.secrets))
  <2>3. s.id.kind = "link" /\ s.requires = A \cup B \cup C \cup D
    BY <1>2, <2>1, LinkRequires
  <2>4. IsFiniteSet(A) /\ IsFiniteSet(B) /\ IsFiniteSet(C) /\ IsFiniteSet(D)
    BY <2>2, ConfigScalersFacts, SecretScalersFacts
  <2>5. \A r \in C \cup D : r.secret /\ \E g \in ToSet(Secrets(c)) :
          r.policies = {p \in m.policies : p.name = g.policy}
    <3>1. ToSet(t.to.secrets) \cup ToSet(t.source.secrets) \subseteq ToSet(Secrets(c))
      BY <1>2, SecretsFacts
    <3>2. \A r \in C : r.secret /\ \E g \in ToSet(t.source.secrets) :
            r.policies = {p \in m.policies : p.name = g.policy}
      BY <2>2, SecretScalersFacts
    <3>3. \A r \in D : r.secret /\ \E g \in ToSet(t.to.secrets) :
            r.policies = {p \in m.policies : p.name = g.policy}
      BY <2>2, SecretScalersFacts
    <3> HIDE DEF A, B, C, D
    <3> QED
      BY <3>1, <3>2, <3>3
  <2>6. \A r \in A \cup B : ~r.secret /\ \E g \in ToSet(t.source.config) \cup ToSet(t.to.config) :
          r = [name |-> ConfigName(m.name, g), value |-> g.value,
               secret |-> FALSE, policies |-> {}]
    <3>1. \A r \in A : \E g \in ToSet(t.source.config) :
            r = [name |-> ConfigName(m.name, g), value |-> g.value,
                 secret |-> FALSE, policies |-> {}]
      BY <2>2, ConfigScalersFacts
    <3>2. \A r \in B : \E g \in ToSet(t.to.config) :
            r = [name |-> ConfigName(m.name, g), value |-> g.value,
                 secret |-> FALSE, policies |-> {}]
      BY <2>2, ConfigScalersFacts
    <3> HIDE DEF A, B, C, D
    <3> QED
      BY <3>1, <3>2
  <2> HIDE DEF A, B, C, D
  <2>7. IsFiniteSet(s.requires)
    BY <2>3, <2>4, FS_Union
  <2> QED
    BY <2>3, <2>5, <2>6, <2>7
<1>4. CASE Working(m, c, s)
  <2>1. PICK kind \in {"spreadscaler", "daemonscaler"} : s = WorkloadScaler(m, c, kind)
    BY <1>4 DEF Working
  <2>2. IsList(c.config) /\ IsList(c.secrets)
    BY <1>2 DEF Whole
  <2> DEFINE A == ToSet(ConfigScalers(m.name, c.config))
             C == ToSet(SecretScalers(m, c.secrets))
  <2>3. s.id.kind = kind /\ s.requires = A \cup C
    BY <1>2, <2>1, WorkRequires
  <2>4. IsFiniteSet(A) /\ IsFiniteSet(C)
    BY <2>2, ConfigScalersFacts, SecretScalersFacts
  <2>5. \A r \in C : r.secret /\ \E g \in ToSet(c.secrets) :
          r.policies = {p \in m.policies : p.name = g.policy}
    BY <2>2, SecretScalersFacts
  <2>6. \A r \in A : \E g \in ToSet(c.config) :
          r = [name |-> ConfigName(m.name, g), value |-> g.value,
               secret |-> FALSE, policies |-> {}]
    BY <2>2, ConfigScalersFacts
  <2>7. ToSet(c.secrets) \subseteq ToSet(Secrets(c))
    BY <1>2, SecretsFacts
  <2> HIDE DEF A, C
  <2>8. \A r \in A : ~r.secret
    BY <2>6
  <2>9. IsFiniteSet(s.requires)
    BY <2>3, <2>4, FS_Union
  <2> QED
    BY <2>1, <2>3, <2>5, <2>7, <2>8, <2>9
<1> QED
  BY <1>1, <1>3, <1>4

(* What validation accepts can be converted.                               *)
THEOREM ValidConverts ==
  ASSUME NEW m, IsParsed(m), Valid(m)
  PROVE  Converts(m)
<1>1. \A c \in ToSet(m.components) : Resolves(c)
  BY DEF Valid, PropertiesAreValid, Resolves
<1>2. ASSUME NEW s \in ToSet(ScalersOf(m))
      PROVE  /\ s.id.kind # "status"
             /\ \A r \in s.requires : r.secret => \E p \in r.policies : p.secret /\ p.backend
  <2>1. s.id.kind # "status"
    BY <1>1, RequirementsFacts
  <2>2. ASSUME NEW r \in s.requires, r.secret PROVE \E p \in r.policies : p.secret /\ p.backend
    <3>1. PICK c \in ToSet(m.components) : \E g \in ToSet(Secrets(c)) :
            r.policies = {p \in m.policies : p.name = g.policy}
      BY <1>1, <2>2, RequirementsFacts
    <3>2. PICK g \in ToSet(Secrets(c)) : r.policies = {p \in m.policies : p.name = g.policy}
      BY <3>1
    <3>3. \E p \in m.policies : p.name = g.policy /\ p.secret /\ p.backend
      BY DEF Valid, PoliciesAreValid
    <3> QED
      BY <3>2, <3>3
  <2> QED
    BY <2>1, <2>2
<1> QED
  BY <1>2 DEF Converts

LEMMA AllLinksFacts ==
  ASSUME NEW m, IsParsed(m)
  PROVE  /\ IsList(AllLinks(m))
         /\ \A t : t \in ToSet(AllLinks(m)) <=>
              \E c \in ToSet(m.components) : t \in ToSet(Links(c))
<1> DEFINE cs == m.components
           ss == [i \in DOMAIN cs |-> Links(cs[i])]
<1>1. AllLinks(m) = FlattenSeq(ss)
  BY DEF AllLinks, EachOf
<1>2. IsList(cs) /\ \A c \in ToSet(cs) : Whole(c)
  BY DEF IsParsed, Whole
<1>3. ASSUME NEW i \in DOMAIN cs PROVE IsList(ss[i])
  <2>1. PICK c \in ToSet(cs) : c = cs[i]
    BY DEF ToSet
  <2> QED
    BY <1>2, <2>1, LinksFacts
<1>4. ss = [i \in DOMAIN cs |-> ss[i]] /\ \A i \in DOMAIN cs : ss[i] = Links(cs[i])
  OBVIOUS
<1> HIDE DEF ss, cs
<1>5. /\ IsList(FlattenSeq(ss))
      /\ \A x : x \in ToSet(FlattenSeq(ss)) <=> \E i \in DOMAIN cs : x \in ToSet(ss[i])
  BY <1>2, <1>3, <1>4, EachFacts
<1>6. ASSUME NEW t
      PROVE  t \in ToSet(FlattenSeq(ss)) <=> \E c \in ToSet(cs) : t \in ToSet(Links(c))
  <2>1. (\E i \in DOMAIN cs : t \in ToSet(Links(cs[i]))) <=> \E c \in ToSet(cs) : t \in ToSet(Links(c))
    BY DEF ToSet
  <2> QED
    BY <1>4, <1>5, <2>1
<1> QED
  BY <1>1, <1>5, <1>6 DEF cs

LEMMA OwnFacts ==
  ASSUME NEW gs, IsList(gs)
  PROVE  /\ IsList(Own(gs))
         /\ \A g : g \in ToSet(Own(gs)) <=> g \in ToSet(gs) /\ g.value # None
<1> DEFINE T == {g \in ToSet(gs) : g.value # None}
<1>1. Own(gs) = Among(gs, T) /\ \A g : g \in T <=> g \in ToSet(gs) /\ g.value # None
  BY DEF Own
<1> HIDE DEF T
<1> QED
  BY <1>1, AmongFacts

(* Of what the links of a valid manifest bring along, one name is of one   *)
(* config.                                                                 *)
LEMMA LinkConfigsNamed ==
  ASSUME NEW m, IsParsed(m), LinkConfigsAreUnique(m),
         NEW t \in ToSet(AllLinks(m)), NEW u \in ToSet(AllLinks(m)),
         NEW g \in ToSet(t.source.config) \cup ToSet(t.to.config), g.value # None,
         NEW k \in ToSet(u.source.config) \cup ToSet(u.to.config), k.value # None,
         g.name = k.name
  PROVE  g = k
<1> DEFINE ls == AllLinks(m)
           ss == [i \in DOMAIN ls |-> Own(ls[i].to.config) \o Own(ls[i].source.config)]
           gs == FlattenSeq(ss)
           names == [i \in DOMAIN gs |-> gs[i].name]
<1>1. NoRepeats(names)
  BY DEF LinkConfigsAreUnique, EachOf
<1>2. /\ IsList(ls)
      /\ \A x \in ToSet(ls) : IsList(x.source.config) /\ IsList(x.to.config)
  <2>1. \A c \in ToSet(m.components) : Whole(c)
    BY DEF IsParsed, Whole
  <2> QED
    BY <2>1, AllLinksFacts, LinksFacts
<1>3. ASSUME NEW i \in DOMAIN ls
      PROVE  /\ IsList(ss[i])
             /\ \A x : x \in ToSet(ss[i]) <=>
                  /\ x \in ToSet(ls[i].source.config) \cup ToSet(ls[i].to.config)
                  /\ x.value # None
  <2>1. IsList(ls[i].source.config) /\ IsList(ls[i].to.config)
    BY <1>2 DEF ToSet
  <2> DEFINE to == Own(ls[i].to.config)
             from == Own(ls[i].source.config)
  <2>2. /\ IsList(to) /\ IsList(from)
        /\ \A x : x \in ToSet(to) <=> x \in ToSet(ls[i].to.config) /\ x.value # None
        /\ \A x : x \in ToSet(from) <=> x \in ToSet(ls[i].source.config) /\ x.value # None
    BY <2>1, OwnFacts
  <2>3. ss[i] = to \o from
    OBVIOUS
  <2> HIDE DEF to, from, ss, ls
  <2>4. IsList(ss[i]) /\ ToSet(ss[i]) = ToSet(to) \cup ToSet(from)
    BY <2>2, <2>3, ListsConcat
  <2> QED
    BY <2>2, <2>4
<1>4. ss = [i \in DOMAIN ls |-> ss[i]]
  OBVIOUS
<1>5. t \in ToSet(ls) /\ u \in ToSet(ls)
  OBVIOUS
<1> HIDE DEF ss, ls
<1>6. /\ IsList(gs)
      /\ \A x : x \in ToSet(gs) <=> \E i \in DOMAIN ls : x \in ToSet(ss[i])
  BY <1>2, <1>3, <1>4, EachFacts
<1>7. PICK i, j \in DOMAIN ls : t = ls[i] /\ u = ls[j]
  BY <1>5 DEF ToSet
<1>8. g \in ToSet(gs) /\ k \in ToSet(gs)
  BY <1>3, <1>6, <1>7
<1> HIDE DEF gs
<1>9. PICK a, b \in DOMAIN gs : g = gs[a] /\ k = gs[b]
  BY <1>8 DEF ToSet
<1>10. IsList(names) /\ DOMAIN names = DOMAIN gs
  <2>1. DOMAIN gs = 1 .. Len(gs) /\ Len(gs) \in Nat
    BY <1>6, ListFinite
  <2>2. names = [x \in 1 .. Len(gs) |-> names[x]]
    BY <2>1
  <2> HIDE DEF names
  <2> QED
    BY <2>1, <2>2, ListOf
<1>11. names[a] = names[b]
  BY <1>9
<1> HIDE DEF names
<1>12. a = b
  BY <1>1, <1>9, <1>10, <1>11, NoRepeatsMeans
<1> QED
  BY <1>9, <1>12

(* The links of what validation accepts do not fight over a config.        *)
THEOREM ValidAgrees ==
  ASSUME NEW m, IsParsed(m), Valid(m), IdsApart(m)
  PROVE  LinkConfigsAgree(m)
<1> DEFINE required == UNION {s.requires : s \in {x \in ToSet(ScalersOf(m)) : x.id.kind = "link"}}
<1>1. \A c \in ToSet(m.components) : Resolves(c)
  BY DEF Valid, PropertiesAreValid, Resolves
<1>2. ASSUME NEW r \in required, ~r.secret, r.value # None
      PROVE  \E t \in ToSet(AllLinks(m)) : \E g \in ToSet(t.source.config) \cup ToSet(t.to.config) :
               /\ g.value # None
               /\ r = [name |-> IdOf(m.name, g.name), value |-> g.value,
                       secret |-> FALSE, policies |-> {}]
  <2>1. PICK s \in ToSet(ScalersOf(m)) : s.id.kind = "link" /\ r \in s.requires
    OBVIOUS
  <2>2. PICK c \in ToSet(m.components) : \E t \in ToSet(Links(c)) :
          \E g \in ToSet(t.source.config) \cup ToSet(t.to.config) :
            r = [name |-> ConfigName(m.name, g), value |-> g.value,
                 secret |-> FALSE, policies |-> {}]
    BY <1>1, <1>2, <2>1, RequirementsFacts
  <2>3. PICK t \in ToSet(Links(c)) : \E g \in ToSet(t.source.config) \cup ToSet(t.to.config) :
          r = [name |-> ConfigName(m.name, g), value |-> g.value,
               secret |-> FALSE, policies |-> {}]
    BY <2>2
  <2>4. PICK g \in ToSet(t.source.config) \cup ToSet(t.to.config) :
          r = [name |-> ConfigName(m.name, g), value |-> g.value,
               secret |-> FALSE, policies |-> {}]
    BY <2>3
  <2>5. g.value # None
    BY <1>2, <2>4
  <2>6. t \in ToSet(AllLinks(m))
    BY AllLinksFacts
  <2>7. ConfigName(m.name, g) = IdOf(m.name, g.name)
    BY <2>5 DEF ConfigName
  <2> QED
    BY <2>4, <2>5, <2>6, <2>7
<1>3. ASSUME NEW r1 \in required, ~r1.secret, r1.value # None,
             NEW r2 \in required, ~r2.secret, r2.value # None, r1.name = r2.name
      PROVE  r1 = r2
  <2> HIDE DEF required
  <2>1. PICK t \in ToSet(AllLinks(m)) :
          \E g \in ToSet(t.source.config) \cup ToSet(t.to.config) :
            /\ g.value # None
            /\ r1 = [name |-> IdOf(m.name, g.name), value |-> g.value,
                     secret |-> FALSE, policies |-> {}]
    BY <1>2, <1>3
  <2>2. PICK g \in ToSet(t.source.config) \cup ToSet(t.to.config) :
          /\ g.value # None
          /\ r1 = [name |-> IdOf(m.name, g.name), value |-> g.value,
                   secret |-> FALSE, policies |-> {}]
    BY <2>1
  <2>3. PICK u \in ToSet(AllLinks(m)) :
          \E k \in ToSet(u.source.config) \cup ToSet(u.to.config) :
            /\ k.value # None
            /\ r2 = [name |-> IdOf(m.name, k.name), value |-> k.value,
                     secret |-> FALSE, policies |-> {}]
    BY <1>2, <1>3
  <2>4. PICK k \in ToSet(u.source.config) \cup ToSet(u.to.config) :
          /\ k.value # None
          /\ r2 = [name |-> IdOf(m.name, k.name), value |-> k.value,
                   secret |-> FALSE, policies |-> {}]
    BY <2>3
  <2>5. IdOf(m.name, g.name) = IdOf(m.name, k.name)
    BY <1>3, <2>2, <2>4
  <2>6. g.name = k.name
    BY <2>2, <2>4, <2>5, AllLinksFacts DEF IdsApart, ConfigName
  <2>7. LinkConfigsAreUnique(m)
    BY DEF Valid
  <2>8. g = k
    BY <2>2, <2>4, <2>6, <2>7, LinkConfigsNamed
  <2> QED
    BY <2>2, <2>4, <2>8
<1> QED
  BY <1>3 DEF LinkConfigsAgree
-----------------------------------------------------------------------------
(* What is on its way: the commands are about scalers of manifests that    *)
(* are deployed, and those about configs are about configs that such a     *)
(* manifest brings along.                                                  *)

AllScalers == UNION {Scalers[m] : m \in Deployable}
Owned == {r \in Required : r.value # None}
Keys == {LinkOf(s) : s \in {x \in AllScalers : IsLinkScaler(x)}}
Works == {s.id.component : s \in {x \in AllScalers : ~IsLinkScaler(x)}}

CmdRec ==
  [type : {"put config"}, what : {<<r.name, r.value>> : r \in Owned}, tries : 1 .. MaxDeliver]
    \cup [type : {"delete config"}, what : {r.name : r \in Owned}, tries : 1 .. MaxDeliver]
    \cup [type : {"put link", "delete link"}, what : Keys, tries : 1 .. MaxDeliver]
    \cup [type : {"scale"}, what : Works, tries : 1 .. MaxDeliver]

EventRec ==
  [type : {"config set", "config deleted"}, what : ConfigNames]
    \cup [type : {"link deleted"}, what : Keys]
    \cup [type : {"workload"}, what : Works \cup Providers]
    \cup [type : {"heartbeat"}, what : {None}]

Values == {None} \cup {r.value : r \in Required} \cup {Elsewhere[n] : n \in DOMAIN Elsewhere}

WrapRec(s) == [busy : BOOLEAN, seen : [s.requires -> Statuses]]

(* Wrappers are those of the scalers of the stored manifest, if it is      *)
(* deployed.                                                               *)
Wrapping ==
  /\ DOMAIN wraps # {} => manifest \in Deployable /\ DOMAIN wraps = Scalers[manifest]
  /\ \A s \in DOMAIN wraps : wraps[s] \in WrapRec(s)

Stored == manifest \in Candidates /\ (changes = 0 => Valid(manifest))

Lattice ==
  /\ configs \in [ConfigNames -> Values]
  /\ links \subseteq Keys /\ \A k, l \in links : SameKey(k, l) => k = l

Sending == sent \in Seq((SUBSET CmdRec) \ {{}})

Telling == told \in Seq(EventRec) /\ aux_missed \subseteq ConfigNames

Counted == scales \in 0 .. MaxScales /\ changes \in 0 .. MaxChanges /\ faults \in 0 .. MaxFaults

TInv == Wrapping /\ Stored /\ Lattice /\ Sending /\ Telling /\ Counted

(* The scalers of a manifest that is deployed are finitely many, as are    *)
(* the configs that each requires, and none is a placeholder.              *)
LEMMA DeployedFacts ==
  ASSUME NEW m \in Deployable
  PROVE  /\ IsFiniteSet(Scalers[m])
         /\ \A s \in Scalers[m] : /\ s \in AllScalers /\ s.id.kind # "status"
                                  /\ IsFiniteSet(s.requires) /\ s.requires \subseteq Required
<1>1. m \in Candidates /\ Valid(m) /\ IsParsed(m)
  BY DeployableAssumption, CandidatesAssumption
<1>2. \A c \in ToSet(m.components) : Resolves(c)
  BY <1>1 DEF Valid, PropertiesAreValid, Resolves
<1>3. IsFiniteSet(ToSet(ScalersOf(m)))
  BY <1>1, ScalersFacts, ListFinite
<1>4. Scalers[m] \subseteq ToSet(ScalersOf(m))
  BY DEF Scalers
<1>5. IsFiniteSet(Scalers[m])
  BY <1>3, <1>4, FS_Subset
<1>6. ASSUME NEW s \in Scalers[m]
      PROVE  /\ s \in AllScalers /\ s.id.kind # "status"
             /\ IsFiniteSet(s.requires) /\ s.requires \subseteq Required
  <2>1. s.id.kind \in {"link", "spreadscaler", "daemonscaler"} /\ IsFiniteSet(s.requires)
    BY <1>1, <1>2, <1>4, RequirementsFacts
  <2>2. s \in AllScalers
    BY DEF AllScalers
  <2>3. s.requires \subseteq Required
    BY DEF Required
  <2> QED
    BY <2>1, <2>2, <2>3
<1> QED
  BY <1>5, <1>6

LEMMA ScalerFacts ==
  ASSUME NEW s \in AllScalers
  PROVE  /\ s.id.kind # "status" /\ IsFiniteSet(s.requires)
         /\ \A r \in s.requires : r \in Required /\ r.name \in ConfigNames
<1>1. PICK m \in Deployable : s \in Scalers[m]
  BY DEF AllScalers
<1>2. /\ s.id.kind # "status" /\ IsFiniteSet(s.requires)
      /\ s.requires \subseteq Required
  BY <1>1, DeployedFacts
<1> QED
  BY <1>2 DEF ConfigNames

LEMMA CommandsTyped ==
  ASSUME NEW s \in AllScalers
  PROVE  /\ IsLinkScaler(s) => PutLink(s) \in CmdRec /\ DeleteLink(s) \in CmdRec
         /\ ~IsLinkScaler(s) => Scale(s) \in CmdRec
         /\ \A r \in OwnOf(s) : PutConfig(r) \in CmdRec /\ DeleteConfig(r) \in CmdRec
<1>1. 1 \in 1 .. MaxDeliver
  BY BoundsAssumption
<1>2. /\ IsLinkScaler(s) => LinkOf(s) \in Keys
      /\ ~IsLinkScaler(s) => s.id.component \in Works
  BY DEF Keys, Works
<1>3. /\ IsLinkScaler(s) => PutLink(s) \in CmdRec /\ DeleteLink(s) \in CmdRec
      /\ ~IsLinkScaler(s) => Scale(s) \in CmdRec
  BY <1>1, <1>2 DEF PutLink, DeleteLink, Scale, Command, CmdRec
<1>4. ASSUME NEW r \in OwnOf(s) PROVE PutConfig(r) \in CmdRec /\ DeleteConfig(r) \in CmdRec
  <2>1. r \in Owned
    BY ScalerFacts DEF OwnOf, Owned
  <2>2. /\ <<r.name, r.value>> \in {<<q.name, q.value>> : q \in Owned}
        /\ r.name \in {q.name : q \in Owned}
    BY <2>1
  <2> QED
    BY <1>1, <2>2 DEF PutConfig, DeleteConfig, Command, CmdRec
<1> QED
  BY <1>3, <1>4

LEMMA FetchedFacts ==
  ASSUME NEW r, NEW available \in BOOLEAN
  PROVE  /\ Fetched(r, available) \in Statuses
         /\ Fetched(r, available) = "reconciling" => r.value # None
BY DEF Fetched, Statuses

(* What a wrapper gives: finitely many commands, all well-formed.          *)
LEMMA WrappedFacts ==
  ASSUME NEW s \in AllScalers, NEW w \in WrapRec(s), NEW R \in SUBSET s.requires,
         NEW available \in BOOLEAN, NEW woken, NEW ls, NEW scaled
  PROVE  LET W == Wrapped(s, w, R, available, woken, ls, scaled)
         IN  /\ W.commands \in SUBSET CmdRec /\ IsFiniteSet(W.commands)
             /\ W.wrap \in WrapRec(s)
<1> DEFINE due == {r \in R : Fetched(r, available) = "reconciling"}
           puts == {PutConfig(r) : r \in due}
           inner == IF puts = {} THEN Inner(s, woken, ls, scaled) ELSE {}
           busy == w.busy \/ (inner # {} /\ ~IsLinkScaler(s))
           seen == [r \in s.requires |-> IF r \in R THEN Fetched(r, available) ELSE w.seen[r]]
<1>1. Wrapped(s, w, R, available, woken, ls, scaled) =
        [commands |-> puts \cup inner, wrap |-> [busy |-> busy, seen |-> seen]]
  BY DEF Wrapped
<1>2. \A r \in due : r \in OwnOf(s)
  BY FetchedFacts DEF OwnOf
<1>3. puts \in SUBSET CmdRec
  BY <1>2, CommandsTyped
<1>4. IsFiniteSet(puts)
  <2>1. IsFiniteSet(s.requires)
    BY ScalerFacts
  <2>2. IsFiniteSet(due)
    BY <2>1, FS_Subset
  <2> DEFINE f == [r \in due |-> PutConfig(r)]
  <2>3. IsFiniteSet({f[r] : r \in due})
    BY <2>2, ImageFinite
  <2>4. {f[r] : r \in due} = puts
    OBVIOUS
  <2> QED
    BY <2>3, <2>4
<1>5. inner \in SUBSET CmdRec /\ IsFiniteSet(inner)
  <2>1. CASE IsLinkScaler(s)
    <3>1. inner \in {{}, {PutLink(s)}}
      BY <2>1 DEF Inner
    <3>2. PutLink(s) \in CmdRec
      BY <2>1, CommandsTyped
    <3>3. IsFiniteSet({PutLink(s)})
      BY FS_Singleton
    <3>4. IsFiniteSet({})
      BY FS_EmptySet
    <3> HIDE DEF inner
    <3> QED
      BY <3>1, <3>2, <3>3, <3>4
  <2>2. CASE ~IsLinkScaler(s)
    <3>1. inner \in {{}, {Scale(s)}}
      BY <2>2 DEF Inner
    <3>2. Scale(s) \in CmdRec
      BY <2>2, CommandsTyped
    <3>3. IsFiniteSet({Scale(s)})
      BY FS_Singleton
    <3>4. IsFiniteSet({})
      BY FS_EmptySet
    <3> HIDE DEF inner
    <3> QED
      BY <3>1, <3>2, <3>3, <3>4
  <2> QED
    BY <2>1, <2>2
<1>6. busy \in BOOLEAN
  BY DEF WrapRec
<1>7. seen \in [s.requires -> Statuses]
  <2>1. w.seen \in [s.requires -> Statuses]
    BY DEF WrapRec
  <2> QED
    BY <2>1, FetchedFacts
<1>8. IsFiniteSet(puts \cup inner)
  BY <1>4, <1>5, FS_Union
<1> HIDE DEF puts, inner, busy, seen
<1>9. [busy |-> busy, seen |-> seen] \in WrapRec(s)
  BY <1>6, <1>7 DEF WrapRec
<1> QED
  BY <1>1, <1>3, <1>5, <1>8, <1>9

LEMMA CleanupTyped ==
  ASSUME NEW s \in AllScalers
  PROVE  Cleanup(s) \in SUBSET CmdRec
BY CommandsTyped DEF Cleanup

LEMMA PublishTyped ==
  ASSUME NEW cmds \in SUBSET CmdRec
  PROVE  Publish(cmds) \in Seq((SUBSET CmdRec) \ {{}})
<1> DEFINE B == (SUBSET CmdRec) \ {{}}
<1>1. cmds # {} => cmds \in B
  OBVIOUS
<1> HIDE DEF B
<1>2. Publish(cmds) \in Seq(B)
  BY <1>1 DEF Publish
<1> QED
  BY <1>2 DEF B

LEMMA ScaledCounts ==
  ASSUME Counted, NEW cmds, IsFiniteSet(cmds), Scaled(cmds)
  PROVE  scales' \in 0 .. MaxScales
<1> DEFINE T == {c \in cmds : c.type = "scale"}
<1>1. IsFiniteSet(T)
  BY FS_Subset
<1>2. Cardinality(T) \in Nat
  BY <1>1, FS_CardinalityType
<1>3. scales' = scales + Cardinality(T) /\ scales' <= MaxScales /\ scales \in 0 .. MaxScales
  BY DEF Scaled, Counted
<1> QED
  BY <1>2, <1>3, BoundsAssumption

(* The commands that a finite set of scalers gives.                        *)
LEMMA AllCommands ==
  ASSUME NEW S, IsFiniteSet(S), NEW f, f = [s \in S |-> f[s]],
         \A s \in S : f[s].commands \in SUBSET CmdRec /\ IsFiniteSet(f[s].commands)
  PROVE  LET cmds == UNION {f[s].commands : s \in S}
         IN  cmds \in SUBSET CmdRec /\ IsFiniteSet(cmds)
<1> DEFINE g == [s \in S |-> f[s].commands]
           all == {g[s] : s \in S}
<1>1. IsFiniteSet(all)
  <2>1. DOMAIN g = S
    OBVIOUS
  <2> HIDE DEF g
  <2> QED
    BY <2>1, ImageFinite
<1>2. IsFiniteSet(UNION all)
  <2>1. \A T \in all : IsFiniteSet(T)
    OBVIOUS
  <2> HIDE DEF all
  <2> QED
    BY <1>1, <2>1, FS_UNION
<1>3. all = {f[s].commands : s \in S}
  OBVIOUS
<1>4. UNION {f[s].commands : s \in S} \in SUBSET CmdRec
  OBVIOUS
<1> QED
  BY <1>2, <1>3, <1>4

LEMMA SendingMore ==
  ASSUME Sending, NEW more \in Seq((SUBSET CmdRec) \ {{}})
  PROVE  sent \o more \in Seq((SUBSET CmdRec) \ {{}})
<1> DEFINE B == (SUBSET CmdRec) \ {{}}
<1>1. sent \in Seq(B) /\ more \in Seq(B)
  BY DEF Sending
<1> HIDE DEF B
<1>2. sent \o more \in Seq(B)
  BY <1>1
<1> QED
  BY <1>2 DEF B
-----------------------------------------------------------------------------
(* Nothing but a deployment touches the manifest and the wrappers' scalers.*)

LEMMA InitTInv == Init => TInv
<1> SUFFICES ASSUME Init PROVE TInv
  OBVIOUS
<1>1. DOMAIN wraps = {}
  BY DEF Init
<1>2. Wrapping
  BY <1>1 DEF Wrapping
<1>3. Stored
  BY DEF Init, Stored, Accepted
<1>4. Lattice
  BY DEF Init, Lattice, Values
<1>5. Sending /\ Telling
  BY DEF Init, Sending, Telling
<1>6. Counted
  BY BoundsAssumption DEF Init, Counted
<1> QED
  BY <1>2, <1>3, <1>4, <1>5, <1>6 DEF TInv

LEMMA NewWrapTyped ==
  ASSUME NEW s
  PROVE  NewWrap(s) \in WrapRec(s)
BY DEF NewWrap, WrapRec, Statuses

(* The scalers whose wrappers there are.                                   *)
LEMMA WrappingFacts ==
  ASSUME Wrapping
  PROVE  /\ IsFiniteSet(DOMAIN wraps) /\ \A s \in DOMAIN wraps : s \in AllScalers
         /\ \A s \in DOMAIN wraps : wraps[s] \in WrapRec(s)
<1>1. CASE DOMAIN wraps = {}
  <2>1. IsFiniteSet(DOMAIN wraps)
    BY <1>1, FS_EmptySet
  <2> QED
    BY <1>1, <2>1
<1>2. CASE DOMAIN wraps # {}
  <2>1. manifest \in Deployable /\ DOMAIN wraps = Scalers[manifest]
    BY <1>2 DEF Wrapping
  <2> QED
    BY <2>1, DeployedFacts DEF Wrapping
<1> QED
  BY <1>1, <1>2

LEMMA DeployTInv ==
  ASSUME TInv, NEW m \in Deployable, NEW available \in BOOLEAN, NEW scaled,
         Deploy(m, available, scaled), faults' \in 0 .. MaxFaults
  PROVE  TInv'
<1> DEFINE new == Scalers[m]
           outdated == {s \in DOMAIN wraps : \A n \in new : n.id # s.id}
           outcome == [s \in new |-> Reconcile(s, available, known', scaled)]
           commands == UNION {outcome[s].commands : s \in new}
           cleaned == UNION {Cleanup(s) : s \in outdated}
<1>1. /\ changes < MaxChanges /\ changes' = changes + 1
      /\ manifest' = m
      /\ wraps' = [s \in new |-> outcome[s].wrap]
      /\ sent' = sent \o Publish(commands) \o Publish(cleaned)
      /\ Scaled(commands)
      /\ aux_missed' = {}
      /\ UNCHANGED <<configs, links, told>>
  BY DEF Deploy, lattice
<1>2. IsFiniteSet(new) /\ \A s \in new : s \in AllScalers
  BY DeployedFacts
<1>3. ASSUME NEW s \in new
      PROVE  /\ outcome[s].commands \in SUBSET CmdRec /\ IsFiniteSet(outcome[s].commands)
             /\ outcome[s].wrap \in WrapRec(s)
  <2>1. outcome[s] = Wrapped(s, NewWrap(s), s.requires, available, TRUE, known', scaled)
    BY DEF Reconcile
  <2>2. s \in AllScalers /\ s.requires \in SUBSET s.requires
    BY <1>2
  <2> HIDE DEF outcome
  <2> QED
    BY <2>1, <2>2, NewWrapTyped, WrappedFacts
<1>4. outcome = [s \in new |-> outcome[s]]
  OBVIOUS
<1> HIDE DEF outcome, new
<1>5. commands \in SUBSET CmdRec /\ IsFiniteSet(commands)
  BY <1>2, <1>3, <1>4, AllCommands
<1>6. cleaned \in SUBSET CmdRec
  <2>1. \A s \in outdated : s \in AllScalers
    BY WrappingFacts DEF TInv
  <2> QED
    BY <2>1, CleanupTyped
<1> HIDE DEF commands, cleaned
<1>7. Wrapping'
  <2>1. DOMAIN wraps' = new
    BY <1>1
  <2>2. \A s \in new : wraps'[s] \in WrapRec(s)
    BY <1>1, <1>3
  <2> QED
    BY <1>1, <2>1, <2>2 DEF Wrapping, new
<1>8. Stored'
  <2>1. m \in Candidates
    BY DeployableAssumption
  <2>2. changes' # 0
    BY <1>1 DEF TInv, Counted
  <2> QED
    BY <1>1, <2>1, <2>2 DEF Stored
<1>9. Lattice'
  BY <1>1 DEF TInv, Lattice
<1>10. Sending'
  <2> DEFINE B == (SUBSET CmdRec) \ {{}}
  <2>1. Publish(commands) \in Seq(B) /\ Publish(cleaned) \in Seq(B)
    BY <1>5, <1>6, PublishTyped
  <2>2. sent \in Seq(B)
    BY DEF TInv, Sending
  <2> HIDE DEF B
  <2>3. sent \o Publish(commands) \o Publish(cleaned) \in Seq(B)
    BY <2>1, <2>2
  <2> QED
    BY <1>1, <2>3 DEF Sending, B
<1>11. Telling'
  BY <1>1 DEF TInv, Telling
<1>12. Counted'
  <2>1. scales' \in 0 .. MaxScales
    BY <1>1, <1>5, ScaledCounts DEF TInv
  <2>2. changes' \in 0 .. MaxChanges
    BY <1>1, BoundsAssumption DEF TInv, Counted
  <2> QED
    BY <2>1, <2>2 DEF Counted
<1> QED
  BY <1>7, <1>8, <1>9, <1>10, <1>11, <1>12 DEF TInv

LEMMA UndeployTInv ==
  ASSUME TInv, Undeploy
  PROVE  TInv'
<1> DEFINE cleaned == UNION {Cleanup(s) : s \in DOMAIN wraps}
<1>1. /\ changes < MaxChanges /\ changes' = changes + 1
      /\ wraps' = <<>>
      /\ sent' = sent \o Publish(cleaned)
      /\ UNCHANGED <<manifest, configs, links, told, scales, faults, aux_missed>>
  BY DEF Undeploy, lattice
<1>2. cleaned \in SUBSET CmdRec
  BY WrappingFacts, CleanupTyped DEF TInv
<1> HIDE DEF cleaned
<1>3. Wrapping'
  <2>1. DOMAIN wraps' = {}
    BY <1>1
  <2> QED
    BY <2>1 DEF Wrapping
<1>4. Stored'
  <2>1. changes' # 0
    BY <1>1 DEF TInv, Counted
  <2> QED
    BY <1>1, <2>1 DEF TInv, Stored
<1>5. Sending'
  BY <1>1, <1>2, PublishTyped, SendingMore DEF TInv, Sending
<1>6. Lattice' /\ Telling'
  BY <1>1 DEF TInv, Lattice, Telling
<1>7. Counted'
  BY <1>1, BoundsAssumption DEF TInv, Counted
<1> QED
  BY <1>3, <1>4, <1>5, <1>6, <1>7 DEF TInv

LEMMA HandleTInv ==
  ASSUME TInv, NEW available \in BOOLEAN, NEW scaled,
         Handle(available, scaled), faults' \in 0 .. MaxFaults
  PROVE  TInv'
<1> DEFINE e == Head(told)
           W == DOMAIN wraps
           outcome == [s \in W |-> HandleEvent(s, e, available, known', scaled)]
           commands == UNION {outcome[s].commands : s \in W}
<1>1. /\ told # <<>>
      /\ told' = Tail(told)
      /\ wraps' = [s \in W |-> outcome[s].wrap]
      /\ sent' = sent \o Publish(commands)
      /\ Scaled(commands)
      /\ aux_missed' = aux_missed \cup Ignored(e)
      /\ UNCHANGED <<manifest, configs, links, changes>>
  BY DEF Handle, lattice
<1>2. /\ IsFiniteSet(W) /\ \A s \in W : s \in AllScalers
      /\ \A s \in W : wraps[s] \in WrapRec(s)
  BY WrappingFacts DEF TInv
<1>3. e \in EventRec /\ told' \in Seq(EventRec)
  BY <1>1 DEF TInv, Telling
<1>4. ASSUME NEW s \in W
      PROVE  /\ outcome[s].commands \in SUBSET CmdRec /\ IsFiniteSet(outcome[s].commands)
             /\ outcome[s].wrap \in WrapRec(s)
  <2> DEFINE w == wraps[s]
             R == {r \in s.requires : Concerned(r, e, w.seen[r])}
             woken == IsLinkScaler(s) /\ Wakes(s, e)
  <2>1. outcome[s] = IF w.busy THEN Untouched(w)
                     ELSE Wrapped(s, w, R, available, woken, known', scaled)
    BY DEF HandleEvent
  <2>2. s \in AllScalers /\ w \in WrapRec(s) /\ R \in SUBSET s.requires
    BY <1>2
  <2> HIDE DEF outcome, e, w, R, woken
  <2>3. CASE w.busy
    <3>1. outcome[s] = [commands |-> {}, wrap |-> w]
      BY <2>1, <2>3 DEF Untouched
    <3>2. IsFiniteSet({})
      BY FS_EmptySet
    <3> QED
      BY <2>2, <3>1, <3>2
  <2>4. CASE ~w.busy
    <3>1. outcome[s] = Wrapped(s, w, R, available, woken, known', scaled)
      BY <2>1, <2>4
    <3> QED
      BY <2>2, <3>1, WrappedFacts
  <2> QED
    BY <2>3, <2>4
<1>5. outcome = [s \in W |-> outcome[s]]
  OBVIOUS
<1> HIDE DEF outcome
<1>6. commands \in SUBSET CmdRec /\ IsFiniteSet(commands)
  BY <1>2, <1>4, <1>5, AllCommands
<1> HIDE DEF commands
<1>7. Wrapping'
  <2>1. DOMAIN wraps' = W
    BY <1>1
  <2>2. \A s \in W : wraps'[s] \in WrapRec(s)
    BY <1>1, <1>4
  <2>3. DOMAIN wraps # {} => manifest \in Deployable /\ DOMAIN wraps = Scalers[manifest]
    BY DEF TInv, Wrapping
  <2> QED
    BY <1>1, <2>1, <2>2, <2>3 DEF Wrapping
<1>8. Stored'
  BY <1>1 DEF TInv, Stored
<1>9. Lattice'
  BY <1>1 DEF TInv, Lattice
<1>10. Sending'
  BY <1>1, <1>6, PublishTyped, SendingMore DEF TInv, Sending
<1>11. Telling'
  <2>1. Ignored(e) \subseteq ConfigNames
    BY <1>3 DEF Ignored, EventRec
  <2> QED
    BY <1>1, <1>3, <2>1 DEF TInv, Telling
<1>12. Counted'
  <2>1. scales' \in 0 .. MaxScales
    BY <1>1, <1>6, ScaledCounts DEF TInv
  <2> QED
    BY <1>1, <2>1 DEF TInv, Counted
<1> QED
  BY <1>7, <1>8, <1>9, <1>10, <1>11, <1>12 DEF TInv

LEMMA FreeTInv ==
  ASSUME TInv, NEW s \in DOMAIN wraps, Free(s)
  PROVE  TInv'
<1>1. /\ wraps' = [wraps EXCEPT ![s].busy = FALSE]
      /\ UNCHANGED <<manifest, configs, links, sent, told, scales, changes, faults, aux_missed>>
  BY DEF Free, lattice
<1>2. DOMAIN wraps' = DOMAIN wraps
  BY <1>1
<1>3. ASSUME NEW t \in DOMAIN wraps PROVE wraps'[t] \in WrapRec(t)
  <2>1. wraps[t] \in WrapRec(t)
    BY DEF TInv, Wrapping
  <2>2. wraps'[t] = IF t = s THEN [wraps[t] EXCEPT !.busy = FALSE] ELSE wraps[t]
    BY <1>1
  <2> QED
    BY <2>1, <2>2 DEF WrapRec
<1>4. Wrapping'
  BY <1>1, <1>2, <1>3 DEF TInv, Wrapping
<1> QED
  BY <1>1, <1>4 DEF TInv, Stored, Lattice, Sending, Telling, Counted
-----------------------------------------------------------------------------
(* A command that the lattice can be given, by wadm or by someone else.    *)
Meant(c) ==
  /\ c.type \in {"put config", "delete config", "put link", "delete link", "scale"}
  /\ c.type = "put config" => c.what[1] \in ConfigNames /\ c.what[2] \in Values
  /\ c.type = "delete config" => c.what \in ConfigNames
  /\ c.type \in {"put link", "delete link"} => c.what \in Keys
  /\ c.type = "scale" => c.what \in Works

LEMMA CommandsAreMeant ==
  ASSUME NEW c \in CmdRec
  PROVE  Meant(c)
<1> DEFINE Pairs == {<<r.name, r.value>> : r \in Owned}
           Names == {r.name : r \in Owned}
           Tries == 1 .. MaxDeliver
<1>1. \A p \in Pairs : p[1] \in ConfigNames /\ p[2] \in Values
  BY DEF Owned, ConfigNames, Values
<1>2. \A n \in Names : n \in ConfigNames
  BY DEF Owned, ConfigNames
<1>3. \/ c \in [type : {"put config"}, what : Pairs, tries : Tries]
      \/ c \in [type : {"delete config"}, what : Names, tries : Tries]
      \/ c \in [type : {"put link", "delete link"}, what : Keys, tries : Tries]
      \/ c \in [type : {"scale"}, what : Works, tries : Tries]
  BY DEF CmdRec
<1> HIDE DEF Pairs, Names, Tries
<1>4. CASE c \in [type : {"put config"}, what : Pairs, tries : Tries]
  BY <1>1, <1>4 DEF Meant
<1>5. CASE c \in [type : {"delete config"}, what : Names, tries : Tries]
  BY <1>2, <1>5 DEF Meant
<1>6. CASE c \in [type : {"put link", "delete link"}, what : Keys, tries : Tries]
  BY <1>6 DEF Meant
<1>7. CASE c \in [type : {"scale"}, what : Works, tries : Tries]
  BY <1>7 DEF Meant
<1> QED
  BY <1>3, <1>4, <1>5, <1>6, <1>7

LEMMA TellingMore ==
  ASSUME told \in Seq(EventRec), NEW e \in EventRec
  PROVE  Append(told, e) \in Seq(EventRec)
OBVIOUS

LEMMA CarryTyped ==
  ASSUME Lattice, told \in Seq(EventRec), NEW c, Meant(c), Carry(c)
  PROVE  Lattice' /\ told' \in Seq(EventRec)
<1> USE DEF Lattice
<1>1. CASE c.type = "put config"
  <2>1. /\ configs' = [configs EXCEPT ![c.what[1]] = c.what[2]]
        /\ told' = Append(told, Event("config set", c.what[1]))
        /\ UNCHANGED links
    BY <1>1 DEF Carry
  <2>2. c.what[1] \in ConfigNames /\ c.what[2] \in Values
    BY <1>1 DEF Meant
  <2>3. Event("config set", c.what[1]) \in EventRec
    BY <2>2 DEF Event, EventRec
  <2>4. told' \in Seq(EventRec)
    BY <2>1, <2>3, TellingMore
  <2>5. configs' \in [ConfigNames -> Values]
    BY <2>1, <2>2
  <2> QED
    BY <2>1, <2>4, <2>5
<1>2. CASE c.type = "delete config"
  <2>1. /\ configs' = [configs EXCEPT ![c.what] = None]
        /\ told' = Append(told, Event("config deleted", c.what))
        /\ UNCHANGED links
    BY <1>2 DEF Carry
  <2>2. c.what \in ConfigNames /\ None \in Values
    BY <1>2 DEF Meant, Values
  <2>3. Event("config deleted", c.what) \in EventRec
    BY <2>2 DEF Event, EventRec
  <2>4. told' \in Seq(EventRec)
    BY <2>1, <2>3, TellingMore
  <2>5. configs' \in [ConfigNames -> Values]
    BY <2>1, <2>2
  <2> QED
    BY <2>1, <2>4, <2>5
<1>3. CASE c.type = "put link"
  <2>1. /\ links' = {k \in links : ~SameKey(k, c.what)} \cup {c.what}
        /\ UNCHANGED <<configs, told>>
    BY <1>3 DEF Carry
  <2>2. c.what \in Keys
    BY <1>3 DEF Meant
  <2>3. \A k, l \in links' : SameKey(k, l) => k = l
    BY <2>1 DEF SameKey
  <2> QED
    BY <2>1, <2>2, <2>3
<1>4. CASE c.type = "delete link"
  <2>1. /\ links' = {k \in links : ~SameKey(k, c.what)}
        /\ told' = Append(told, Event("link deleted", c.what))
        /\ UNCHANGED configs
    BY <1>4 DEF Carry
  <2>2. Event("link deleted", c.what) \in EventRec
    BY <1>4 DEF Meant, Event, EventRec
  <2>3. told' \in Seq(EventRec)
    BY <2>1, <2>2, TellingMore
  <2>4. links' \subseteq Keys /\ \A k, l \in links' : SameKey(k, l) => k = l
    BY <2>1
  <2> QED
    BY <2>1, <2>3, <2>4
<1>5. CASE c.type = "scale"
  <2>1. told' = Append(told, Event("workload", c.what)) /\ UNCHANGED <<configs, links>>
    BY <1>5 DEF Carry
  <2>2. Event("workload", c.what) \in EventRec
    BY <1>5 DEF Meant, Event, EventRec
  <2> QED
    BY <2>1, <2>2
<1> QED
  BY <1>1, <1>2, <1>3, <1>4, <1>5 DEF Meant

LEMMA DeliverableTyped ==
  ASSUME Sending, NEW c \in Deliverable
  PROVE  c \in CmdRec /\ Without(c) \in Seq((SUBSET CmdRec) \ {{}})
<1> DEFINE B == (SUBSET CmdRec) \ {{}}
<1>1. sent # <<>> /\ c \in Head(sent)
  BY DEF Deliverable
<1>2. sent \in Seq(B)
  BY DEF Sending
<1>3. Head(sent) \in B
  <2> HIDE DEF B
  <2> QED
    BY <1>1, <1>2
<1>4. Head(sent) # {c} => Head(sent) \ {c} \in B
  BY <1>1, <1>3
<1>5. c \in CmdRec
  BY <1>1, <1>3
<1> HIDE DEF B
<1>6. Tail(sent) \in Seq(B)
  BY <1>1, <1>2
<1>7. Without(c) \in Seq(B)
  BY <1>4, <1>6 DEF Without
<1> QED
  BY <1>5, <1>7 DEF B

(* One more try of a command.                                              *)
LEMMA TriesAgainTyped ==
  ASSUME NEW c \in CmdRec
  PROVE  TriesAgain(c) \in Seq((SUBSET CmdRec) \ {{}})
<1> DEFINE B == (SUBSET CmdRec) \ {{}}
           again == [c EXCEPT !.tries = @ + 1]
           Pairs == {<<r.name, r.value>> : r \in Owned}
           Names == {r.name : r \in Owned}
<1>1. CmdRec = [type : {"put config"}, what : Pairs, tries : 1 .. MaxDeliver]
                 \cup [type : {"delete config"}, what : Names, tries : 1 .. MaxDeliver]
                 \cup [type : {"put link", "delete link"}, what : Keys, tries : 1 .. MaxDeliver]
                 \cup [type : {"scale"}, what : Works, tries : 1 .. MaxDeliver]
  BY DEF CmdRec
<1> HIDE DEF Pairs, Names
<1>2. ASSUME NEW T, NEW S, c \in [type : T, what : S, tries : 1 .. MaxDeliver],
             c.tries < MaxDeliver
      PROVE  again \in [type : T, what : S, tries : 1 .. MaxDeliver]
  <2>1. c.tries + 1 \in 1 .. MaxDeliver
    BY <1>2, BoundsAssumption
  <2> QED
    BY <1>2, <2>1
<1> HIDE DEF again
<1>3. c.tries < MaxDeliver => again \in CmdRec
  BY <1>1, <1>2
<1>4. c.tries < MaxDeliver => {again} \in B
  BY <1>3
<1> HIDE DEF B
<1>5. TriesAgain(c) = IF c.tries < MaxDeliver THEN <<{again}>> ELSE <<>>
  BY DEF TriesAgain, again
<1>6. TriesAgain(c) \in Seq(B)
  BY <1>4, <1>5
<1> QED
  BY <1>6 DEF B

LEMMA ExecuteTInv ==
  ASSUME TInv, NEW c \in Deliverable, Execute(c) \/ ExecuteTwice(c)
  PROVE  TInv'
<1>1. /\ Carry(c)
      /\ sent' = Without(c) \/ sent' = sent
      /\ faults' = faults \/ (faults < MaxFaults /\ faults' = faults + 1)
      /\ UNCHANGED <<manifest, wraps, scales, changes, aux_missed>>
  BY DEF Execute, ExecuteTwice, Fault
<1>2. c \in CmdRec /\ Without(c) \in Seq((SUBSET CmdRec) \ {{}})
  BY DeliverableTyped DEF TInv
<1>3. Lattice' /\ told' \in Seq(EventRec)
  BY <1>1, <1>2, CommandsAreMeant, CarryTyped DEF TInv, Telling
<1>4. Telling'
  BY <1>1, <1>3 DEF TInv, Telling
<1>5. Sending'
  BY <1>1, <1>2 DEF TInv, Sending
<1>6. Counted'
  BY <1>1, BoundsAssumption DEF TInv, Counted
<1>7. Wrapping' /\ Stored'
  BY <1>1 DEF TInv, Wrapping, Stored
<1> QED
  BY <1>3, <1>4, <1>5, <1>6, <1>7 DEF TInv

LEMMA ExecuteFailsTInv ==
  ASSUME TInv, NEW c \in Deliverable, ExecuteFails(c)
  PROVE  TInv'
<1> DEFINE B == (SUBSET CmdRec) \ {{}}
<1>1. /\ faults < MaxFaults /\ faults' = faults + 1
      /\ sent' = Without(c) \o TriesAgain(c)
      /\ UNCHANGED <<manifest, wraps, configs, links, told, scales, changes, aux_missed>>
  BY DEF ExecuteFails, Fault, lattice
<1>2. Without(c) \in Seq(B) /\ TriesAgain(c) \in Seq(B)
  BY DeliverableTyped, TriesAgainTyped DEF TInv
<1> HIDE DEF B
<1>3. sent' \in Seq(B)
  BY <1>1, <1>2
<1>4. Sending'
  BY <1>3 DEF Sending, B
<1>5. Counted'
  BY <1>1, BoundsAssumption DEF TInv, Counted
<1>6. Wrapping' /\ Stored'
  BY <1>1 DEF TInv, Wrapping, Stored
<1>7. Lattice' /\ Telling'
  BY <1>1 DEF TInv, Lattice, Telling
<1> QED
  BY <1>4, <1>5, <1>6, <1>7 DEF TInv

LEMMA MeddleTInv ==
  ASSUME TInv, Meddle
  PROVE  TInv'
<1>1. /\ faults < MaxFaults /\ faults' = faults + 1
      /\ UNCHANGED <<manifest, wraps, sent, scales, changes, aux_missed>>
  BY DEF Meddle, Fault
<1>2. \E c : Meant(c) /\ Carry(c)
  <2>1. CASE \E n \in ConfigNames : Carry(Command("delete config", n))
    <3>1. PICK n \in ConfigNames : Carry(Command("delete config", n))
      BY <2>1
    <3>2. Meant(Command("delete config", n))
      BY DEF Meant, Command
    <3> QED
      BY <3>1, <3>2
  <2>2. CASE \E n \in DOMAIN Elsewhere : Carry(Command("put config", <<n, Elsewhere[n]>>))
    <3>1. PICK n \in DOMAIN Elsewhere : Carry(Command("put config", <<n, Elsewhere[n]>>))
      BY <2>2
    <3>2. n \in ConfigNames /\ Elsewhere[n] \in Values
      BY ElsewhereAssumption DEF Values
    <3>3. Meant(Command("put config", <<n, Elsewhere[n]>>))
      BY <3>2 DEF Meant, Command
    <3> QED
      BY <3>1, <3>3
  <2>3. CASE \E l \in links : Carry(Command("delete link", l))
    <3>1. PICK l \in links : Carry(Command("delete link", l))
      BY <2>3
    <3>2. l \in Keys
      BY DEF TInv, Lattice
    <3>3. Meant(Command("delete link", l))
      BY <3>2 DEF Meant, Command
    <3> QED
      BY <3>1, <3>3
  <2> QED
    BY <2>1, <2>2, <2>3 DEF Meddle
<1>3. Lattice' /\ told' \in Seq(EventRec)
  BY <1>2, CarryTyped DEF TInv, Telling
<1>4. Telling'
  BY <1>1, <1>3 DEF TInv, Telling
<1>5. Counted'
  BY <1>1, BoundsAssumption DEF TInv, Counted
<1>6. Wrapping' /\ Stored' /\ Sending'
  BY <1>1 DEF TInv, Wrapping, Stored, Sending
<1> QED
  BY <1>3, <1>4, <1>5, <1>6 DEF TInv

LEMMA LoseEventTInv ==
  ASSUME TInv, LoseEvent
  PROVE  TInv'
<1> DEFINE e == Head(told)
           missed == IF e.type \in {"config set", "config deleted"} THEN {e.what} ELSE {}
<1>1. /\ told # <<>> /\ told' = Tail(told)
      /\ faults < MaxFaults /\ faults' = faults + 1
      /\ aux_missed' = aux_missed \cup missed
      /\ UNCHANGED <<manifest, wraps, configs, links, sent, scales, changes>>
  BY DEF LoseEvent, Fault, lattice
<1>2. e \in EventRec /\ told' \in Seq(EventRec)
  <2>1. told # <<>> /\ told' = Tail(told) /\ told \in Seq(EventRec)
    BY <1>1 DEF TInv, Telling
  <2> HIDE DEF missed
  <2> QED
    BY <2>1
<1>3. missed \subseteq ConfigNames
  BY <1>2 DEF EventRec
<1> HIDE DEF missed
<1>4. Telling'
  BY <1>1, <1>2, <1>3 DEF TInv, Telling
<1>5. Counted'
  BY <1>1, BoundsAssumption DEF TInv, Counted
<1>6. Wrapping' /\ Stored' /\ Lattice' /\ Sending'
  BY <1>1 DEF TInv, Wrapping, Stored, Lattice, Sending
<1> QED
  BY <1>4, <1>5, <1>6 DEF TInv

LEMMA BeatTInv ==
  ASSUME TInv, NEW e \in Beats, Beat(e)
  PROVE  TInv'
<1>1. /\ told' = <<e>>
      /\ UNCHANGED <<manifest, wraps, configs, links, sent, scales, changes, faults, aux_missed>>
  BY DEF Beat, lattice
<1>2. e \in EventRec
  <2>1. CASE e = Event("heartbeat", None)
    BY <2>1 DEF Event, EventRec
  <2>2. ASSUME NEW p \in Providers, e = Event("workload", p) PROVE e \in EventRec
    BY <2>2 DEF Event, EventRec
  <2> QED
    BY <2>1, <2>2 DEF Beats
<1>3. Telling'
  BY <1>1, <1>2 DEF TInv, Telling
<1> QED
  BY <1>1, <1>3 DEF TInv, Wrapping, Stored, Lattice, Sending, Counted

LEMMA NextTInv == TInv /\ [Next]_vars => TInv'
<1> SUFFICES ASSUME TInv, [Next]_vars PROVE TInv'
  OBVIOUS
<1>1. CASE UNCHANGED vars
  BY <1>1 DEF vars, lattice, TInv, Wrapping, Stored, Lattice, Sending, Telling, Counted
<1>2. ASSUME NEW m \in Deployable, NEW scaled, DeployUp(m, scaled) \/ DeployDown(m, scaled)
      PROVE  TInv'
  <2>1. PICK available \in BOOLEAN : Deploy(m, available, scaled)
    BY <1>2 DEF DeployUp, DeployDown
  <2>2. faults' = faults \/ (faults < MaxFaults /\ faults' = faults + 1)
    BY <1>2, Zenon DEF DeployUp, DeployDown, Fault
  <2>3. faults' \in 0 .. MaxFaults
    BY <2>2, BoundsAssumption DEF TInv, Counted
  <2> QED
    BY <2>1, <2>3, DeployTInv
<1>3. ASSUME NEW scaled, HandleUp(scaled) \/ HandleDown(scaled)
      PROVE  TInv'
  <2>1. PICK available \in BOOLEAN : Handle(available, scaled)
    BY <1>3 DEF HandleUp, HandleDown
  <2>2. faults' = faults \/ (faults < MaxFaults /\ faults' = faults + 1)
    BY <1>3, Zenon DEF HandleUp, HandleDown, Fault
  <2>3. faults' \in 0 .. MaxFaults
    BY <2>2, BoundsAssumption DEF TInv, Counted
  <2> QED
    BY <2>1, <2>3, HandleTInv
<1>4. ASSUME NEW c \in Deliverable, Execute(c) \/ ExecuteTwice(c) \/ ExecuteFails(c)
      PROVE  TInv'
  BY <1>4, ExecuteTInv, ExecuteFailsTInv
<1> QED
  BY <1>1, <1>2, <1>3, <1>4, UndeployTInv, FreeTInv, MeddleTInv, LoseEventTInv, BeatTInv DEF Next

(* However manifests are replaced, commands fail or are repeated, events   *)
(* are lost and others meddle, wrappers, links and messages keep their     *)
(* relation to the stored manifest.                                        *)
THEOREM AlwaysTInv == Spec => []TInv
<1>1. Init => TInv
  BY InitTInv
<1>2. TInv /\ [Next]_vars => TInv'
  BY NextTInv
<1> QED
  BY <1>1, <1>2, PTL DEF Spec
-----------------------------------------------------------------------------
(* Everything has its type, whatever clients send.                         *)
THEOREM TypeCorrect == Spec => []TypeOK
<1>1. TInv => TypeOK
  <2> SUFFICES ASSUME TInv PROVE TypeOK
    OBVIOUS
  <2>1. ASSUME NEW s \in DOMAIN wraps
        PROVE  /\ s.id.kind # "status"
               /\ wraps[s].busy \in BOOLEAN
               /\ wraps[s].seen \in [s.requires -> Statuses]
    <3>1. s \in AllScalers /\ wraps[s] \in WrapRec(s)
      BY WrappingFacts DEF TInv
    <3> QED
      BY <3>1, ScalerFacts DEF WrapRec
  <2>2. ASSUME NEW i \in DOMAIN sent
        PROVE  sent[i] # {} /\ \A c \in sent[i] : c.tries \in 1 .. MaxDeliver
    <3>1. sent[i] \in (SUBSET CmdRec) \ {{}}
      <4> DEFINE B == (SUBSET CmdRec) \ {{}}
      <4>1. sent \in Seq(B)
        BY DEF TInv, Sending
      <4> HIDE DEF B
      <4>2. sent[i] \in B
        BY <4>1
      <4> QED
        BY <4>2 DEF B
    <3>2. \A c \in CmdRec : c.tries \in 1 .. MaxDeliver
      BY DEF CmdRec
    <3> QED
      BY <3>1, <3>2
  <2>3. manifest \in Candidates /\ (DOMAIN wraps # {} => manifest \in Deployable)
    BY DEF TInv, Stored, Wrapping
  <2>4. /\ configs \in [ConfigNames -> {None} \cup {r.value : r \in Required}
                                         \cup {Elsewhere[n] : n \in DOMAIN Elsewhere}]
        /\ \A k, l \in links : SameKey(k, l) => k = l
    BY DEF TInv, Lattice, Values
  <2>5. /\ scales \in 0 .. MaxScales /\ changes \in 0 .. MaxChanges /\ faults \in 0 .. MaxFaults
        /\ aux_missed \subseteq ConfigNames
    BY DEF TInv, Counted, Telling
  <2> QED
    BY <2>1, <2>2, <2>3, <2>4, <2>5 DEF TypeOK
<1> QED
  BY <1>1, AlwaysTInv, PTL

(* What clients send and validation accepts can be converted to scalers:   *)
(* convert.rs meets no component that does not resolve, and no secret      *)
(* whose policy it cannot unwrap.                                          *)
THEOREM AcceptedConverts == Spec => []StoredConverts
<1>1. TInv => StoredConverts
  BY CandidatesAssumption, ValidConverts DEF TInv, Stored, StoredConverts
<1> QED
  BY <1>1, AlwaysTInv, PTL

(* No two links of what clients send and validation accepts bring along a  *)
(* config of one name with different values.                               *)
THEOREM AcceptedAgrees == Spec => []StoredConfigsAgree
<1>1. TInv => StoredConfigsAgree
  BY CandidatesAssumption, ValidAgrees DEF TInv, Stored, StoredConfigsAgree
<1> QED
  BY <1>1, AlwaysTInv, PTL

(* Whatever is deployed, lost, repeated or meddled with, wadm commands     *)
(* nothing about a config that someone else manages.                       *)
THEOREM OthersConfigsAreKept == Spec => []ElsewhereIsKept
<1>1. TInv => ElsewhereIsKept
  <2> SUFFICES ASSUME TInv, NEW i \in DOMAIN sent, NEW c \in sent[i]
               PROVE  /\ c.type = "put config" => c.what[1] \notin DOMAIN Elsewhere
                      /\ c.type = "delete config" => c.what \notin DOMAIN Elsewhere
    BY DEF ElsewhereIsKept
  <2>1. c \in CmdRec
    <3> DEFINE B == (SUBSET CmdRec) \ {{}}
    <3>1. sent \in Seq(B)
      BY DEF TInv, Sending
    <3> HIDE DEF B
    <3>2. sent[i] \in B
      BY <3>1
    <3> QED
      BY <3>2 DEF B
  <2>2. \A r \in Owned : r.name \notin DOMAIN Elsewhere
    BY ElsewhereAssumption DEF Owned
  <2> DEFINE Pairs == {<<r.name, r.value>> : r \in Owned}
             Names == {r.name : r \in Owned}
  <2>3. (\A p \in Pairs : p[1] \notin DOMAIN Elsewhere) /\ \A n \in Names : n \notin DOMAIN Elsewhere
    BY <2>2
  <2>4. /\ c.type = "put config" => c.what \in Pairs
        /\ c.type = "delete config" => c.what \in Names
    BY <2>1 DEF CmdRec
  <2> HIDE DEF Pairs, Names
  <2> QED
    BY <2>3, <2>4
<1> QED
  BY <1>1, AlwaysTInv, PTL
=============================================================================
