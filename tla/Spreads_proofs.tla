--------------------------- MODULE Spreads_proofs ----------------------------
(***************************************************************************)
(* Proofs about Spreads: what sums over finite sets are, and that the      *)
(* instances of every config are divided among its spreads without a rest. *)
(***************************************************************************)
EXTENDS Spreads, TLAPS, NaturalsInduction, WellFoundedInduction, FiniteSetTheorems, SequenceTheorems
-----------------------------------------------------------------------------
(* Induction over finite sets, for a property that is given as the set of  *)
(* those that have it: a least set without it cannot be.                   *)

LEMMA Least ==
  ASSUME NEW T \in SUBSET Nat, T # {}
  PROVE  \E k \in T : \A j \in T : k <= j
<1>1. PICK k \in T : \A j \in T : ~(<<j, k>> \in OpToRel(<, Nat))
  BY NatLessThanWellFounded, WFMin
<1>2. ASSUME NEW j \in T PROVE k <= j
  <2>1. <<j, k>> \in Nat \X Nat
    OBVIOUS
  <2>2. ~(j < k)
    BY <1>1, <2>1 DEF OpToRel
  <2> QED
    BY <2>2
<1> QED
  BY <1>2

LEMMA BySize ==
  ASSUME NEW S, IsFiniteSet(S), NEW P,
         \A T \in SUBSET S : (\A U \in SUBSET T : U # T => U \in P) => T \in P
  PROVE  \A T \in SUBSET S : T \in P
<1> DEFINE Bad == {T \in SUBSET S : T \notin P}
           Sizes == {Cardinality(T) : T \in Bad}
<1>1. SUFFICES ASSUME Bad # {} PROVE FALSE
  OBVIOUS
<1>2. \A T \in SUBSET S : IsFiniteSet(T) /\ Cardinality(T) \in Nat
  BY FS_Subset, FS_CardinalityType
<1>3. Sizes \in SUBSET Nat /\ Sizes # {}
  BY <1>1, <1>2
<1>4. PICK k \in Sizes : \A j \in Sizes : k <= j
  <2> HIDE DEF Sizes
  <2> QED
    BY <1>3, Least
<1>5. PICK T \in Bad : k = Cardinality(T)
  OBVIOUS
<1>6. T \in SUBSET S /\ T \notin P
  OBVIOUS
<1>7. ASSUME NEW U \in SUBSET T, U # T PROVE U \in P
  <2>1. U \in SUBSET S
    BY <1>6
  <2>2. /\ Cardinality(U) <= Cardinality(T) /\ Cardinality(U) # Cardinality(T)
        /\ Cardinality(T) \in Nat /\ Cardinality(U) \in Nat
    BY <1>2, <1>6, <1>7, <2>1, FS_Subset
  <2>3. ~(k <= Cardinality(U))
    BY <1>5, <2>2
  <2>4. Cardinality(U) \notin Sizes
    BY <1>4, <2>3
  <2> QED
    BY <2>1, <2>4
<1> QED
  BY <1>6, <1>7

LEMMA OneByOne ==
  ASSUME NEW S, IsFiniteSet(S), NEW P, {} \in P,
         \A T \in SUBSET S : \A x \in S \ T : T \in P => T \cup {x} \in P
  PROVE  \A T \in SUBSET S : T \in P
<1>1. ASSUME NEW T \in SUBSET S, \A U \in SUBSET T : U # T => U \in P
      PROVE  T \in P
  <2>1. CASE T = {}
    BY <2>1
  <2>2. CASE T # {}
    <3>1. PICK x \in T : TRUE
      BY <2>2
    <3> DEFINE U == T \ {x}
    <3>2. U \in SUBSET T /\ U # T /\ U \in SUBSET S /\ x \in S \ U /\ T = U \cup {x}
      BY <3>1
    <3>3. U \in P
      BY <1>1, <3>2
    <3> QED
      BY <3>2, <3>3
  <2> QED
    BY <2>1, <2>2
<1> QED
  BY <1>1, BySize
-----------------------------------------------------------------------------
(* The sum of f over a finite set.  Sums is what the recursion in it       *)
(* defines.                                                                *)

OneOf(s) == CHOOSE x \in s : TRUE

Sums(g, S, f) ==
  g = [s \in SUBSET S |-> IF s = {} THEN 0 ELSE f[OneOf(s)] + g[s \ {OneOf(s)}]]

LEMMA SumsDefine ==
  ASSUME NEW S, NEW f
  PROVE  SumFunctionOnSet(f, S) = (CHOOSE g : Sums(g, S, f))[S]
BY DEF SumFunctionOnSet, FoldFunctionOnSet, MapThenFoldSet, Sums, OneOf

LEMMA OneOfIn == ASSUME NEW s, s # {} PROVE OneOf(s) \in s
BY DEF OneOf

LEMMA SumsAgree ==
  ASSUME NEW f, NEW S, NEW g, Sums(g, S, f), NEW T, IsFiniteSet(T), T \in SUBSET S,
         NEW h, Sums(h, T, f)
  PROVE  g[T] = h[T]
<1> DEFINE P == {U \in SUBSET T : g[U] = h[U]}
<1>1. ASSUME NEW U \in SUBSET T, \A V \in SUBSET U : V # U => V \in P
      PROVE  U \in P
  <2>1. /\ g[U] = IF U = {} THEN 0 ELSE f[OneOf(U)] + g[U \ {OneOf(U)}]
        /\ h[U] = IF U = {} THEN 0 ELSE f[OneOf(U)] + h[U \ {OneOf(U)}]
    BY DEF Sums
  <2>2. CASE U = {}
    BY <2>1, <2>2
  <2>3. CASE U # {}
    <3>1. U \ {OneOf(U)} \in SUBSET U /\ U \ {OneOf(U)} # U
      BY <2>3, OneOfIn
    <3>2. g[U \ {OneOf(U)}] = h[U \ {OneOf(U)}]
      BY <1>1, <3>1
    <3> QED
      BY <2>1, <3>2
  <2> QED
    BY <2>2, <2>3
<1> HIDE DEF P
<1>2. T \in P
  BY <1>1, BySize
<1> QED
  BY <1>2 DEF P

LEMMA SumsExist ==
  ASSUME NEW S, IsFiniteSet(S), NEW f
  PROVE  \E g : Sums(g, S, f)
<1> DEFINE P == {T \in SUBSET S : \E g : Sums(g, T, f)}
           H(T) == CHOOSE g : Sums(g, T, f)
           Rest(T) == T \ {OneOf(T)}
<1>1. ASSUME NEW T \in SUBSET S, \A U \in SUBSET T : U # T => U \in P
      PROVE  T \in P
  <2>1. ASSUME NEW U \in SUBSET T, U # T
        PROVE  Sums(H(U), U, f)
    <3>1. \E g : Sums(g, U, f)
      BY <1>1, <2>1
    <3> QED
      BY <3>1
  <2> DEFINE g == [U \in SUBSET T |-> IF U = {} THEN 0 ELSE f[OneOf(U)] + H(Rest(U))[Rest(U)]]
  <2>2. ASSUME NEW U \in SUBSET T, U # T
        PROVE  g[U] = H(U)[U]
    <3>1. Sums(H(U), U, f)
      BY <2>1, <2>2
    <3> HIDE DEF H
    <3>2. H(U)[U] = IF U = {} THEN 0 ELSE f[OneOf(U)] + H(U)[Rest(U)]
      BY <3>1 DEF Sums
    <3>3. CASE U = {}
      BY <3>2, <3>3
    <3>4. CASE U # {}
      <4>1. Rest(U) \in SUBSET U /\ Rest(U) \in SUBSET T /\ Rest(U) # T
        BY <3>4, OneOfIn
      <4>2. Sums(H(Rest(U)), Rest(U), f)
        BY <2>1, <4>1
      <4>3. IsFiniteSet(Rest(U))
        BY <4>1, FS_Subset
      <4>4. H(U)[Rest(U)] = H(Rest(U))[Rest(U)]
        <5> HIDE DEF Rest
        <5> QED
          BY <3>1, <4>1, <4>2, <4>3, SumsAgree
      <4> QED
        BY <3>2, <3>4, <4>4
    <3> QED
      BY <3>3, <3>4
  <2>3. ASSUME NEW U \in SUBSET T
        PROVE  g[U] = IF U = {} THEN 0 ELSE f[OneOf(U)] + g[Rest(U)]
    <3>1. CASE U = {}
      BY <3>1
    <3>2. CASE U # {}
      <4>1. Rest(U) \in SUBSET T /\ Rest(U) # T
        BY <3>2, OneOfIn
      <4>2. g[Rest(U)] = H(Rest(U))[Rest(U)]
        <5> HIDE DEF H, Rest, g
        <5> QED
          BY <2>2, <4>1
      <4> QED
        BY <3>2, <4>2
    <3> QED
      BY <3>1, <3>2
  <2>4. g = [U \in SUBSET T |-> g[U]]
    OBVIOUS
  <2> HIDE DEF g
  <2>5. Sums(g, T, f)
    BY <2>3, <2>4 DEF Sums
  <2> QED
    BY <2>5
<1> HIDE DEF P
<1>2. S \in P
  BY <1>1, BySize
<1> QED
  BY <1>2 DEF P

(* A sum taken apart.                                                      *)
LEMMA SumStep ==
  ASSUME NEW S, IsFiniteSet(S), NEW f
  PROVE  SumFunctionOnSet(f, S) =
           IF S = {} THEN 0 ELSE f[OneOf(S)] + SumFunctionOnSet(f, S \ {OneOf(S)})
<1> DEFINE G(T) == CHOOSE g : Sums(g, T, f)
           R == S \ {OneOf(S)}
<1>1. Sums(G(S), S, f)
  BY SumsExist
<1>2. IsFiniteSet(R) /\ R \in SUBSET S
  BY FS_Subset
<1>3. Sums(G(R), R, f)
  BY <1>2, SumsExist
<1>4. SumFunctionOnSet(f, S) = G(S)[S] /\ SumFunctionOnSet(f, R) = G(R)[R]
  BY SumsDefine
<1> HIDE DEF G
<1>5. G(S)[S] = IF S = {} THEN 0 ELSE f[OneOf(S)] + G(S)[R]
  BY <1>1 DEF Sums
<1> HIDE DEF R
<1>6. G(S)[R] = G(R)[R]
  BY <1>1, <1>2, <1>3, SumsAgree
<1> QED
  BY <1>4, <1>5, <1>6 DEF R

LEMMA SumNothing == ASSUME NEW f PROVE SumFunctionOnSet(f, {}) = 0
BY FS_EmptySet, SumStep

LEMMA SumInt ==
  ASSUME NEW S, IsFiniteSet(S), NEW f, \A x \in S : f[x] \in Int
  PROVE  SumFunctionOnSet(f, S) \in Int
<1> DEFINE P == {T \in SUBSET S : SumFunctionOnSet(f, T) \in Int}
<1>1. ASSUME NEW T \in SUBSET S, \A U \in SUBSET T : U # T => U \in P
      PROVE  T \in P
  <2>1. IsFiniteSet(T)
    BY FS_Subset
  <2>2. CASE T = {}
    BY <2>2, SumNothing
  <2>3. CASE T # {}
    <3>1. OneOf(T) \in T /\ T \ {OneOf(T)} \in SUBSET T /\ T \ {OneOf(T)} # T
      BY <2>3, OneOfIn
    <3>2. SumFunctionOnSet(f, T \ {OneOf(T)}) \in Int
      BY <1>1, <3>1
    <3>3. f[OneOf(T)] \in Int
      BY <3>1
    <3>4. SumFunctionOnSet(f, T) = f[OneOf(T)] + SumFunctionOnSet(f, T \ {OneOf(T)})
      BY <2>1, <2>3, SumStep
    <3> QED
      BY <3>2, <3>3, <3>4
  <2> QED
    BY <2>2, <2>3
<1> HIDE DEF P
<1>2. S \in P
  BY <1>1, BySize
<1> QED
  BY <1>2 DEF P

(* OneOf element may be taken out.                                           *)
LEMMA SumOut ==
  ASSUME NEW S, IsFiniteSet(S), NEW f, \A x \in S : f[x] \in Int, NEW y \in S
  PROVE  SumFunctionOnSet(f, S) = f[y] + SumFunctionOnSet(f, S \ {y})
<1> DEFINE Out(T) == \A z \in T : SumFunctionOnSet(f, T) = f[z] + SumFunctionOnSet(f, T \ {z})
           P == {T \in SUBSET S : Out(T)}
<1>1. ASSUME NEW T \in SUBSET S, \A U \in SUBSET T : U # T => U \in P
      PROVE  T \in P
  <2>1. IsFiniteSet(T) /\ \A x \in T : f[x] \in Int
    BY FS_Subset
  <2>2. ASSUME NEW z \in T
        PROVE  SumFunctionOnSet(f, T) = f[z] + SumFunctionOnSet(f, T \ {z})
    <3> DEFINE x == OneOf(T)
    <3>1. x \in T /\ SumFunctionOnSet(f, T) = f[x] + SumFunctionOnSet(f, T \ {x})
      BY <2>1, OneOfIn, SumStep
    <3> HIDE DEF x
    <3>2. CASE z = x
      BY <3>1, <3>2
    <3>3. CASE z # x
      <4> DEFINE U == T \ {x}
                 V == T \ {z}
                 W == (T \ {x}) \ {z}
      <4>1. U \in SUBSET T /\ U # T /\ z \in U /\ V \in SUBSET T /\ V # T /\ x \in V
        BY <3>1, <3>3
      <4>2. W = U \ {z} /\ W = V \ {x} /\ W \in SUBSET T
        OBVIOUS
      <4>3. Out(U) /\ Out(V)
        BY <1>1, <4>1
      <4>4. SumFunctionOnSet(f, U) = f[z] + SumFunctionOnSet(f, W)
        BY <4>1, <4>2, <4>3
      <4>5. SumFunctionOnSet(f, V) = f[x] + SumFunctionOnSet(f, W)
        BY <4>1, <4>2, <4>3
      <4>6. IsFiniteSet(W) /\ \A t \in W : f[t] \in Int
        BY <2>1, <4>2, FS_Subset
      <4>7. SumFunctionOnSet(f, W) \in Int /\ f[x] \in Int /\ f[z] \in Int
        BY <2>1, <3>1, <4>6, SumInt
      <4> HIDE DEF U, V, W, Out, P
      <4>8. SumFunctionOnSet(f, T) = f[x] + SumFunctionOnSet(f, U)
        BY <3>1 DEF U
      <4>9. SumFunctionOnSet(f, T) = f[z] + SumFunctionOnSet(f, V)
        BY <4>4, <4>5, <4>7, <4>8
      <4> QED
        BY <4>9 DEF V
    <3> QED
      BY <3>2, <3>3
  <2> QED
    BY <2>2
<1> HIDE DEF P
<1>2. S \in P
  BY <1>1, BySize
<1> QED
  BY <1>2 DEF P

LEMMA SumIn ==
  ASSUME NEW S, IsFiniteSet(S), NEW f, NEW y, y \notin S, \A x \in S \cup {y} : f[x] \in Int
  PROVE  SumFunctionOnSet(f, S \cup {y}) = f[y] + SumFunctionOnSet(f, S)
<1> DEFINE T == S \cup {y}
<1>1. IsFiniteSet(T) /\ y \in T /\ T \ {y} = S
  BY FS_AddElement
<1> HIDE DEF T
<1>2. \A x \in T : f[x] \in Int
  BY DEF T
<1>3. SumFunctionOnSet(f, T) = f[y] + SumFunctionOnSet(f, T \ {y})
  BY <1>1, <1>2, SumOut
<1> QED
  BY <1>1, <1>3 DEF T

(* Sums term by term.                                                      *)
LEMMA SumPlus ==
  ASSUME NEW S, IsFiniteSet(S), NEW f, NEW g, NEW h,
         \A x \in S : f[x] \in Int /\ g[x] \in Int /\ h[x] = f[x] + g[x]
  PROVE  SumFunctionOnSet(h, S) = SumFunctionOnSet(f, S) + SumFunctionOnSet(g, S)
<1> DEFINE Sum(T, k) == SumFunctionOnSet(k, T)
           P == {T \in SUBSET S : Sum(T, h) = Sum(T, f) + Sum(T, g)}
<1>1. {} \in P
  BY SumNothing
<1>2. ASSUME NEW T \in SUBSET S, NEW x \in S \ T, T \in P
      PROVE  T \cup {x} \in P
  <2>1. IsFiniteSet(T) /\ \A y \in T \cup {x} : f[y] \in Int /\ g[y] \in Int /\ h[y] \in Int
    BY FS_Subset
  <2>2. Sum(T, f) \in Int /\ Sum(T, g) \in Int
    BY <2>1, SumInt
  <2>3. /\ Sum(T \cup {x}, f) = f[x] + Sum(T, f)
        /\ Sum(T \cup {x}, g) = g[x] + Sum(T, g)
        /\ Sum(T \cup {x}, h) = h[x] + Sum(T, h)
    BY <2>1, SumIn
  <2>4. Sum(T, h) = Sum(T, f) + Sum(T, g)
    BY <1>2
  <2>5. h[x] = f[x] + g[x] /\ f[x] \in Int /\ g[x] \in Int
    OBVIOUS
  <2> HIDE DEF Sum
  <2>6. Sum(T \cup {x}, h) = Sum(T \cup {x}, f) + Sum(T \cup {x}, g)
    BY <2>2, <2>3, <2>4, <2>5
  <2> QED
    BY <2>6
<1> HIDE DEF P
<1>3. S \in P
  BY <1>1, <1>2, OneByOne
<1> QED
  BY <1>3 DEF P

LEMMA SumTimes ==
  ASSUME NEW S, IsFiniteSet(S), NEW f, NEW g, NEW k \in Int,
         \A x \in S : f[x] \in Int /\ g[x] = k * f[x]
  PROVE  SumFunctionOnSet(g, S) = k * SumFunctionOnSet(f, S)
<1> DEFINE Sum(T, r) == SumFunctionOnSet(r, T)
           P == {T \in SUBSET S : Sum(T, g) = k * Sum(T, f)}
<1>1. {} \in P
  BY SumNothing
<1>2. ASSUME NEW T \in SUBSET S, NEW x \in S \ T, T \in P
      PROVE  T \cup {x} \in P
  <2>1. IsFiniteSet(T) /\ \A y \in T \cup {x} : f[y] \in Int /\ g[y] \in Int
    BY FS_Subset
  <2>2. Sum(T, f) \in Int
    BY <2>1, SumInt
  <2>3. /\ Sum(T \cup {x}, f) = f[x] + Sum(T, f)
        /\ Sum(T \cup {x}, g) = g[x] + Sum(T, g)
    BY <2>1, SumIn
  <2>4. Sum(T, g) = k * Sum(T, f)
    BY <1>2
  <2>5. g[x] = k * f[x] /\ f[x] \in Int
    OBVIOUS
  <2> HIDE DEF Sum
  <2>6. Sum(T \cup {x}, g) = k * Sum(T \cup {x}, f)
    BY <2>2, <2>3, <2>4, <2>5
  <2> QED
    BY <2>6
<1> HIDE DEF P
<1>3. S \in P
  BY <1>1, <1>2, OneByOne
<1> QED
  BY <1>3 DEF P

LEMMA SumSame ==
  ASSUME NEW S, IsFiniteSet(S), NEW f, NEW g, \A x \in S : f[x] \in Int /\ g[x] = f[x]
  PROVE  SumFunctionOnSet(g, S) = SumFunctionOnSet(f, S)
<1>1. \A x \in S : f[x] \in Int /\ g[x] = 1 * f[x]
  OBVIOUS
<1>2. SumFunctionOnSet(g, S) = 1 * SumFunctionOnSet(f, S) /\ SumFunctionOnSet(f, S) \in Int
  BY <1>1, SumTimes, SumInt
<1> QED
  BY <1>2

LEMMA SumNat ==
  ASSUME NEW S, IsFiniteSet(S), NEW f, \A x \in S : f[x] \in Nat
  PROVE  /\ SumFunctionOnSet(f, S) \in Nat
         /\ (\A x \in S : f[x] = 0) <=> SumFunctionOnSet(f, S) = 0
<1> DEFINE Sum(T) == SumFunctionOnSet(f, T)
           P == {T \in SUBSET S : Sum(T) \in Nat /\ ((\A x \in T : f[x] = 0) <=> Sum(T) = 0)}
<1>1. {} \in P
  BY SumNothing
<1>2. ASSUME NEW T \in SUBSET S, NEW x \in S \ T, T \in P
      PROVE  T \cup {x} \in P
  <2>1. IsFiniteSet(T) /\ \A y \in T \cup {x} : f[y] \in Int
    BY FS_Subset
  <2>2. Sum(T \cup {x}) = f[x] + Sum(T)
    BY <2>1, SumIn
  <2>3. Sum(T) \in Nat /\ f[x] \in Nat /\ ((\A y \in T : f[y] = 0) <=> Sum(T) = 0)
    BY <1>2
  <2> HIDE DEF Sum
  <2>4. Sum(T \cup {x}) \in Nat /\ (Sum(T \cup {x}) = 0 <=> f[x] = 0 /\ Sum(T) = 0)
    BY <2>2, <2>3
  <2>5. (\A y \in T \cup {x} : f[y] = 0) <=> f[x] = 0 /\ \A y \in T : f[y] = 0
    OBVIOUS
  <2> QED
    BY <2>3, <2>4, <2>5
<1> HIDE DEF P
<1>3. S \in P
  BY <1>1, <1>2, OneByOne
<1> QED
  BY <1>3 DEF P

LEMMA SumOnes ==
  ASSUME NEW S, IsFiniteSet(S), NEW f, \A x \in S : f[x] = 1
  PROVE  SumFunctionOnSet(f, S) = Cardinality(S)
<1> DEFINE P == {T \in SUBSET S : SumFunctionOnSet(f, T) = Cardinality(T)}
<1>1. {} \in P
  BY SumNothing, FS_EmptySet
<1>2. ASSUME NEW T \in SUBSET S, NEW x \in S \ T, T \in P
      PROVE  T \cup {x} \in P
  <2>1. IsFiniteSet(T) /\ \A y \in T \cup {x} : f[y] \in Int
    BY FS_Subset
  <2>2. SumFunctionOnSet(f, T \cup {x}) = f[x] + SumFunctionOnSet(f, T)
    BY <2>1, SumIn
  <2>3. Cardinality(T \cup {x}) = Cardinality(T) + 1 /\ Cardinality(T) \in Nat
    BY <2>1, FS_AddElement, FS_CardinalityType
  <2>4. f[x] = 1 /\ SumFunctionOnSet(f, T) = Cardinality(T)
    BY <1>2
  <2> QED
    BY <2>2, <2>3, <2>4
<1> HIDE DEF P
<1>3. S \in P
  BY <1>1, <1>2, OneByOne
<1> QED
  BY <1>3 DEF P

LEMMA SumUnion ==
  ASSUME NEW S, IsFiniteSet(S), NEW T, IsFiniteSet(T), S \cap T = {}, NEW f,
         \A x \in S \cup T : f[x] \in Int
  PROVE  SumFunctionOnSet(f, S \cup T) = SumFunctionOnSet(f, S) + SumFunctionOnSet(f, T)
<1> DEFINE Sum(U) == SumFunctionOnSet(f, U)
           P == {U \in SUBSET T : Sum(S \cup U) = Sum(S) + Sum(U)}
<1>1. Sum(S) \in Int
  BY SumInt
<1>2. {} \in P
  BY <1>1, SumNothing
<1>3. ASSUME NEW U \in SUBSET T, NEW x \in T \ U, U \in P
      PROVE  U \cup {x} \in P
  <2>1. IsFiniteSet(U) /\ \A y \in U \cup {x} : f[y] \in Int
    BY FS_Subset
  <2>2. IsFiniteSet(S \cup U) /\ x \notin S \cup U /\ \A y \in (S \cup U) \cup {x} : f[y] \in Int
    BY <2>1, FS_Union
  <2>3. Sum(U \cup {x}) = f[x] + Sum(U) /\ Sum((S \cup U) \cup {x}) = f[x] + Sum(S \cup U)
    BY <2>1, <2>2, SumIn
  <2>4. Sum(U) \in Int /\ f[x] \in Int
    BY <2>1, SumInt
  <2>5. Sum(S \cup U) = Sum(S) + Sum(U) /\ S \cup (U \cup {x}) = (S \cup U) \cup {x}
    BY <1>3
  <2> HIDE DEF Sum
  <2>6. Sum(S \cup (U \cup {x})) = f[x] + Sum(S \cup U)
    BY <2>3, <2>5
  <2>7. f[x] + (Sum(S) + Sum(U)) = Sum(S) + (f[x] + Sum(U))
    BY <1>1, <2>4
  <2>8. Sum(S \cup (U \cup {x})) = Sum(S) + Sum(U \cup {x})
    BY <2>3, <2>5, <2>6, <2>7
  <2> QED
    BY <2>8
<1> HIDE DEF P
<1>4. T \in P
  BY <1>2, <1>3, OneByOne
<1> QED
  BY <1>4 DEF P

(* Part of a sum of numbers that are not negative.                         *)
LEMMA SumPart ==
  ASSUME NEW S, IsFiniteSet(S), NEW T \in SUBSET S, NEW f, \A x \in S : f[x] \in Nat
  PROVE  /\ SumFunctionOnSet(f, S) = SumFunctionOnSet(f, T) + SumFunctionOnSet(f, S \ T)
         /\ SumFunctionOnSet(f, T) <= SumFunctionOnSet(f, S)
         /\ SumFunctionOnSet(f, T) = SumFunctionOnSet(f, S) <=> \A x \in S \ T : f[x] = 0
<1> DEFINE R == S \ T
<1>1. IsFiniteSet(T) /\ IsFiniteSet(R) /\ T \cap R = {} /\ T \cup R = S
  BY FS_Subset
<1>2. \A x \in T : f[x] \in Nat
  OBVIOUS
<1>3. \A x \in R : f[x] \in Nat
  OBVIOUS
<1> HIDE DEF R
<1>4. /\ SumFunctionOnSet(f, T) \in Nat /\ SumFunctionOnSet(f, R) \in Nat
      /\ (\A x \in R : f[x] = 0) <=> SumFunctionOnSet(f, R) = 0
  BY <1>1, <1>2, <1>3, SumNat
<1>5. SumFunctionOnSet(f, T \cup R) = SumFunctionOnSet(f, T) + SumFunctionOnSet(f, R)
  BY <1>1, <1>2, <1>3, SumUnion
<1> QED
  BY <1>1, <1>4, <1>5 DEF R

(* Terms that are smaller make a sum that is.                              *)
LEMMA SumLess ==
  ASSUME NEW S, IsFiniteSet(S), NEW f, NEW g,
         \A x \in S : f[x] \in Int /\ g[x] \in Int /\ f[x] <= g[x]
  PROVE  /\ SumFunctionOnSet(f, S) <= SumFunctionOnSet(g, S)
         /\ (\E x \in S : f[x] # g[x]) => SumFunctionOnSet(f, S) < SumFunctionOnSet(g, S)
<1> DEFINE d == [x \in S |-> g[x] - f[x]]
<1>1. \A x \in S : d[x] \in Nat /\ f[x] \in Int /\ g[x] = f[x] + d[x] /\ (d[x] = 0 <=> f[x] = g[x])
  OBVIOUS
<1> HIDE DEF d
<1>2. SumFunctionOnSet(g, S) = SumFunctionOnSet(f, S) + SumFunctionOnSet(d, S)
  <2>1. \A x \in S : f[x] \in Int /\ d[x] \in Int /\ g[x] = f[x] + d[x]
    BY <1>1
  <2> QED
    BY <2>1, SumPlus
<1>3. /\ SumFunctionOnSet(d, S) \in Nat
      /\ (\A x \in S : d[x] = 0) <=> SumFunctionOnSet(d, S) = 0
  BY <1>1, SumNat
<1>4. SumFunctionOnSet(f, S) \in Int
  BY <1>1, SumInt
<1> QED
  BY <1>1, <1>2, <1>3, <1>4
-----------------------------------------------------------------------------
(* The division of the instances.                                          *)

LEMMA Divided ==
  ASSUME NEW a \in Nat, NEW b \in Nat, b > 0
  PROVE  a \div b \in Nat /\ b * (a \div b) <= a /\ a < b * (a \div b) + b
<1>1. a \div b \in Nat
  OBVIOUS
<1>2. b * (a \div b) <= a
  OBVIOUS
<1>3. a < b * (a \div b) + b
  OBVIOUS
<1> QED
  BY <1>1, <1>2, <1>3

LEMMA Below ==
  ASSUME NEW n \in Nat
  PROVE  IsFiniteSet(0 .. n - 1) /\ Cardinality(0 .. n - 1) = n
<1>1. n - 1 \in Int /\ 0 \in Int
  OBVIOUS
<1>2. /\ IsFiniteSet(0 .. n - 1)
      /\ Cardinality(0 .. n - 1) = IF 0 > n - 1 THEN 0 ELSE n - 1 - 0 + 1
  BY <1>1, FS_Interval
<1>3. (IF 0 > n - 1 THEN 0 ELSE n - 1 - 0 + 1) = n
  OBVIOUS
<1> QED
  BY <1>2, <1>3

LEMMA Cancel ==
  ASSUME NEW a \in Int, NEW b \in Int, NEW k \in Nat, k > 0
  PROVE  (k * a <= k * b => a <= b) /\ (k * a < k * b => a < b)
OBVIOUS

(* Every one of the elements of a finite set that are strictly ordered has *)
(* a place of its own: as many come before k as k is.                      *)
LEMMA Places ==
  ASSUME NEW I, IsFiniteSet(I), NEW less \in [I -> SUBSET I],
         \A i \in I : i \notin less[i],
         \A i, j \in I : i = j \/ i \in less[j] \/ j \in less[i],
         \A i, j \in I : i \in less[j] => less[i] \subseteq less[j],
         NEW k \in 0 .. Cardinality(I)
  PROVE  Cardinality({i \in I : Cardinality(less[i]) < k}) = k
<1> DEFINE n == Cardinality(I)
           place == [i \in I |-> Cardinality(less[i])]
           T == {i \in I : Cardinality(less[i]) < k}
           onT == [i \in T |-> Cardinality(less[i])]
<1>0. n \in Nat
  BY FS_CardinalityType
<1>1. \A i \in I : IsFiniteSet(less[i]) /\ Cardinality(less[i]) \in Nat /\ Cardinality(less[i]) < n
  <2>1. SUFFICES ASSUME NEW i \in I
                 PROVE  IsFiniteSet(less[i]) /\ Cardinality(less[i]) \in Nat /\ Cardinality(less[i]) < n
    OBVIOUS
  <2>2. less[i] \in SUBSET I /\ less[i] # I
    OBVIOUS
  <2>3. IsFiniteSet(less[i]) /\ Cardinality(less[i]) <= n /\ Cardinality(less[i]) # n
    BY <2>2, FS_Subset
  <2>4. Cardinality(less[i]) \in Nat
    BY <2>3, FS_CardinalityType
  <2> QED
    BY <1>0, <2>3, <2>4
<1>2. ASSUME NEW i \in I, NEW j \in I, i \in less[j]
      PROVE  Cardinality(less[i]) < Cardinality(less[j])
  <2>1. less[i] \in SUBSET less[j] /\ less[i] # less[j]
    BY <1>2
  <2>2. Cardinality(less[i]) <= Cardinality(less[j]) /\ Cardinality(less[i]) # Cardinality(less[j])
    BY <1>1, <2>1, FS_Subset
  <2> QED
    BY <1>1, <2>2
<1>3. \A i, j \in I : place[i] = place[j] => i = j
  BY <1>1, <1>2
<1>4. IsFiniteSet(0 .. n - 1) /\ Cardinality(0 .. n - 1) = n
  BY <1>0, Below
<1>5. place \in [I -> 0 .. n - 1]
  BY <1>0, <1>1
<1>6. place \in Injection(I, 0 .. n - 1)
  BY <1>3, <1>5 DEF Injection, IsInjective
<1>7. place \in Surjection(I, 0 .. n - 1)
  BY <1>4, <1>6, FS_Injection
<1>8. \A p \in 0 .. n - 1 : \E i \in I : place[i] = p
  BY <1>7 DEF Surjection
<1>9. onT \in [T -> 0 .. k - 1]
  BY <1>0, <1>1
<1>10. \A p \in 0 .. k - 1 : \E i \in T : onT[i] = p
  <2>1. SUFFICES ASSUME NEW p \in 0 .. k - 1 PROVE \E i \in T : onT[i] = p
    OBVIOUS
  <2>2. p \in 0 .. n - 1
    BY <1>0
  <2>3. PICK i \in I : place[i] = p
    BY <1>8, <2>2
  <2>4. i \in T /\ onT[i] = p
    BY <2>3
  <2> QED
    BY <2>4
<1>11. \A i, j \in T : onT[i] = onT[j] => i = j
  BY <1>3
<1>12. onT \in Injection(T, 0 .. k - 1)
  BY <1>9, <1>11 DEF Injection, IsInjective
<1>13. onT \in Surjection(T, 0 .. k - 1)
  BY <1>9, <1>10 DEF Surjection
<1>14. IsFiniteSet(0 .. k - 1) /\ Cardinality(0 .. k - 1) = k
  BY <1>0, Below
<1>15. Cardinality(T) = Cardinality(0 .. k - 1)
  BY <1>12, <1>13, <1>14, FS_Injection
<1> QED
  BY <1>14, <1>15

-----------------------------------------------------------------------------
(* Sets that are listed.                                                   *)

LEMMA Listed ==
  ASSUME NEW S, IsFiniteSet(S)
  PROVE  /\ SetToSeq(S) \in Seq(S)
         /\ ToSet(SetToSeq(S)) = S
         /\ Len(SetToSeq(S)) = Cardinality(S)
         /\ \A i, j \in 1 .. Cardinality(S) : SetToSeq(S)[i] = SetToSeq(S)[j] => i = j
<1> DEFINE n == Cardinality(S)
           f == SetToSeq(S)
<1>1. n \in Nat /\ ExistsBijection(1 .. n, S)
  BY FS_CardinalityType
<1>2. PICK g \in Bijection(1 .. n, S) : TRUE
  BY <1>1 DEF ExistsBijection
<1>3. g \in [1 .. n -> S] /\ IsInjective(g)
  BY <1>2 DEF Bijection, Injection
<1>4. f \in [1 .. n -> S] /\ IsInjective(f)
  BY <1>3 DEF SetToSeq
<1> HIDE DEF f
<1>5. f \in Injection(1 .. n, S)
  BY <1>4 DEF Injection
<1>6. IsFiniteSet(1 .. n) /\ Cardinality(1 .. n) = n
  BY <1>1, FS_Interval
<1>7. f \in Surjection(1 .. n, S)
  BY <1>5, <1>6, FS_Injection
<1>8. \A x \in S : \E i \in 1 .. n : f[i] = x
  BY <1>7 DEF Surjection
<1>9. f \in Seq(S) /\ Len(f) = n /\ DOMAIN f = 1 .. n
  BY <1>1, <1>4
<1>10. ToSet(f) = S
  BY <1>4, <1>8, <1>9 DEF ToSet
<1>11. \A i, j \in 1 .. n : f[i] = f[j] => i = j
  BY <1>4 DEF IsInjective
<1> QED
  BY <1>9, <1>10, <1>11 DEF f

LEMMA ImageFinite ==
  ASSUME NEW f, IsFiniteSet(DOMAIN f)
  PROVE  IsFiniteSet({f[x] : x \in DOMAIN f})
<1> DEFINE T == {f[x] : x \in DOMAIN f}
           g == [x \in DOMAIN f |-> f[x]]
<1>1. g \in Surjection(DOMAIN f, T)
  BY DEF Surjection
<1> QED
  BY <1>1, FS_Surjection
-----------------------------------------------------------------------------
(* Shares of the instances, and what rounding leaves.                      *)

LEMMA ConfigFacts ==
  ASSUME NEW c, IsConfig(c)
  PROVE  /\ DOMAIN Spreads(c) \in SUBSET Nat /\ DOMAIN Spreads(c) # {}
         /\ IsFiniteSet(DOMAIN Spreads(c))
         /\ \A i \in DOMAIN Spreads(c) :
              Spreads(c)[i] \in [name : Names, weight : Nat, hosts : SUBSET Hosts]
         /\ Weight(c) \in Nat \ {0}
<1> DEFINE Spread == [name : Names, weight : Nat, hosts : SUBSET Hosts]
           s == Spreads(c)
           w == [i \in DOMAIN s |-> s[i].weight]
<1>1. s \in Seq(Spread) /\ s # <<>>
  <2>1. CASE c.spreads = <<>>
    <3> DEFINE d == [name |-> Default, weight |-> 100, hosts |-> Hosts]
    <3>1. d \in Spread
      BY SpreadsAssumption
    <3>2. s = <<d>>
      BY <2>1 DEF Spreads
    <3> HIDE DEF d, Spread
    <3> QED
      BY <3>1, <3>2
  <2>2. CASE c.spreads # <<>>
    BY <2>2 DEF IsConfig, Spreads, SpreadLists
  <2> QED
    BY <2>1, <2>2
<1> HIDE DEF s
<1>2. Len(s) \in Nat /\ DOMAIN s = 1 .. Len(s) /\ Len(s) # 0 /\ \A i \in DOMAIN s : s[i] \in Spread
  <2> HIDE DEF Spread
  <2>1. Len(s) # 0
    BY <1>1, EmptySeq
  <2> QED
    BY <1>1, <2>1
<1>3. IsFiniteSet(DOMAIN s)
  BY <1>2, FS_Interval
<1>4. DOMAIN s \in SUBSET Nat /\ DOMAIN s # {}
  BY <1>2
<1>5. \A i \in DOMAIN s : w[i] \in Nat
  BY <1>2
<1>6. SumFunctionOnSet(w, DOMAIN s) \in Nat
  <2> HIDE DEF w
  <2> QED
    BY <1>3, <1>5, SumNat
<1>7. Weight(c) = SumFunctionOnSet(w, DOMAIN s)
  BY DEF Weight, SumFunction, s
<1> QED
  BY <1>2, <1>3, <1>4, <1>6, <1>7 DEF IsConfig, s

(* What the rounding leaves is less than there are spreads.                *)
LEMMA Rest ==
  ASSUME NEW c, IsConfig(c)
  PROVE  LET I == DOMAIN Spreads(c)
             R == SumFunctionOnSet([i \in I |-> Rounded(c, i)], I)
         IN  /\ \A i \in I : /\ Rounded(c, i) \in Nat
                             /\ Weight(c) * Rounded(c, i) <= c.instances * Spreads(c)[i].weight
                             /\ c.instances * Spreads(c)[i].weight
                                  < Weight(c) * Rounded(c, i) + Weight(c)
             /\ R \in Nat /\ c.instances - R \in 0 .. Cardinality(I)
<1> DEFINE I == DOMAIN Spreads(c)
           W == Weight(c)
           N == c.instances
           n == Cardinality(I)
           one == [i \in I |-> 1]
           w == [i \in I |-> Spreads(c)[i].weight]
           r == [i \in I |-> Rounded(c, i)]
           low == [i \in I |-> W * r[i]]
           share == [i \in I |-> N * w[i]]
           more == [i \in I |-> W * one[i]]
           high == [i \in I |-> low[i] + more[i]]
           Sum(f) == SumFunctionOnSet(f, I)
<1>1. N \in Nat /\ W \in Nat /\ W > 0 /\ IsFiniteSet(I) /\ \A i \in I : w[i] \in Nat
  BY ConfigFacts DEF IsConfig
<1>2. \A i \in I : r[i] = (N * w[i]) \div W
  BY DEF Rounded
<1>3. \A i \in I : one[i] = 1 /\ low[i] = W * r[i] /\ share[i] = N * w[i] /\ more[i] = W * one[i] /\ high[i] = low[i] + more[i]
  OBVIOUS
<1>4. Sum(w) = W
  BY DEF Weight, SumFunction
<1>5. n \in Nat
  BY <1>1, FS_CardinalityType
<1> HIDE DEF w, r, low, share, more, high, one, W, N, n, I
<1>6. \A i \in I : N * w[i] \in Nat
  BY <1>1
<1>7. \A i \in I : r[i] \in Nat /\ W * r[i] <= N * w[i] /\ N * w[i] < W * r[i] + W
  BY <1>1, <1>2, <1>6, Divided
<1>8. \A i \in I : low[i] \in Int /\ share[i] \in Int /\ one[i] \in Int /\ more[i] \in Int /\ high[i] \in Int
  BY <1>1, <1>3, <1>6, <1>7
<1>9. \A i \in I : low[i] <= share[i] /\ share[i] <= high[i]
  BY <1>1, <1>3, <1>7, <1>8
<1>10. Sum(low) = W * Sum(r)
  BY <1>1, <1>3, <1>7, SumTimes
<1>11. Sum(share) = N * W
  <2>1. Sum(share) = N * Sum(w)
    BY <1>1, <1>3, SumTimes
  <2> QED
    BY <1>4, <2>1
<1>12. Sum(one) = n
  BY <1>1, <1>3, SumOnes DEF n
<1>13. Sum(more) = W * n
  BY <1>1, <1>3, <1>8, <1>12, SumTimes
<1>14. Sum(high) = Sum(low) + Sum(more)
  BY <1>1, <1>3, <1>8, SumPlus
<1>15. Sum(low) <= Sum(share) /\ Sum(share) <= Sum(high)
  BY <1>1, <1>8, <1>9, SumLess
<1>16. Sum(r) \in Nat
  BY <1>1, <1>7, SumNat
<1> HIDE DEF Sum
<1> DEFINE R == Sum(r)
<1>17. W * R <= W * N /\ W * N <= W * (R + n)
  <2>1. W * N = N * W /\ W * (R + n) = W * R + W * n
    BY <1>1, <1>5, <1>16
  <2> QED
    BY <1>10, <1>11, <1>13, <1>14, <1>15, <2>1
<1>18. R <= N /\ N <= R + n
  <2> HIDE DEF R
  <2>1. R \in Int /\ N \in Int /\ R + n \in Int
    BY <1>1, <1>5, <1>16 DEF R
  <2> QED
    BY <1>1, <1>17, <2>1, Cancel
<1>19. N - R \in 0 .. n
  BY <1>1, <1>5, <1>16, <1>18
<1>20. \A i \in I : Rounded(c, i) = r[i] /\ Spreads(c)[i].weight = w[i]
  BY DEF r, w
<1>21. R = SumFunctionOnSet([i \in I |-> Rounded(c, i)], I)
  BY DEF R, Sum, r
<1> QED
  BY <1>7, <1>16, <1>19, <1>20, <1>21 DEF R, I, W, N, n

LEMMA Ranks ==
  ASSUME NEW c, IsConfig(c), NEW k \in 0 .. Cardinality(DOMAIN Spreads(c))
  PROVE  LET I == DOMAIN Spreads(c)
         IN  Cardinality({i \in I : Cardinality({j \in I : Before(c, j, i)}) < k}) = k
<1> DEFINE I == DOMAIN Spreads(c)
           less == [i \in I |-> {j \in I : Before(c, j, i)}]
<1>1. IsFiniteSet(I) /\ I \in SUBSET Nat /\ \A i \in I : Spreads(c)[i].weight \in Nat
  BY ConfigFacts
<1>2. less \in [I -> SUBSET I]
  OBVIOUS
<1>3. \A i \in I : i \notin less[i]
  BY <1>1 DEF Before
<1>4. \A i, j \in I : i = j \/ i \in less[j] \/ j \in less[i]
  BY <1>1 DEF Before
<1>5. \A i, j \in I : i \in less[j] => less[i] \subseteq less[j]
  BY <1>1 DEF Before
<1>6. \A i \in I : less[i] = {j \in I : Before(c, j, i)}
  OBVIOUS
<1>7. k \in 0 .. Cardinality(I)
  OBVIOUS
<1> HIDE DEF less, I
<1>8. Cardinality({i \in I : Cardinality(less[i]) < k}) = k
  BY <1>1, <1>2, <1>3, <1>4, <1>5, <1>7, Places
<1>9. {i \in I : Cardinality(less[i]) < k} = {i \in I : Cardinality({j \in I : Before(c, j, i)}) < k}
  BY <1>6
<1> QED
  BY <1>8, <1>9 DEF I

(* Every spread has a number, and the numbers are zero if no instances are *)
(* asked for.                                                              *)
LEMMA Numbers ==
  ASSUME NEW c, IsConfig(c)
  PROVE  /\ ComputeSpread(c) \in [DOMAIN Spreads(c) -> Nat]
         /\ SumFunction(ComputeSpread(c)) = c.instances
         /\ \A i \in DOMAIN Spreads(c) : ComputeSpread(c)[i] \in {Rounded(c, i), Rounded(c, i) + 1}
<1> DEFINE I == DOMAIN Spreads(c)
           r == [i \in I |-> Rounded(c, i)]
           rest == c.instances - SumFunctionOnSet(r, I)
           Early(i) == Cardinality({j \in I : Before(c, j, i)}) < rest
           T == {i \in I : Early(i)}
           b == [i \in I |-> IF Early(i) THEN 1 ELSE 0]
           k == ComputeSpread(c)
<1>1. IsFiniteSet(I) /\ c.instances \in Nat
  BY ConfigFacts DEF IsConfig
<1>2. (\A i \in I : Rounded(c, i) \in Nat) /\ SumFunctionOnSet(r, I) \in Nat /\ rest \in 0 .. Cardinality(I)
  BY Rest
<1>3. k = [i \in I |-> Rounded(c, i) + (IF Early(i) THEN 1 ELSE 0)]
  BY DEF ComputeSpread, SumFunction
<1>4. Cardinality(T) = rest
  BY <1>2, Ranks
<1>5. \A i \in I : k[i] = r[i] + b[i] /\ r[i] = Rounded(c, i)
  BY <1>3
<1>6. DOMAIN k = I
  BY <1>3
<1>7. T \in SUBSET I /\ (\A i \in T : b[i] = 1) /\ \A i \in I \ T : b[i] = 0
  OBVIOUS
<1>8. \A i \in I : b[i] \in {0, 1}
  OBVIOUS
<1>9. k = [i \in I |-> k[i]]
  BY <1>3
<1>10. r = [i \in I |-> Rounded(c, i)]
  OBVIOUS
<1> HIDE DEF T, b, k, r, I
<1>11. SumFunctionOnSet(b, T) = rest
  BY <1>1, <1>4, <1>7, FS_Subset, SumOnes
<1>12. SumFunctionOnSet(b, I) = SumFunctionOnSet(b, T)
  <2>1. \A i \in I : b[i] \in Nat
    BY <1>8
  <2> QED
    BY <1>1, <1>7, <2>1, SumPart
<1>13. SumFunctionOnSet(k, I) = SumFunctionOnSet(r, I) + SumFunctionOnSet(b, I)
  BY <1>1, <1>2, <1>5, <1>8, SumPlus
<1>14. SumFunctionOnSet(k, I) = c.instances
  BY <1>1, <1>2, <1>11, <1>12, <1>13
<1>15. k \in [I -> Nat]
  <2>1. \A i \in I : k[i] \in Nat
    BY <1>2, <1>5, <1>8
  <2> QED
    BY <1>9, <2>1
<1>16. \A i \in I : k[i] \in {Rounded(c, i), Rounded(c, i) + 1}
  BY <1>2, <1>5, <1>8
<1>17. SumFunction(k) = c.instances
  BY <1>6, <1>14 DEF SumFunction
<1> QED
  BY <1>15, <1>16, <1>17 DEF I, k

LEMMA NoneForNone ==
  ASSUME NEW c, IsConfig(c), c.instances = 0
  PROVE  \A i \in DOMAIN Spreads(c) : ComputeSpread(c)[i] = 0
<1> DEFINE k == ComputeSpread(c)
           I == DOMAIN Spreads(c)
<1>1. k \in [I -> Nat] /\ SumFunction(k) = 0 /\ IsFiniteSet(I)
  BY Numbers, ConfigFacts
<1> HIDE DEF k, I
<1>2. SumFunctionOnSet(k, I) = 0
  BY <1>1 DEF SumFunction
<1>3. \A i \in I : k[i] = 0
  BY <1>1, <1>2, SumNat
<1> QED
  BY <1>3 DEF k, I

(* However many instances are divided among spreads of whatever weights:   *)
(* the numbers add up, none is a whole one below its share, and none is    *)
(* more than one above it.                                                 *)
THEOREM SpreadsAddUp ==
  ASSUME NEW c, IsConfig(c)
  PROVE  AddsUp(c)
<1> DEFINE I == DOMAIN Spreads(c)
           k == ComputeSpread(c)
           W == Weight(c)
           E(i) == c.instances * Spreads(c)[i].weight
<1>1. k \in [I -> Nat] /\ SumFunction(k) = c.instances /\ \A i \in I : k[i] \in {Rounded(c, i), Rounded(c, i) + 1}
  BY Numbers
<1>2. \A i \in I : /\ Rounded(c, i) \in Nat
                   /\ W * Rounded(c, i) <= E(i) /\ E(i) < W * Rounded(c, i) + W
  BY Rest
<1>3. W \in Nat /\ \A i \in I : E(i) \in Nat
  <2>1. W \in Nat /\ c.instances \in Nat /\ \A i \in I : Spreads(c)[i].weight \in Nat
    BY ConfigFacts DEF IsConfig
  <2> QED
    BY <2>1
<1> HIDE DEF k, I, W, E
<1>4. \A i \in I : k[i] * W - E(i) <= W /\ E(i) - k[i] * W < W
  <2>1. SUFFICES ASSUME NEW i \in I, NEW m \in Nat, m = Rounded(c, i)
                 PROVE  k[i] * W - E(i) <= W /\ E(i) - k[i] * W < W
    BY <1>2
  <2>2. W * m <= E(i) /\ E(i) < W * m + W /\ E(i) \in Nat /\ k[i] \in {m, m + 1}
    BY <1>1, <1>2, <1>3, <2>1
  <2>3. m * W = W * m /\ (m + 1) * W = W * m + W /\ W * m \in Nat
    BY <1>3
  <2>4. CASE k[i] = m
    BY <1>3, <2>2, <2>3, <2>4
  <2>5. CASE k[i] = m + 1
    BY <1>3, <2>2, <2>3, <2>5
  <2> QED
    BY <2>2, <2>4, <2>5
<1>5. DOMAIN k = I
  BY <1>1
<1> QED
  BY <1>1, <1>4, <1>5 DEF AddsUp, I, k, W, E
=============================================================================
