------------------------------- MODULE Spreads --------------------------------
(***************************************************************************)
(* How the instances of a spreadscaler or daemonscaler trait are divided   *)
(* among its spreads, and which hosts a spread may use                     *)
(* (crates/wadm/src/scaler/spreadscaler/mod.rs), for the scalers of        *)
(* components and of providers.                                            *)
(*                                                                         *)
(* A config c has c.instances and c.spreads, a sequence of spreads, each   *)
(* with a name, a weight and the hosts whose labels meet its requirements. *)
(***************************************************************************)
EXTENDS Integers, FiniteSets, SequencesExt, FiniteSetsExt

CONSTANTS
  Hosts,
  Names,      \* of spreads, Default among them
  Default     \* the spread of a config that lists none

ASSUME SpreadsAssumption == IsFiniteSet(Hosts) /\ Default \in Names

SpreadLists == Seq([name : Names, weight : Nat, hosts : SUBSET Hosts])

Spreads(c) ==
  IF c.spreads = <<>> THEN <<[name |-> Default, weight |-> 100, hosts |-> Hosts]>>
  ELSE c.spreads

Weight(c) == SumFunction([i \in DOMAIN Spreads(c) |-> Spreads(c)[i].weight])

(* A config that can be divided: with weights that are all zero the code   *)
(* divides by zero and panics.                                             *)
IsConfig(c) ==
  /\ c.instances \in Nat
  /\ c.spreads \in SpreadLists
  /\ Weight(c) > 0

Rounded(c, i) == (c.instances * Spreads(c)[i].weight) \div Weight(c)

Before(c, j, i) ==    \* a stable sort, the heaviest first
  LET s == Spreads(c)
  IN  s[j].weight > s[i].weight \/ (s[j].weight = s[i].weight /\ j < i)

ComputeSpreadRoundsDown(c) ==    \* mutant: what rounding takes away is lost
  [i \in DOMAIN Spreads(c) |-> Rounded(c, i)]

ComputeSpread(c) ==
  LET I == DOMAIN Spreads(c)
      rest == c.instances - SumFunction([i \in I |-> Rounded(c, i)])
  IN  [i \in I |-> Rounded(c, i) +
         (IF Cardinality({j \in I : Before(c, j, i)}) < rest THEN 1 ELSE 0)]

(* s.known are the hosts that have a record in the stored state s.         *)
Eligible(s, spread) == spread.hosts \cap s.known

Matched(c) == UNION {Spreads(c)[i].hosts : i \in DOMAIN Spreads(c)}

(* The spreads' numbers add up to the instances of a config; none is a     *)
(* whole one below its share by weight, or more than one above it.         *)
AddsUp(c) ==
  LET k == ComputeSpread(c)
      I == DOMAIN k
      Exactly(i) == c.instances * Spreads(c)[i].weight
      W == Weight(c)
  IN  /\ SumFunction(k) = c.instances
      /\ \A i \in I : k[i] * W - Exactly(i) <= W /\ Exactly(i) - k[i] * W < W
=============================================================================
