-------------------------- MODULE MCLatticeSettle ---------------------------
(* A small instance of LatticeSettle.                                      *)
EXTENDS LatticeSettle, TLC

CONSTANTS h1, h2, c1, p1, a1, a2, w1, w2, r1

MCSymmetry == Permutations(Hosts) \cup Permutations(Workers)

(* Bound: what runs is components, or providers on one host.               *)
OneKind ==
  \/ \A h \in Hosts, p \in Providers : health[h][p] = Absent /\ providers[p][h] = Absent
  \/ /\ \A h \in Hosts, c \in Components : runs[h][c] = Absent
     /\ \E h \in Hosts : power[h] = "new"
=============================================================================
