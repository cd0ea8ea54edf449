--------------------------- MODULE MCLatticeState ---------------------------
(* A small instance of LatticeState.                                       *)
EXTENDS LatticeState, TLC

CONSTANTS h1, h2, c1, p1, a1, a2, w1, w2

MCSymmetry == Permutations(Hosts)
=============================================================================
