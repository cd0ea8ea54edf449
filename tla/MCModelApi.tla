----------------------------- MODULE MCModelApi -----------------------------
(* A small instance of ModelApi: two applications that use one component   *)
(* id, the second application's first version shared by the first.         *)
EXTENDS ModelApi, TLC

CONSTANTS m1, m2, v1, v2, c1, s1, s2

MCIdsOf == [mv \in Models \X Versions |-> IF mv[2] = v1 THEN {c1} ELSE {}]
MCSharedApp == {<<m2, v1>>}
MCNeeds == [mv \in Models \X Versions |-> IF mv = <<m1, v2>> THEN {m2} ELSE {}]

MCSymmetry == Permutations(Servers)
=============================================================================
