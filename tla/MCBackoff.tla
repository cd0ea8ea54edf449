----------------------------- MODULE MCBackoff ------------------------------
EXTENDS Backoff

CONSTANTS i1, i2, u1, u2

(* With one instance, and with two.                                        *)
Faults == <<2, 0>>
=============================================================================
