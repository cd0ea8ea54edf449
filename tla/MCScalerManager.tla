-------------------------- MODULE MCScalerManager ----------------------------
EXTENDS ScalerManager, TLC

CONSTANTS i1, i2, m1, v1, v2, a, b, c

(* Nothing is promised for a manifest after these, and there is only one.  *)
MCConstraint == \A m \in Manifests : aux_spoiled[m] \cap {"overtaken", "given up"} = {}

(* An upgrade keeps one scaler, drops one and adds one.                    *)
MCIds == (v1 :> {a, b}) @@ (v2 :> {b, c})

MCUpgrades == {<<v1, v2>>, <<v1, None>>, <<None, v2>>, <<v2, None>>}
=============================================================================
