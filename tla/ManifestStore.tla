---------------------------- MODULE ManifestStore -----------------------------
(***************************************************************************)
(* What the manifest API promises: an application is a set of versions,    *)
(* one of which may be deployed, and requests change it one after another. *)
(* Every change is made to the application as it is at that moment,        *)
(* however many servers there are (ModelApi says how they do it).          *)
(***************************************************************************)
CONSTANTS Models, Versions, NoVersion

VARIABLE app  \* app[m] = [versions, deployed]

Missing == [versions |-> {}, deployed |-> NoVersion]

Init == app = [m \in Models |-> Missing]

Put(m, v) ==
  /\ v \notin app[m].versions
  /\ app' = [app EXCEPT ![m].versions = @ \cup {v}]

(* The exception: the put of a model that was missing when its server      *)
(* looked replaces what others have put since.                             *)
PutFirst(m, v) == app' = [app EXCEPT ![m] = [versions |-> {v}, deployed |-> NoVersion]]

(* Without the version that is deployed nothing is deployed.               *)
Delete(m, v) ==
  /\ v \in app[m].versions
  /\ app' = [app EXCEPT ![m] =
               [versions |-> @.versions \ {v},
                deployed |-> IF @.deployed = v THEN NoVersion ELSE @.deployed]]

DeleteAll(m) == app' = [app EXCEPT ![m] = Missing]

Deploy(m, v) ==
  /\ v \in app[m].versions
  /\ app' = [app EXCEPT ![m].deployed = v]

Undeploy(m) == app' = [app EXCEPT ![m].deployed = NoVersion]

Next ==
  \E m \in Models :
    \/ \E v \in Versions : Put(m, v) \/ PutFirst(m, v) \/ Delete(m, v) \/ Deploy(m, v)
    \/ DeleteAll(m)
    \/ Undeploy(m)

Spec == Init /\ [][Next]_app
=============================================================================
