--------------------------- MODULE MCRequirements ----------------------------
EXTENDS Requirements, TLC

CONSTANTS m1, other, c1, p1, p2, k, t, x, y, s, i1, i2, v1, v2, v3, pol, a, b, w1, w2, f, g

(* The names t and y make one id.                                          *)
MCIdOf(app, name) ==
  LET id == IF name = y THEN t ELSE name
  IN  IF app = m1 THEN id ELSE <<id, "there">>

Scaler(type) == [type |-> type, as |-> "scaler"]
Custom(type) == [type |-> type, as |-> "custom"]
End(config, secrets) == [config |-> config, secrets |-> secrets]
Plain == End(<<>>, <<>>)
Link(name, wit, interfaces, target, source, to) ==
  [type |-> "link", as |-> "link", name |-> name, wit |-> wit, interfaces |-> interfaces,
   target |-> target, source |-> source, to |-> to]
Config(n, v) == <<[name |-> n, value |-> v]>>
Secret == <<[name |-> s, policy |-> pol]>>

Part(n, capability, image, config, secrets, traits) ==
  [name |-> n, capability |-> capability, id |-> None, image |-> image,
   shared |-> None, config |-> config, secrets |-> secrets, traits |-> traits]
Manifest(policies, components) ==
  [name |-> m1, version |-> v1, labels |-> {}, policies |-> policies, components |-> components]

(* Of the manifests that clients send, those that are accepted differ in   *)
(* what the checks look at.                                                *)
LinkF(target, source, to) == Link(a, w1, <<f>>, target, source, to)
SomeTraits ==
  {<<>>, <<Scaler("spreadscaler")>>, <<Custom("spreadscaler")>>, <<Custom("other")>>,
   <<LinkF(p1, Plain, Plain)>>, <<LinkF(p2, Plain, Plain)>>, <<LinkF(c1, Plain, Plain)>>,
   <<LinkF(p1, End(<<>>, Secret), Plain)>>,
   <<LinkF(p1, Plain, End(Config(t, v1), Secret))>>,
   <<LinkF(p1, End(Config(t, v1), <<>>), Plain), Link(b, w1, <<f, g>>, p1, Plain, End(Config(t, v2), <<>>))>>,
   <<LinkF(p1, End(Config(t, v1), <<>>), Plain), Link(a, w2, <<f>>, p1, End(Config(t, v2), <<>>), Plain)>>,
   <<LinkF(p1, End(Config(t, v1), <<>>), End(Config(y, v2), <<>>))>>,
   <<LinkF(p1, Plain, End(Config(x, None), <<>>)), Link(a, w1, <<g>>, c1, Plain, End(Config(x, None), <<>>))>>,
   <<Scaler("daemonscaler"), Link(a, w1, <<f, g>>, p1, Plain, Plain), Link(a, w1, <<g>>, c1, Plain, Plain)>>}

Images == {<<i1, None>>, <<None, [app |-> other, component |-> p2]>>, <<None, None>>,
           <<i1, [app |-> other, component |-> p2]>>}

SomePolicies == {{}, {[name |-> pol, secret |-> TRUE, backend |-> TRUE]},
                 {[name |-> pol, secret |-> TRUE, backend |-> FALSE]}}

Sent(P, im, secrets, ts, p, tp) ==
  Manifest(P, <<[Part(c1, FALSE, im[1], <<>>, secrets, ts) EXCEPT !.shared = im[2]],
                [Part(p, TRUE, i2, <<>>, <<>>, tp) EXCEPT !.id = b]>>)

MCCandidates ==
  {Sent(P, <<i1, None>>, secrets, ts, p1, <<>>) :
     P \in SomePolicies, secrets \in {<<>>, Secret}, ts \in SomeTraits}
  \cup {Sent({}, im, <<>>, ts, p, tp) :
     im \in Images, ts \in SomeTraits, p \in {p1, c1},
     tp \in {<<>>, <<Scaler("daemonscaler")>>, <<LinkF(c1, Plain, Plain)>>, <<LinkF(p1, Plain, Plain)>>}}

(* Those that are deployed.                                                *)
Component(image, v, traits) ==
  Part(c1, FALSE, image, Config(k, v), <<>>, <<Scaler("spreadscaler")>> \o traits)
Provider(p) == Part(p, TRUE, i1, <<>>, <<>>, <<>>)
To(p, v) == LinkF(p, Plain, End(Config(t, v) \o Config(x, None), <<>>))

One == Manifest({}, <<Component(i1, v1, <<To(p1, v1)>>), Provider(p1)>>)
NewTarget == Manifest({}, <<Component(i1, v2, <<To(p2, v2)>>), Provider(p2)>>)

MCDeployable == {One, NewTarget}
MCElsewhere == x :> v3
Nowhere == <<>>

AllCandidates == MCCandidates \cup MCDeployable

(* Only the image of a component changes.                                  *)
OldAndNewImage == {Manifest({}, <<Component(im, v1, <<>>)>>) : im \in {i1, i2}}

(* A second link to a provider, from another package.                      *)
Linked(ls) == Manifest({}, <<Part(c1, FALSE, i1, <<>>, <<>>, ls), Provider(p1)>>)
Single == Linked(<<LinkF(p1, Plain, Plain)>>)
Twins == Linked(<<LinkF(p1, Plain, Plain), Link(a, w2, <<g>>, p1, Plain, Plain)>>)
Both == {Single, Twins}
=============================================================================
