------------------------------ MODULE Manifests -------------------------------
(***************************************************************************)
(* What makes a manifest valid (crates/wadm-types/src/validation.rs and    *)
(* lib.rs), and the scalers that it is converted to                        *)
(* (crates/wadm/src/scaler/convert.rs).                                    *)
(*                                                                         *)
(*   manifest   [name, version, labels, policies : SUBSET, components : Seq] *)
(*   policy     [name, secret, backend]  is it for secrets, has it a backend *)
(*   component  [name, capability, id, image, shared, config, secrets,     *)
(*               traits : Seq]           capability: it is a provider      *)
(*   config     [name, value]            None: it is managed elsewhere     *)
(*   secret     [name, policy]                                             *)
(*   trait      [type, as, ...]          as: how its properties were read  *)
(*   link       a trait with name, wit, interfaces, target, and the config *)
(*              and secrets of both ends: source, to                       *)
(*                                                                         *)
(* A link whose properties read as those of a scaler makes the validation  *)
(* panic (check_dangling_links): there is none here.                       *)
(***************************************************************************)
EXTENDS Naturals, FiniteSets, SequencesExt, FiniteSetsExt

CONSTANTS
  None,
  BadNames,   \* names that no manifest may have
  BadLabels,  \* labels and annotations that are not OAM labels
  Latest,     \* the version that no manifest may have
  IdOf(_, _)  \* the id that is made of the names of a manifest and of a
              \* part of it: in lower case, with _ for what is not alphanumeric

IsLink(t) == t.type = "link"
IsScaler(t) == t.type \in {"spreadscaler", "daemonscaler"}

(* Those of s that are in T, in their order.                               *)
Among(s, T) == FlattenSeq([i \in DOMAIN s |-> IF s[i] \in T THEN <<s[i]>> ELSE <<>>])

Links(c) == Among(c.traits, {t \in ToSet(c.traits) : IsLink(t) /\ t.as = "link"})

EachOf(f(_), cs) == FlattenSeq([i \in DOMAIN cs |-> f(cs[i])])

AllLinks(m) == EachOf(Links, m.components)

Secrets(c) ==
  EachOf(LAMBDA t : t.to.secrets \o t.source.secrets, Links(c)) \o c.secrets

NoRepeats(s) == Cardinality(ToSet(s)) = Len(s)

(* A manifest that could be read: what should be a list is one.            *)
IsList(s) == s \in Seq(ToSet(s))

IsParsed(m) ==
  /\ IsList(m.components)
  /\ \A c \in ToSet(m.components) :
       /\ IsList(c.traits) /\ IsList(c.config) /\ IsList(c.secrets)
       /\ \A t \in ToSet(c.traits) : IsLink(t) /\ t.as = "link" =>
            /\ IsList(t.source.config) /\ IsList(t.source.secrets)
            /\ IsList(t.to.config) /\ IsList(t.to.secrets)
-----------------------------------------------------------------------------
(* The checks of validate_manifest whose failures are errors.              *)
NameIsValid(m) == m.name \notin BadNames

VersionIsValid(m) == m.version # Latest

(* The ids that are given, the names of components and the targets of      *)
(* links.                                                                  *)
CoreIsValid(m) ==
  LET names == [i \in DOMAIN m.components |-> m.components[i].name]
      given == Among(m.components, {c \in ToSet(m.components) : c.id # None})
  IN  /\ m.labels \cap BadLabels = {}
      /\ NoRepeats(names)
      /\ NoRepeats([i \in DOMAIN given |-> given[i].id])
      /\ \A c \in ToSet(m.components) : \A t \in ToSet(c.traits) :
           t.as = "link" => t.target \in ToSet(names)

NoCustomTraits(m) ==
  \A c \in ToSet(m.components) : \A t \in ToSet(c.traits) :
    t.as = "custom" => ~IsLink(t) /\ ~IsScaler(t)

PoliciesOfComponents(m) ==    \* mutant: the secrets of links are forgotten
  \A c \in ToSet(m.components) : \A s \in ToSet(c.secrets) :
    \E p \in m.policies : p.name = s.policy /\ p.secret /\ p.backend

PoliciesAreValid(m) ==
  \A c \in ToSet(m.components) : \A s \in ToSet(Secrets(c)) :
    \E p \in m.policies : p.name = s.policy /\ p.secret /\ p.backend

(* A component has an image, or it is one of a shared application, which   *)
(* configures and scales it.                                               *)
PropertiesAreValid(m) ==
  \A c \in ToSet(m.components) :
    /\ c.image = None <=> c.shared # None
    /\ c.shared # None => /\ c.config = <<>>
                          /\ c.secrets = <<>>
                          /\ \A t \in ToSet(c.traits) : ~IsScaler(t)

NoSameLinks(m) ==    \* mutant: lists of interfaces are compared as a whole
  \A c \in ToSet(m.components) :
    NoRepeats([i \in DOMAIN Links(c) |->
                 <<Links(c)[i].name, Links(c)[i].wit, Links(c)[i].interfaces>>])

NoDuplicateLinks(m) ==
  \A c \in ToSet(m.components) :
    NoRepeats(EachOf(LAMBDA t : [i \in DOMAIN t.interfaces |->
                                   <<t.name, t.wit, t.interfaces[i]>>], Links(c)))

Own(configs) == Among(configs, {g \in ToSet(configs) : g.value # None})

TargetConfigsAreUnique(m) ==    \* mutant: the configs of sources are forgotten
  LET configs == EachOf(LAMBDA t : Own(t.to.config), AllLinks(m))
  IN  NoRepeats([i \in DOMAIN configs |-> configs[i].name])

(* The configs that links bring along have names of their own.             *)
LinkConfigsAreUnique(m) ==
  LET configs == EachOf(LAMBDA t : Own(t.to.config) \o Own(t.source.config), AllLinks(m))
  IN  NoRepeats([i \in DOMAIN configs |-> configs[i].name])

Valid(m) ==
  /\ NameIsValid(m)
  /\ VersionIsValid(m)
  /\ CoreIsValid(m)
  /\ PoliciesAreValid(m)
  /\ NoCustomTraits(m)
  /\ PropertiesAreValid(m)
  /\ NoDuplicateLinks(m)
  /\ LinkConfigsAreUnique(m)
-----------------------------------------------------------------------------
(* The scalers: what identifies one (id), and the configs and secrets that *)
(* it requires.                                                            *)
ComponentId(app, id, name) == IF id # None THEN id ELSE IdOf(app, name)

SecretId(app, name) == <<"secret", IdOf(app, name)>>

ConfigName(app, g) == IF g.value # None THEN IdOf(app, g.name) ELSE g.name

ConfigScalers(app, configs) ==
  [i \in DOMAIN configs |-> [name |-> ConfigName(app, configs[i]), value |-> configs[i].value,
                             secret |-> FALSE, policies |-> {}]]

(* The code unwraps the policy, and expects it to have a backend.          *)
SecretScalers(m, secrets) ==
  [i \in DOMAIN secrets |->
     [name |-> SecretId(m.name, secrets[i].name),
      value |-> <<secrets[i].name, secrets[i].policy>>,
      secret |-> TRUE,
      policies |-> {p \in m.policies : p.name = secrets[i].policy}]]

NamesOf(scalers) == [i \in DOMAIN scalers |-> scalers[i].name]

(* Which application runs a component, and what it is called there.        *)
Resolves(c) == c.image = None <=> c.shared # None
Application(m, c) == IF c.image # None THEN m.name ELSE c.shared.app
NameThere(c) == IF c.image # None THEN c.name ELSE c.shared.component
IdThere(m, c) == ComponentId(Application(m, c), c.id, NameThere(c))

Placeholder(kind, c) ==
  [id |-> [kind |-> "status", instead |-> kind, name |-> c.name], requires |-> {}]

LinkScaler(m, c, t, target) ==
  LET from == ConfigScalers(m.name, t.source.config)
      to == ConfigScalers(m.name, t.to.config)
      fromSecrets == SecretScalers(m, t.source.secrets)
      toSecrets == SecretScalers(m, t.to.secrets)
  IN  IF ~Resolves(target)
      THEN Placeholder("link", target)
      ELSE [id |-> [kind |-> "link", model |-> Application(m, c), name |-> t.name,
                    source |-> IdThere(m, c), target |-> IdThere(m, target),
                    wit |-> t.wit, interfaces |-> t.interfaces,
                    configs |-> NamesOf(from) \o NamesOf(fromSecrets)
                                  \o NamesOf(to) \o NamesOf(toSecrets)],
            requires |-> ToSet(from \o to) \cup ToSet(fromSecrets \o toSecrets)]

(* The spread or daemon scaler of a component or provider.                 *)
WorkloadScaler(m, c, kind) ==
  LET configs == ConfigScalers(m.name, c.config)
      secrets == SecretScalers(m, c.secrets)
  IN  [id |-> [kind |-> kind, model |-> m.name, name |-> c.name, component |-> IdThere(m, c),
               image |-> c.image, configs |-> NamesOf(configs) \o NamesOf(secrets)],
       requires |-> ToSet(configs) \cup ToSet(secrets)]

(* Providers are linked to components only; the first component that has   *)
(* the name counts.                                                        *)
LinkTo(m, c, t) ==
  LET targets == Among(m.components, {x \in ToSet(m.components) :
                                        /\ x.name = t.target
                                        /\ ~(c.capability /\ x.capability)})
  IN  IF targets = <<>> THEN <<>> ELSE <<LinkScaler(m, c, t, Head(targets))>>

TraitScalers(m, c, t) ==
  CASE IsScaler(t) /\ t.as = "scaler" /\ c.image # None -> <<WorkloadScaler(m, c, t.type)>>
    [] IsLink(t) /\ t.as = "link" -> LinkTo(m, c, t)
    [] OTHER -> <<>>

(* A provider needs no scaler in the manifest to run once.                 *)
DefaultScaler(m, c) ==
  IF c.capability /\ c.image # None /\ \A t \in ToSet(c.traits) : ~(IsScaler(t) /\ t.as = "scaler")
  THEN <<WorkloadScaler(m, c, "spreadscaler")>>
  ELSE <<>>

ComponentScalers(m, c) ==
  IF Resolves(c)
  THEN EachOf(LAMBDA t : TraitScalers(m, c, t), c.traits) \o DefaultScaler(m, c)
  ELSE <<Placeholder("spreadscaler", c)>>

ScalersOf(m) == EachOf(LAMBDA c : ComponentScalers(m, c), m.components)
-----------------------------------------------------------------------------
(* What the code relies on when it converts a manifest that was found      *)
(* valid.                                                                  *)

(* Every component and every target of a link resolves, and every secret   *)
(* that a scaler requires has a policy with a backend: the conversion      *)
(* leaves no placeholder and does not panic.                               *)
Converts(m) ==
  \A s \in ToSet(ScalersOf(m)) :
    /\ s.id.kind # "status"
    /\ \A r \in s.requires : r.secret => \E p \in r.policies : p.secret /\ p.backend

(* A call through a link is routed one way: each interface of each link    *)
(* has one link scaler, unless a provider is to be linked to a provider.   *)
Routes(m) ==
  LET ofLinks == Among(ScalersOf(m), {s \in ToSet(ScalersOf(m)) : s.id.kind = "link"})
  IN  \A c \in ToSet(m.components) : \A t \in ToSet(Links(c)) : \A k \in ToSet(t.interfaces) :
        LET target == CHOOSE x \in ToSet(m.components) : x.name = t.target
            there == {i \in DOMAIN ofLinks : LET l == ofLinks[i].id
                                             IN  /\ l.source = IdThere(m, c)
                                                 /\ l.name = t.name /\ l.wit = t.wit
                                                 /\ k \in ToSet(l.interfaces)}
        IN  IF c.capability /\ target.capability
            THEN there = {}
            ELSE /\ Cardinality(there) = 1
                 /\ \A i \in there : ofLinks[i].id.target = IdThere(m, target)

(* Names of its links' configs that differ still do as ids: no check sees  *)
(* to that ("a-b" and "a_b" have the same id).                             *)
IdsApart(m) ==
  LET links == UNION {ToSet(Links(c)) : c \in ToSet(m.components)}
      own == {g \in UNION {ToSet(t.source.config) \cup ToSet(t.to.config) : t \in links} :
                g.value # None}
  IN  \A g, k \in own : ConfigName(m.name, g) = ConfigName(m.name, k) => g.name = k.name

(* No two links bring along a config of one name with different values: it *)
(* would be put in turn for the one and for the other.  (Of their secrets  *)
(* nothing of the kind is checked.)                                        *)
LinkConfigsAgree(m) ==
  LET required == UNION {s.requires : s \in {x \in ToSet(ScalersOf(m)) : x.id.kind = "link"}}
      own == {r \in required : ~r.secret /\ r.value # None}
  IN  \A r1, r2 \in own : r1.name = r2.name => r1 = r2
=============================================================================
