----------------------------- MODULE PolicyConfig -----------------------------
(***************************************************************************)
(* The payment policy as data (payments/policy_provider.py): what becomes   *)
(* of a control-plane payload when it is parsed, repaired and completed     *)
(* from the hardcoded defaults, and the questions the middlewares ask of a  *)
(* configuration.  A path stands for a path and its HTTP method, a list of  *)
(* paths or prefixes for the set of paths it covers.  The endpoint policies  *)
(* are a list that is searched from the front: each has its place in it.    *)
(***************************************************************************)
EXTENDS Integers

CONSTANTS
    Path,           \* requests, by path and method
    Endpoint,       \* path pattern and method of an endpoint policy
    Matches,        \* the endpoints whose pattern a path matches
    PublicPath,     \* paths no endpoint policy applies to
    Rule,           \* names of pricing rules in the catalogue
    Uuid,           \* a control-plane identifier in the place of a rule name
    NoRule,         \* no pricing rule
    NoPolicy,       \* no endpoint policy
    Absent,         \* a list the payload does not carry, or carries empty
    Defaults        \* what _default_policy_config returns

Rail == {"subscription", "x402", "mpp"}
MachineRail == {"x402", "mpp"}

Policy == [
    place:    Nat,
    endpoint: Endpoint,
    rails:    SUBSET Rail,
    rule:     Rule \cup {Uuid, NoRule},
    machine:  BOOLEAN]              \* machine_payments_enabled

\* What the control plane sends, with the entries that cannot be used left out; a
\* ttl of 0 is absent or not positive.
Payload == [
    ttl:         Nat,
    rails:       SUBSET Rail,       \* rails enabled in the environment
    policies:    SUBSET Policy,
    freeMetered: (SUBSET Path) \cup {Absent},
    agentPay:    (SUBSET Path) \cup {Absent},  \* paths under agent_pay_path_prefixes
    bypass:      (SUBSET MachineRail) \cup {Absent},
    enforce:     (SUBSET Path) \cup {Absent}]  \* paths under enforcement_path_prefixes

Config == [
    source:      {"defaults", "control_plane"},
    ttl:         Nat \ {0},
    rails:       SUBSET Rail,
    policies:    SUBSET Policy,
    freeMetered: SUBSET Path,
    agentPay:    SUBSET Path,
    bypass:      SUBSET MachineRail,
    enforce:     SUBSET Path]

Endpoints(policies) == {p.endpoint : p \in policies}
Priced(p) == p.rule \notin {Uuid, NoRule}

\* The defaults name a catalogue rule for each of their endpoints, once.
ASSUME PolicyAssumption ==
    /\ Matches \in [Path -> SUBSET Endpoint]
    /\ PublicPath \subseteq Path
    /\ Uuid \notin Rule /\ NoRule \notin Rule /\ NoPolicy \notin Policy
    /\ Defaults \in Config /\ Defaults.source = "defaults"
    /\ \A p, q \in Defaults.policies :
          Priced(p) /\ (p.endpoint = q.endpoint \/ p.place = q.place => p = q)

-----------------------------------------------------------------------------
(* _parse_config_payload.                                                  *)

HasDefault(p) == p.endpoint \in Endpoints(Defaults.policies)
DefaultFor(p) == CHOOSE d \in Defaults.policies : d.endpoint = p.endpoint

\* _repair_cp_policy: an entry that has a default gets its rule name in place of
\* none or of an identifier, and the machine rails it omitted.
Repair(p) ==
    IF ~HasDefault(p) THEN p
    ELSE LET d == DefaultFor(p) IN
         [p EXCEPT !.rule = IF Priced(p) THEN @ ELSE d.rule,
                   !.rails = @ \cup (d.rails \cap MachineRail)]

Uncovered(policies) == {d \in Defaults.policies : d.endpoint \notin Endpoints(policies)}

\* Mutant: the control plane's list replaces the defaults.
Complete_NoGapFill(policies) ==
    IF policies = {} THEN Defaults.policies ELSE {Repair(p) : p \in policies}

\* The control plane's entries, repaired, in front of the defaults of the endpoints
\* they do not cover; the defaults alone if there are none.
Complete(policies) ==
    IF policies = {} THEN Defaults.policies
    ELSE {Repair(p) : p \in policies} \cup Uncovered(policies)

OrDefault(list, default) == IF list = Absent THEN default ELSE list

Parse(payload) == [
    source      |-> "control_plane",
    ttl         |-> IF payload.ttl > 0 THEN payload.ttl ELSE Defaults.ttl,
    rails       |-> payload.rails,
    policies    |-> Complete(payload.policies),
    freeMetered |-> OrDefault(payload.freeMetered, Defaults.freeMetered),
    agentPay    |-> OrDefault(payload.agentPay, Defaults.agentPay),
    bypass      |-> OrDefault(payload.bypass, Defaults.bypass),
    enforce     |-> OrDefault(payload.enforce, Defaults.enforce)]

-----------------------------------------------------------------------------
(* Questions asked of a configuration.                                     *)

\* _lookup_exact_endpoint_policy: the first entry whose pattern matches.
Lookup(cfg, path) ==
    LET hits == {p \in cfg.policies : p.endpoint \in Matches[path]}
    IN  IF path \in PublicPath \/ hits = {} THEN NoPolicy
        ELSE CHOOSE p \in hits : \A q \in hits : p.place <= q.place

Governed(cfg, path) == Lookup(cfg, path) # NoPolicy

\* The effective rails: those the environment enables (an environment that names
\* none enables all), without the machine rails if they are switched off.
AllowedRails(cfg, path) ==
    LET p == Lookup(cfg, path)
    IN  {r \in p.rails : /\ cfg.rails = {} \/ r \in cfg.rails
                         /\ r \in MachineRail => p.machine}
MachineRails(cfg, path) == AllowedRails(cfg, path) \cap MachineRail
AllowsSubscription(cfg, path) == "subscription" \in AllowedRails(cfg, path)

IsAgentPayRoute(cfg, path) ==
    IF Governed(cfg, path) THEN MachineRails(cfg, path) # {} ELSE path \in cfg.agentPay
IsEnforcementPath(cfg, path) ==
    IF Governed(cfg, path) THEN MachineRails(cfg, path) # {} ELSE path \in cfg.enforce
BypassMethods(cfg, path) ==
    IF Governed(cfg, path) THEN MachineRails(cfg, path)
    ELSE IF path \in cfg.agentPay THEN cfg.bypass ELSE {}

-----------------------------------------------------------------------------

\* No payload takes a default endpoint out of the policy, leaves it without a
\* catalogue rule, or drops a machine rail the code offers for it.
KeepsDefaults(cfg) ==
    /\ Endpoints(Defaults.policies) \subseteq Endpoints(cfg.policies)
    /\ \A p \in cfg.policies : HasDefault(p) =>
          Priced(p) /\ DefaultFor(p).rails \cap MachineRail \subseteq p.rails
=============================================================================
