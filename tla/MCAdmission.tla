----------------------------- MODULE MCAdmission -----------------------------
(* Instances of Admission for TLC: one path of each class the two middlewares  *)
(* tell apart, and payloads that move a path from one class to another.        *)
EXTENDS Admission

Entry(n, e, rails, rule) ==
    [place |-> n, endpoint |-> e, rails |-> rails, rule |-> rule, machine |-> TRUE]

MCMatches == [p \in Path |-> {p} \cap Endpoint]
MCDefaults == [
    source |-> "defaults", ttl |-> 1, rails |-> {},
    policies |-> {Entry(3, "/screener", Rail, "screener")},
    freeMetered |-> {"/context"}, agentPay |-> {"/stim"}, bypass |-> MachineRail,
    enforce |-> {"/stim"}]

Silent == [ttl |-> 0, rails |-> {}, policies |-> {}, freeMetered |-> Absent,
           agentPay |-> Absent, bypass |-> Absent, enforce |-> Absent]

\* A further endpoint that takes no subscription; a default endpoint that no
\* longer takes one, and a prefix more; prefixes that cover different paths.
MCPayloads == {
    Silent,
    [Silent EXCEPT !.policies = {Entry(1, "/plain", {"x402"}, NoRule)}],
    [Silent EXCEPT !.policies = {Entry(1, "/screener", {"x402"}, "screener")},
                   !.agentPay = {"/stim", "/plain"}],
    [Silent EXCEPT !.agentPay = {"/stim"}, !.enforce = {"/plain"}, !.freeMetered = {"/screener"}]}

\* A preflight or a missing artifact makes the rest of a caller irrelevant.
MCCallers == {c \in Caller :
    /\ c.preflight \/ c.gone => c.key = "none" /\ c.agent = "none" /\ c.method = "none"
    /\ c.preflight => c.path = "/plain"
    /\ c.gone => c.path = "/screener" /\ ~c.preflight
    /\ c.path \in OpenPath => c.agent = "none" /\ c.method = "none"
    /\ c.method # "mpp" /\ (c.method = "none" => c.agent # "vendor")
    /\ c.path \in {"/catalog", "/other"} => c.agent = "none" /\ c.key \in {"none", "other"}
    /\ c.key = "bad" => c.agent = "none"}
=============================================================================
