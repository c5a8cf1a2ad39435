---------------------------- MODULE MCPolicyCache ----------------------------
(* Instances of PolicyCache for TLC: two default endpoints and what a control  *)
(* plane may say of them.                                                     *)
EXTENDS PolicyCache, TLC, FiniteSets

Entry(n, e, rails, rule) ==
    [place |-> n, endpoint |-> e, rails |-> rails, rule |-> rule, machine |-> TRUE]

MCMatches == [p \in Path |-> {p} \cap Endpoint]
MCDefaults == [
    source |-> "defaults", ttl |-> 2, rails |-> {},
    policies |-> {Entry(3, "/screener", Rail, "screener"), Entry(4, "/regime", Rail, "regime")},
    freeMetered |-> {}, agentPay |-> {"/stim"}, bypass |-> MachineRail, enforce |-> {"/stim"}]

Silent == [ttl |-> 0, rails |-> {}, policies |-> {}, freeMetered |-> Absent,
           agentPay |-> Absent, bypass |-> Absent, enforce |-> Absent]

\* Nothing but a version; an entry whose rule is an identifier; one that omits a
\* machine rail, in front of an endpoint that has no default.
MCPayloads == {
    Silent,
    [Silent EXCEPT !.ttl = 1, !.policies = {Entry(1, "/screener", Rail, Uuid)}],
    [Silent EXCEPT !.ttl = 2, !.policies = {Entry(1, "/new", {"x402"}, NoRule),
                                            Entry(2, "/regime", {"subscription"}, "cheap")}]}

ThreadSymmetry == Permutations(Thread)
=============================================================================
