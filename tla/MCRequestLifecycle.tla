-------------------------- MODULE MCRequestLifecycle --------------------------
(* Instances of RequestLifecycle for TLC: which requests arrive.             *)
EXTENDS RequestLifecycle, TLC

AllEnvs == Env

\* Requests without a payment: only what their early exits depend on varies.
Unpaid == {p \in Profile :
    /\ p.decision # "agent_pay"
    /\ p.method = "other" /\ ~p.proof /\ p.ref = NoRef /\ ~p.scope
    /\ ~p.priced /\ ~p.fixed}
Paid == {p \in Profile : p.decision = "agent_pay" /\ (p.proof => p.method = "x402")}
Everything == Unpaid \cup Paid
=============================================================================
