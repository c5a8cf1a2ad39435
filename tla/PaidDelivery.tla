---------------------------- MODULE PaidDelivery ----------------------------
(***************************************************************************)
(* What the payment middleware promises of each request: money moves only  *)
(* for a request that owes, while it is open; a request that owes is       *)
(* delivered only after money was arranged; what is taken stays taken and  *)
(* what is released is never taken.  RequestLifecycle implements this.     *)
(***************************************************************************)
CONSTANT Request

VARIABLES
    due,        \* requests that must pay
    funds,      \* funds[r]: none, held (reserved), taken or released
    verdict     \* verdict[r]: open, delivered or refused

vars == <<due, funds, verdict>>

Init ==
    /\ due = {}
    /\ funds = [r \in Request |-> "none"]
    /\ verdict = [r \in Request |-> "open"]

Admit(r) ==
    /\ r \notin due /\ verdict[r] = "open"
    /\ due' = due \cup {r}
    /\ UNCHANGED <<funds, verdict>>

Fund(r) ==
    /\ r \in due /\ verdict[r] = "open" /\ funds[r] = "none"
    /\ \E f \in {"held", "taken"} : funds' = [funds EXCEPT ![r] = f]
    /\ UNCHANGED <<due, verdict>>

Capture(r) ==
    /\ verdict[r] = "open" /\ funds[r] = "held"
    /\ funds' = [funds EXCEPT ![r] = "taken"]
    /\ UNCHANGED <<due, verdict>>

\* A reservation is voided, or expires at any time.
Release(r) ==
    /\ funds[r] = "held"
    /\ funds' = [funds EXCEPT ![r] = "released"]
    /\ UNCHANGED <<due, verdict>>

Deliver(r) ==
    /\ verdict[r] = "open"
    /\ r \in due => funds[r] # "none"
    /\ verdict' = [verdict EXCEPT ![r] = "delivered"]
    /\ UNCHANGED <<due, funds>>

Refuse(r) ==
    /\ verdict[r] = "open"
    /\ verdict' = [verdict EXCEPT ![r] = "refused"]
    /\ UNCHANGED <<due, funds>>

Next == \E r \in Request :
    Admit(r) \/ Fund(r) \/ Capture(r) \/ Release(r) \/ Deliver(r) \/ Refuse(r)

Spec == Init /\ [][Next]_vars
=============================================================================
