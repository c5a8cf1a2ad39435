-------------------------- MODULE SettlementLedger --------------------------
(***************************************************************************)
(* What atomic claims promise, with no database, process or facilitator:   *)
(* an authorization is taken by one request for good, its verdict is       *)
(* reached once, and only the request that took it, under a 'settled'      *)
(* verdict, may have its work delivered.  X402Claims implements this.      *)
(***************************************************************************)
CONSTANTS Request, Auth, Nobody

VARIABLES
    holder,     \* holder[a]: the request that took authorization a
    verdict,    \* verdict[a]: how its settlement ended, if it has
    delivered   \* requests whose paid work was delivered

vars == <<holder, verdict, delivered>>

Init ==
    /\ holder = [a \in Auth |-> Nobody]
    /\ verdict = [a \in Auth |-> "open"]
    /\ delivered = {}

Take(a, r) ==
    /\ holder[a] = Nobody
    /\ holder' = [holder EXCEPT ![a] = r]
    /\ UNCHANGED <<verdict, delivered>>

Close(a, v) ==
    /\ holder[a] # Nobody /\ verdict[a] = "open"
    /\ verdict' = [verdict EXCEPT ![a] = v]
    /\ UNCHANGED <<holder, delivered>>

Deliver(a, r) ==
    /\ holder[a] = r /\ verdict[a] = "settled"
    /\ r \notin delivered
    /\ delivered' = delivered \cup {r}
    /\ UNCHANGED <<holder, verdict>>

Next == \E a \in Auth :
    \/ \E r \in Request : Take(a, r) \/ Deliver(a, r)
    \/ \E v \in {"settled", "uncertain"} : Close(a, v)

Spec == Init /\ [][Next]_vars
=============================================================================
