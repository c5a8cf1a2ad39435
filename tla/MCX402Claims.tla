---------------------------- MODULE MCX402Claims ----------------------------
(* Instances of X402Claims for TLC: fleets, and the symmetry of requests.   *)
EXTENDS X402Claims, TLC

ClaimingFleet == {[w \in Worker |-> [claims |-> TRUE, suspended |-> FALSE]]}
LegacyFleet   == {[w \in Worker |-> [claims |-> FALSE, suspended |-> FALSE]]}
AnyFleet == [Worker -> Flags]
Symmetry == Permutations(Request) \cup Permutations(Worker)
    \cup Permutations(RequestId) \cup Permutations(Encoding)
=============================================================================
