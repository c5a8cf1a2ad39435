-------------------------- MODULE X402Claims_proofs --------------------------
(***************************************************************************)
(* Safety of X402Claims for any number of requests, authorizations,        *)
(* encodings and workers, any faults and any rollout.                      *)
(***************************************************************************)
EXTENDS X402Claims, TLAPS

-----------------------------------------------------------------------------
(* The inductive invariant.                                                *)

\* A request inside enforce_x402_payment, or one that got through it.
Enforcing == {"replay", "verify", "acquire", "settle", "await",
              "recordSettled", "recordUncertain", "execute"}
Passed(r) == outcome[r] = "proceed"

\* What a request that carries an artifact knows of itself.
Artifact ==
    \A r \in Request :
        /\ (pc[r] \in Enforcing \/ post[r] # "none" \/ Passed(r)) =>
              auth[r] \in Auth /\ rid[r] \in RequestId /\ worker[r] \in Worker
        /\ pc[r] \in Enforcing => identity[r] = flags[worker[r]].claims
        /\ pc[r] \in {"acquire", "recordSettled", "recordUncertain"} => identity[r]

\* What has not happened yet to a request at its place in the code.
Progress ==
    \A r \in Request :
        /\ pc[r] \in {"idle", "replay", "verify", "acquire", "settle"} => post[r] = "none"
        /\ pc[r] = "idle" => ~identity[r] /\ outcome[r] = "open"
        /\ pc[r] \in Enforcing \ {"execute"} => outcome[r] = "open"
        /\ pc[r] = "execute" => Passed(r) /\ r \notin executed
        /\ r \in executed => Passed(r) /\ pc[r] \notin {"idle"} \cup Enforcing

\* A claim row and the request that inserted it.
Rows ==
    \A a \in Auth :
        /\ claim[a] = "none" <=> claimant[a] = Nobody
        /\ \A r \in Request : claimant[a] = r =>
              pc[r] # "idle" /\ auth[r] = a /\ owner[a] = rid[r] /\ identity[r]

\* Between winning its claim and recording the outcome a request owns it.
Ownership ==
    \A r \in Request : identity[r] =>
        /\ pc[r] \in {"settle", "await", "recordSettled", "recordUncertain"} =>
              claimant[auth[r]] = r /\ claim[auth[r]] = "settling"
        /\ post[r] # "none" => claimant[auth[r]] = r

\* Where the funds are.
Funds ==
    /\ \A r \in Request :
          /\ post[r] = "ok" => auth[r] \in moved
          /\ pc[r] = "recordSettled" => post[r] = "ok"
          /\ Passed(r) => /\ post[r] = "ok"
                          /\ identity[r] => claim[auth[r]] = "settled"
    /\ \A a \in Auth : claim[a] = "settled" => a \in moved
    /\ \A a \in moved : \E r \in Request : auth[r] = a /\ post[r] # "none"

Inv == TypeOK /\ Artifact /\ Progress /\ Rows /\ Ownership /\ Funds

-----------------------------------------------------------------------------
(* Type correctness.                                                       *)

\* Rows written are of the type of rows.
LEMMA RowTypes ==
    /\ NoRow \in Row
    /\ TypeOK => \A r \in Request : EconRow(r) \in Row
BY DEF Row, NoRow, EconRow, TypeOK, Ref, NoRef, ReferenceOf, ArtifactRef, IdentityRef,
       EconStatus, StatusOf, Outcome, Rejections

\* A fleet that has served nothing is well typed.
LEMMA InitType == Init => TypeOK
BY FleetAssumption, RowTypes DEF Init, TypeOK, Pc, Outcome, claimVars

\* Every step keeps the types.
LEMMA NextType == TypeOK /\ Artifact /\ [Next]_vars => TypeOK'
<1> SUFFICES ASSUME TypeOK, Artifact, [Next]_vars PROVE TypeOK'
    OBVIOUS
<1> USE DEF TypeOK, Pc, Outcome, Rejections, GoTo, Return, reqVars, claimVars, facVars
<1>1. ASSUME NEW r \in Request, Probe(r) PROVE TypeOK'
    BY <1>1 DEF Probe
<1>2. ASSUME NEW r \in Request, Present(r) PROVE TypeOK'
    <2>1. identity' \in [Request -> BOOLEAN]
        <3>1. CASE UNCHANGED identity
            BY <3>1
        <3>2. CASE \E w \in Worker : identity' = [identity EXCEPT ![r] = flags[w].claims]
            BY <3>2 DEF Flags
        <3>3. QED
            BY <1>2, <3>1, <3>2 DEF Present
    <2>2. pc' \in [Request -> Pc] /\ outcome' \in [Request -> Outcome]
        BY <1>2 DEF Present
    <2>3. QED
        BY <1>2, <2>1, <2>2 DEF Present
<1>3. ASSUME NEW r \in Request, ReplayCheck(r) PROVE TypeOK'
    BY <1>3 DEF ReplayCheck
<1>4. ASSUME NEW r \in Request, Verify(r) PROVE TypeOK'
    BY <1>4 DEF Verify
<1>5. ASSUME NEW r \in Request, Acquire(r) PROVE TypeOK'
    BY <1>5 DEF Acquire, InsertClaim
<1>6. ASSUME NEW r \in Request, PostSettle(r) PROVE TypeOK'
    BY <1>6 DEF PostSettle
<1>7. ASSUME NEW r \in Request, SettleConfirmed(r) \/ SettleUnconfirmed(r) PROVE TypeOK'
    BY <1>7 DEF SettleConfirmed, SettleUnconfirmed
<1>8. ASSUME NEW r \in Request, RecordSettled(r) PROVE TypeOK'
    BY <1>8 DEF RecordSettled, Resolve
<1>9. ASSUME NEW r \in Request, RecordUncertain(r) PROVE TypeOK'
    BY <1>9 DEF RecordUncertain, Resolve
<1>10. ASSUME NEW r \in Request, Execute(r) PROVE TypeOK'
    BY <1>10 DEF Execute
<1>11. ASSUME NEW r \in Request, Finalise(r) PROVE TypeOK'
    <2>1. EconRow(r) \in Row
        BY RowTypes
    <2>2. econ' \in [Request -> Row]
        BY <1>11, <2>1 DEF Finalise, LogEconomics
    <2>3. QED
        BY <1>11, <2>2 DEF Finalise
<1>12. ASSUME NEW r \in Request, FacilitatorSettle(r) PROVE TypeOK'
    BY <1>12 DEF FacilitatorSettle, Artifact
<1>13. ASSUME NEW w \in Worker, Restart(w) PROVE TypeOK'
    BY <1>13 DEF Restart, Live
<1>14. CASE UNCHANGED vars
    BY <1>14 DEF vars
<1>15. QED
    BY <1>1, <1>2, <1>3, <1>4, <1>5, <1>6, <1>7, <1>8, <1>9, <1>10, <1>11, <1>12,
       <1>13, <1>14 DEF Next, Step, Quiescent

-----------------------------------------------------------------------------
(* The inductive invariant is inductive.                                   *)

\* The invariant holds in a fleet that has served nothing.
LEMMA InitInv == Init => Inv
<1> SUFFICES ASSUME Init PROVE Inv
    OBVIOUS
<1>1. TypeOK
    BY InitType
<1>2. Artifact /\ Progress /\ Rows /\ Ownership /\ Funds
    BY NobodyAssumption DEF Init, Artifact, Progress, Rows, Ownership, Funds, Enforcing, Passed
<1>3. QED
    BY <1>1, <1>2 DEF Inv

\* Every step keeps it.
LEMMA NextInv == Inv /\ [Next]_vars => Inv'
<1> SUFFICES ASSUME Inv, [Next]_vars PROVE Inv'
    OBVIOUS
<1>0. TypeOK'
    BY NextType DEF Inv
<1> USE DEF Inv, Artifact, Progress, Rows, Ownership, Funds, Enforcing, Passed, TypeOK,
            GoTo, Return, reqVars, claimVars, facVars
<1>1. ASSUME NEW r \in Request, Probe(r) PROVE Inv'
    BY <1>0, <1>1 DEF Probe
<1>2. ASSUME NEW r \in Request, Present(r) PROVE Inv'
    BY <1>0, <1>2 DEF Present, Flags
<1>3. ASSUME NEW r \in Request, ReplayCheck(r) PROVE Inv'
    BY <1>0, <1>3 DEF ReplayCheck
<1>4. ASSUME NEW r \in Request, Verify(r) PROVE Inv'
    BY <1>0, <1>4 DEF Verify
<1>5. ASSUME NEW r \in Request, Acquire(r) PROVE Inv'
    BY <1>0, <1>5, NobodyAssumption DEF Acquire, InsertClaim
<1>6. ASSUME NEW r \in Request, PostSettle(r) PROVE Inv'
    BY <1>0, <1>6 DEF PostSettle
<1>7. ASSUME NEW r \in Request, SettleConfirmed(r) \/ SettleUnconfirmed(r) PROVE Inv'
    BY <1>0, <1>7 DEF SettleConfirmed, SettleUnconfirmed
<1>8. ASSUME NEW r \in Request, RecordSettled(r) PROVE Inv'
    BY <1>0, <1>8 DEF RecordSettled, Resolve, Resolvable
<1>9. ASSUME NEW r \in Request, RecordUncertain(r) PROVE Inv'
    BY <1>0, <1>9 DEF RecordUncertain, Resolve, Resolvable
<1>10. ASSUME NEW r \in Request, Execute(r) PROVE Inv'
    BY <1>0, <1>10 DEF Execute
<1>11. ASSUME NEW r \in Request, Finalise(r) PROVE Inv'
    BY <1>0, <1>11 DEF Finalise
<1>12. ASSUME NEW r \in Request, FacilitatorSettle(r) PROVE Inv'
    BY <1>0, <1>12 DEF FacilitatorSettle
<1>13. ASSUME NEW w \in Worker, Restart(w) PROVE Inv'
    BY <1>0, <1>13 DEF Restart, Live
<1>14. CASE UNCHANGED vars
    BY <1>0, <1>14 DEF vars
<1>15. QED
    BY <1>1, <1>2, <1>3, <1>4, <1>5, <1>6, <1>7, <1>8, <1>9, <1>10, <1>11, <1>12,
       <1>13, <1>14 DEF Next, Step, Quiescent

\* The inductive invariant holds in every reachable state.
THEOREM Invariance == Spec => []Inv
<1>1. QED
    BY InitInv, NextInv, PTL DEF Spec

\* Every variable keeps its type: the claim table, the economics table and the
\* control of each request (enforce_x402_payment) stay well-formed.
THEOREM TypeCorrect == Spec => []TypeOK
<1>1. Inv => TypeOK
    BY DEF Inv
<1>2. QED
    BY <1>1, Invariance, PTL

-----------------------------------------------------------------------------
(* Consequences.                                                           *)

\* acquire_settling_claim elects the one request that may send a claimed
\* authorization to /settle, for all interleavings, faults and rollouts.
THEOREM SettlementElection == Spec => []SettlesOnlyOwnClaim
<1>1. Inv => SettlesOnlyOwnClaim
    BY DEF Inv, Ownership, SettlesOnlyOwnClaim
<1>2. QED
    BY <1>1, Invariance, PTL

\* The paid endpoint runs only for funds that moved, under a durably settled
\* claim of its own, and at most once for each claim.
THEOREM ExecutionIsPaid == Spec => []ExecutedIsPaid
<1>1. ASSUME Inv PROVE ExecutedIsPaid
    <2>1. ASSUME NEW r \in executed
          PROVE  /\ r \in Request /\ auth[r] \in Auth
                 /\ post[r] = "ok" /\ auth[r] \in moved
                 /\ identity[r] => claim[auth[r]] = "settled" /\ claimant[auth[r]] = r
        BY <1>1, <2>1 DEF Inv, TypeOK, Artifact, Progress, Ownership, Funds, Passed
    <2>2. \A r \in executed : identity[r] => owner[auth[r]] = rid[r]
        BY <1>1, <2>1 DEF Inv, Rows
    <2>3. QED
        BY <2>1, <2>2 DEF ExecutedIsPaid
<1>2. QED
    BY <1>1, Invariance, PTL

\* A claim says 'settled' only of moved funds, and every transfer can be
\* reconciled from a claim row or was sent by a non-claiming worker.
THEOREM FundsReconcile == Spec => []ClaimsMatchFunds
<1>1. ASSUME Inv PROVE ClaimsMatchFunds
    <2>1. ASSUME NEW a \in moved, claim[a] = "none"
          PROVE  \E r \in Request : auth[r] = a /\ ~identity[r] /\ post[r] # "none"
        <3>1. PICK r \in Request : auth[r] = a /\ post[r] # "none"
            BY <1>1 DEF Inv, Funds
        <3>2. ~identity[r]
            BY <1>1, <2>1, <3>1, NobodyAssumption DEF Inv, TypeOK, Rows, Ownership
        <3>3. QED
            BY <3>1, <3>2
    <2>2. QED
        BY <1>1, <2>1 DEF Inv, Funds, ClaimsMatchFunds
<1>2. QED
    BY <1>1, Invariance, PTL

\* No step removes, re-owns or reopens a claim row (_resolve touches only rows
\* that are still 'settling').
LEMMA ClaimStep == Inv /\ [Next]_vars =>
    \A a \in Auth : claim[a] # "none" =>
        /\ owner'[a] = owner[a] /\ claimant'[a] = claimant[a]
        /\ claim'[a] # claim[a] => claim[a] = "settling" /\ claim'[a] \in {"settled", "uncertain"}
<1> SUFFICES ASSUME Inv, [Next]_vars, NEW a \in Auth, claim[a] # "none"
             PROVE  /\ owner'[a] = owner[a] /\ claimant'[a] = claimant[a]
                    /\ claim'[a] # claim[a] =>
                          claim[a] = "settling" /\ claim'[a] \in {"settled", "uncertain"}
    OBVIOUS
<1> USE DEF Inv, TypeOK, claimVars
<1>1. ASSUME NEW r \in Request, Acquire(r) PROVE
          owner'[a] = owner[a] /\ claimant'[a] = claimant[a] /\ claim'[a] = claim[a]
    BY <1>1 DEF Acquire, InsertClaim
<1>2. ASSUME NEW r \in Request, RecordSettled(r) \/ RecordUncertain(r) PROVE
          /\ UNCHANGED <<owner, claimant>>
          /\ claim'[a] # claim[a] => claim[a] = "settling" /\ claim'[a] \in {"settled", "uncertain"}
    BY <1>2 DEF RecordSettled, RecordUncertain, Resolve, Resolvable
<1>3. CASE UNCHANGED claimVars
    BY <1>3
<1>4. QED
    BY <1>1, <1>2, <1>3 DEF Next, Step, Quiescent, vars, Probe, Present, ReplayCheck, Verify,
       PostSettle, SettleConfirmed, SettleUnconfirmed, Execute, Finalise,
       FacilitatorSettle, Restart

\* A resolved claim is resolved for good, and no claim changes hands.
THEOREM ClaimFinality == Spec => ClaimIsFinal
<1>1. Inv /\ [Next]_vars =>
          [\A a \in Auth : claim[a] # "none" =>
              /\ owner'[a] = owner[a]
              /\ claim'[a] # claim[a] => claim[a] = "settling" /\ claim'[a] # "none"]_vars
    BY ClaimStep
<1>2. QED
    BY <1>1, Invariance, PTL DEF Spec, ClaimIsFinal

\* The economics log never reports a settlement the funds or the claim table
\* contradict, although any row may be overwritten through its request id.
THEOREM EconomicsAgreement == Spec => []EconomicsAgree
<1>1. Init => EconomicsAgree
    BY DEF Init, EconomicsAgree, NoRow
<1>2. ASSUME Inv, EconomicsAgree, [Next]_vars PROVE EconomicsAgree'
    <2>0. /\ moved \subseteq moved' /\ moved \subseteq Auth
          /\ \A a \in Auth : claim[a] = "settled" => claim'[a] = "settled"
        <3>1. moved \subseteq moved'
            BY <1>2 DEF Next, Step, Quiescent, vars, Probe, Present, ReplayCheck, Verify,
               Acquire, RecordSettled, RecordUncertain,
               PostSettle, SettleConfirmed, SettleUnconfirmed, Execute, Finalise,
               FacilitatorSettle, Restart, facVars
        <3>2. QED
            BY <1>2, <3>1, ClaimStep DEF Inv, TypeOK
    <2>1. CASE UNCHANGED econ
        BY <1>2, <2>0, <2>1 DEF EconomicsAgree
    <2>2. ASSUME NEW r \in Request, Finalise(r), ~UNCHANGED econ PROVE EconomicsAgree'
        <3>1. LogEconomics(r) /\ UNCHANGED <<claim, moved>>
            BY <2>2 DEF Finalise, claimVars, facVars
        <3>2. EconRow(r).status = "settled" =>
                 /\ EconRow(r).ref.auth \in moved
                 /\ EconRow(r).ref.kind = "identity" => claim[EconRow(r).ref.auth] = "settled"
            <4>1. EconRow(r).status = "settled" => Passed(r)
                BY <1>2 DEF EconRow, StatusOf, Passed, Inv, TypeOK, Outcome, Rejections
            <4>2. Passed(r) => /\ auth[r] \in moved
                               /\ identity[r] => claim[auth[r]] = "settled"
                BY <1>2 DEF Inv, Funds
            <4>3. Passed(r) => EconRow(r).ref = IF identity[r] THEN IdentityRef(auth[r])
                                                ELSE ArtifactRef(auth[r], enc[r])
                BY DEF EconRow, ReferenceOf, Passed
            <4>4. QED
                BY <4>1, <4>2, <4>3 DEF IdentityRef, ArtifactRef
        <3>3. ASSUME NEW k \in Request PROVE econ'[k] = econ[k] \/ econ'[k] = EconRow(r)
            BY <1>2, <3>1 DEF LogEconomics, Inv, TypeOK
        <3>4. QED
            BY <1>2, <3>1, <3>2, <3>3 DEF EconomicsAgree
    <2>3. QED
        BY <1>2, <2>1, <2>2 DEF Next, Step, Quiescent, vars, Probe, Present, ReplayCheck,
           Verify, Acquire, RecordSettled, RecordUncertain,
           PostSettle, SettleConfirmed, SettleUnconfirmed, Execute,
           FacilitatorSettle, Restart
<1>3. QED
    BY <1>1, <1>2, Invariance, PTL DEF Spec

\* Both tables are true of the funds: what a claim row and what an economics row
\* call settled was settled.
THEOREM RecordsAreTrue == Spec => []RecordsMatchFunds
<1>1. QED
    BY FundsReconcile, EconomicsAgreement, PTL DEF RecordsMatchFunds

\* What a request past the suspension check knows of its worker, and what the
\* operators keep: dead requests aside, it runs under the flags it read.
FleetInv ==
    /\ FleetRule(flags)
    /\ \A r \in Request : Settling(r) => ~flags[worker[r]].suspended

\* Under the operating rule no request of a claiming worker is past the
\* suspension check beside one of a worker that does not claim: the rollout and
\* its reverse never let the two modes race to settle.
THEOREM ModesAreKeptApart ==
    ASSUME \A f \in InitFleets : FleetRule(f)
    PROVE  Spec => []ModesNeverRace
<1>1. Init => FleetInv
    BY DEF Init, FleetInv, Settling
<1>2. ASSUME Inv, FleetInv, [Next]_vars PROVE FleetInv'
    <2> USE <1>2 DEF Inv, TypeOK, FleetInv, Settling, Enforcing, Pc, GoTo, Return
    <2>1. ASSUME NEW w \in Worker, Restart(w) PROVE FleetInv'
        <3>1. FleetRule(flags')
            BY <2>1 DEF Restart
        <3>2. ASSUME NEW r \in Request, Settling(r)' PROVE ~flags'[worker'[r]].suspended
            <4>1. Settling(r) /\ worker[r] # w /\ worker'[r] = worker[r]
                BY <2>1, <3>2 DEF Restart, Live
            <4>2. worker[r] \in Worker
                BY <4>1 DEF Artifact
            <4>3. QED
                BY <2>1, <4>1, <4>2 DEF Restart
        <3>3. QED
            BY <3>1, <3>2 DEF FleetRule
    <2>2. ASSUME NEW r \in Request, Verify(r) PROVE FleetInv'
        BY <2>2 DEF Verify, FleetRule
    <2>3. ASSUME UNCHANGED flags,
                 \A r \in Request : Settling(r)' => Settling(r) /\ worker'[r] = worker[r]
          PROVE FleetInv'
        BY <2>3 DEF FleetRule
    <2>4. CASE UNCHANGED vars
        BY <2>3, <2>4 DEF vars, reqVars
    <2>5. ASSUME NEW r \in Request,
                 \/ Probe(r) \/ Present(r) \/ ReplayCheck(r) \/ Acquire(r) \/ PostSettle(r)
                 \/ SettleConfirmed(r) \/ SettleUnconfirmed(r) \/ RecordSettled(r)
                 \/ RecordUncertain(r) \/ Execute(r) \/ Finalise(r) \/ FacilitatorSettle(r)
          PROVE FleetInv'
        <3>1. UNCHANGED flags
            BY <2>5 DEF Probe, Present, ReplayCheck, Acquire, PostSettle, SettleConfirmed,
               SettleUnconfirmed, RecordSettled, RecordUncertain, Execute, Finalise,
               FacilitatorSettle
        <3>2. ASSUME NEW s \in Request, Settling(s)'
              PROVE Settling(s) /\ worker'[s] = worker[s]
            BY <2>5, <3>2 DEF Probe, Present, ReplayCheck, Acquire, PostSettle,
               SettleConfirmed, SettleUnconfirmed, RecordSettled, RecordUncertain, Execute,
               Finalise, FacilitatorSettle, reqVars
        <3>3. QED
            BY <2>3, <3>1, <3>2
    <2>6. QED
        BY <2>1, <2>2, <2>4, <2>5 DEF Next, Step, Quiescent
<1>3. Inv /\ FleetInv => ModesNeverRace
    BY DEF Inv, FleetInv, ModesNeverRace, Settling, FleetRule, Artifact, Enforcing
<1>4. QED
    BY <1>1, <1>2, <1>3, Invariance, PTL DEF Spec

-----------------------------------------------------------------------------
(* Refinement.                                                             *)

\* The claim protocol implements the settlement ledger: every step takes an
\* authorization, closes its verdict, delivers paid work, or changes nothing
\* the ledger can see.
THEOREM Refinement == Spec => ImplementsLedger
<1>1. Init => Ledger!Init
    BY DEF Init, Ledger!Init
<1>2. ASSUME Inv, Inv', [Next]_vars PROVE [Ledger!Next]_(Ledger!vars)
    <2> USE DEF claimVars, facVars, reqVars, Ledger!vars
    <2>1. ASSUME NEW r \in Request, Acquire(r) PROVE [Ledger!Next]_(Ledger!vars)
        BY <1>2, <2>1, NobodyAssumption DEF Acquire, InsertClaim, GoTo, Return, Inv, TypeOK,
           Artifact, Enforcing, Rows, Ledger!Next, Ledger!Take
    <2>2. ASSUME NEW r \in Request, NEW s \in {"settled", "uncertain"}, Resolve(r, s),
                 UNCHANGED <<executed, identity>>, auth[r] \in Auth
          PROVE [Ledger!Next]_(Ledger!vars)
        <3>1. CASE ~Resolvable(r)
            BY <2>2, <3>1 DEF Resolve
        <3>2. CASE Resolvable(r)
            <4>1. /\ claim' = [claim EXCEPT ![auth[r]] = s]
                  /\ UNCHANGED <<owner, claimant, executed, identity>>
                BY <2>2, <3>2 DEF Resolve
            <4>2. claim[auth[r]] = "settling" /\ claimant[auth[r]] # Nobody
                BY <1>2, <2>2, <3>2 DEF Resolvable, Inv, Rows
            <4>3. claim' \in [Auth -> {"none", "settling", "settled", "uncertain"}]
                BY <1>2 DEF Inv, TypeOK
            <4>4. Ledger!Close(auth[r], s)
                <5>1. \A a \in Auth : claim'[a] = IF a = auth[r] THEN s ELSE claim[a]
                    BY <1>2, <4>1 DEF Inv, TypeOK
                <5>2. [a \in Auth |-> IF claim'[a] \in {"none", "settling"} THEN "open" ELSE claim'[a]]
                        = [[a \in Auth |-> IF claim[a] \in {"none", "settling"} THEN "open" ELSE claim[a]]
                              EXCEPT ![auth[r]] = s]
                    BY <2>2, <5>1
                <5>3. {q \in executed' : identity'[q]} = {q \in executed : identity[q]}
                    BY <4>1
                <5>4. QED
                    BY <2>2, <4>1, <4>2, <5>2, <5>3 DEF Ledger!Close
            <4>5. QED
                BY <2>2, <4>4 DEF Ledger!Next
        <3>3. QED
            BY <3>1, <3>2
    <2>3. ASSUME NEW r \in Request, RecordSettled(r) \/ RecordUncertain(r)
          PROVE [Ledger!Next]_(Ledger!vars)
        BY <1>2, <2>2, <2>3 DEF RecordSettled, RecordUncertain, Return, Inv, Artifact, Enforcing
    <2>4. ASSUME NEW r \in Request, Execute(r) PROVE [Ledger!Next]_(Ledger!vars)
        <3>1. UNCHANGED <<claimVars, identity>> /\ executed' = executed \cup {r}
            BY <2>4 DEF Execute, GoTo
        <3>2. CASE ~identity[r]
            BY <3>1, <3>2
        <3>3. CASE identity[r]
            <4>1. /\ auth[r] \in Auth /\ claimant[auth[r]] = r
                  /\ claim[auth[r]] = "settled" /\ r \notin executed
                BY <1>2, <2>4, <3>3 DEF Execute, Inv, Artifact, Progress, Ownership, Funds,
                   Enforcing, Passed
            <4>2. Ledger!Deliver(auth[r], r)
                BY <3>1, <3>3, <4>1 DEF Ledger!Deliver
            <4>3. QED
                BY <4>1, <4>2 DEF Ledger!Next
        <3>4. QED
            BY <3>2, <3>3
    <2>5. ASSUME NEW r \in Request, Present(r) PROVE [Ledger!Next]_(Ledger!vars)
        BY <1>2, <2>5 DEF Present, Inv, TypeOK, Progress
    <2>6. CASE UNCHANGED <<claimVars, executed, identity>>
        BY <2>6
    <2>7. QED
        BY <1>2, <2>1, <2>3, <2>4, <2>5, <2>6 DEF Next, Step, Quiescent, vars, Probe,
           ReplayCheck, Verify, PostSettle, SettleConfirmed, SettleUnconfirmed, Finalise,
           FacilitatorSettle, Restart, GoTo, Return
<1>3. QED
    BY <1>1, <1>2, Invariance, PTL DEF Spec, ImplementsLedger, Ledger!Spec
=============================================================================
