----------------------- MODULE RequestLifecycle_proofs -----------------------
(***************************************************************************)
(* Safety of RequestLifecycle for any set of requests, payment references, *)
(* profiles, switches and faults.  The invariant speaks of one request at  *)
(* a time: a step of another request leaves it alone (Frame, Stable).      *)
(***************************************************************************)
EXTENDS RequestLifecycle, TLAPS

-----------------------------------------------------------------------------
(* The inductive invariant, for one request.                               *)

\* Before the endpoint; before its response; after the finaliser's decision.
Early == {"idle", "dispatch", "route", "validator", "gate", "x402", "mpp", "authorize"}
Before == Early \cup {"endpoint"}
Tail == {"logEvent", "logEconomics", "done"}
Closing == {"capture", "void"} \cup Tail

\* What has not happened yet.
Progress(r) ==
    /\ pc[r] \in {"idle", "dispatch"} => gate[r] = "none"
    /\ pc[r] \in Early => /\ funds[r] = "none" /\ outcome[r] = "none"
                          /\ ~collected[r] /\ r \notin executed
    /\ pc[r] \in Before => response[r] = "none" /\ rejection[r] = "none"
    /\ pc[r] \in Before \cup {"finalise"} => exit[r] = "none"
    /\ pc[r] \in Before \cup {"finalise", "capture", "void"} => resolution[r] = "none"

\* What the gate's state says at each place in the code.
Gated(r) ==
    /\ pc[r] \in {"route", "validator", "gate"} =>
          gate[r] = IF Validated(r) \/ Enforced(r) THEN "published" ELSE "none"
    /\ pc[r] \in {"x402", "mpp", "authorize"} =>
          /\ gate[r] = "invoked" /\ Enforced(r)
          /\ req[r].method = IF pc[r] = "x402" THEN "x402" ELSE "mpp"
    /\ pc[r] = "authorize" => valid[r] /\ req[r].ref # NoRef
    /\ gate[r] = "published" => Required(r) /\ funds[r] = "none" /\ rejection[r] = "none"

\* An enforced endpoint runs behind a payment, or past a wrapper that is not
\* there; and then its success does not survive the finaliser.
Covered(r) ==
    /\ (pc[r] = "endpoint" \/ r \in executed) /\ Enforced(r) =>
          \/ gate[r] = "published" /\ req[r].route = "unwrapped"
          \/ collected[r] \/ outcome[r] = "authorized"
    /\ pc[r] \in Closing /\ Enforced(r) /\ response[r] = "ok" => gate[r] # "published"

\* Where the money is, and why.
Money(r) ==
    /\ funds[r] # "none" => Enforced(r) /\ gate[r] = "invoked"
    /\ outcome[r] = "authorized" =>
          /\ req[r].method = "mpp" /\ Enforced(r) /\ funds[r] # "none" /\ gate[r] = "invoked"
          /\ valid[r] /\ req[r].ref # NoRef /\ rejection[r] = "none" /\ exit[r] = "none"
    /\ collected[r] =>
          /\ funds[r] = "taken" /\ rejection[r] = "none" /\ exit[r] = "none"
          /\ \/ req[r].method = "x402"
             \/ req[r].method = "mpp" /\ resolution[r] = "captured"
    /\ funds[r] = "taken" =>
          \/ collected[r]
          \/ resolution[r] = "capture_failed"
          \/ req[r].method = "x402" /\ rejection[r] \in {"failed", "pending"}
    /\ collected[r] \/ outcome[r] = "authorized" =>
          pc[r] \in {"endpoint", "dead"} \/ r \in executed

\* How an authorization ends.
Resolved(r) ==
    /\ resolution[r] # "none" \/ pc[r] \in {"capture", "void"} => outcome[r] = "authorized"
    /\ pc[r] \in Tail /\ outcome[r] = "authorized" => resolution[r] # "none"
    /\ resolution[r] \in {"captured", "capture_failed"} \/ pc[r] = "capture"
          => response[r] = "ok"
    /\ resolution[r] \in {"voided", "void_failed"} \/ pc[r] = "void"
          => response[r] # "ok"
    /\ resolution[r] = "captured" => collected[r]
    /\ resolution[r] = "voided" => funds[r] = "released"

\* What the response and the early exits imply.
Answered(r) ==
    /\ response[r] = "ok" => r \in executed
    /\ rejection[r] = "rejected" => funds[r] = "none" /\ response[r] = "refused"
    /\ exit[r] = "pregate" => gate[r] = "published" /\ response[r] = "refused"
    /\ pc[r] \in Closing /\ gate[r] = "published" /\ response[r] = "refused" =>
          exit[r] \in {"pregate", "breach"}

\* The rows describe the request as it is, and it no longer changes.
Recorded(r) ==
    /\ event[r] # "absent" =>
          /\ pc[r] \in {"logEconomics", "done", "dead"}
          /\ event[r] = "billable" <=> Billable(r)
    /\ econ[r].status # "absent" => pc[r] = "done" /\ econ[r] = EconRow(r)

RInv(r) == Progress(r) /\ Gated(r) /\ Covered(r) /\ Money(r) /\ Resolved(r)
           /\ Answered(r) /\ Recorded(r)
Inv == TypeOK /\ \A r \in Request : RInv(r)

\* Nothing of request s changes.
Untouched(s) ==
    /\ env' = env /\ pc'[s] = pc[s] /\ req'[s] = req[s] /\ gate'[s] = gate[s]
    /\ valid'[s] = valid[s] /\ rejection'[s] = rejection[s] /\ outcome'[s] = outcome[s]
    /\ collected'[s] = collected[s] /\ resolution'[s] = resolution[s] /\ exit'[s] = exit[s]
    /\ response'[s] = response[s] /\ funds'[s] = funds[s] /\ (s \in executed' <=> s \in executed)
    /\ event'[s] = event[s] /\ econ'[s] = econ[s]

-----------------------------------------------------------------------------
(* The invariant is inductive.                                             *)

\* What the invariant of a request speaks of does not change with the others.
LEMMA Stable ==
    ASSUME NEW s \in Request, RInv(s), Untouched(s) PROVE RInv(s)'
BY DEF Untouched, RInv, Progress, Gated, Covered, Money, Resolved, Answered, Recorded,
   Early, Before, Tail, Closing, Required, Enforced, Validated, Billable, EconRow,
   PaymentStatus, X402Status, MppStatus

\* A step of request r.
Act(r) == Arrive(r) \/ Step(r) \/ Crash(r) \/ Expire(r)
\* An action of one request leaves every other alone.
LEMMA Frame ==
    ASSUME TypeOK, NEW r \in Request, Act(r), NEW s \in Request, s # r
    PROVE Untouched(s)
BY DEF TypeOK, Untouched, Act, Step, Goto, Respond, Reject, gateVars, rows, Arrive,
       AnswerEarly, ChallengeEarly, PublishGate, RouteRequest, ValidateSemantics,
       NoGate, Endpoint, ConsultGate, EnforceX402, EnforceMpp, Authorize,
       GateRaises, Finalise, Capture, Void, LogEvent, LogEconomics, Crash, Expire

\* A step of request r keeps the invariant of r.
LEMMA Keeps ==
    ASSUME TypeOK, NEW r \in Request, RInv(r), Act(r) PROVE RInv(r)'
<1> USE DEF TypeOK, RInv, Progress, Gated, Covered, Money, Resolved, Answered, Recorded,
            Early, Before, Tail, Closing, Required, Enforced, Validated, Billable,
            Goto, Respond, Reject, gateVars, rows
<1>1. CASE Arrive(r)
    BY SMTT(40), <1>1 DEF Arrive
<1>2. CASE AnswerEarly(r)
    BY SMTT(40), <1>2 DEF AnswerEarly, Refusal
<1>3. CASE ChallengeEarly(r)
    BY SMTT(40), <1>3 DEF ChallengeEarly
<1>4. CASE PublishGate(r)
    BY SMTT(40), <1>4 DEF PublishGate
<1>5. CASE RouteRequest(r)
    BY SMTT(40), <1>5 DEF RouteRequest, Profile
<1>6. CASE ValidateSemantics(r)
    BY SMTT(40), <1>6 DEF ValidateSemantics
<1>7. CASE NoGate(r)
    BY SMTT(40), <1>7 DEF NoGate
<1>8. CASE Endpoint(r)
    BY SMTT(40), <1>8 DEF Endpoint
<1>9. CASE ConsultGate(r)
    BY SMTT(40), <1>9 DEF ConsultGate, Profile
<1>10. CASE EnforceX402(r)
    BY SMTT(40), <1>10 DEF EnforceX402
<1>11. CASE EnforceMpp(r)
    BY SMTT(40), <1>11 DEF EnforceMpp
<1>12. CASE Authorize(r)
    BY SMTT(40), <1>12 DEF Authorize
<1>13. CASE GateRaises(r)
    BY SMTT(40), <1>13 DEF GateRaises
<1>14. CASE Finalise(r)
    BY SMTT(40), <1>14 DEF Finalise, Breached, PreGate, Authorized
<1>15. CASE Capture(r)
    BY SMTT(40), <1>15 DEF Capture
<1>16. CASE Void(r)
    BY SMTT(40), <1>16 DEF Void
<1>17. CASE LogEvent(r)
    BY SMTT(40), <1>17 DEF LogEvent
<1>18. CASE LogEconomics(r)
    BY SMTT(40), <1>18 DEF LogEconomics, EconRow, PaymentStatus, X402Status, MppStatus
<1>19. CASE Crash(r)
    BY SMTT(40), <1>19 DEF Crash, Live
<1>20. CASE Expire(r)
    BY SMTT(40), <1>20 DEF Expire, EconRow, PaymentStatus, X402Status, MppStatus
<1>21. QED
    BY <1>1, <1>2, <1>3, <1>4, <1>5, <1>6, <1>7, <1>8, <1>9, <1>10, <1>11, <1>12,
       <1>13, <1>14, <1>15, <1>16, <1>17, <1>18, <1>19, <1>20 DEF Act, Step

\* Type correctness.  A row's reference is the request's or none.
LEMMA RowType == TypeOK => \A r \in Request : EconRow(r) \in
                     [status: Status, ref: Ref \cup {NoRef}, billed: BOOLEAN]
<1> SUFFICES ASSUME TypeOK, NEW r \in Request
             PROVE EconRow(r) \in [status: Status, ref: Ref \cup {NoRef}, billed: BOOLEAN]
    OBVIOUS
<1>1. PaymentStatus(r) \in Status
    BY DEF TypeOK, PaymentStatus, X402Status, MppStatus, Status, Resolution
<1>2. req[r].ref \in Ref \cup {NoRef}
    BY DEF TypeOK, Profile
<1>3. QED
    BY <1>1, <1>2 DEF TypeOK, EconRow

\* Every action keeps the types.
LEMMA KeepsType ==
    ASSUME TypeOK, NEW r \in Request, RInv(r), Act(r) PROVE TypeOK'
<1> USE DEF TypeOK, Pc, Resolution, Goto, Respond, Reject, gateVars, rows
<1>1. CASE Arrive(r)
    BY ProfileAssumption, <1>1 DEF Arrive
<1>2. CASE AnswerEarly(r)
    BY <1>2 DEF AnswerEarly, Refusal
<1>3. CASE ChallengeEarly(r)
    <2>1. pc' \in [Request -> Pc]
        BY <1>3 DEF ChallengeEarly
    <2>2. rejection' \in [Request -> {"none", "pending", "rejected", "failed_validation", "failed"}]
        BY <1>3 DEF ChallengeEarly
    <2>3. response' \in [Request -> {"none", "ok", "challenge", "refused"}]
        BY <1>3 DEF ChallengeEarly
    <2>4. QED
        BY <1>3, <2>1, <2>2, <2>3 DEF ChallengeEarly
<1>4. CASE PublishGate(r)
    BY <1>4 DEF PublishGate
<1>5. CASE RouteRequest(r)
    <2>1. pc' \in [Request -> Pc]
        BY <1>5 DEF RouteRequest
    <2>2. response' \in [Request -> {"none", "ok", "challenge", "refused"}]
        BY <1>5 DEF RouteRequest
    <2>3. QED
        BY <1>5, <2>1, <2>2 DEF RouteRequest
<1>6. CASE ValidateSemantics(r)
    <2>1. pc' \in [Request -> Pc]
        <3>1. CASE pc' = [pc EXCEPT ![r] = "gate"]
            BY <3>1
        <3>2. CASE pc' = [pc EXCEPT ![r] = "finalise"]
            BY <3>2
        <3>3. QED
            BY <1>6, <3>1, <3>2 DEF ValidateSemantics
    <2>2. response' \in [Request -> {"none", "ok", "challenge", "refused"}]
        BY <1>6 DEF ValidateSemantics
    <2>3. QED
        BY <1>6, <2>1, <2>2 DEF ValidateSemantics
<1>7. CASE NoGate(r)
    BY <1>7 DEF NoGate
<1>8. CASE Endpoint(r)
    BY <1>8 DEF Endpoint
<1>9. CASE ConsultGate(r)
    <2>1. pc' \in [Request -> Pc]
        <3>1. CASE pc' = [pc EXCEPT ![r] = "endpoint"] \/ pc' = [pc EXCEPT ![r] = "finalise"]
            BY <3>1
        <3>2. CASE pc' = [pc EXCEPT ![r] = req[r].method] /\ req[r].method # "other"
            BY <3>2 DEF Profile
        <3>3. QED
            BY <1>9, <3>1, <3>2 DEF ConsultGate, Profile
    <2>2. valid' \in [Request -> BOOLEAN]
        <3>1. CASE \E v \in BOOLEAN : valid' = [valid EXCEPT ![r] = v]
            BY <3>1
        <3>2. QED
            BY <1>9, <3>1 DEF ConsultGate, ValidationResults
    <2>3. rejection' \in [Request -> {"none", "pending", "rejected", "failed_validation", "failed"}]
        BY <1>9 DEF ConsultGate
    <2>4. response' \in [Request -> {"none", "ok", "challenge", "refused"}]
        BY <1>9 DEF ConsultGate
    <2>5. QED
        BY <1>9, <2>1, <2>2, <2>3, <2>4 DEF ConsultGate
<1>10. CASE EnforceX402(r)
    <2>1. pc' \in [Request -> Pc]
        BY <1>10 DEF EnforceX402
    <2>2. rejection' \in [Request -> {"none", "pending", "rejected", "failed_validation", "failed"}]
        BY <1>10 DEF EnforceX402
    <2>3. response' \in [Request -> {"none", "ok", "challenge", "refused"}]
        <3>1. CASE UNCHANGED response
            BY <3>1
        <3>2. CASE \E s \in {"challenge", "refused"} : response' = [response EXCEPT ![r] = s]
            BY <3>2
        <3>3. QED
            BY <1>10, <3>1, <3>2 DEF EnforceX402
    <2>4. funds' \in [Request -> {"none", "held", "taken", "released"}]
        BY <1>10 DEF EnforceX402
    <2>5. collected' \in [Request -> BOOLEAN]
        <3>1. CASE UNCHANGED collected
            BY <3>1
        <3>2. CASE collected' = [collected EXCEPT ![r] = TRUE]
            BY <3>2
        <3>3. QED
            BY <1>10, <3>1, <3>2 DEF EnforceX402
    <2>6. QED
        BY <1>10, <2>1, <2>2, <2>3, <2>4, <2>5 DEF EnforceX402
<1>11. CASE EnforceMpp(r)
    <2>1. pc' \in [Request -> Pc]
        BY <1>11 DEF EnforceMpp
    <2>2. valid' \in [Request -> BOOLEAN]
        <3>1. CASE UNCHANGED valid
            BY <3>1
        <3>2. CASE valid' = [valid EXCEPT ![r] = FALSE]
            BY <3>2
        <3>3. QED
            BY <1>11, <3>1, <3>2 DEF EnforceMpp
    <2>3. rejection' \in [Request -> {"none", "pending", "rejected", "failed_validation", "failed"}]
        BY <1>11 DEF EnforceMpp
    <2>4. response' \in [Request -> {"none", "ok", "challenge", "refused"}]
        BY <1>11 DEF EnforceMpp
    <2>5. QED
        BY <1>11, <2>1, <2>2, <2>3, <2>4 DEF EnforceMpp
<1>12. CASE Authorize(r)
    <2>1. pc' \in [Request -> Pc]
        BY <1>12 DEF Authorize
    <2>2. valid' \in [Request -> BOOLEAN]
        <3>1. CASE UNCHANGED valid
            BY <3>1
        <3>2. CASE valid' = [valid EXCEPT ![r] = FALSE]
            BY <3>2
        <3>3. QED
            BY <1>12, <3>1, <3>2 DEF Authorize
    <2>3. rejection' \in [Request -> {"none", "pending", "rejected", "failed_validation", "failed"}]
        BY <1>12 DEF Authorize
    <2>4. response' \in [Request -> {"none", "ok", "challenge", "refused"}]
        BY <1>12 DEF Authorize
    <2>5. outcome' \in [Request -> {"none", "authorized"}]
        BY <1>12 DEF Authorize
    <2>6. funds' \in [Request -> {"none", "held", "taken", "released"}]
        BY <1>12 DEF Authorize
    <2>7. QED
        BY <1>12, <2>1, <2>2, <2>3, <2>4, <2>5, <2>6 DEF Authorize
<1>13. CASE GateRaises(r)
    BY <1>13 DEF GateRaises
<1>14. CASE Finalise(r)
    BY <1>14 DEF Finalise
<1>15. CASE Capture(r)
    <2>1. resolution' \in [Request -> Resolution]
        BY <1>15 DEF Capture
    <2>2. collected' \in [Request -> BOOLEAN]
        BY <1>15 DEF Capture
    <2>3. funds' \in [Request -> {"none", "held", "taken", "released"}]
        BY <1>15 DEF Capture
    <2>4. QED
        BY <1>15, <2>1, <2>2, <2>3 DEF Capture
<1>16. CASE Void(r)
    <2>1. resolution' \in [Request -> Resolution]
        BY <1>16 DEF Void
    <2>2. funds' \in [Request -> {"none", "held", "taken", "released"}]
        <3>1. CASE UNCHANGED funds
            BY <3>1
        <3>2. CASE funds' = [funds EXCEPT ![r] = "released"]
            BY <3>2
        <3>3. CASE funds' = [funds EXCEPT ![r] = funds[r]]
            BY <3>3
        <3>4. QED
            BY <1>16, <3>1, <3>2, <3>3 DEF Void
    <2>3. QED
        BY <1>16, <2>1, <2>2 DEF Void
<1>17. CASE LogEvent(r)
    BY <1>17 DEF LogEvent
<1>18. CASE LogEconomics(r)
    <2>1. econ' \in [Request -> [status: Status, ref: Ref \cup {NoRef}, billed: BOOLEAN]]
        <3>1. CASE UNCHANGED econ
            BY RowType, <3>1
        <3>2. CASE econ' = [econ EXCEPT ![r] = EconRow(r)]
            BY RowType, <3>2
        <3>3. QED
            BY <1>18, <3>1, <3>2 DEF LogEconomics
    <2>2. QED
        BY <1>18, <2>1 DEF LogEconomics
<1>19. CASE Crash(r)
    BY <1>19 DEF Crash
<1>20. CASE Expire(r)
    BY <1>20 DEF Expire
<1>21. QED
    BY <1>1, <1>2, <1>3, <1>4, <1>5, <1>6, <1>7, <1>8, <1>9, <1>10, <1>11, <1>12,
       <1>13, <1>14, <1>15, <1>16, <1>17, <1>18, <1>19, <1>20 DEF Act, Step

\* The invariant holds before any request arrives.
LEMMA InitInv == Init => Inv
BY EnvAssumption, ProfileAssumption
   DEF Init, Inv, TypeOK, RInv, Progress, Gated, Covered, Money, Resolved, Answered,
       Recorded, Early, Before, Tail, Closing, Pc, Resolution, Status, NoRow, Blank,
       Profile

\* Every step keeps it.
LEMMA NextInv == Inv /\ [Next]_vars => Inv'
<1> SUFFICES ASSUME Inv, [Next]_vars PROVE Inv'
    OBVIOUS
<1>1. ASSUME NEW r \in Request, Act(r) PROVE Inv'
    <2>1. TypeOK'
        BY <1>1, KeepsType DEF Inv
    <2>2. ASSUME NEW s \in Request PROVE RInv(s)'
        <3>1. CASE s = r
            BY <1>1, <3>1, Keeps DEF Inv
        <3>2. CASE s # r
            <4>1. Untouched(s)
                BY <1>1, <3>2, Frame DEF Inv
            <4>2. QED
                BY <4>1, Stable DEF Inv
        <3>3. QED
            BY <3>1, <3>2
    <2>3. QED
        BY <2>1, <2>2 DEF Inv
<1>2. CASE UNCHANGED vars
    <2>1. TypeOK'
        BY <1>2 DEF Inv, TypeOK, vars, gateVars, rows
    <2>2. \A s \in Request : Untouched(s)
        BY <1>2 DEF Untouched, vars, gateVars, rows
    <2>3. QED
        BY <2>1, <2>2, Stable DEF Inv
<1>3. QED
    BY <1>1, <1>2 DEF Next, Act, Quiescent

\* The inductive invariant holds in every reachable state.
THEOREM Invariance == Spec => []Inv
BY InitInv, NextInv, PTL DEF Spec

\* Every variable keeps its type, whatever requests arrive and whatever fails.
THEOREM TypeCorrect == Spec => []TypeOK
<1>1. Inv => TypeOK
    BY DEF Inv
<1>2. QED
    BY <1>1, Invariance, PTL

-----------------------------------------------------------------------------
(* The safety properties.                                                  *)

\* What a written economics row says, in terms of the state it was written in.
LEMMA RecordedRow ==
    ASSUME NEW r \in Request, Recorded(r), econ[r].status # "absent"
    PROVE econ[r].billed = collected[r] /\ econ[r].status = PaymentStatus(r)
<1>1. EconRow(r).billed = collected[r] /\ EconRow(r).status = PaymentStatus(r)
    BY Zenon DEF EconRow
<1>2. QED
    BY <1>1, Zenon DEF Recorded

\* No enforced request gets a successful response without a payment behind it.
THEOREM PaidDeliveryOnly == Spec => []NoUnpaidDelivery
<1>1. Inv => NoUnpaidDelivery
    <2> SUFFICES ASSUME Inv, NEW r \in Request, Done(r), Enforced(r), response[r] = "ok"
                 PROVE /\ funds[r] # "none"
                       /\ req[r].method = "x402" => funds[r] = "taken"
                       /\ req[r].method = "mpp" => outcome[r] = "authorized"
        BY DEF NoUnpaidDelivery
    <2>1. gate[r] # "published" /\ r \in executed
        BY DEF Inv, RInv, Covered, Answered, Done, Closing, Tail
    <2>2. collected[r] \/ outcome[r] = "authorized"
        BY <2>1 DEF Inv, RInv, Covered
    <2>3. QED
        BY <2>2 DEF Inv, RInv, Money, Resolved
<1>2. QED
    BY <1>1, Invariance, PTL

\* A request whose endpoint never ran is charged only where the x402 rail left
\* its own settlement in doubt.
THEOREM ChargesAreForWork == Spec => []ChargedIsExecuted
<1>1. Inv => ChargedIsExecuted
    BY DEF Inv, RInv, Money, Resolved, ChargedIsExecuted, Done
<1>2. QED
    BY <1>1, Invariance, PTL

\* MPP captures only for a delivered success and voids only for a failure.
THEOREM CaptureFollowsResponse == Spec => []CapturedIsDelivered
<1>1. Inv => CapturedIsDelivered
    BY DEF Inv, RInv, Money, Resolved, CapturedIsDelivered, Done
<1>2. QED
    BY <1>1, Invariance, PTL

\* A reservation left held by a finished request shows in its row.
THEOREM ReservationsAreAccounted == Spec => []HeldIsAccounted
<1>1. Inv => HeldIsAccounted
    <2> SUFFICES ASSUME Inv, NEW r \in Request, Logged(r), funds[r] = "held",
                        outcome[r] = "authorized"
                 PROVE econ[r].status \in {"capture_failed", "void_failed"}
        BY DEF HeldIsAccounted
    <2>1. econ[r].status = PaymentStatus(r)
        BY RecordedRow DEF Inv, RInv, Logged
    <2>2. PaymentStatus(r) = resolution[r]
        BY DEF Inv, RInv, Money, Resolved, Logged, Done, Tail, Enforced, Required,
           PaymentStatus, MppStatus
    <2>3. resolution[r] \in Resolution /\ resolution[r] \notin {"none", "captured", "voided"}
        BY DEF Inv, TypeOK, RInv, Money, Resolved, Logged, Done, Tail
    <2>4. QED
        BY <2>1, <2>2, <2>3 DEF Resolution
<1>2. QED
    BY <1>1, Invariance, PTL

\* The event row and the economics row of a paid request agree with each other
\* and with the money.
THEOREM RowsAgreement == Spec => []RowsAgree
<1>1. Inv => RowsAgree
    <2> SUFFICES ASSUME Inv, NEW r \in Request, Logged(r)
                 PROVE /\ econ[r].billed => funds[r] = "taken"
                       /\ econ[r].billed <=> econ[r].status \in {"settled", "captured"}
                       /\ (Required(r) /\ event[r] # "absent") =>
                             (econ[r].billed <=> event[r] = "billable")
        BY DEF RowsAgree
    <2>1. econ[r].billed = collected[r] /\ econ[r].status = PaymentStatus(r)
        BY RecordedRow DEF Inv, RInv, Logged
    <2>2. collected[r] <=> PaymentStatus(r) \in {"settled", "captured"}
        <3>1. ASSUME collected[r] PROVE PaymentStatus(r) \in {"settled", "captured"}
            BY <3>1 DEF Inv, RInv, Money, Resolved, Enforced, Required, PaymentStatus,
               X402Status, MppStatus
        <3>2. ASSUME PaymentStatus(r) \in {"settled", "captured"} PROVE collected[r]
            <4>1. PaymentStatus(r) \in {X402Status(r), MppStatus(r)}
                BY <3>2 DEF Inv, TypeOK, PaymentStatus
            <4>2. X402Status(r) \in {"settled", "captured"} => collected[r]
                BY DEF X402Status
            <4>3. MppStatus(r) \in {"settled", "captured"} => resolution[r] = "captured"
                BY DEF Inv, TypeOK, Resolution, MppStatus
            <4>4. QED
                BY <3>2, <4>1, <4>2, <4>3 DEF Inv, RInv, Resolved
        <3>3. QED
            BY <3>1, <3>2
    <2>3. (Required(r) /\ event[r] # "absent") => (collected[r] <=> event[r] = "billable")
        BY DEF Inv, RInv, Recorded, Money, Billable, Required
    <2>4. QED
        BY <2>1, <2>2, <2>3 DEF Inv, RInv, Money
<1>2. QED
    BY <1>1, Invariance, PTL

\* 'rejected' moves no money and delivers nothing, and every request turned away
\* before the gate is recorded so.
THEOREM RejectionIsFree == Spec => []RejectedConsumesNothing
<1>1. Inv => RejectedConsumesNothing
    <2> SUFFICES ASSUME Inv, NEW r \in Request, Logged(r)
                 PROVE /\ econ[r].status = "rejected" =>
                             funds[r] = "none" /\ response[r] = "refused"
                       /\ (gate[r] = "published" /\ response[r] = "refused"
                             /\ exit[r] # "breach") => econ[r].status = "rejected"
        BY DEF RejectedConsumesNothing
    <2>1. econ[r].status = PaymentStatus(r)
        BY RecordedRow DEF Inv, RInv, Logged
    <2>2. PaymentStatus(r) = "rejected" => rejection[r] = "rejected" \/ exit[r] = "pregate"
        BY DEF Inv, TypeOK, Resolution, PaymentStatus, X402Status, MppStatus
    <2>3. (gate[r] = "published" /\ exit[r] = "pregate") => PaymentStatus(r) = "rejected"
        BY DEF Inv, RInv, Gated, PaymentStatus
    <2>4. QED
        BY <2>1, <2>2, <2>3 DEF Inv, RInv, Gated, Answered, Logged, Done, Closing, Tail
<1>2. QED
    BY <1>1, Invariance, PTL

\* On either rail money is kept only for an endpoint that ran or a settlement in
\* doubt, and on MPP only for a success the client receives.
THEOREM ChargesEarned == Spec => []ChargesAreEarned
<1>1. QED
    BY ChargesAreForWork, CaptureFollowsResponse, PTL DEF ChargesAreEarned

\* The rows of every request tell of its money what became of it.
THEOREM BooksAgreement == Spec => []BooksAgree
<1>1. QED
    BY ReservationsAreAccounted, RowsAgreement, RejectionIsFree, PTL DEF BooksAgree

-----------------------------------------------------------------------------
(* Refinement.                                                             *)

\* What PaidDelivery sees of a request, besides its funds.
VerdictOf(r) == IF pc[r] = "dead" THEN "refused"
                ELSE IF pc[r] # "done" THEN "open"
                ELSE IF response[r] = "ok" THEN "delivered" ELSE "refused"
Owes(r) == pc[r] # "idle" /\ Enforced(r)

\* If a step of r changes only r's verdict, or only its debt, the abstract state
\* changes at r alone.
LEMMA View ==
    ASSUME TypeOK, NEW r \in Request, Act(r)
    PROVE /\ [s \in Request |-> VerdictOf(s)']
                = [[s \in Request |-> VerdictOf(s)] EXCEPT ![r] = VerdictOf(r)']
          /\ {s \in Request : Owes(s)'}
                = IF Owes(r)' THEN {s \in Request : Owes(s)} \cup {r}
                              ELSE {s \in Request : Owes(s)} \ {r}
<1>1. ASSUME NEW s \in Request, s # r
      PROVE VerdictOf(s)' = VerdictOf(s) /\ (Owes(s)' <=> Owes(s))
    BY <1>1, Frame DEF Untouched, VerdictOf, Owes, Enforced, Required
<1>2. QED
    BY <1>1

\* Every step of the middleware is a step PaidDelivery allows, or one it does not
\* see: money is arranged once, while the request is open and owes; nothing is
\* delivered unpaid; a void only releases what is held.
THEOREM Refinement == Spec => ImplementsDelivery
<1> USE DEF Delivery!vars
<1>1. Init => Delivery!Init
    BY DEF Init, Delivery!Init
<1>2. ASSUME Inv, Inv', [Next]_vars PROVE [Delivery!Next]_(Delivery!vars)
    <2>1. ASSUME NEW r \in Request, Act(r) PROVE [Delivery!Next]_(Delivery!vars)
        <3> DEFINE V == [s \in Request |-> VerdictOf(s)]
                   D == {s \in Request : Owes(s)}
        <3>1. /\ V' = [V EXCEPT ![r] = VerdictOf(r)'] /\ V[r] = VerdictOf(r)
              /\ D' = IF Owes(r)' THEN D \cup {r} ELSE D \ {r}
              /\ r \in D <=> Owes(r)
            BY <1>2, <2>1, View DEF Inv
        <3>2. CASE Arrive(r)
            <4>1. /\ UNCHANGED funds /\ VerdictOf(r)' = VerdictOf(r)
                  /\ VerdictOf(r) = "open" /\ ~Owes(r)
                BY <1>2, <3>2 DEF Arrive, Goto, Inv, TypeOK, VerdictOf, Owes
            <4>2. V' = V /\ V[r] = "open" /\ r \notin D /\ D' \in {D, D \cup {r}}
                BY <3>1, <4>1
            <4>3. QED
                BY <4>1, <4>2 DEF Delivery!Next, Delivery!Admit, VerdictOf, Owes
        <3>3. CASE LogEconomics(r)
            <4>1. /\ UNCHANGED funds /\ Owes(r)' = Owes(r) /\ VerdictOf(r) = "open"
                  /\ VerdictOf(r)' = IF response[r] = "ok" THEN "delivered" ELSE "refused"
                BY <1>2, <3>3 DEF LogEconomics, Goto, gateVars, Inv, TypeOK, VerdictOf, Owes,
                   Enforced, Required
            <4>2. (response[r] = "ok" /\ Owes(r)) => funds[r] # "none"
                BY <1>2, <3>3 DEF LogEconomics, Inv, RInv, Covered, Money, Answered, Owes,
                   Closing, Tail
            <4>3. D' = D /\ V[r] = "open" /\ V' = [V EXCEPT ![r] = VerdictOf(r)']
                BY <3>1, <4>1
            <4>4. CASE response[r] = "ok"
                BY <3>1, <4>1, <4>2, <4>3, <4>4
                   DEF Delivery!Next, Delivery!Deliver, VerdictOf, Owes
            <4>5. CASE response[r] # "ok"
                BY <4>1, <4>3, <4>5 DEF Delivery!Next, Delivery!Refuse, VerdictOf, Owes
            <4>6. QED
                BY <4>4, <4>5
        <3>4. CASE Crash(r)
            <4>1. /\ UNCHANGED funds /\ Owes(r)' = Owes(r)
                  /\ VerdictOf(r) = "open" /\ VerdictOf(r)' = "refused"
                BY <1>2, <3>4 DEF Crash, Live, Goto, gateVars, Inv, TypeOK, VerdictOf, Owes,
                   Enforced, Required
            <4>2. D' = D /\ V[r] = "open" /\ V' = [V EXCEPT ![r] = "refused"]
                BY <3>1, <4>1
            <4>3. QED
                BY <4>1, <4>2 DEF Delivery!Next, Delivery!Refuse, VerdictOf, Owes
        <3>5. CASE EnforceX402(r) \/ Authorize(r)
            <4>1. /\ VerdictOf(r) = "open" /\ VerdictOf(r)' = "open"
                  /\ Owes(r) /\ Owes(r)' /\ funds[r] = "none"
                BY <1>2, <3>5 DEF EnforceX402, Authorize, Goto, Reject, Inv, TypeOK, RInv,
                   Progress, Gated, Early, VerdictOf, Owes, Enforced, Required
            <4>2. V' = V /\ D' = D /\ V[r] = "open" /\ r \in D
                BY <3>1, <4>1
            <4>3. funds' = funds \/ \E f \in {"held", "taken"} : funds' = [funds EXCEPT ![r] = f]
                BY <1>2, <3>5, <4>1 DEF EnforceX402, Authorize, Inv, TypeOK
            <4>4. QED
                BY <4>1, <4>2, <4>3 DEF Delivery!Next, Delivery!Fund, VerdictOf, Owes
        <3>6. CASE Capture(r)
            <4>1. /\ VerdictOf(r) = "open" /\ VerdictOf(r)' = "open" /\ Owes(r)' = Owes(r)
                BY <1>2, <3>6 DEF Capture, Goto, Inv, TypeOK, VerdictOf, Owes, Enforced, Required
            <4>2. V' = V /\ D' = D /\ V[r] = "open"
                BY <3>1, <4>1
            <4>3. funds' = funds \/ (funds[r] = "held" /\ funds' = [funds EXCEPT ![r] = "taken"])
                BY <3>6 DEF Capture
            <4>4. QED
                BY <4>1, <4>2, <4>3 DEF Delivery!Next, Delivery!Capture, VerdictOf, Owes
        <3>7. CASE Void(r) \/ Expire(r)
            <4>1. VerdictOf(r)' = VerdictOf(r) /\ Owes(r)' = Owes(r)
                BY <1>2, <3>7 DEF Void, Expire, Goto, gateVars, Inv, TypeOK, VerdictOf, Owes,
                   Enforced, Required
            <4>2. V' = V /\ D' = D
                BY <3>1, <4>1
            <4>3. funds[r] \in {"held", "released"}
                <5>1. CASE Void(r)
                    <6>1. pc[r] = "void" /\ resolution[r] = "none" /\ RInv(r)
                        BY <1>2, <5>1 DEF Void, Inv, RInv, Progress
                    <6>2. outcome[r] = "authorized" /\ req[r].method = "mpp"
                        BY <6>1 DEF RInv, Resolved, Money
                    <6>3. funds[r] # "none" /\ funds[r] # "taken"
                        BY <6>1, <6>2 DEF RInv, Money
                    <6>4. QED
                        BY <1>2, <6>3 DEF Inv, TypeOK
                <5>2. CASE Expire(r)
                    BY <5>2 DEF Expire
                <5>3. QED
                    BY <3>7, <5>1, <5>2
            <4>4. funds' = funds \/ (funds[r] = "held" /\ funds' = [funds EXCEPT ![r] = "released"])
                BY <1>2, <3>7, <4>3 DEF Void, Expire, Inv, TypeOK
            <4>5. QED
                BY <4>2, <4>4 DEF Delivery!Next, Delivery!Release, VerdictOf, Owes
        <3>8. CASE UNCHANGED funds /\ VerdictOf(r)' = VerdictOf(r) /\ Owes(r)' = Owes(r)
            <4>1. V' = V /\ D' = D
                BY <3>1, <3>8
            <4>2. QED
                BY <3>8, <4>1 DEF VerdictOf, Owes
        <3>9. ASSUME AnswerEarly(r) \/ ChallengeEarly(r) \/ PublishGate(r) \/ RouteRequest(r)
                     \/ ValidateSemantics(r) \/ NoGate(r) \/ Endpoint(r) \/ ConsultGate(r)
                     \/ EnforceMpp(r) \/ GateRaises(r) \/ Finalise(r) \/ LogEvent(r)
              PROVE UNCHANGED funds /\ VerdictOf(r)' = VerdictOf(r) /\ Owes(r)' = Owes(r)
            <4> USE <1>2, <3>9 DEF AnswerEarly, ChallengeEarly, PublishGate, RouteRequest,
                ValidateSemantics, NoGate, Endpoint, ConsultGate, EnforceMpp, GateRaises,
                Finalise, LogEvent, Goto, Reject, gateVars, rows
            <4>1. UNCHANGED <<funds, env, req>>
                OBVIOUS
            <4>2. pc[r] \notin {"idle", "done", "dead"}
                OBVIOUS
            <4>3. pc'[r] \notin {"idle", "done", "dead"}
                <5>1. pc \in [Request -> Pc] /\ r \in Request
                    BY <1>2, <2>1 DEF Inv, TypeOK
                <5>2. CASE RouteRequest(r)
                    BY <5>1, <5>2
                <5>3. CASE ConsultGate(r)
                    <6>1. CASE pc' = [pc EXCEPT ![r] = req[r].method]
                        <7>1. req \in [Request -> Profile]
                            BY ONLY <1>2 DEF Inv, TypeOK
                        <7>2. req[r].method \in {"x402", "mpp", "other"}
                            BY ONLY <5>1, <7>1 DEF Profile
                        <7>3. QED
                            BY ONLY <5>1, <6>1, <7>2
                    <6>2. CASE pc' = [pc EXCEPT ![r] = "endpoint"]
                        BY ONLY <5>1, <6>2
                    <6>3. CASE pc' = [pc EXCEPT ![r] = "finalise"]
                        BY ONLY <5>1, <6>3
                    <6>4. \/ pc' = [pc EXCEPT ![r] = req[r].method]
                          \/ pc' = [pc EXCEPT ![r] = "endpoint"]
                          \/ pc' = [pc EXCEPT ![r] = "finalise"]
                        BY ONLY <5>3 DEF ConsultGate, Goto, Reject
                    <6>5. QED
                        BY <6>1, <6>2, <6>3, <6>4
                <5>4. CASE Finalise(r)
                    BY <5>1, <5>4
                <5>5. CASE ~RouteRequest(r) /\ ~ConsultGate(r) /\ ~Finalise(r)
                    BY <5>1, <5>5
                <5>6. QED
                    BY <5>2, <5>3, <5>4, <5>5
            <4>4. QED
                BY <4>1, <4>2, <4>3 DEF VerdictOf, Owes, Enforced, Required
        <3>10. QED
            BY <2>1, <3>2, <3>3, <3>4, <3>5, <3>6, <3>7, <3>8, <3>9 DEF Act, Step
    <2>2. CASE UNCHANGED vars
        BY <2>2 DEF vars, gateVars, rows, Enforced, Required
    <2>3. QED
        BY <1>2, <2>1, <2>2 DEF Next, Act, Quiescent
<1>3. QED
    BY <1>1, <1>2, Invariance, PTL DEF Spec, ImplementsDelivery, Delivery!Spec
==============================================================================
