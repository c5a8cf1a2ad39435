-------------------------- MODULE RequestLifecycle --------------------------
(***************************************************************************)
(* One request through MeteringMiddleware.dispatch (middleware/metering.py)*)
(* and the execution boundary of api/routing.py: classification facts,     *)
(* early challenge, the deferred one-shot payment gate, the endpoint, and  *)
(* the finaliser that captures or voids an MPP authorization and writes    *)
(* the event and economics rows.                                           *)
(*                                                                         *)
(* Requests meet in the economics table (MPP's replay lookup).  The rails  *)
(* are seen through the outcomes enforcement returns; X402Claims has the   *)
(* inside of the x402 rail.  The MPP control plane is external: it         *)
(* reserves, captures and releases, and any of its replies may be lost.    *)
(***************************************************************************)
CONSTANTS
    Request,        \* HTTP requests
    Ref,            \* MPP payment references
    NoRef,          \* no payment reference
    Profiles,       \* the kinds of request that may arrive
    Envs,           \* the deployment switches the process may start with
    Faults          \* what may go wrong: a subset of FaultKinds

\* db: an insert or lookup fails; crash: the process dies; raise: enforcement
\* raises; cancel: the downstream call ends without a response (its task is
\* cancelled); rail: the control plane refuses, fails, expires or goes silent.
FaultKinds == {"db", "crash", "raise", "cancel", "rail"}

\* ENFORCE_AGENT_PAY and VALIDATE_AGENT_PAY_HEADERS.
Env == [enforce: BOOLEAN, validate: BOOLEAN]

\* What dispatch knows of a request before it routes it.
Profile == [
    decision: {"free", "free_metered", "subscription", "agent_pay", "deny"},
    method:   {"x402", "mpp", "other"}, \* effective payment method, hence the rail
    proof:    BOOLEAN,              \* presents an x402 artifact
    ref:      Ref \cup {NoRef},     \* X-StockTrends-Payment-Reference
    scope:    BOOLEAN,              \* path in enforcement scope, caller in allowlist
    gone:     BOOLEAN,              \* the Intelligence artifact is unavailable
    disabled: BOOLEAN,              \* the agent is disabled
    priced:   BOOLEAN,              \* a positive price was resolved
    fixed:    BOOLEAN,              \* early-challenge class FIXED_PRICE
    route:    {"wrapped", "unwrapped", "miss"}]

ASSUME ProfileAssumption == Profiles \subseteq Profile /\ NoRef \notin Ref
ASSUME EnvAssumption == Envs \subseteq Env /\ Faults \subseteq FaultKinds

VARIABLES
    env,        \* the switches, read once at import
    pc,         \* where the request is
    req,        \* its profile
    gate,       \* request.state.payment_gate: none, published or invoked
    valid,      \* gate_state.validation_valid
    rejection,  \* the payment_status the gate rejected with, if it did
    outcome,    \* "authorized" once enforcement opened an MPP authorization
    collected,  \* gate_state.collected
    resolution, \* mpp_capture_outcome
    exit,       \* how the request left before the gate, if it did
    response,   \* the response so far; none if the downstream call had none
    funds,      \* what happened to the caller's money (history)
    executed,   \* requests whose endpoint ran (history)
    event,      \* the api_request_logs row
    econ        \* the api_request_economics row

gateVars == <<gate, valid, rejection, outcome, collected>>
rows == <<event, econ>>
vars == <<env, pc, req, gateVars, resolution, exit, response, funds, executed, rows>>

-----------------------------------------------------------------------------

Pc == {"idle", "dispatch", "route", "validator", "gate", "x402", "mpp", "authorize",
       "endpoint", "finalise", "capture", "void", "logEvent", "logEconomics",
       "done", "dead"}
Resolution == {"none", "captured", "capture_failed", "voided", "void_failed"}
Status == {"absent", "not_required", "pending", "rejected", "failed_validation", "failed",
           "settled", "presented"} \cup (Resolution \ {"none"})
NoRow == [status |-> "absent", ref |-> NoRef, billed |-> FALSE]
Blank == [decision |-> "free", method |-> "other", proof |-> FALSE, ref |-> NoRef,
          scope |-> FALSE, gone |-> FALSE, disabled |-> FALSE, priced |-> FALSE,
          fixed |-> FALSE, route |-> "miss"]

TypeOK ==
    /\ env \in Env
    /\ pc \in [Request -> Pc]
    /\ req \in [Request -> Profile]
    /\ gate \in [Request -> {"none", "published", "invoked"}]
    /\ valid \in [Request -> BOOLEAN]
    /\ rejection \in [Request -> {"none", "pending", "rejected", "failed_validation", "failed"}]
    /\ outcome \in [Request -> {"none", "authorized"}]
    /\ collected \in [Request -> BOOLEAN]
    /\ resolution \in [Request -> Resolution]
    /\ exit \in [Request -> {"none", "gone", "forbidden", "pregate", "breach"}]
    /\ response \in [Request -> {"none", "ok", "challenge", "refused"}]
    /\ funds \in [Request -> {"none", "held", "taken", "released"}]
    /\ executed \subseteq Request
    /\ event \in [Request -> {"absent", "billable", "unbillable"}]
    /\ econ \in [Request -> [status: Status, ref: Ref \cup {NoRef}, billed: BOOLEAN]]

Init ==
    /\ env \in Envs
    /\ pc = [r \in Request |-> "idle"]
    /\ req = [r \in Request |-> Blank]
    /\ gate = [r \in Request |-> "none"]
    /\ valid = [r \in Request |-> TRUE]
    /\ rejection = [r \in Request |-> "none"]
    /\ outcome = [r \in Request |-> "none"]
    /\ collected = [r \in Request |-> FALSE]
    /\ resolution = [r \in Request |-> "none"]
    /\ exit = [r \in Request |-> "none"]
    /\ response = [r \in Request |-> "none"]
    /\ funds = [r \in Request |-> "none"]
    /\ executed = {}
    /\ event = [r \in Request |-> "absent"]
    /\ econ = [r \in Request |-> NoRow]

-----------------------------------------------------------------------------
(* Derived facts.                                                          *)

Fault(f) == f \in Faults
Goto(r, p) == pc' = [pc EXCEPT ![r] = p]
Respond(r, s) == response' = [response EXCEPT ![r] = s]

\* decision.econ_payment_required, should_enforce_agent_pay, should_validate_agent_pay
Required(r)  == req[r].decision = "agent_pay"
Enforced(r)  == env.enforce /\ Required(r) /\ req[r].scope
Validated(r) == env.validate /\ Required(r) /\ req[r].method \in {"x402", "mpp"}

\* The gate refuses the request: response, and the status it will be logged with.
Reject(r, status, resp) ==
    /\ rejection' = [rejection EXCEPT ![r] = status]
    /\ Respond(r, resp)
    /\ Goto(r, "finalise")

-----------------------------------------------------------------------------
(* Before routing.                                                         *)

Arrive(r) ==
    /\ pc[r] = "idle"
    /\ \E p \in Profiles : req' = [req EXCEPT ![r] = p]
    /\ Goto(r, "dispatch")
    /\ UNCHANGED <<env, gateVars, resolution, exit, response, funds, executed, rows>>

\* The artifact is unavailable, the agent is disabled or access is denied: the
\* response is built here, and the finaliser never runs.
Refusal(r) == IF req[r].gone THEN "gone"
              ELSE IF req[r].disabled \/ req[r].decision = "deny" THEN "forbidden"
              ELSE "none"
AnswerEarly(r) ==
    /\ pc[r] = "dispatch"
    /\ Refusal(r) # "none"
    /\ exit' = [exit EXCEPT ![r] = Refusal(r)]
    /\ Respond(r, "refused")
    /\ Goto(r, "logEvent")
    /\ UNCHANGED <<env, req, gateVars, resolution, funds, executed, rows>>

\* An unpaid x402 request to a recognized fixed-price route is challenged, or
\* refused if it cannot be priced, without a gate and without routing.
ChallengedEarly(r) == /\ Enforced(r)
                      /\ req[r].method = "x402" /\ ~req[r].proof
                      /\ req[r].fixed /\ req[r].route # "miss"
ChallengeEarly(r) ==
    /\ pc[r] = "dispatch" /\ Refusal(r) = "none"
    /\ ChallengedEarly(r)
    /\ IF req[r].priced THEN Reject(r, "pending", "challenge")
                        ELSE Reject(r, "rejected", "refused")
    /\ UNCHANGED <<env, req, gate, valid, outcome, collected, resolution, exit,
                   funds, executed, rows>>

PublishGate(r) ==
    /\ pc[r] = "dispatch" /\ Refusal(r) = "none"
    /\ ~ChallengedEarly(r)
    /\ gate' = [gate EXCEPT ![r] = IF Validated(r) \/ Enforced(r) THEN "published" ELSE "none"]
    /\ Goto(r, "route")
    /\ UNCHANGED <<env, req, valid, rejection, outcome, collected, resolution, exit,
                   response, funds, executed, rows>>

-----------------------------------------------------------------------------
(* The route and the wrapper around its endpoint.                          *)

\* No route, or the framework rejects the input; otherwise the endpoint is
\* reached, through the payment wrapper if the route carries it.  An exception
\* below is an error response (refused) here: the mounted v1 application makes it
\* one.
RouteRequest(r) ==
    /\ pc[r] = "route"
    /\ \/ /\ Respond(r, "refused")
          /\ Goto(r, "finalise")
       \/ /\ req[r].route # "miss"
          /\ Goto(r, IF req[r].route = "wrapped" THEN "validator" ELSE "endpoint")
          /\ UNCHANGED response
    /\ UNCHANGED <<env, req, gateVars, resolution, exit, funds, executed, rows>>

\* Mutant: semantic validation sits in the endpoint, behind the payment gate.
ValidateSemantics_AfterGate(r) ==
    /\ \/ /\ pc[r] = "validator"
          /\ Goto(r, "gate")
          /\ UNCHANGED response
       \/ /\ pc[r] = "endpoint"
          /\ Respond(r, "refused")
          /\ Goto(r, "finalise")
    /\ UNCHANGED <<env, req, gateVars, resolution, exit, funds, executed, rows>>

\* The wrapper recovers the request and runs the semantic validator: it passes,
\* raises, or the task is cancelled around it.
ValidateSemantics(r) ==
    /\ pc[r] = "validator"
    /\ \/ Goto(r, "gate") /\ UNCHANGED response
       \/ Respond(r, "refused") /\ Goto(r, "finalise")
       \/ Fault("cancel") /\ Goto(r, "finalise") /\ UNCHANGED response
    /\ UNCHANGED <<env, req, gateVars, resolution, exit, funds, executed, rows>>

NoGate(r) ==
    /\ pc[r] = "gate" /\ gate[r] = "none"
    /\ Goto(r, "endpoint")
    /\ UNCHANGED <<env, req, gateVars, resolution, exit, response, funds, executed, rows>>

Endpoint(r) ==
    /\ pc[r] = "endpoint"
    /\ executed' = executed \cup {r}
    /\ \/ \E s \in {"ok", "refused"} : Respond(r, s)
       \/ Fault("cancel") /\ UNCHANGED response
    /\ Goto(r, "finalise")
    /\ UNCHANGED <<env, req, gateVars, resolution, exit, funds, rows>>

-----------------------------------------------------------------------------
(* The gate, called by the wrapper just before the endpoint.               *)

ValidationResults(r) ==
    IF ~Validated(r) THEN {TRUE}
    ELSE IF (IF req[r].method = "x402" THEN req[r].proof ELSE req[r].ref # NoRef)
         THEN BOOLEAN ELSE {FALSE}

\* Mutant: a payment-required request on no known rail falls through the gate.
ConsultGate_AnyRail(r) ==
    /\ pc[r] = "gate" /\ gate[r] = "published"
    /\ gate' = [gate EXCEPT ![r] = "invoked"]
    /\ \E v \in ValidationResults(r) : valid' = [valid EXCEPT ![r] = v]
    /\ \/ /\ ~Enforced(r) \/ req[r].method = "other"
          /\ Goto(r, "endpoint")
          /\ UNCHANGED <<rejection, response>>
       \/ /\ Enforced(r) /\ ~req[r].priced
          /\ Reject(r, "rejected", "refused")
       \/ /\ Enforced(r) /\ req[r].priced /\ req[r].method # "other"
          /\ Goto(r, req[r].method)
          /\ UNCHANGED <<rejection, response>>
    /\ UNCHANGED <<env, req, outcome, collected, resolution, exit, funds, executed, rows>>

\* run_payment_gate up to the rail: optional validation; then, if enforced, a
\* missing price and an unknown rail fail closed before anything can move money.
ConsultGate(r) ==
    /\ pc[r] = "gate" /\ gate[r] = "published"
    /\ gate' = [gate EXCEPT ![r] = "invoked"]
    /\ \E v \in ValidationResults(r) : valid' = [valid EXCEPT ![r] = v]
    /\ \/ /\ ~Enforced(r)
          /\ Goto(r, "endpoint")
          /\ UNCHANGED <<rejection, response>>
       \/ /\ Enforced(r) /\ (~req[r].priced \/ req[r].method = "other")
          /\ Reject(r, "rejected", "refused")
       \/ /\ Enforced(r) /\ req[r].priced /\ req[r].method # "other"
          /\ Goto(r, req[r].method)
          /\ UNCHANGED <<rejection, response>>
    /\ UNCHANGED <<env, req, outcome, collected, resolution, exit, funds, executed, rows>>

\* The x402 rail, by what its outcome means: without proof a challenge; refused
\* with nothing moved; settlement refused or unrecorded, where money may have
\* moved; or settled.
EnforceX402(r) ==
    /\ pc[r] = "x402"
    /\ \/ /\ ~req[r].proof
          /\ Reject(r, "pending", "challenge")
          /\ UNCHANGED <<funds, collected>>
       \/ /\ req[r].proof
          /\ Reject(r, "failed_validation", "refused")
          /\ UNCHANGED <<funds, collected>>
       \/ /\ req[r].proof /\ valid[r]
          /\ \E s \in {"failed", "pending"} : Reject(r, s, "refused")
          /\ \E f \in {"none", "taken"} : funds' = [funds EXCEPT ![r] = f]
          /\ UNCHANGED collected
       \/ /\ req[r].proof /\ valid[r]
          /\ funds' = [funds EXCEPT ![r] = "taken"]
          /\ collected' = [collected EXCEPT ![r] = TRUE]
          /\ Goto(r, "endpoint")
          /\ UNCHANGED <<rejection, response>>
    /\ UNCHANGED <<env, req, gate, valid, outcome, resolution, exit, executed, rows>>

\* are_payment_references_used, through _mpp_replay_checker: a failed lookup
\* counts as "not used".
ReplayStatuses == {"authorized", "settled"}
Replayed(r) == \E k \in Request : /\ econ[k].status \in ReplayStatuses
                                  /\ econ[k].ref = req[r].ref

\* enforce_mpp_payment, steps 1 to 6: headers and amount, then the replay lookup.
EnforceMpp(r) ==
    /\ pc[r] = "mpp"
    /\ \/ /\ Reject(r, "failed_validation", "refused")
          /\ valid' = [valid EXCEPT ![r] = FALSE]
       \/ /\ valid[r] /\ req[r].ref # NoRef
          /\ ~Replayed(r) \/ Fault("db")
          /\ Goto(r, "authorize")
          /\ UNCHANGED <<valid, rejection, response>>
    /\ UNCHANGED <<env, req, gate, outcome, collected, resolution, exit, funds,
                   executed, rows>>

\* Step 7: the control plane reserves and says so, refuses, or its answer is lost.
Authorize(r) ==
    /\ pc[r] = "authorize"
    /\ \/ /\ funds' = [funds EXCEPT ![r] = "held"]
          /\ outcome' = [outcome EXCEPT ![r] = "authorized"]
          /\ Goto(r, "endpoint")
          /\ UNCHANGED <<valid, rejection, response>>
       \/ /\ Fault("rail")
          /\ \E f \in {"none", "held"} : funds' = [funds EXCEPT ![r] = f]
          /\ valid' = [valid EXCEPT ![r] = FALSE]
          /\ Reject(r, "failed_validation", "refused")
          /\ UNCHANGED outcome
    /\ UNCHANGED <<env, req, gate, collected, resolution, exit, executed, rows>>

\* Enforcement raises before it contacts the rail: the gate caches the exception,
\* which becomes an error response, and gate_state keeps its inbound values.
GateRaises(r) ==
    /\ pc[r] \in {"x402", "mpp"} /\ Fault("raise")
    /\ Respond(r, "refused")
    /\ Goto(r, "finalise")
    /\ UNCHANGED <<env, req, gateVars, resolution, exit, funds, executed, rows>>

-----------------------------------------------------------------------------
(* The finaliser.                                                          *)

\* An enforced endpoint was reached past the wrapper; or the gate was never
\* called because the request was turned away before it.
Breached(r) == /\ gate[r] = "published" /\ Enforced(r)
               /\ response[r] # "none" /\ req[r].route = "unwrapped"
PreGate(r) == /\ gate[r] = "published" /\ ~Breached(r)
              /\ response[r] = "refused"
Authorized(r) == req[r].method = "mpp" /\ Enforced(r) /\ outcome[r] = "authorized"

\* Mutant: no backstop for unwrapped routes.
Finalise_NoBackstop(r) ==
    /\ pc[r] = "finalise"
    /\ exit' = [exit EXCEPT ![r] = IF PreGate(r) THEN "pregate" ELSE "none"]
    /\ Goto(r, IF ~Authorized(r) THEN "logEvent"
               ELSE IF response[r] = "ok" THEN "capture" ELSE "void")
    /\ UNCHANGED <<env, req, gateVars, resolution, response, funds, executed, rows>>

\* Mutant: without a response, an open authorization is not voided.
Finalise_NoVoidOnException(r) ==
    /\ pc[r] = "finalise"
    /\ exit' = [exit EXCEPT ![r] = IF Breached(r) THEN "breach"
                                   ELSE IF PreGate(r) THEN "pregate" ELSE "none"]
    /\ IF Breached(r) THEN Respond(r, "refused") ELSE UNCHANGED response
    /\ Goto(r, IF ~Authorized(r) \/ response[r] = "none" THEN "logEvent"
               ELSE IF response[r] = "ok" THEN "capture" ELSE "void")
    /\ UNCHANGED <<env, req, gateVars, resolution, funds, executed, rows>>

\* A breach discards the paid result.  Then an open authorization is captured
\* if the endpoint succeeded and voided if it failed or gave no response.
Finalise(r) ==
    /\ pc[r] = "finalise"
    /\ exit' = [exit EXCEPT ![r] = IF Breached(r) THEN "breach"
                                   ELSE IF PreGate(r) THEN "pregate" ELSE "none"]
    /\ IF Breached(r) THEN Respond(r, "refused") ELSE UNCHANGED response
    /\ Goto(r, IF ~Authorized(r) THEN "logEvent"
               ELSE IF response[r] = "ok" THEN "capture" ELSE "void")
    /\ UNCHANGED <<env, req, gateVars, resolution, funds, executed, rows>>

\* Mutant: any answer of the control plane counts as a capture.
Capture_AnyReply(r) ==
    /\ pc[r] = "capture"
    /\ \E f \in {funds[r], "taken"} : funds' = [funds EXCEPT ![r] = f]
    /\ resolution' = [resolution EXCEPT ![r] = "captured"]
    /\ collected' = [collected EXCEPT ![r] = TRUE]
    /\ Goto(r, "logEvent")
    /\ UNCHANGED <<env, req, gate, valid, rejection, outcome, exit, response, executed, rows>>

\* capture_mpp_payment, guarded: only a confirmed capture is collected.  An
\* expired reservation cannot be captured, and a confirmation may be lost.
Capture(r) ==
    /\ pc[r] = "capture"
    /\ \/ /\ funds[r] = "held"
          /\ funds' = [funds EXCEPT ![r] = "taken"]
          /\ resolution' = [resolution EXCEPT ![r] = "captured"]
          /\ collected' = [collected EXCEPT ![r] = TRUE]
       \/ /\ Fault("rail")
          /\ resolution' = [resolution EXCEPT ![r] = "capture_failed"]
          /\ \/ UNCHANGED funds
             \/ funds[r] = "held" /\ funds' = [funds EXCEPT ![r] = "taken"]
          /\ UNCHANGED collected
    /\ Goto(r, "logEvent")
    /\ UNCHANGED <<env, req, gate, valid, rejection, outcome, exit, response, executed, rows>>

\* void_mpp_authorization, best effort: voided or expired is success.
Void(r) ==
    /\ pc[r] = "void"
    /\ \/ /\ funds' = [funds EXCEPT ![r] = "released"]
          /\ resolution' = [resolution EXCEPT ![r] = "voided"]
       \/ /\ Fault("rail")
          /\ \E f \in {funds[r], "released"} : funds' = [funds EXCEPT ![r] = f]
          /\ resolution' = [resolution EXCEPT ![r] = "void_failed"]
    /\ Goto(r, "logEvent")
    /\ UNCHANGED <<env, req, gateVars, exit, response, executed, rows>>

\* resolved_is_billable
Billable(r) ==
    /\ exit[r] # "gone"
    /\ \/ req[r].decision = "subscription"
       \/ Required(r) /\ collected[r]

\* Each row is written on its own, and a failed insert is swallowed.
LogEvent(r) ==
    /\ pc[r] = "logEvent"
    /\ \/ event' = [event EXCEPT ![r] = IF Billable(r) THEN "billable" ELSE "unbillable"]
       \/ Fault("db") /\ UNCHANGED event
    /\ Goto(r, "logEconomics")
    /\ UNCHANGED <<env, req, gateVars, resolution, exit, response, funds, executed, econ>>

MppStatus(r) ==
    IF ~valid[r] THEN (IF Enforced(r) THEN "failed_validation" ELSE "pending")
    ELSE IF req[r].ref = NoRef THEN "pending"
    ELSE IF resolution[r] = "none" THEN "presented" ELSE resolution[r]
X402Status(r) ==
    IF collected[r] THEN "settled"
    ELSE IF req[r].ref # NoRef /\ ~valid[r] THEN "failed_validation" ELSE "pending"

\* The payment_status of the economics row.  A request refused before dispatch
\* reached the gate decision keeps the status its classification gave it.
PaymentStatus(r) ==
    IF ~Required(r) THEN "not_required"
    ELSE IF rejection[r] # "none" THEN rejection[r]
    ELSE CASE exit[r] = "forbidden" -> "pending"
           [] exit[r] = "pregate"   -> "rejected"
           [] OTHER -> CASE req[r].method = "x402" -> X402Status(r)
                         [] req[r].method = "mpp"  -> MppStatus(r)
                         [] OTHER                  -> "pending"

EconRow(r) == [
    status |-> PaymentStatus(r),
    ref    |-> IF Required(r) /\ req[r].method = "mpp" /\ rejection[r] # "rejected"
               THEN req[r].ref ELSE NoRef,
    billed |-> collected[r]]

\* should_log_economics: a row only for a request with an economic pricing rule.
LogEconomics(r) ==
    /\ pc[r] = "logEconomics"
    /\ \/ /\ exit[r] # "gone" /\ req[r].decision # "free"
          /\ econ' = [econ EXCEPT ![r] = EconRow(r)]
       \/ /\ exit[r] = "gone" \/ req[r].decision = "free" \/ Fault("db")
          /\ UNCHANGED econ
    /\ Goto(r, "done")
    /\ UNCHANGED <<env, req, gateVars, resolution, exit, response, funds, executed, event>>

-----------------------------------------------------------------------------
(* The environment.                                                        *)

Live(r) == pc[r] \notin {"idle", "done", "dead"}

Crash(r) ==
    /\ Live(r) /\ Fault("crash")
    /\ Goto(r, "dead")
    /\ UNCHANGED <<env, req, gateVars, resolution, exit, response, funds, executed, rows>>

\* The control plane releases a reservation on its own.
Expire(r) ==
    /\ funds[r] = "held" /\ Fault("rail")
    /\ funds' = [funds EXCEPT ![r] = "released"]
    /\ UNCHANGED <<env, pc, req, gateVars, resolution, exit, response, executed, rows>>

Step(r) ==
    \/ AnswerEarly(r) \/ ChallengeEarly(r) \/ PublishGate(r)
    \/ RouteRequest(r) \/ ValidateSemantics(r) \/ NoGate(r) \/ Endpoint(r)
    \/ ConsultGate(r) \/ EnforceX402(r) \/ EnforceMpp(r) \/ Authorize(r) \/ GateRaises(r)
    \/ Finalise(r) \/ Capture(r) \/ Void(r) \/ LogEvent(r) \/ LogEconomics(r)

Quiescent == (\A r \in Request : pc[r] \in {"done", "dead"}) /\ UNCHANGED vars

Next ==
    \/ \E r \in Request : Arrive(r) \/ Step(r) \/ Crash(r) \/ Expire(r)
    \/ Quiescent

Spec == Init /\ [][Next]_vars

\* The process keeps running its requests; nothing is assumed of the rails.
Fairness == \A r \in Request : WF_vars(Step(r))
FairSpec == Spec /\ Fairness

-----------------------------------------------------------------------------
(* Properties.                                                             *)

Done(r) == pc[r] = "done"
Logged(r) == Done(r) /\ econ[r].status # "absent"

\* No enforced request gets a successful response without a payment behind it:
\* settled on x402, authorized on MPP -- whatever its declared rail or price,
\* and even on a route that never got the execution boundary.
NoUnpaidDelivery ==
    \A r \in Request : (Done(r) /\ Enforced(r) /\ response[r] = "ok") =>
        /\ funds[r] # "none"
        /\ req[r].method = "x402" => funds[r] = "taken"
        /\ req[r].method = "mpp" => outcome[r] = "authorized"

\* A request whose input is refused by the route, the framework or the semantic
\* validator is never charged: money taken without the endpoint having run means
\* the rail itself left its settlement in doubt.
ChargedIsExecuted ==
    \A r \in Request : (Done(r) /\ funds[r] = "taken" /\ r \notin executed) =>
        req[r].method = "x402" /\ rejection[r] \in {"failed", "pending"}

\* MPP takes money only for a success the client receives, and gives it back
\* only for a failure: capture and void are decided by the final response.
CapturedIsDelivered ==
    \A r \in Request : (Done(r) /\ req[r].method = "mpp") =>
        /\ funds[r] = "taken" => response[r] = "ok"
        /\ resolution[r] \in {"voided", "void_failed"} => response[r] # "ok"

\* On neither rail is money kept for nothing.
ChargesAreEarned == ChargedIsExecuted /\ CapturedIsDelivered

\* A reservation still held when the request ends is visible to operations: its
\* row says so, unless the authorize reply itself was lost or no row was written.
HeldIsAccounted ==
    \A r \in Request : (Logged(r) /\ funds[r] = "held" /\ outcome[r] = "authorized") =>
        econ[r].status \in {"capture_failed", "void_failed"}

\* The two rows of a paid request describe the same outcome, and a billed row is
\* one whose money the rail confirmed.
RowsAgree ==
    \A r \in Request : Logged(r) =>
        /\ econ[r].billed => funds[r] = "taken"
        /\ econ[r].billed <=> econ[r].status \in {"settled", "captured"}
        /\ (Required(r) /\ event[r] # "absent") => (econ[r].billed <=> event[r] = "billable")

\* 'rejected' is terminal and non-consuming on every rail: no money moved, no
\* result was delivered; and a request the framework or a validator refused
\* before the gate is never left payable or counted as usage.
RejectedConsumesNothing ==
    \A r \in Request : Logged(r) =>
        /\ econ[r].status = "rejected" => funds[r] = "none" /\ response[r] = "refused"
        /\ (gate[r] = "published" /\ response[r] = "refused" /\ exit[r] # "breach")
              => econ[r].status = "rejected"

\* What the rows of a request say of its money is so.
BooksAgree == HeldIsAccounted /\ RowsAgree /\ RejectedConsumesNothing

\* The abstract promise, and that this module implements it.
Delivery == INSTANCE PaidDelivery WITH
    due     <- {r \in Request : pc[r] # "idle" /\ Enforced(r)},
    verdict <- [r \in Request |->
                   IF pc[r] = "dead" THEN "refused"
                   ELSE IF pc[r] # "done" THEN "open"
                   ELSE IF response[r] = "ok" THEN "delivered" ELSE "refused"]
ImplementsDelivery == Delivery!Spec

\* Every authorization MPP opened is captured or voided, or at least tried, even
\* when the endpoint gave no response, unless its worker died.
AuthorizationResolved ==
    \A r \in Request :
        outcome[r] = "authorized" ~> resolution[r] # "none" \/ pc[r] = "dead"
=============================================================================
