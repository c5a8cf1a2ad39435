----------------------------- MODULE X402Claims -----------------------------
(***************************************************************************)
(* The x402 rail: payments/enforcement.py runs each paid request through   *)
(* replay lookup, facilitator verification, the durable claim of           *)
(* payments/x402_claims.py, facilitator settlement and the recording of    *)
(* its outcome; metering/logger.py then writes the economics row.          *)
(*                                                                         *)
(* Requests run concurrently on stateless worker processes that share only *)
(* the database (claim table, economics table) and the facilitator.  Every *)
(* database statement and every facilitator exchange is a step of its own. *)
(* A payment artifact is a signed authorization in one of several          *)
(* encodings: re-encoding changes the artifact hash, not the claim key.    *)
(***************************************************************************)
EXTENDS FiniteSets

CONSTANTS
    Request,        \* HTTP requests
    RequestId,      \* values of X-Request-Id, which a client may choose and reuse
    Auth,           \* EIP-3009 authorizations: the claim table's key
    Encoding,       \* ways to encode one authorization as an artifact
    Worker,         \* worker processes
    Nobody,         \* no request, no request id, no authorization
    InitFleets,     \* the flag settings the fleet may start with
    Rollout,        \* may operators redeploy workers with new flags?
    Faults          \* what may go wrong: a subset of FaultKinds

FaultKinds == {"db", "crash"}

\* X402_ATOMIC_CLAIMS_ENABLED and X402_SETTLEMENT_SUSPENDED of one worker.
Flags == [claims: BOOLEAN, suspended: BOOLEAN]

ASSUME NobodyAssumption == Nobody \notin Request \cup RequestId \cup Auth \cup Encoding
ASSUME FleetAssumption  == InitFleets \subseteq [Worker -> Flags]
ASSUME SwitchAssumption == Rollout \in BOOLEAN /\ Faults \subseteq FaultKinds

VARIABLES
    flags,      \* flags[w]: the environment worker w was started with
    pc,         \* pc[r]: where request r is in enforce_x402_payment
    worker,     \* worker[r]: the process that runs r
    auth,       \* auth[r], enc[r]: the artifact r presents
    enc,
    rid,        \* rid[r]: the X-Request-Id of r
    identity,   \* identity[r]: did enforcement build a claim identity for r?
    outcome,    \* outcome[r]: the PaymentEnforcementResult.outcome of r
    claim,      \* claim[a]: claim_state of a's row in x402_payment_claims
    owner,      \* owner[a]: owner_request_id of that row
    claimant,   \* claimant[a]: the request whose INSERT created it (history)
    post,       \* post[r]: the POST /settle exchange of r
    moved,      \* authorizations whose funds moved on chain
    executed,   \* requests whose endpoint ran (history)
    econ        \* econ[r]: the api_request_economics row r inserted

reqVars   == <<pc, worker, auth, enc, rid, identity, outcome>>
claimVars == <<claim, owner, claimant>>
facVars   == <<post, moved>>
vars == <<flags, reqVars, claimVars, facVars, executed, econ>>

-----------------------------------------------------------------------------

Pc == {"idle", "replay", "verify", "acquire", "settle", "await",
       "recordSettled", "recordUncertain", "execute", "finalise", "done", "dead"}

Rejections == {"challenge", "validation_failed", "replay_check_unavailable",
               "replay_detected", "verification_failed", "settlement_suspended",
               "claim_unavailable", "claim_exists", "settlement_failed",
               "settlement_uncertain"}
Outcome == Rejections \cup {"open", "proceed"}

\* payment_reference: the hash of the artifact, or x402:v1:<claim fingerprint>.
ArtifactRef(a, e) == [kind |-> "artifact", auth |-> a, enc |-> e]
IdentityRef(a)    == [kind |-> "identity", auth |-> a, enc |-> Nobody]
NoRef             == [kind |-> "none", auth |-> Nobody, enc |-> Nobody]
Ref == [kind: {"artifact", "identity", "none"},
        auth: Auth \cup {Nobody}, enc: Encoding \cup {Nobody}]

EconStatus == {"absent", "pending", "failed_validation", "failed", "settled"}
Row == [rid: RequestId \cup {Nobody}, status: EconStatus, ref: Ref]
NoRow == [rid |-> Nobody, status |-> "absent", ref |-> NoRef]

TypeOK ==
    /\ flags \in [Worker -> Flags]
    /\ pc \in [Request -> Pc]
    /\ worker \in [Request -> Worker \cup {Nobody}]
    /\ auth \in [Request -> Auth \cup {Nobody}]
    /\ enc \in [Request -> Encoding \cup {Nobody}]
    /\ rid \in [Request -> RequestId \cup {Nobody}]
    /\ identity \in [Request -> BOOLEAN]
    /\ outcome \in [Request -> Outcome]
    /\ claim \in [Auth -> {"none", "settling", "settled", "uncertain"}]
    /\ owner \in [Auth -> RequestId \cup {Nobody}]
    /\ claimant \in [Auth -> Request \cup {Nobody}]
    /\ post \in [Request -> {"none", "sent", "ok", "unclear"}]
    /\ moved \subseteq Auth
    /\ executed \subseteq Request
    /\ econ \in [Request -> Row]

Init ==
    /\ flags \in InitFleets
    /\ pc = [r \in Request |-> "idle"]
    /\ worker = [r \in Request |-> Nobody]
    /\ auth = [r \in Request |-> Nobody]
    /\ enc = [r \in Request |-> Nobody]
    /\ rid = [r \in Request |-> Nobody]
    /\ identity = [r \in Request |-> FALSE]
    /\ outcome = [r \in Request |-> "open"]
    /\ claim = [a \in Auth |-> "none"]
    /\ owner = [a \in Auth |-> Nobody]
    /\ claimant = [a \in Auth |-> Nobody]
    /\ post = [r \in Request |-> "none"]
    /\ moved = {}
    /\ executed = {}
    /\ econ = [r \in Request |-> NoRow]

-----------------------------------------------------------------------------
(* Local control of one request.                                           *)

GoTo(r, p) == /\ pc' = [pc EXCEPT ![r] = p]
              /\ UNCHANGED <<worker, auth, enc, rid, identity, outcome>>

\* The enforcement layer returns a result: the request executes or is refused.
Return(r, o) ==
    /\ pc' = [pc EXCEPT ![r] = IF o = "proceed" THEN "execute" ELSE "finalise"]
    /\ outcome' = [outcome EXCEPT ![r] = o]
    /\ UNCHANGED <<worker, auth, enc, rid, identity>>

Fault(f) == f \in Faults

\* A request without proof: enforcement answers with a challenge.
Probe(r) ==
    /\ pc[r] = "idle"
    /\ \E w \in Worker, i \in RequestId :
          /\ worker' = [worker EXCEPT ![r] = w]
          /\ rid' = [rid EXCEPT ![r] = i]
    /\ outcome' = [outcome EXCEPT ![r] = "challenge"]
    /\ pc' = [pc EXCEPT ![r] = "finalise"]
    /\ UNCHANGED <<flags, auth, enc, identity, claimVars, facVars, executed, econ>>

\* A request with proof.  Validation and the minimum amount are local, and so is
\* the strict identity parse of a claiming worker: they refuse the artifact or
\* let it pass.
Present(r) ==
    /\ pc[r] = "idle"
    /\ \E w \in Worker, i \in RequestId, a \in Auth, e \in Encoding :
          /\ worker' = [worker EXCEPT ![r] = w]
          /\ rid' = [rid EXCEPT ![r] = i]
          /\ auth' = [auth EXCEPT ![r] = a]
          /\ enc' = [enc EXCEPT ![r] = e]
          /\ \/ /\ pc' = [pc EXCEPT ![r] = "replay"]
                /\ identity' = [identity EXCEPT ![r] = flags[w].claims]
                /\ UNCHANGED outcome
             \/ /\ pc' = [pc EXCEPT ![r] = "finalise"]
                /\ \/ outcome' = [outcome EXCEPT ![r] = "validation_failed"]
                   \/ /\ flags[w].claims
                      /\ outcome' = [outcome EXCEPT ![r] = "claim_unavailable"]
                /\ UNCHANGED identity
    /\ UNCHANGED <<flags, claimVars, facVars, executed, econ>>

\* are_payment_references_used: a consumed row under this artifact's hash.
ReplayStatuses == {"authorized", "settled"}
Replayed(r) == \E k \in Request : /\ econ[k].status \in ReplayStatuses
                                  /\ econ[k].ref = ArtifactRef(auth[r], enc[r])

ReplayCheck(r) ==
    /\ pc[r] = "replay"
    /\ \/ Replayed(r) /\ Return(r, "replay_detected")
       \/ ~Replayed(r) /\ GoTo(r, "verify")
       \/ Fault("db") /\ Return(r, "replay_check_unavailable")
    /\ UNCHANGED <<flags, claimVars, facVars, executed, econ>>

\* Mutant: settlement suspension is not consulted.
Verify_Unsuspended(r) ==
    /\ pc[r] = "verify"
    /\ \/ Return(r, "verification_failed")
       \/ GoTo(r, IF flags[worker[r]].claims THEN "acquire" ELSE "settle")
    /\ UNCHANGED <<flags, claimVars, facVars, executed, econ>>

\* POST /verify decides nothing durable; suspension is read after it.
Verify(r) ==
    /\ pc[r] = "verify"
    /\ \/ Return(r, "verification_failed")
       \/ /\ flags[worker[r]].suspended
          /\ Return(r, "settlement_suspended")
       \/ /\ ~flags[worker[r]].suspended
          /\ GoTo(r, IF flags[worker[r]].claims THEN "acquire" ELSE "settle")
    /\ UNCHANGED <<flags, claimVars, facVars, executed, econ>>

-----------------------------------------------------------------------------
(* The claim table.                                                        *)

\* Mutant: INSERT ... ON DUPLICATE KEY UPDATE, so a later request takes over.
InsertClaim_Upsert(r) ==
    /\ claim' = [claim EXCEPT ![auth[r]] = "settling"]
    /\ owner' = [owner EXCEPT ![auth[r]] = rid[r]]
    /\ claimant' = [claimant EXCEPT ![auth[r]] = r]

\* The INSERT's commit: the primary key lets one row per authorization in.
InsertClaim(r) ==
    /\ claim[auth[r]] = "none"
    /\ claim' = [claim EXCEPT ![auth[r]] = "settling"]
    /\ owner' = [owner EXCEPT ![auth[r]] = rid[r]]
    /\ claimant' = [claimant EXCEPT ![auth[r]] = r]

\* acquire_settling_claim.  On an error the INSERT may or may not have committed.
Acquire(r) ==
    /\ pc[r] = "acquire"
    /\ \/ InsertClaim(r) /\ GoTo(r, "settle")
       \/ /\ claim[auth[r]] # "none"
          /\ Return(r, "claim_exists")
          /\ UNCHANGED claimVars
       \/ /\ Fault("db")
          /\ Return(r, "claim_unavailable")
          /\ InsertClaim(r) \/ UNCHANGED claimVars
    /\ UNCHANGED <<flags, facVars, executed, econ>>

\* The row _resolve's UPDATE ... WHERE owner = ... AND claim_state = 'settling' hits.
Resolvable(r) == claim[auth[r]] = "settling" /\ owner[auth[r]] = rid[r]

Resolve(r, s) ==
    /\ claim' = IF Resolvable(r) THEN [claim EXCEPT ![auth[r]] = s] ELSE claim
    /\ UNCHANGED <<owner, claimant>>

\* Mutant: an unavailable claim table does not stop the request.
RecordSettled_Unconfirmed(r) ==
    /\ pc[r] = "recordSettled"
    /\ \/ Resolve(r, "settled") \/ (Fault("db") /\ UNCHANGED claimVars)
    /\ Return(r, "proceed")
    /\ UNCHANGED <<flags, facVars, executed, econ>>

\* record_settled: only a confirmed single-row update lets the request proceed.
RecordSettled(r) ==
    /\ pc[r] = "recordSettled"
    /\ \/ /\ Resolve(r, "settled")
          /\ Return(r, IF Resolvable(r) THEN "proceed" ELSE "settlement_uncertain")
       \/ /\ Fault("db")
          /\ Resolve(r, "settled") \/ UNCHANGED claimVars
          /\ Return(r, "settlement_uncertain")
    /\ UNCHANGED <<flags, facVars, executed, econ>>

\* Mutant: the uncertain outcome is only returned, never recorded.
RecordUncertain_Unwritten(r) ==
    /\ pc[r] = "recordUncertain"
    /\ Return(r, "settlement_uncertain")
    /\ UNCHANGED <<flags, claimVars, facVars, executed, econ>>

\* Mutant: an unclear reply is taken for a failure, and record_failed is called.
RecordUncertain_AsFailed(r) ==
    /\ pc[r] = "recordUncertain"
    /\ Resolve(r, "failed")
    /\ Return(r, "settlement_uncertain")
    /\ UNCHANGED <<flags, facVars, executed, econ>>

\* record_uncertain: its result is ignored, the request is refused either way.
RecordUncertain(r) ==
    /\ pc[r] = "recordUncertain"
    /\ \/ Resolve(r, "uncertain")
       \/ Fault("db") /\ UNCHANGED claimVars
    /\ Return(r, "settlement_uncertain")
    /\ UNCHANGED <<flags, facVars, executed, econ>>

-----------------------------------------------------------------------------
(* The facilitator exchange.                                               *)

PostSettle(r) ==
    /\ pc[r] = "settle"
    /\ post' = [post EXCEPT ![r] = "sent"]
    /\ GoTo(r, "await")
    /\ UNCHANGED <<flags, claimVars, moved, executed, econ>>

\* The facilitator handles the POST, even of a request that has died.  It
\* confirms only what moved; an unclear answer says nothing about the funds.
FacilitatorSettle(r) ==
    /\ post[r] = "sent"
    /\ \E m \in {moved, moved \cup {auth[r]}}, p \in {"ok", "unclear"} :
          /\ p = "ok" => auth[r] \in m
          /\ moved' = m
          /\ post' = [post EXCEPT ![r] = p]
    /\ UNCHANGED <<flags, reqVars, claimVars, executed, econ>>

\* Mutant: any answer of the facilitator counts as confirmation.
SettleConfirmed_AnyReply(r) ==
    /\ pc[r] = "await"
    /\ post[r] \in {"ok", "unclear"}
    /\ IF identity[r] THEN GoTo(r, "recordSettled") ELSE Return(r, "proceed")
    /\ UNCHANGED <<flags, claimVars, facVars, executed, econ>>

\* settle_result.valid
SettleConfirmed(r) ==
    /\ pc[r] = "await"
    /\ post[r] = "ok"
    /\ IF identity[r] THEN GoTo(r, "recordSettled") ELSE Return(r, "proceed")
    /\ UNCHANGED <<flags, claimVars, facVars, executed, econ>>

\* Mutant: the facilitator client waits for an answer without a timeout.
SettleUnconfirmed_NoTimeout(r) ==
    /\ pc[r] = "await"
    /\ post[r] = "unclear"
    /\ IF identity[r] THEN GoTo(r, "recordUncertain")
                      ELSE Return(r, "settlement_failed")
    /\ UNCHANGED <<flags, claimVars, facVars, executed, econ>>

\* An unclear answer, or none: at any moment the call may time out (status 0)
\* while the POST lives on.
SettleUnconfirmed(r) ==
    /\ pc[r] = "await"
    /\ IF identity[r] THEN GoTo(r, "recordUncertain")
                      ELSE Return(r, "settlement_failed")
    /\ UNCHANGED <<flags, claimVars, facVars, executed, econ>>

-----------------------------------------------------------------------------
(* The endpoint and the economics row.                                     *)

Execute(r) ==
    /\ pc[r] = "execute"
    /\ executed' = executed \cup {r}
    /\ GoTo(r, "finalise")
    /\ UNCHANGED <<flags, claimVars, facVars, econ>>

\* The payment_status of the economics row for each outcome.
StatusOf(o) ==
    CASE o \in {"challenge", "settlement_uncertain"} -> "pending"
      [] o = "proceed" -> "settled"
      [] o \in {"settlement_failed", "claim_exists", "claim_unavailable",
                "settlement_suspended"} -> "failed"
      [] OTHER -> "failed_validation"

\* The payment_reference enforcement returns with an outcome.
ReferenceOf(r) ==
    IF outcome[r] = "challenge" THEN NoRef
    ELSE IF \/ outcome[r] \in {"claim_exists", "settlement_uncertain"}
            \/ outcome[r] = "proceed" /\ identity[r]
         THEN IdentityRef(auth[r])
         ELSE ArtifactRef(auth[r], enc[r])

EconRow(r) == [rid |-> rid[r], status |-> StatusOf(outcome[r]), ref |-> ReferenceOf(r)]

\* log_api_request_economics: a non-pending row first overwrites every pending
\* row of the same request id; only if there is none is a row inserted.
PendingRows(r) == {k \in Request : econ[k].rid = rid[r] /\ econ[k].status = "pending"}
LogEconomics(r) ==
    IF EconRow(r).status # "pending" /\ PendingRows(r) # {}
    THEN econ' = [k \in Request |-> IF k \in PendingRows(r) THEN EconRow(r) ELSE econ[k]]
    ELSE econ' = [econ EXCEPT ![r] = EconRow(r)]

\* The finaliser; a failed economics insert is logged and swallowed.
Finalise(r) ==
    /\ pc[r] = "finalise"
    /\ LogEconomics(r) \/ (Fault("db") /\ UNCHANGED econ)
    /\ GoTo(r, "done")
    /\ UNCHANGED <<flags, claimVars, facVars, executed>>

-----------------------------------------------------------------------------
(* Processes die, and operators replace them.                              *)

Live(r) == pc[r] \notin {"idle", "done", "dead"}

\* The operating rule: unsuspended workers agree on whether they claim.
FleetRule(f) ==
    \A v, w \in Worker :
        ~f[v].suspended /\ ~f[w].suspended => f[v].claims = f[w].claims

Restart(w) ==
    /\ Fault("crash") \/ Rollout
    /\ \E f \in (IF Rollout THEN Flags ELSE {flags[w]}) :
          flags' = [flags EXCEPT ![w] = f]
    /\ FleetRule(flags')
    /\ pc' = [r \in Request |-> IF Live(r) /\ worker[r] = w THEN "dead" ELSE pc[r]]
    /\ UNCHANGED <<worker, auth, enc, rid, identity, outcome, claimVars, facVars, executed, econ>>

Step(r) ==
    \/ ReplayCheck(r) \/ Verify(r) \/ Acquire(r) \/ PostSettle(r)
    \/ SettleConfirmed(r) \/ SettleUnconfirmed(r)
    \/ RecordSettled(r) \/ RecordUncertain(r) \/ Execute(r) \/ Finalise(r)

\* Every request has been answered (or died): nothing more need happen.
Quiescent == (\A r \in Request : pc[r] \in {"done", "dead"}) /\ UNCHANGED vars

Next ==
    \/ \E r \in Request : Probe(r) \/ Present(r) \/ Step(r) \/ FacilitatorSettle(r)
    \/ \E w \in Worker : Restart(w)
    \/ Quiescent

Spec == Init /\ [][Next]_vars

\* A worker keeps running its requests; nothing is assumed of the facilitator,
\* whose silence ends in the client's timeout.
Fairness == \A r \in Request : WF_vars(Step(r))
FairSpec == Spec /\ Fairness

-----------------------------------------------------------------------------
(* Properties.                                                             *)

\* A request that sends a claimed authorization to /settle is the one whose
\* INSERT won it, and stays so: however requests, encodings, lost
\* acknowledgements, restarts and flag changes interleave, no second claiming
\* request settles the same authorization (enforcement.py, acquire_settling_claim).
SettlesOnlyOwnClaim ==
    \A r \in Request : (identity[r] /\ post[r] # "none") =>
        /\ claimant[auth[r]] = r
        /\ \A s \in Request : (identity[s] /\ auth[s] = auth[r] /\ post[s] # "none") => s = r

\* Paid work runs only after the funds moved and, for a claiming request, after
\* the claim is durably settled under its request id; one claim pays for one
\* execution.
ExecutedIsPaid ==
    \A r \in executed :
        /\ auth[r] \in moved
        /\ identity[r] =>
              /\ claim[auth[r]] = "settled" /\ owner[auth[r]] = rid[r]
              /\ \A s \in executed : (identity[s] /\ auth[s] = auth[r]) => s = r

\* A claim says 'settled' only of funds that moved, and funds never move without
\* a claim row to reconcile them from, unless a non-claiming request sent them.
ClaimsMatchFunds ==
    /\ \A a \in Auth : claim[a] = "settled" => a \in moved
    /\ \A a \in moved :
          \/ claim[a] # "none"
          \/ \E r \in Request : auth[r] = a /\ ~identity[r] /\ post[r] # "none"

\* An economics row that says 'settled' names a payment that did move funds, and
\* one under a claim reference agrees with the claim table.
EconomicsAgree ==
    \A k \in Request : econ[k].status = "settled" =>
        /\ econ[k].ref.auth \in moved
        /\ econ[k].ref.kind = "identity" => claim[econ[k].ref.auth] = "settled"

\* The two tables an operator reconciles a payment from are true of the funds.
RecordsMatchFunds == ClaimsMatchFunds /\ EconomicsAgree

\* While the operators keep the fleet rule, a request past the suspension check
\* never runs beside one of the other mode, so the two cannot race to settle.
Settling(r) == pc[r] \in {"acquire", "settle", "await", "recordSettled", "recordUncertain"}
ModesNeverRace ==
    \A r, s \in Request : Settling(r) /\ Settling(s) => identity[r] = identity[s]

\* A claim row is never removed or re-owned, and once resolved never changes.
ClaimIsFinal ==
    [][\A a \in Auth : claim[a] # "none" =>
          /\ owner'[a] = owner[a]
          /\ claim'[a] # claim[a] => claim[a] = "settling" /\ claim'[a] # "none"]_vars

\* The abstract ledger of this state, and that this module implements it.
Ledger == INSTANCE SettlementLedger WITH
    holder    <- claimant,
    verdict   <- [a \in Auth |-> IF claim[a] \in {"none", "settling"} THEN "open" ELSE claim[a]],
    delivered <- {r \in executed : identity[r]}
ImplementsLedger == Ledger!Spec

\* Without database failures every claim is resolved while its worker lives: the
\* facilitator's reply, or the timeout of the call, always ends 'settling', and
\* only a request killed by a redeployment leaves its row to be reconciled.
ClaimResolves ==
    \A a \in Auth : claim[a] = "settling" ~>
        \/ claim[a] \in {"settled", "uncertain"}
        \/ \E r \in Request : claimant[a] = r /\ pc[r] = "dead"

\* Every request that enters enforcement is answered unless its worker dies,
\* even if the facilitator never replies.
RequestsEnd == \A r \in Request : Live(r) ~> ~Live(r)

\* "Keep it non-billable and non-terminal in economics": the row of an uncertain
\* settlement stays pending (middleware/metering.py, settlement_uncertain).
UncertainStaysPending ==
    [][\A k \in Request :
          (econ[k].status = "pending" /\ econ[k].ref.kind = "identity")
              => econ'[k].status = "pending"]_vars
=============================================================================
