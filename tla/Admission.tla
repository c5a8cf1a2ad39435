------------------------------ MODULE Admission ------------------------------
(***************************************************************************)
(* How a request is admitted and priced: ApiKeyMiddleware decides by which  *)
(* right it may enter, MeteringMiddleware classifies it, and each asks the  *)
(* policy cache through payment_policy_snapshot_for_request.  Both run on   *)
(* the worker's event loop, which a read of the policy blocks; between the  *)
(* two, other requests and the refresh of the policy go on.                 *)
(***************************************************************************)
EXTENDS PolicyCache

CONSTANTS
    Request,
    Loop,           \* the thread that runs the middlewares
    OpenPath,       \* paths for which bypasses_customer_api_key
    NonMeteredPath, \* paths the classifier calls free before it asks the policy
    V1Path,         \* paths under /v1/
    Callers         \* who may call

Caller == [
    path:      Path,
    preflight: BOOLEAN,                             \* the method is OPTIONS
    key:       {"none", "bad", "plan", "other"},    \* other: a plan outside the subscriptions
    agent:     {"none", "id", "vendor"},            \* identified by X-StockTrends-Agent-Id, or
                                                    \* only by X-StockTrends-Agent-Vendor
    method:    MachineRail \cup {"none"},           \* X-StockTrends-Payment-Method
    gone:      BOOLEAN]                             \* the Intelligence artifact is unavailable

ASSUME AdmissionAssumption ==
    /\ Loop \in Thread /\ Nobody \notin Request
    /\ PublicPath \subseteq OpenPath \cap NonMeteredPath
    /\ NonMeteredPath \cap V1Path \subseteq OpenPath
    /\ Callers \subseteq Caller

VARIABLES
    enabled,    \* ENABLE_AGENT_PAY, read once at import
    caller,     \* who sends the request
    stage,      \* the middleware it has reached
    serving,    \* the request for which the loop reads the policy
    snapshot,   \* request.state.payment_policy_snapshot
    auth,       \* request.state.auth_mode, or "refused"
    decision,   \* the class of classify_request
    used        \* the configuration each middleware went by (history)

requestVars == <<enabled, caller, stage, serving, snapshot, auth, decision, used>>
vars == <<policyVars, requestVars>>

Stage == {"apikey", "metering", "done", "failed"}
Middleware == {"apikey", "metering"}
Auth == {"none", "public", "availability_gate", "api_key", "free_metered", "agent_pay", "refused"}
Decision == {"none", "free", "free_metered", "subscription", "agent_pay", "deny", "unavailable"}

AdmissionTypeOK ==
    /\ TypeOK
    /\ enabled \in BOOLEAN
    /\ caller \in [Request -> Callers]
    /\ stage \in [Request -> Stage]
    /\ serving \in Request \cup {Nobody}
    /\ snapshot \in [Request -> ConfigOrNone]
    /\ auth \in [Request -> Auth]
    /\ decision \in [Request -> Decision]
    /\ used \in [Request -> [Middleware -> ConfigOrNone]]

AdmissionInit ==
    /\ PolicyInit
    /\ enabled \in BOOLEAN
    /\ caller \in [Request -> Callers]
    /\ stage = [r \in Request |-> "apikey"]
    /\ serving = Nobody
    /\ snapshot = [r \in Request |-> NoConfig]
    /\ auth = [r \in Request |-> "none"]
    /\ decision = [r \in Request |-> "none"]
    /\ used = [r \in Request |-> [m \in Middleware |-> NoConfig]]

-----------------------------------------------------------------------------
(* The two decisions, as functions of a configuration and a caller.        *)

Skips(c) == c.path \in OpenPath \/ c.preflight

\* _authenticate_api_key: only a subscription plan opens a path under /v1/.
KeyAccepted(c) == c.key = "plan" \/ (c.key = "other" /\ c.path \notin V1Path)

ByKey(c) == IF KeyAccepted(c) THEN "api_key" ELSE "refused"

\* _is_agent_pay_candidate.
Candidate(cfg, c) == c.agent = "id" /\ c.method \in BypassMethods(cfg, c.path)

\* Mutant: the enforcement fallback does not look at the key.
Admit_IgnoresKey(cfg, c) ==
    CASE c.gone -> "availability_gate"
      [] ~c.gone /\ c.path \in cfg.freeMetered ->
            IF c.key = "none" THEN "free_metered" ELSE ByKey(c)
      [] ~c.gone /\ c.path \notin cfg.freeMetered ->
            IF Candidate(cfg, c) \/ (enabled /\ IsEnforcementPath(cfg, c.path)) THEN "agent_pay"
            ELSE IF c.path \in V1Path THEN ByKey(c) ELSE "public"

\* ApiKeyMiddleware.dispatch, past the paths it skips.
Admit(cfg, c) ==
    CASE c.gone -> "availability_gate"
      [] ~c.gone /\ c.path \in cfg.freeMetered ->
            IF c.key = "none" THEN "free_metered" ELSE ByKey(c)
      [] ~c.gone /\ c.path \notin cfg.freeMetered ->
            IF \/ Candidate(cfg, c)
               \/ enabled /\ c.key = "none" /\ IsEnforcementPath(cfg, c.path) THEN "agent_pay"
            ELSE IF c.path \in V1Path THEN ByKey(c) ELSE "public"

\* _has_agent_payment_intent, with agent payment switched on.
Intends(cfg, c) ==
    enabled /\ c.agent # "none" /\ c.method \in BypassMethods(cfg, c.path)

ClassifyGoverned(cfg, c, keyed) ==
    IF AllowsSubscription(cfg, c.path) /\ keyed THEN "subscription"
    ELSE IF Intends(cfg, c) \/ (enabled /\ ~keyed /\ MachineRails(cfg, c.path) # {})
    THEN "agent_pay"
    ELSE "deny"

\* Mutant: a caller without a key is charged only if it says so.
ClassifyPrefix_ByIntent(cfg, c, keyed) ==
    IF Intends(cfg, c) THEN "agent_pay"
    ELSE IF c.key # "bad" THEN "subscription"
    ELSE "deny"

\* The agent-pay prefixes: intent comes before the subscription.
ClassifyPrefix(cfg, c, keyed) ==
    IF Intends(cfg, c) THEN "agent_pay"
    ELSE IF keyed /\ c.key = "plan" THEN "subscription"
    ELSE IF enabled /\ ~keyed THEN "agent_pay"
    ELSE "deny"

\* classify_request.
Classify(cfg, c, keyed) ==
    CASE c.path \in NonMeteredPath -> "free"
      [] c.path \notin NonMeteredPath /\ c.path \in cfg.freeMetered -> "free_metered"
      [] c.path \notin NonMeteredPath /\ c.path \notin cfg.freeMetered ->
            IF Governed(cfg, c.path) /\ c.path \in V1Path THEN ClassifyGoverned(cfg, c, keyed)
            ELSE IF IsAgentPayRoute(cfg, c.path) THEN ClassifyPrefix(cfg, c, keyed)
            ELSE IF c.path \in V1Path THEN "subscription" ELSE "free"
-----------------------------------------------------------------------------

\* Public paths and preflights go on to the next middleware.
SkipApiKey(r) ==
    /\ stage[r] = "apikey" /\ serving = Nobody
    /\ Skips(caller[r])
    /\ auth' = [auth EXCEPT ![r] = "public"]
    /\ stage' = [stage EXCEPT ![r] = "metering"]
    /\ UNCHANGED <<policyVars, enabled, caller, serving, snapshot, decision, used>>

\* payment_policy_snapshot_for_request, when nothing is bound yet.
AskPolicy(r) ==
    /\ stage[r] \in Middleware /\ serving = Nobody
    /\ stage[r] = "apikey" => ~Skips(caller[r])
    /\ snapshot[r] = NoConfig
    /\ Call(Loop)
    /\ serving' = r
    /\ UNCHANGED <<enabled, caller, stage, snapshot, auth, decision, used>>

\* What a middleware does with the configuration it holds.
Decide(r, cfg) ==
    /\ used' = [used EXCEPT ![r][stage[r]] = cfg]
    /\ \/ /\ stage[r] = "apikey"
          /\ auth' = [auth EXCEPT ![r] = Admit(cfg, caller[r])]
          /\ stage' = [stage EXCEPT ![r] = IF Admit(cfg, caller[r]) = "refused" THEN "done"
                                           ELSE "metering"]
          /\ UNCHANGED decision
       \/ /\ stage[r] = "metering"
          /\ decision' = [decision EXCEPT ![r] =
                 IF auth[r] = "availability_gate" THEN "unavailable"
                 ELSE Classify(cfg, caller[r], auth[r] = "api_key")]
          /\ stage' = [stage EXCEPT ![r] = "done"]
          /\ UNCHANGED auth

\* Mutant: the configuration is used and not bound.
PolicyRead_NotBound(r) ==
    /\ serving = r /\ pc[Loop] = "returned"
    /\ Decide(r, result[Loop])
    /\ Leave(Loop)
    /\ serving' = Nobody
    /\ UNCHANGED <<enabled, snapshot, caller>>

PolicyRead(r) ==
    /\ serving = r /\ pc[Loop] = "returned"
    /\ snapshot' = [snapshot EXCEPT ![r] = result[Loop]]
    /\ Decide(r, result[Loop])
    /\ Leave(Loop)
    /\ serving' = Nobody
    /\ UNCHANGED <<enabled, caller>>

PolicyRaised(r) ==
    /\ serving = r /\ pc[Loop] = "raised"
    /\ stage' = [stage EXCEPT ![r] = "failed"]
    /\ Leave(Loop)
    /\ serving' = Nobody
    /\ UNCHANGED <<enabled, caller, snapshot, auth, decision, used>>

\* The bound snapshot answers the second middleware.
UseSnapshot(r) ==
    /\ stage[r] = "metering" /\ serving = Nobody
    /\ snapshot[r] # NoConfig
    /\ Decide(r, snapshot[r])
    /\ UNCHANGED <<policyVars, enabled, caller, serving, snapshot>>

\* An endpoint on a thread of the pool reads the policy for a document.
EndpointReads(t) ==
    /\ t # Loop
    /\ Call(t) \/ Leave(t)
    /\ UNCHANGED requestVars

PolicySteps ==
    /\ (\E t \in Thread : Step(t)) \/ Publish \/ Tick
    /\ UNCHANGED requestVars

\* The requests of a worker that dies fail with it.
WorkerRestarts ==
    /\ Restart
    /\ serving' = Nobody
    /\ stage' = [r \in Request |-> IF stage[r] = "metering" \/ serving = r THEN "failed"
                                   ELSE stage[r]]
    /\ UNCHANGED <<enabled, caller, snapshot, auth, decision, used>>

AdmissionNext ==
    \/ \E r \in Request :
          SkipApiKey(r) \/ AskPolicy(r) \/ PolicyRead(r) \/ PolicyRaised(r) \/ UseSnapshot(r)
    \/ \E t \in Thread : EndpointReads(t)
    \/ PolicySteps
    \/ WorkerRestarts

AdmissionSpec == AdmissionInit /\ [][AdmissionNext]_vars

-----------------------------------------------------------------------------
(* Properties.                                                             *)

\* One request, one policy: what admitted a request is what classifies it,
\* whatever was published and fetched in between.
OneSnapshot ==
    \A r \in Request : \A m, n \in Middleware :
        (used[r][m] # NoConfig /\ used[r][n] # NoConfig) => used[r][m] = used[r][n]

\* A path that the enforcement prefixes cover and the agent-pay prefixes do not.
Disjointed(cfg, path) ==
    ~Governed(cfg, path) /\ path \in cfg.enforce \ cfg.agentPay

\* Under /v1/, only a key entitles to the subscription lane: no caller let in to
\* pay, or as free, ends there.
EntitledByKey ==
    \A r \in Request : LET c == caller[r] IN
        (/\ decision[r] \in {"free", "subscription"} /\ c.path \in V1Path
         /\ ~Skips(c) /\ ~Disjointed(used[r].metering, c.path)) => auth[r] = "api_key"

\* A subscriber with its key and no payment header is served on its subscription,
\* or by an endpoint that tells it does not take one; it is never charged.
SubscribersUnaffected ==
    \A r \in Request : LET c == caller[r] IN
        (/\ c.key = "plan" /\ c.method = "none" /\ c.path \in V1Path
         /\ ~Skips(c) /\ ~c.gone /\ decision[r] # "none") =>
            \/ decision[r] \in {"subscription", "free_metered"}
            \/ /\ decision[r] = "deny" /\ Governed(used[r].metering, c.path)
               /\ ~AllowsSubscription(used[r].metering, c.path)

\* Keyless requests on enforcement-scoped paths are forwarded so that the 402
\* challenge flow can run (the comment in ApiKeyMiddleware.dispatch).
EnforcedIsChallenged ==
    \A r \in Request :
        (auth[r] = "agent_pay" /\ caller[r].key = "none"
         /\ IsEnforcementPath(used[r].apikey, caller[r].path) /\ decision[r] # "none") =>
            decision[r] \in {"agent_pay", "deny"}
=============================================================================
