----------------------------- MODULE PolicyCache -----------------------------
(***************************************************************************)
(* The payment policy of one worker process (payments/policy_provider.py):  *)
(* the cache behind get_runtime_payment_policy_config, refreshed from the   *)
(* control plane under a lock.  Its callers are the event loop, on which    *)
(* the middlewares run, and the threads of the pool, on which endpoints     *)
(* build documents from the policy.  The control plane may publish, fail or *)
(* be slow at any time.                                                     *)
(***************************************************************************)
EXTENDS PolicyConfig

CONSTANTS
    Thread,         \* the event loop and the threads of the pool
    Nobody,         \* nobody holds the lock
    NoConfig,       \* None
    Payloads,       \* what the control plane may publish
    Timeout,        \* bound on one wait for the control plane, in ticks
    MaxClock,       \* bound on the clock, for TLC
    Faults          \* what may go wrong: a subset of FaultKinds

\* fetch: no URL, an HTTP or socket error or an invalid payload, all of which
\* are caught; raise: any other exception; crash: the worker restarts.
FaultKinds == {"fetch", "raise", "crash"}

ASSUME CacheAssumption ==
    /\ Payloads \subseteq Payload
    /\ \A pl \in Payloads : \A p, q \in pl.policies : p.place = q.place => p = q
    /\ \A pl \in Payloads : \A p \in pl.policies, d \in Defaults.policies : p.place < d.place
    /\ Timeout \in Nat \ {0} /\ MaxClock \in Nat
    /\ Faults \subseteq FaultKinds
    /\ Nobody \notin Thread
    /\ NoConfig \notin Config

VARIABLES
    published,  \* the control plane's current payload
    now,        \* time.time()
    cached,     \* _cached_config
    cachedAt,   \* _cached_at
    lastGood,   \* _last_known_good_config
    holder,     \* who holds _cache_lock
    pc,         \* where a thread's call is
    waiting,    \* since when it waits for the control plane
    answer,     \* the reply it has received, parsed
    sentAt,     \* when that reply was sent (history)
    result,     \* what its call returned
    asOf,       \* when the cached configuration was sent (history)
    failedAt    \* when a caught failure was last recorded (history)

cacheVars == <<cached, cachedAt, lastGood, asOf, failedAt>>
localVars == <<waiting, answer, sentAt>>
callVars == <<pc, localVars, result>>
policyVars == <<published, now, holder, cacheVars, callVars>>

-----------------------------------------------------------------------------

Pc == {"idle", "lock", "fetch", "reply", "returned", "raised"}
ConfigOrNone == Config \cup {NoConfig}
Never == -1

TypeOK ==
    /\ published \in Payloads
    /\ now \in Nat
    /\ cached \in ConfigOrNone /\ lastGood \in ConfigOrNone
    /\ cachedAt \in Nat
    /\ holder \in Thread \cup {Nobody}
    /\ pc \in [Thread -> Pc]
    /\ waiting \in [Thread -> Nat]
    /\ answer \in [Thread -> ConfigOrNone]
    /\ sentAt \in [Thread -> Nat]
    /\ result \in [Thread -> ConfigOrNone]
    /\ asOf \in Nat
    /\ failedAt \in Nat \cup {Never}

PolicyInit ==
    /\ published \in Payloads
    /\ now = 0
    /\ cached = NoConfig /\ cachedAt = 0 /\ lastGood = NoConfig
    /\ holder = Nobody
    /\ pc = [t \in Thread |-> "idle"]
    /\ waiting = [t \in Thread |-> 0]
    /\ answer = [t \in Thread |-> NoConfig]
    /\ sentAt = [t \in Thread |-> 0]
    /\ result = [t \in Thread |-> NoConfig]
    /\ asOf = 0 /\ failedAt = Never

-----------------------------------------------------------------------------

Return(t, cfg) ==
    /\ result' = [result EXCEPT ![t] = cfg]
    /\ pc' = [pc EXCEPT ![t] = "returned"]

\* The fetch is over, and its local variables with it.
EndFetch(t) ==
    /\ waiting' = [waiting EXCEPT ![t] = 0]
    /\ answer' = [answer EXCEPT ![t] = NoConfig]
    /\ sentAt' = [sentAt EXCEPT ![t] = 0]

Call(t) ==
    /\ pc[t] = "idle"
    /\ pc' = [pc EXCEPT ![t] = "lock"]
    /\ UNCHANGED <<published, now, holder, localVars, result, cacheVars>>

Fresh == cached # NoConfig /\ now - cachedAt < cached.ttl

\* Under the lock: a fresh configuration is returned, another one is fetched.
Hit(t) ==
    /\ pc[t] = "lock" /\ holder = Nobody
    /\ Fresh
    /\ Return(t, cached)
    /\ UNCHANGED <<published, now, holder, localVars, cacheVars>>

\* Mutant: the lock is not held during the fetch.
Miss_Unlocked(t) ==
    /\ pc[t] = "lock" /\ holder = Nobody
    /\ ~Fresh
    /\ waiting' = [waiting EXCEPT ![t] = now]
    /\ pc' = [pc EXCEPT ![t] = "fetch"]
    /\ UNCHANGED <<published, now, holder, answer, sentAt, result, cacheVars>>

Miss(t) ==
    /\ pc[t] = "lock" /\ holder = Nobody
    /\ ~Fresh
    /\ holder' = t
    /\ waiting' = [waiting EXCEPT ![t] = now]
    /\ pc' = [pc EXCEPT ![t] = "fetch"]
    /\ UNCHANGED <<published, now, answer, sentAt, result, cacheVars>>

\* The control plane sends the policy of this moment; its body is read in a
\* second wait.
Reply(t) ==
    /\ pc[t] = "fetch"
    /\ answer' = [answer EXCEPT ![t] = Parse(published)]
    /\ sentAt' = [sentAt EXCEPT ![t] = now]
    /\ waiting' = [waiting EXCEPT ![t] = now]
    /\ pc' = [pc EXCEPT ![t] = "reply"]
    /\ UNCHANGED <<published, now, holder, result, cacheVars>>

Store(t) ==
    /\ pc[t] = "reply"
    /\ cached' = answer[t] /\ cachedAt' = now /\ asOf' = sentAt[t]
    /\ lastGood' = answer[t]
    /\ Return(t, answer[t])
    /\ holder' = Nobody
    /\ EndFetch(t)
    /\ UNCHANGED <<published, now, failedAt>>

Fallback == IF lastGood # NoConfig THEN lastGood
            ELSE IF cached # NoConfig THEN cached ELSE Defaults

\* Mutant: the time of the failure is not recorded.
FetchFails_NotDated(t) ==
    /\ pc[t] \in {"fetch", "reply"}
    /\ "fetch" \in Faults
    /\ cached' = Fallback
    /\ failedAt' = now
    /\ Return(t, Fallback)
    /\ holder' = Nobody
    /\ EndFetch(t)
    /\ UNCHANGED <<published, now, lastGood, cachedAt, asOf>>

\* A failure the code expects: fall back, and count the ttl from now.
FetchFails(t) ==
    /\ pc[t] \in {"fetch", "reply"}
    /\ "fetch" \in Faults
    /\ cached' = Fallback /\ cachedAt' = now
    /\ failedAt' = now
    /\ Return(t, Fallback)
    /\ holder' = Nobody
    /\ EndFetch(t)
    /\ UNCHANGED <<published, now, lastGood, asOf>>

\* Mutant: the lock is not released on the way out.
FetchRaises_KeepsLock(t) ==
    /\ pc[t] \in {"fetch", "reply"}
    /\ "raise" \in Faults
    /\ pc' = [pc EXCEPT ![t] = "raised"]
    /\ EndFetch(t)
    /\ UNCHANGED <<published, now, holder, result, cacheVars>>

\* An exception the code does not catch leaves the cache as it was; the lock is
\* released by its context manager.
FetchRaises(t) ==
    /\ pc[t] \in {"fetch", "reply"}
    /\ "raise" \in Faults
    /\ pc' = [pc EXCEPT ![t] = "raised"]
    /\ holder' = Nobody
    /\ EndFetch(t)
    /\ UNCHANGED <<published, now, result, cacheVars>>

\* The caller goes on with the result, or with the exception.
Leave(t) ==
    /\ pc[t] \in {"returned", "raised"}
    /\ pc' = [pc EXCEPT ![t] = "idle"]
    /\ result' = [result EXCEPT ![t] = NoConfig]
    /\ UNCHANGED <<published, now, holder, localVars, cacheVars>>

-----------------------------------------------------------------------------
(* The environment.                                                        *)

Publish ==
    /\ \E p \in Payloads \ {published} : published' = p
    /\ UNCHANGED <<now, holder, cacheVars, callVars>>

\* No wait for the control plane outlasts its timeout.
Tick ==
    /\ now < MaxClock
    /\ \A t \in Thread : pc[t] \in {"fetch", "reply"} => now - waiting[t] < Timeout
    /\ now' = now + 1
    /\ UNCHANGED <<published, holder, cacheVars, callVars>>

\* The process dies with the calls it was making; its successor finds an empty
\* cache.
Restart ==
    /\ "crash" \in Faults
    /\ pc' = [t \in Thread |-> "idle"]
    /\ result' = [t \in Thread |-> NoConfig]
    /\ cached' = NoConfig /\ cachedAt' = 0 /\ lastGood' = NoConfig
    /\ holder' = Nobody
    /\ waiting' = [t \in Thread |-> 0]
    /\ answer' = [t \in Thread |-> NoConfig]
    /\ sentAt' = [t \in Thread |-> 0]
    /\ UNCHANGED <<published, now, asOf, failedAt>>

\* What goes on inside a call.
Step(t) == Hit(t) \/ Miss(t) \/ Reply(t) \/ Store(t) \/ FetchFails(t) \/ FetchRaises(t)

Next ==
    \/ \E t \in Thread : Call(t) \/ Step(t) \/ Leave(t)
    \/ Publish \/ Tick \/ Restart

Spec == PolicyInit /\ [][Next]_policyVars

\* A call that can go on does: a wait for the control plane ends, one way or
\* another.  Nothing makes the lock fair.
Fairness == \A t \in Thread : WF_policyVars(Step(t))
FairSpec == Spec /\ Fairness

-----------------------------------------------------------------------------
(* Properties.                                                             *)

\* Once the control plane has answered, a worker never goes back to the defaults
\* nor to an older answer: it serves the last good one, outage or not.
ServesLastGood == lastGood # NoConfig => cached = lastGood

\* The answers of concurrent callers take effect in the order they were sent.
AnswersInOrder == [][asOf <= asOf']_policyVars

\* What is served is the newest answer there is.
LatestAnswerServed == []ServesLastGood /\ AnswersInOrder

\* A control plane that failed is left alone for a ttl, whoever asks.
FailuresBackOff ==
    [][\A t \in Thread :
          (pc[t] = "lock" /\ pc'[t] = "fetch" /\ cached # NoConfig /\ failedAt # Never) =>
              now - failedAt >= cached.ttl]_policyVars

\* A call returns a policy of the control plane within its ttl and one wait of
\* being sent, unless a fetch has failed within that ttl.
StaleOnlyAfterFailure ==
    [][\A t \in Thread :
          (pc[t] # "returned" /\ pc'[t] = "returned" /\ result'[t].source = "control_plane") =>
              \/ now - asOf' < result'[t].ttl + Timeout
              \/ failedAt' # Never /\ now - failedAt' < result'[t].ttl]_policyVars

\* The control plane is asked neither too often nor too seldom.
RefreshesInTime == FailuresBackOff /\ StaleOnlyAfterFailure

\* Whatever the control plane publishes, no caller gets a policy that lost an
\* endpoint, a price or a machine rail of the defaults.
ReturnsPriced == \A t \in Thread : pc[t] = "returned" => KeepsDefaults(result[t])

\* Whatever becomes of a fetch, the lock is released.
LockReleased == holder # Nobody ~> holder = Nobody
=============================================================================
