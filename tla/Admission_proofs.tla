--------------------------- MODULE Admission_proofs ---------------------------
(***************************************************************************)
(* Theorems about PolicyCache, for any threads, any payloads the control    *)
(* plane may publish, any defaults and any faults, and about Admission,     *)
(* which reads that cache, for any requests, callers and paths besides.     *)
(***************************************************************************)
EXTENDS Admission, TLAPS

-----------------------------------------------------------------------------
(* Parsing.                                                                *)

\* An entry with a default has one: the choice is not vacuous.
LEMMA DefaultForIsDefault ==
    ASSUME NEW p, HasDefault(p)
    PROVE  DefaultFor(p) \in Defaults.policies /\ DefaultFor(p).endpoint = p.endpoint
<1> \E d \in Defaults.policies : d.endpoint = p.endpoint
    BY DEF HasDefault, Endpoints
<1> QED BY DEF DefaultFor

\* The defaults keep what they promise.
LEMMA DefaultsAreComplete == KeepsDefaults(Defaults)
<1>1. ASSUME NEW p \in Defaults.policies, HasDefault(p)
      PROVE  Priced(p) /\ DefaultFor(p).rails \cap MachineRail \subseteq p.rails
    <2>1. DefaultFor(p) = p
        BY <1>1, DefaultForIsDefault, PolicyAssumption
    <2> QED BY <2>1, <1>1, PolicyAssumption
<1> QED BY <1>1 DEF KeepsDefaults

\* A repaired entry stays an entry for its endpoint, and has what the default has.
LEMMA RepairRepairs ==
    ASSUME NEW p \in Policy
    PROVE  /\ Repair(p) \in Policy /\ Repair(p).endpoint = p.endpoint
           /\ HasDefault(Repair(p)) =>
                 /\ Priced(Repair(p))
                 /\ DefaultFor(Repair(p)).rails \cap MachineRail \subseteq Repair(p).rails
<1>1. CASE ~HasDefault(p)
    BY <1>1 DEF Repair
<1>2. CASE HasDefault(p)
    <2> DEFINE d == DefaultFor(p)
    <2>1. d \in Defaults.policies /\ d.endpoint = p.endpoint
        BY <1>2, DefaultForIsDefault
    <2>2. d \in Policy /\ Priced(d)
        BY <2>1, PolicyAssumption DEF Config
    <2>3. Repair(p) = [p EXCEPT !.rule = IF Priced(p) THEN p.rule ELSE d.rule,
                                !.rails = p.rails \cup (d.rails \cap MachineRail)]
        BY <1>2 DEF Repair
    <2> HIDE DEF d
    <2>4. d.rule \in Rule \cup {Uuid, NoRule} /\ d.rails \subseteq Rail
        BY <2>2 DEF Policy
    <2>5. Repair(p) \in Policy /\ Repair(p).endpoint = p.endpoint
        BY <2>3, <2>4 DEF Policy
    <2>6. Repair(p).rails = p.rails \cup (d.rails \cap MachineRail)
        BY <2>3 DEF Policy
    <2>7. Priced(Repair(p))
        BY <2>2, <2>3 DEF Policy, Priced
    <2>8. DefaultFor(Repair(p)) = d
        <3>1. HasDefault(Repair(p))
            BY <2>5, <1>2 DEF HasDefault
        <3> QED BY <3>1, <2>1, <2>5, DefaultForIsDefault, PolicyAssumption
    <2> QED BY <2>5, <2>6, <2>7, <2>8
<1> QED BY <1>1, <1>2

\* Filling the gaps leaves no default endpoint out and none unpriced.
LEMMA CompleteCompletes ==
    ASSUME NEW policies \in SUBSET Policy
    PROVE  /\ Complete(policies) \in SUBSET Policy
           /\ Endpoints(Defaults.policies) \subseteq Endpoints(Complete(policies))
           /\ \A p \in Complete(policies) : HasDefault(p) =>
                 Priced(p) /\ DefaultFor(p).rails \cap MachineRail \subseteq p.rails
<1>1. /\ Defaults.policies \in SUBSET Policy
      /\ \A p \in Defaults.policies : HasDefault(p) =>
            Priced(p) /\ DefaultFor(p).rails \cap MachineRail \subseteq p.rails
    BY DefaultsAreComplete, PolicyAssumption DEF KeepsDefaults, Config
<1>2. CASE policies = {}
    BY <1>1, <1>2 DEF Complete
<1>3. CASE policies # {}
    <2>1. Complete(policies) = {Repair(p) : p \in policies} \cup Uncovered(policies)
        BY <1>3 DEF Complete
    <2>2. Uncovered(policies) \subseteq Defaults.policies
        BY DEF Uncovered
    <2>3. ASSUME NEW e \in Endpoints(Defaults.policies)
          PROVE  e \in Endpoints(Complete(policies))
        <3>1. PICK d \in Defaults.policies : d.endpoint = e
            BY <2>3 DEF Endpoints
        <3>2. CASE e \in Endpoints(policies)
            <4>1. PICK p \in policies : p.endpoint = e
                BY <3>2 DEF Endpoints
            <4>2. Repair(p) \in Complete(policies) /\ Repair(p).endpoint = e
                BY <4>1, <2>1, RepairRepairs
            <4> QED BY <4>2 DEF Endpoints
        <3>3. CASE e \notin Endpoints(policies)
            <4>1. d \in Complete(policies)
                BY <3>1, <3>3, <2>1 DEF Uncovered
            <4> QED BY <4>1, <3>1 DEF Endpoints
        <3> QED BY <3>2, <3>3
    <2>4. ASSUME NEW p \in Complete(policies)
          PROVE  /\ p \in Policy
                 /\ HasDefault(p) =>
                       Priced(p) /\ DefaultFor(p).rails \cap MachineRail \subseteq p.rails
        BY <2>1, <2>2, <2>4, <1>1, RepairRepairs
    <2> QED BY <2>3, <2>4
<1> QED BY <1>2, <1>3

\* Whatever payload is published, its parse is a configuration that keeps what the
\* defaults promise.
THEOREM ParseKeepsDefaults ==
    ASSUME NEW payload \in Payload
    PROVE  /\ Parse(payload) \in Config /\ Parse(payload).source = "control_plane"
           /\ KeepsDefaults(Parse(payload))
<1> DEFINE cfg == Parse(payload)
<1>1. Defaults \in Config
    BY PolicyAssumption
<1>2. /\ payload.ttl \in Nat /\ payload.rails \in SUBSET Rail
      /\ payload.policies \in SUBSET Policy
      /\ payload.freeMetered \in (SUBSET Path) \cup {Absent}
      /\ payload.agentPay \in (SUBSET Path) \cup {Absent}
      /\ payload.bypass \in (SUBSET MachineRail) \cup {Absent}
      /\ payload.enforce \in (SUBSET Path) \cup {Absent}
    BY DEF Payload
<1>3. /\ OrDefault(payload.freeMetered, Defaults.freeMetered) \in SUBSET Path
      /\ OrDefault(payload.agentPay, Defaults.agentPay) \in SUBSET Path
      /\ OrDefault(payload.bypass, Defaults.bypass) \in SUBSET MachineRail
      /\ OrDefault(payload.enforce, Defaults.enforce) \in SUBSET Path
    BY <1>1, <1>2 DEF OrDefault, Config
<1>4. (IF payload.ttl > 0 THEN payload.ttl ELSE Defaults.ttl) \in Nat \ {0}
    BY <1>1, <1>2 DEF Config
<1>5. Complete(payload.policies) \in SUBSET Policy
    BY <1>2, CompleteCompletes
<1>6. cfg \in Config /\ cfg.source = "control_plane"
      /\ cfg.policies = Complete(payload.policies)
    BY <1>2, <1>3, <1>4, <1>5 DEF Parse, Config
<1> HIDE DEF cfg
<1>7. KeepsDefaults(cfg)
    BY <1>2, <1>6, CompleteCompletes DEF KeepsDefaults
<1> QED BY <1>6, <1>7 DEF cfg

-----------------------------------------------------------------------------
(* The inductive invariant: the lock is held exactly by the thread that      *)
(* fetches, what may be served keeps the defaults, and the times fit.      *)

Fetching(t) == pc[t] \in {"fetch", "reply"}

LockInv == \A t \in Thread : Fetching(t) <=> holder = t

Served(cfg) == cfg \in Config /\ KeepsDefaults(cfg)

ConfigInv ==
    /\ ServesLastGood
    /\ cached # NoConfig => Served(cached)
    /\ \A t \in Thread : pc[t] = "reply" => Served(answer[t])
    /\ \A t \in Thread : pc[t] = "returned" => Served(result[t])

TimeInv ==
    /\ asOf <= now /\ cachedAt <= now
    /\ failedAt # Never => failedAt <= now
    /\ \A t \in Thread : Fetching(t) =>
          asOf <= waiting[t] /\ waiting[t] <= now /\ now - waiting[t] <= Timeout
    /\ \A t \in Thread : pc[t] = "reply" => sentAt[t] = waiting[t]
    /\ cached # NoConfig /\ failedAt # Never => failedAt <= cachedAt
    /\ cached # NoConfig /\ cached.source = "control_plane" =>
          cachedAt <= asOf + Timeout \/ failedAt = cachedAt

Inv == TypeOK /\ LockInv /\ ConfigInv /\ TimeInv

\* The hardcoded defaults may be served.
LEMMA DefaultsServed == Served(Defaults) /\ Defaults.source = "defaults"
BY DefaultsAreComplete, PolicyAssumption DEF Served

\* So may the fallback of a failed fetch, the last good configuration if there is one.
LEMMA FallbackServed ==
    ASSUME Inv
    PROVE  /\ Served(Fallback)
           /\ lastGood # NoConfig => Fallback = lastGood
           /\ Fallback \in Config
BY DefaultsServed, CacheAssumption DEF Inv, ConfigInv, ServesLastGood, TypeOK, ConfigOrNone, Fallback, Served

\* A worker starts in the invariant.
LEMMA InitInv == PolicyInit => Inv
<1> SUFFICES ASSUME PolicyInit PROVE Inv
    OBVIOUS
<1>1. TypeOK
    BY CacheAssumption DEF PolicyInit, TypeOK, ConfigOrNone, Pc, Never
<1>2. LockInv
    BY CacheAssumption DEF PolicyInit, LockInv, Fetching
<1>3. ConfigInv
    BY DEF PolicyInit, ConfigInv, ServesLastGood
<1>4. TimeInv
    BY DEF PolicyInit, TimeInv, Fetching
<1> QED BY <1>1, <1>2, <1>3, <1>4 DEF Inv

\* Every step keeps it.
LEMMA NextInv == Inv /\ [Next]_policyVars => Inv'
<1> SUFFICES ASSUME Inv, [Next]_policyVars PROVE Inv'
    OBVIOUS
<1> USE CacheAssumption DEF Inv
<1>a. ASSUME NEW t \in Thread, Call(t) PROVE Inv'
    <2> USE <1>a DEF Call, cacheVars, localVars
    <2>1. TypeOK'  BY DEF TypeOK, Pc
    <2>2. LockInv'  BY DEF TypeOK, LockInv, Fetching
    <2>3. ConfigInv'  BY DEF TypeOK, ConfigInv, ServesLastGood
    <2>4. TimeInv'  BY DEF TypeOK, TimeInv, Fetching
    <2> QED BY <2>1, <2>2, <2>3, <2>4
<1>b. ASSUME NEW t \in Thread, Hit(t) PROVE Inv'
    <2> USE <1>b DEF Hit, Return, cacheVars, localVars
    <2>0. Served(cached)  BY DEF Fresh, ConfigInv
    <2>1. TypeOK'  BY DEF TypeOK, Pc
    <2>2. LockInv'  BY DEF TypeOK, LockInv, Fetching
    <2>3. ConfigInv'  BY <2>0 DEF TypeOK, ConfigInv, ServesLastGood
    <2>4. TimeInv'  BY DEF TypeOK, TimeInv, Fetching
    <2> QED BY <2>1, <2>2, <2>3, <2>4
<1>c. ASSUME NEW t \in Thread, Miss(t) PROVE Inv'
    <2> USE <1>c DEF Miss, cacheVars
    <2>1. TypeOK'  BY DEF TypeOK, Pc
    <2>2. LockInv'  BY DEF TypeOK, LockInv, Fetching
    <2>3. ConfigInv'  BY DEF TypeOK, ConfigInv, ServesLastGood
    <2>4. TimeInv'  BY DEF TypeOK, TimeInv, Fetching
    <2> QED BY <2>1, <2>2, <2>3, <2>4
<1>d. ASSUME NEW t \in Thread, Reply(t) PROVE Inv'
    <2> USE <1>d DEF Reply, cacheVars
    <2>0. Served(Parse(published))  BY ParseKeepsDefaults DEF TypeOK, Served
    <2>1. TypeOK'  BY <2>0 DEF TypeOK, Pc, ConfigOrNone, Served
    <2>2. LockInv'  BY DEF TypeOK, LockInv, Fetching
    <2>3. ConfigInv'  BY <2>0 DEF TypeOK, ConfigInv, ServesLastGood
    <2>4. TimeInv'  BY DEF TypeOK, TimeInv, Fetching
    <2> QED BY <2>1, <2>2, <2>3, <2>4
<1>e. ASSUME NEW t \in Thread, Store(t) PROVE Inv'
    <2> USE <1>e DEF Store, Return, EndFetch
    <2>0. Served(answer[t])  BY DEF ConfigInv
    <2>1. TypeOK'  BY DEF TypeOK, Pc, ConfigOrNone
    <2>2. LockInv'  BY DEF TypeOK, LockInv, Fetching
    <2>3. ConfigInv'  BY <2>0 DEF TypeOK, ConfigInv, ServesLastGood
    <2>4. TimeInv'
        <3>1. Fetching(t)  BY DEF Fetching
        <3>2. asOf' = waiting[t] /\ cachedAt' = now /\ waiting[t] <= now
              /\ now <= waiting[t] + Timeout
            BY <3>1 DEF TypeOK, TimeInv
        <3>3. \A s \in Thread : ~Fetching(s)'
            BY <2>2 DEF LockInv
        <3> QED BY <3>2, <3>3 DEF TypeOK, TimeInv, Fetching
    <2> QED BY <2>1, <2>2, <2>3, <2>4
<1>f. ASSUME NEW t \in Thread, FetchFails(t) PROVE Inv'
    <2> USE <1>f DEF FetchFails, Return, EndFetch
    <2>0. Served(Fallback) /\ (lastGood # NoConfig => Fallback = lastGood) /\ Fallback \in Config
        BY FallbackServed
    <2>1. TypeOK'  BY <2>0 DEF TypeOK, Pc, ConfigOrNone
    <2>2. LockInv'  BY DEF TypeOK, LockInv, Fetching
    <2>3. ConfigInv'  BY <2>0 DEF TypeOK, ConfigInv, ServesLastGood
    <2>4. TimeInv'
        <3>1. \A s \in Thread : ~Fetching(s)'
            BY <2>2 DEF LockInv
        <3> QED BY <3>1 DEF TypeOK, TimeInv, Fetching
    <2> QED BY <2>1, <2>2, <2>3, <2>4
<1>g. ASSUME NEW t \in Thread, FetchRaises(t) PROVE Inv'
    <2> USE <1>g DEF FetchRaises, EndFetch, cacheVars
    <2>1. TypeOK'  BY DEF TypeOK, Pc, ConfigOrNone
    <2>2. LockInv'  BY DEF TypeOK, LockInv, Fetching
    <2>3. ConfigInv'  BY DEF TypeOK, ConfigInv, ServesLastGood
    <2>4. TimeInv'
        <3>1. \A s \in Thread : ~Fetching(s)'
            BY <2>2 DEF LockInv
        <3> QED BY <3>1 DEF TypeOK, TimeInv, Fetching
    <2> QED BY <2>1, <2>2, <2>3, <2>4
<1>h. ASSUME NEW t \in Thread, Leave(t) PROVE Inv'
    <2> USE <1>h DEF Leave, cacheVars, localVars
    <2>1. TypeOK'  BY DEF TypeOK, Pc, ConfigOrNone
    <2>2. LockInv'  BY DEF TypeOK, LockInv, Fetching
    <2>3. ConfigInv'  BY DEF TypeOK, ConfigInv, ServesLastGood
    <2>4. TimeInv'  BY DEF TypeOK, TimeInv, Fetching
    <2> QED BY <2>1, <2>2, <2>3, <2>4
<1>i. ASSUME Publish PROVE Inv'
    <2> USE <1>i DEF Publish, cacheVars, callVars, localVars
    <2>1. TypeOK'  BY DEF TypeOK
    <2>2. LockInv' /\ ConfigInv' /\ TimeInv'
        BY DEF LockInv, ConfigInv, ServesLastGood, TimeInv, Fetching
    <2> QED BY <2>1, <2>2
<1>j. ASSUME Tick PROVE Inv'
    <2> USE <1>j DEF Tick, cacheVars, callVars, localVars
    <2>1. TypeOK'  BY DEF TypeOK
    <2>2. LockInv' /\ ConfigInv'
        BY DEF LockInv, ConfigInv, ServesLastGood, Fetching
    <2>3. TimeInv'  BY DEF TypeOK, TimeInv, Fetching
    <2> QED BY <2>1, <2>2, <2>3
<1>k. ASSUME Restart PROVE Inv'
    <2> USE <1>k DEF Restart
    <2>1. TypeOK'  BY DEF TypeOK, Pc, ConfigOrNone
    <2>2. LockInv'  BY DEF LockInv, Fetching
    <2>3. ConfigInv'  BY DEF ConfigInv, ServesLastGood
    <2>4. TimeInv'  BY DEF TypeOK, TimeInv, Fetching
    <2> QED BY <2>1, <2>2, <2>3, <2>4
<1>l. ASSUME UNCHANGED policyVars PROVE Inv'
    BY <1>l DEF policyVars, cacheVars, callVars, localVars, TypeOK, LockInv, ConfigInv,
        ServesLastGood, TimeInv, Fetching
<1> QED BY <1>a, <1>b, <1>c, <1>d, <1>e, <1>f, <1>g, <1>h, <1>i, <1>j, <1>k, <1>l
        DEF Next, Step

\* The invariant holds throughout.
LEMMA Invariance == Spec => []Inv
BY InitInv, NextInv, PTL DEF Spec

-----------------------------------------------------------------------------
(* What follows.                                                           *)

\* The variables keep their types.
THEOREM TypeCorrect == Spec => []TypeOK
BY Invariance, PTL DEF Inv

\* A worker that once had an answer of the control plane serves the last one.
THEOREM LastGoodServed == Spec => []ServesLastGood
<1>1. Inv => ServesLastGood
    BY DEF Inv, ConfigInv
<1> QED BY <1>1, Invariance, PTL

\* Whatever the control plane publishes and whatever fails, no caller gets a policy
\* that lost an endpoint, a price or a machine rail of the defaults.
THEOREM ReturnsArePriced == Spec => []ReturnsPriced
<1>1. Inv => ReturnsPriced
    BY DEF Inv, ConfigInv, ReturnsPriced, Served
<1> QED BY <1>1, Invariance, PTL

\* Answers take effect in the order in which they were sent.
THEOREM AnswersOrdered == Spec => AnswersInOrder
<1>1. Inv /\ [Next]_policyVars => [asOf <= asOf']_policyVars
    <2> SUFFICES ASSUME Inv, Next PROVE asOf <= asOf'
        BY DEF Inv, TypeOK
    <2>1. ASSUME NEW t \in Thread, Store(t) PROVE asOf <= asOf'
        BY <2>1 DEF Store, Inv, TimeInv, Fetching
    <2>2. ASSUME NEW t \in Thread,
                 Call(t) \/ Hit(t) \/ Miss(t) \/ Reply(t) \/ FetchFails(t) \/ FetchRaises(t) \/ Leave(t)
          PROVE  asOf' = asOf
        BY <2>2 DEF Call, Hit, Miss, Reply, FetchFails, FetchRaises, Leave, cacheVars
    <2>3. ASSUME Publish \/ Tick \/ Restart PROVE asOf' = asOf
        BY <2>3 DEF Publish, Tick, Restart, cacheVars
    <2>4. asOf \in Nat
        BY DEF Inv, TypeOK
    <2> QED BY <2>1, <2>2, <2>3, <2>4 DEF Next, Step
<1> QED BY <1>1, Invariance, PTL DEF Spec, AnswersInOrder

\* Only the thread that acts moves.
LEMMA OnlyOneMoves ==
    ASSUME TypeOK, NEW s \in Thread, Call(s) \/ Step(s) \/ Leave(s),
           NEW t \in Thread, t # s
    PROVE  pc'[t] = pc[t]
BY DEF TypeOK, Step, Call, Hit, Miss, Reply, Store, FetchFails, FetchRaises, Leave, Return

\* The environment starts no fetch and returns nothing.
LEMMA NobodyMoves ==
    ASSUME TypeOK, Publish \/ Tick \/ Restart \/ UNCHANGED policyVars, NEW t \in Thread
    PROVE  pc'[t] = pc[t] \/ pc'[t] = "idle"
BY DEF TypeOK, Publish, Tick, Restart, policyVars, callVars

\* After a failure a worker leaves the control plane alone for a ttl.
THEOREM FailuresAreSpaced == Spec => FailuresBackOff
<1> DEFINE Spaced(t) ==
        (pc[t] = "lock" /\ pc'[t] = "fetch" /\ cached # NoConfig /\ failedAt # Never) =>
            now - failedAt >= cached.ttl
<1>1. Inv /\ [Next]_policyVars => \A t \in Thread : Spaced(t)
    <2> SUFFICES ASSUME Inv, [Next]_policyVars, NEW t \in Thread,
                        pc[t] = "lock", pc'[t] = "fetch", cached # NoConfig, failedAt # Never
                 PROVE  now - failedAt >= cached.ttl
        OBVIOUS
    <2>1. TypeOK
        BY DEF Inv
    <2>2. PICK s \in Thread : Call(s) \/ Step(s) \/ Leave(s)
        BY <2>1, NobodyMoves DEF Next
    <2>3. s = t
        BY <2>1, <2>2, OnlyOneMoves
    <2>4. Miss(t)
        BY <2>1, <2>2, <2>3 DEF TypeOK, Step, Call, Hit, Reply, Store, FetchFails, FetchRaises,
            Leave, Return
    <2>5. now - cachedAt >= cached.ttl
        <3>1. cached.ttl \in Nat
            BY <2>1 DEF TypeOK, ConfigOrNone, Config
        <3> QED BY <3>1, <2>1, <2>4 DEF Miss, Fresh, TypeOK
    <2>6. failedAt <= cachedAt /\ failedAt \in Nat
        BY DEF Inv, TimeInv, TypeOK
    <2>7. cached.ttl \in Nat /\ now \in Nat /\ cachedAt \in Nat
        BY <2>1 DEF TypeOK, ConfigOrNone, Config
    <2> QED BY <2>5, <2>6, <2>7
<1> QED BY <1>1, Invariance, PTL DEF Spec, FailuresBackOff

\* A call returns a policy within its ttl and one wait of its being sent, or within
\* a ttl of a failed fetch.
THEOREM StalenessIsBounded == Spec => StaleOnlyAfterFailure
<1> DEFINE Recent(t) ==
        (pc[t] # "returned" /\ pc'[t] = "returned" /\ result'[t].source = "control_plane") =>
            \/ now - asOf' < result'[t].ttl + Timeout
            \/ failedAt' # Never /\ now - failedAt' < result'[t].ttl
<1>1. Inv /\ [Next]_policyVars => \A t \in Thread : Recent(t)
    <2> SUFFICES ASSUME Inv, [Next]_policyVars, NEW t \in Thread,
                        pc[t] # "returned", pc'[t] = "returned",
                        result'[t].source = "control_plane"
                 PROVE  \/ now - asOf' < result'[t].ttl + Timeout
                        \/ failedAt' # Never /\ now - failedAt' < result'[t].ttl
        OBVIOUS
    <2>1. TypeOK
        BY DEF Inv
    <2>2. PICK s \in Thread : Call(s) \/ Step(s) \/ Leave(s)
        BY <2>1, NobodyMoves DEF Next
    <2>3. s = t
        BY <2>1, <2>2, OnlyOneMoves
    <2>4. Hit(t) \/ Store(t) \/ FetchFails(t)
        BY <2>1, <2>2, <2>3 DEF TypeOK, Step, Call, Miss, Reply, FetchRaises, Leave
    <2>5. Timeout \in Nat /\ now \in Nat
        BY <2>1, CacheAssumption DEF TypeOK
    <2>6. CASE Hit(t)
        <3>1. result'[t] = cached /\ asOf' = asOf /\ failedAt' = failedAt
            BY <2>1, <2>6 DEF Hit, Return, TypeOK, cacheVars
        <3>2. cached # NoConfig /\ now - cachedAt < cached.ttl
            BY <2>6 DEF Hit, Fresh
        <3>3. cachedAt <= asOf + Timeout \/ failedAt = cachedAt
            BY <3>1, <3>2 DEF Inv, TimeInv
        <3>4. asOf \in Nat /\ cachedAt \in Nat /\ cached.ttl \in Nat
            BY <2>1, <3>2 DEF TypeOK, ConfigOrNone, Config
        <3> QED BY <2>5, <3>1, <3>2, <3>3, <3>4 DEF Never
    <2>7. CASE Store(t)
        <3>1. Fetching(t) /\ pc[t] = "reply"
            BY <2>7 DEF Store, Fetching
        <3>2. result'[t] = answer[t] /\ asOf' = waiting[t]
            BY <2>1, <2>7, <3>1 DEF Store, Return, TypeOK, Inv, TimeInv
        <3>3. answer[t].ttl \in Nat \ {0}
            BY <3>1 DEF Inv, ConfigInv, Served, Config
        <3>4. waiting[t] \in Nat /\ now - waiting[t] <= Timeout
            BY <2>1, <3>1 DEF Inv, TimeInv, TypeOK
        <3> QED BY <2>5, <3>2, <3>3, <3>4
    <2>8. CASE FetchFails(t)
        <3>1. result'[t] = Fallback /\ failedAt' = now
            BY <2>1, <2>8 DEF FetchFails, Return, TypeOK
        <3>2. Fallback.ttl \in Nat \ {0}
            BY FallbackServed DEF Config
        <3> QED BY <2>5, <3>1, <3>2 DEF Never
    <2> QED BY <2>4, <2>6, <2>7, <2>8
<1> QED BY <1>1, Invariance, PTL DEF Spec, StaleOnlyAfterFailure

\* A worker serves the newest answer it has had, and never an older one again.
THEOREM LatestIsServed == Spec => LatestAnswerServed
<1>1. QED
    BY LastGoodServed, AnswersOrdered, PTL DEF LatestAnswerServed

\* The control plane is left alone after a failure and asked again in time.
THEOREM RefreshesAreTimely == Spec => RefreshesInTime
<1>1. QED
    BY FailuresAreSpaced, StalenessIsBounded DEF RefreshesInTime

-----------------------------------------------------------------------------
(* The two decisions of Admission.                                         *)

\* Both decisions are total.
LEMMA DecisionTypes ==
    ASSUME NEW cfg, NEW c, NEW keyed
    PROVE  Admit(cfg, c) \in Auth /\ Classify(cfg, c, keyed) \in Decision
<1>1. ByKey(c) \in Auth
    BY DEF ByKey, Auth
<1>2. Admit(cfg, c) \in Auth
    BY <1>1 DEF Admit, Auth
<1>3. ClassifyGoverned(cfg, c, keyed) \in Decision /\ ClassifyPrefix(cfg, c, keyed) \in Decision
    BY DEF ClassifyGoverned, ClassifyPrefix, Decision
<1>4. Classify(cfg, c, keyed) \in Decision
    BY <1>3 DEF Classify, Decision
<1> QED BY <1>2, <1>4

\* Without a machine rail there is no payment intent.
LEMMA BypassIsMachine ==
    ASSUME NEW cfg \in Config, NEW path
    PROVE  BypassMethods(cfg, path) \subseteq MachineRail
BY DEF BypassMethods, MachineRails, Config

\* Who is let in other than by key is classified as paying, as free-metered, or not
\* at all, if the prefixes agree.
LEMMA KeyBeforeSubscription ==
    ASSUME NEW cfg, NEW c, c.path \in V1Path, ~Skips(c), ~Disjointed(cfg, c.path), ~c.gone,
           Admit(cfg, c) # "refused",
           Classify(cfg, c, Admit(cfg, c) = "api_key") \in {"free", "subscription"}
    PROVE  Admit(cfg, c) = "api_key"
<1> SUFFICES ASSUME Admit(cfg, c) # "api_key" PROVE FALSE
    OBVIOUS
<1>1. c.path \notin NonMeteredPath
    BY AdmissionAssumption DEF Skips
<1>2. c.path \notin cfg.freeMetered
    BY <1>1 DEF Classify
<1>3. Candidate(cfg, c) \/ (enabled /\ c.key = "none" /\ IsEnforcementPath(cfg, c.path))
    BY <1>2 DEF Admit, ByKey
<1>4. Classify(cfg, c, FALSE) \in {"free", "subscription"}
    BY DEF Classify
<1>5. CASE Governed(cfg, c.path)
    <2>1. Classify(cfg, c, FALSE) = ClassifyGoverned(cfg, c, FALSE)
        BY <1>1, <1>2, <1>5 DEF Classify
    <2> QED BY <1>4, <2>1 DEF ClassifyGoverned
<1>6. CASE ~Governed(cfg, c.path)
    <2>1. c.path \in cfg.agentPay
        BY <1>3, <1>6 DEF Candidate, BypassMethods, IsEnforcementPath, Disjointed
    <2>2. Classify(cfg, c, FALSE) = ClassifyPrefix(cfg, c, FALSE)
        BY <1>1, <1>2, <1>6, <2>1 DEF Classify, IsAgentPayRoute
    <2> QED BY <1>4, <2>2 DEF ClassifyPrefix
<1> QED BY <1>5, <1>6

\* A subscriber that offers no payment is let in by its key and is not charged.
LEMMA SubscriberVerdict ==
    ASSUME NEW cfg \in Config, NEW c, c.key = "plan", c.method = "none", c.path \in V1Path,
           ~Skips(c), ~c.gone
    PROVE  /\ Admit(cfg, c) = "api_key"
           /\ \/ Classify(cfg, c, TRUE) \in {"subscription", "free_metered"}
              \/ /\ Classify(cfg, c, TRUE) = "deny" /\ Governed(cfg, c.path)
                 /\ ~AllowsSubscription(cfg, c.path)
<1>1. c.method \notin BypassMethods(cfg, c.path)
    BY BypassIsMachine DEF MachineRail
<1>2. ByKey(c) = "api_key"
    BY DEF ByKey, KeyAccepted
<1>3. Admit(cfg, c) = "api_key"
    BY <1>1, <1>2 DEF Admit, Candidate
<1>4. c.path \notin NonMeteredPath
    BY AdmissionAssumption DEF Skips
<1>5. ~Intends(cfg, c)
    BY <1>1 DEF Intends
<1>6. ClassifyPrefix(cfg, c, TRUE) = "subscription"
    BY <1>5 DEF ClassifyPrefix
<1>7. IF AllowsSubscription(cfg, c.path) THEN ClassifyGoverned(cfg, c, TRUE) = "subscription"
      ELSE ClassifyGoverned(cfg, c, TRUE) = "deny"
    BY <1>5 DEF ClassifyGoverned
<1>8. \/ Classify(cfg, c, TRUE) \in {"subscription", "free_metered"}
      \/ /\ Classify(cfg, c, TRUE) = "deny" /\ Governed(cfg, c.path)
         /\ ~AllowsSubscription(cfg, c.path)
    BY <1>4, <1>6, <1>7 DEF Classify
<1> QED BY <1>3, <1>8

-----------------------------------------------------------------------------
(* The inductive invariant: what is bound to a request is what decided it.   *)

Verdict(r) == IF auth[r] = "availability_gate" THEN "unavailable"
              ELSE Classify(snapshot[r], caller[r], auth[r] = "api_key")

\* The bound configuration let the request in.
Admitted(r) ==
    /\ snapshot[r] \in Config
    /\ auth[r] = Admit(snapshot[r], caller[r]) /\ auth[r] # "refused"

UsedIsBound(r) == \A m \in Middleware : used[r][m] # NoConfig => used[r][m] = snapshot[r]
AtApiKey(r) == stage[r] = "apikey" => snapshot[r] = NoConfig /\ decision[r] = "none"
AtMetering(r) ==
    stage[r] = "metering" => decision[r] = "none" /\ (Skips(caller[r]) \/ Admitted(r))
WhileServing(r) ==
    serving = r => /\ stage[r] \in Middleware /\ snapshot[r] = NoConfig
                   /\ stage[r] = "apikey" => ~Skips(caller[r])
WhenDecided(r) ==
    decision[r] # "none" =>
        /\ used[r].metering = snapshot[r] /\ snapshot[r] \in Config
        /\ ~Skips(caller[r]) => Admitted(r) /\ decision[r] = Verdict(r)

RequestInv(r) == UsedIsBound(r) /\ AtApiKey(r) /\ AtMetering(r) /\ WhileServing(r) /\ WhenDecided(r)

AdmissionInv == Inv /\ AdmissionTypeOK /\ \A r \in Request : RequestInv(r)

\* Every step of Admission is a step of the policy cache or leaves it alone.
LEMMA PolicyStep == [AdmissionNext]_vars => [Next]_policyVars
<1> SUFFICES ASSUME AdmissionNext PROVE [Next]_policyVars
    BY DEF vars
<1> USE AdmissionAssumption
<1>1. ASSUME NEW r \in Request,
             SkipApiKey(r) \/ AskPolicy(r) \/ PolicyRead(r) \/ PolicyRaised(r) \/ UseSnapshot(r)
      PROVE  [Next]_policyVars
    BY <1>1 DEF Next, SkipApiKey, AskPolicy, PolicyRead, PolicyRaised, UseSnapshot
<1>2. ASSUME NEW t \in Thread, EndpointReads(t) PROVE [Next]_policyVars
    BY <1>2 DEF Next, EndpointReads
<1>3. ASSUME PolicySteps PROVE [Next]_policyVars
    BY <1>3 DEF Next, PolicySteps
<1>4. ASSUME WorkerRestarts PROVE [Next]_policyVars
    BY <1>4 DEF Next, WorkerRestarts
<1> QED BY <1>1, <1>2, <1>3, <1>4 DEF AdmissionNext

\* A worker without requests in flight starts in the invariant.
LEMMA InitAdmissionInv == AdmissionInit => AdmissionInv
<1> SUFFICES ASSUME AdmissionInit PROVE AdmissionInv
    OBVIOUS
<1>1. Inv
    BY InitInv DEF AdmissionInit
<1>2. AdmissionTypeOK
    BY <1>1 DEF AdmissionInit, AdmissionTypeOK, Inv, Stage, Auth, Decision, ConfigOrNone
<1>3. \A r \in Request : RequestInv(r)
    BY AdmissionAssumption DEF AdmissionInit, RequestInv, UsedIsBound, AtApiKey, AtMetering,
        WhileServing, WhenDecided
<1> QED BY <1>1, <1>2, <1>3 DEF AdmissionInv

\* What no step touched keeps its invariant.
Untouched(s) ==
    /\ enabled' = enabled /\ caller'[s] = caller[s] /\ stage'[s] = stage[s]
    /\ snapshot'[s] = snapshot[s] /\ auth'[s] = auth[s] /\ decision'[s] = decision[s]
    /\ used'[s] = used[s]

\* A request that a step leaves alone keeps its invariant, unless the loop turns to it.
LEMMA UntouchedKeeps ==
    ASSUME NEW s \in Request, RequestInv(s), Untouched(s), serving' # s \/ serving' = serving
    PROVE  RequestInv(s)'
<1> USE DEF Untouched, RequestInv
<1>1. Candidate(snapshot[s], caller[s])' = Candidate(snapshot[s], caller[s])
    BY DEF Candidate
<1>2. Admit(snapshot[s], caller[s])' = Admit(snapshot[s], caller[s])
    BY DEF Admit
<1>3. Classify(snapshot[s], caller[s], auth[s] = "api_key")'
      = Classify(snapshot[s], caller[s], auth[s] = "api_key")
    BY DEF Classify, ClassifyGoverned, ClassifyPrefix, Intends
<1>4. Admitted(s)' = Admitted(s) /\ Verdict(s)' = Verdict(s)
    BY <1>2, <1>3 DEF Admitted, Verdict
<1> QED BY <1>4 DEF UsedIsBound, AtApiKey, AtMetering, WhileServing, WhenDecided

\* A middleware that goes by the configuration it binds, or that is bound.
LEMMA DecideKeeps ==
    ASSUME AdmissionTypeOK, NEW r \in Request, RequestInv(r), NEW cfg \in Config,
           Decide(r, cfg), snapshot' = [snapshot EXCEPT ![r] = cfg],
           snapshot[r] = NoConfig \/ snapshot[r] = cfg,
           stage[r] \in Middleware, stage[r] = "apikey" => ~Skips(caller[r]),
           UNCHANGED <<enabled, caller>>, serving' = Nobody
    PROVE  /\ stage' \in [Request -> Stage] /\ auth' \in [Request -> Auth]
           /\ decision' \in [Request -> Decision]
           /\ used' \in [Request -> [Middleware -> ConfigOrNone]]
           /\ RequestInv(r)'
           /\ \A s \in Request \ {r} : Untouched(s)
<1> USE CacheAssumption, AdmissionAssumption
<1>1. used' = [used EXCEPT ![r] = [used[r] EXCEPT ![stage[r]] = cfg]]
      /\ used \in [Request -> [Middleware -> ConfigOrNone]]
    BY DEF Decide, AdmissionTypeOK
<1>2. /\ used' \in [Request -> [Middleware -> ConfigOrNone]]
      /\ used'[r][stage[r]] = cfg
      /\ \A m \in Middleware : m # stage[r] => used'[r][m] = used[r][m]
      /\ \A s \in Request \ {r} : used'[s] = used[s]
    BY <1>1 DEF ConfigOrNone
<1>3. snapshot'[r] = cfg /\ \A s \in Request \ {r} : snapshot'[s] = snapshot[s]
    BY DEF AdmissionTypeOK
<1>4. UsedIsBound(r)'
    BY <1>2, <1>3 DEF RequestInv, UsedIsBound
<1>5. WhileServing(r)'
    BY DEF WhileServing
<1>6. Admit(cfg, caller[r])' = Admit(cfg, caller[r])
      /\ \A k : Classify(cfg, caller[r], k)' = Classify(cfg, caller[r], k)
    BY DEF Admit, Candidate, Classify, ClassifyGoverned, ClassifyPrefix, Intends
<1>7. CASE stage[r] = "apikey"
    <2> DEFINE a == Admit(cfg, caller[r])
    <2>1. /\ auth' = [auth EXCEPT ![r] = a] /\ decision' = decision
          /\ stage' = [stage EXCEPT ![r] = IF a = "refused" THEN "done" ELSE "metering"]
        BY <1>7 DEF Decide
    <2>2. a \in Auth
        BY DecisionTypes
    <2> HIDE DEF a
    <2>3. /\ stage' \in [Request -> Stage] /\ auth' \in [Request -> Auth]
          /\ decision' \in [Request -> Decision]
          /\ \A s \in Request \ {r} : Untouched(s)
        BY <1>2, <1>3, <2>1, <2>2 DEF AdmissionTypeOK, Stage, Untouched
    <2>4. auth'[r] = a /\ decision'[r] = "none"
          /\ (stage'[r] = "metering" => a # "refused") /\ stage'[r] # "apikey"
        BY <2>1, <1>7 DEF AdmissionTypeOK, RequestInv, AtApiKey
    <2>5. stage'[r] = "metering" => Admitted(r)'
        BY <1>3, <1>6, <2>4 DEF Admitted, a
    <2> QED BY <1>2, <1>4, <1>5, <2>3, <2>4, <2>5 DEF RequestInv, AtApiKey, AtMetering, WhenDecided
<1>8. CASE stage[r] = "metering"
    <2> DEFINE d == IF auth[r] = "availability_gate" THEN "unavailable"
                    ELSE Classify(cfg, caller[r], auth[r] = "api_key")
    <2>1. /\ decision' = [decision EXCEPT ![r] = d] /\ auth' = auth
          /\ stage' = [stage EXCEPT ![r] = "done"]
        BY <1>8 DEF Decide
    <2>2. d \in Decision
        BY DecisionTypes DEF Decision
    <2>3. /\ stage' \in [Request -> Stage] /\ auth' \in [Request -> Auth]
          /\ decision' \in [Request -> Decision]
          /\ \A s \in Request \ {r} : Untouched(s)
        BY <1>2, <1>3, <2>1, <2>2 DEF AdmissionTypeOK, Stage, Untouched
    <2>4. decision'[r] = d /\ stage'[r] = "done" /\ auth'[r] = auth[r]
        BY <2>1 DEF AdmissionTypeOK
    <2>5. Verdict(r)' = d
        BY <1>3, <1>6, <2>4 DEF Verdict
    <2>6. ~Skips(caller[r]) => Admitted(r)'
        BY <1>3, <1>6, <1>8, <2>4 DEF RequestInv, AtMetering, Admitted
    <2>7. used'[r].metering = cfg
        BY <1>2, <1>8
    <2> HIDE DEF d
    <2>8. WhenDecided(r)'
        BY <1>3, <2>4, <2>5, <2>6, <2>7 DEF WhenDecided, Skips
    <2> QED BY <1>2, <1>4, <1>5, <2>3, <2>4, <2>8 DEF RequestInv, AtApiKey, AtMetering
<1> QED BY <1>7, <1>8 DEF Middleware

\* Every step keeps it.
LEMMA NextAdmissionInv == AdmissionInv /\ [AdmissionNext]_vars => AdmissionInv'
<1> SUFFICES ASSUME AdmissionInv, [AdmissionNext]_vars PROVE AdmissionInv'
    OBVIOUS
<1> USE CacheAssumption, AdmissionAssumption
<1>0. Inv' /\ TypeOK'
    BY PolicyStep, NextInv DEF AdmissionInv, Inv
<1>t. AdmissionTypeOK /\ Inv /\ \A r \in Request : RequestInv(r)
    BY DEF AdmissionInv
<1>a. ASSUME NEW r \in Request, SkipApiKey(r) PROVE AdmissionInv'
    <2>1. AdmissionTypeOK'
        BY <1>0, <1>t, <1>a DEF SkipApiKey, AdmissionTypeOK, Stage, Auth
    <2>2. ASSUME NEW s \in Request, s # r PROVE RequestInv(s)'
        <3>1. Untouched(s) /\ serving' = serving
            BY <1>t, <1>a, <2>2 DEF SkipApiKey, Untouched, AdmissionTypeOK
        <3> QED BY <1>t, <3>1, UntouchedKeeps
    <2>3. RequestInv(r)'
        <3>1. /\ stage[r] = "apikey" /\ Skips(caller[r]) /\ serving' = Nobody
              /\ stage'[r] = "metering" /\ snapshot' = snapshot /\ caller' = caller
              /\ decision' = decision /\ used' = used
            BY <1>t, <1>a DEF SkipApiKey, AdmissionTypeOK
        <3> QED BY <1>t, <3>1 DEF RequestInv, UsedIsBound, AtApiKey, AtMetering, WhileServing,
                WhenDecided, Skips
    <2> QED BY <1>0, <2>1, <2>2, <2>3 DEF AdmissionInv
<1>b. ASSUME NEW r \in Request, AskPolicy(r) PROVE AdmissionInv'
    <2>1. AdmissionTypeOK'
        BY <1>0, <1>t, <1>b DEF AskPolicy, AdmissionTypeOK
    <2>2. ASSUME NEW s \in Request PROVE RequestInv(s)'
        <3>1. Untouched(s)
            BY <1>b DEF AskPolicy, Untouched
        <3>2. CASE s # r
            BY <1>t, <1>b, <3>1, <3>2, UntouchedKeeps DEF AskPolicy
        <3>3. CASE s = r
            <4>1. WhileServing(r)'
                BY <1>b DEF AskPolicy, WhileServing, Skips
            <4>2. serving = Nobody /\ RequestInv(r)
                BY <1>t, <1>b DEF AskPolicy
            <4>3. /\ stage' = stage /\ snapshot' = snapshot /\ caller' = caller /\ auth' = auth
                  /\ decision' = decision /\ used' = used
                BY <1>b DEF AskPolicy
            <4>4. snapshot[r] = NoConfig /\ NoConfig \notin Config
                BY <1>b DEF AskPolicy
            <4> QED BY ONLY <3>3, <4>1, <4>2, <4>3, <4>4 DEF RequestInv, UsedIsBound, AtApiKey,
                    AtMetering, WhenDecided, Admitted, Skips
        <3> QED BY <3>2, <3>3
    <2> QED BY <1>0, <2>1, <2>2 DEF AdmissionInv
<1>c. ASSUME NEW r \in Request, PolicyRead(r) PROVE AdmissionInv'
    <2> DEFINE cfg == result[Loop]
    <2>1. cfg \in Config
        BY <1>t, <1>c DEF PolicyRead, Inv, ConfigInv, Served
    <2>2. /\ Decide(r, cfg) /\ snapshot' = [snapshot EXCEPT ![r] = cfg]
          /\ serving = r /\ serving' = Nobody /\ UNCHANGED <<enabled, caller>>
        BY <1>c DEF PolicyRead
    <2>3. /\ snapshot[r] = NoConfig /\ stage[r] \in Middleware
          /\ stage[r] = "apikey" => ~Skips(caller[r])
        BY <1>t, <2>2 DEF RequestInv, WhileServing
    <2> HIDE DEF cfg
    <2>4. /\ stage' \in [Request -> Stage] /\ auth' \in [Request -> Auth]
          /\ decision' \in [Request -> Decision]
          /\ used' \in [Request -> [Middleware -> ConfigOrNone]]
          /\ RequestInv(r)'
          /\ \A s \in Request \ {r} : Untouched(s)
        BY <1>t, <2>1, <2>2, <2>3, DecideKeeps
    <2>5. AdmissionTypeOK'
        BY <1>0, <1>t, <2>1, <2>2, <2>4 DEF AdmissionTypeOK, ConfigOrNone
    <2>6. ASSUME NEW s \in Request, s # r PROVE RequestInv(s)'
        BY <1>t, <2>2, <2>4, <2>6, UntouchedKeeps
    <2> QED BY <1>0, <2>4, <2>5, <2>6 DEF AdmissionInv
<1>d. ASSUME NEW r \in Request, PolicyRaised(r) PROVE AdmissionInv'
    <2>1. AdmissionTypeOK'
        BY <1>0, <1>t, <1>d DEF PolicyRaised, AdmissionTypeOK, Stage
    <2>2. ASSUME NEW s \in Request, s # r PROVE RequestInv(s)'
        <3>1. Untouched(s) /\ serving' = Nobody
            BY <1>t, <1>d, <2>2 DEF PolicyRaised, Untouched, AdmissionTypeOK
        <3> QED BY <1>t, <3>1, UntouchedKeeps
    <2>3. RequestInv(r)'
        <3>1. serving' = Nobody /\ stage'[r] = "failed" /\ decision[r] = "none"
              /\ snapshot' = snapshot /\ decision' = decision /\ used' = used
            BY <1>t, <1>d DEF PolicyRaised, AdmissionTypeOK, RequestInv, WhileServing, AtApiKey,
                AtMetering, Middleware
        <3> QED BY <1>t, <3>1 DEF RequestInv, UsedIsBound, AtApiKey, AtMetering, WhileServing,
                WhenDecided
    <2> QED BY <1>0, <2>1, <2>2, <2>3 DEF AdmissionInv
<1>e. ASSUME NEW r \in Request, UseSnapshot(r) PROVE AdmissionInv'
    <2> DEFINE cfg == snapshot[r]
    <2>1. cfg \in Config
        BY <1>t, <1>e DEF UseSnapshot, AdmissionTypeOK, ConfigOrNone
    <2>2. /\ Decide(r, cfg) /\ snapshot' = [snapshot EXCEPT ![r] = cfg]
          /\ serving' = Nobody /\ UNCHANGED <<enabled, caller>> /\ stage[r] = "metering"
          /\ snapshot' = snapshot
        BY <1>t, <1>e DEF UseSnapshot, AdmissionTypeOK
    <2>4. /\ stage' \in [Request -> Stage] /\ auth' \in [Request -> Auth]
          /\ decision' \in [Request -> Decision]
          /\ used' \in [Request -> [Middleware -> ConfigOrNone]]
          /\ RequestInv(r)'
          /\ \A s \in Request \ {r} : Untouched(s)
        BY <1>t, <2>1, <2>2, DecideKeeps DEF Middleware
    <2>5. AdmissionTypeOK'
        BY <1>0, <1>t, <2>2, <2>4 DEF AdmissionTypeOK
    <2>6. ASSUME NEW s \in Request, s # r PROVE RequestInv(s)'
        BY <1>t, <2>2, <2>4, <2>6, UntouchedKeeps
    <2> QED BY <1>0, <2>4, <2>5, <2>6 DEF AdmissionInv
<1>f. ASSUME UNCHANGED requestVars PROVE AdmissionInv'
    <2>1. AdmissionTypeOK'
        BY <1>0, <1>t, <1>f DEF requestVars, AdmissionTypeOK
    <2>2. ASSUME NEW s \in Request PROVE RequestInv(s)'
        BY <1>t, <1>f, UntouchedKeeps DEF requestVars, Untouched
    <2> QED BY <1>0, <2>1, <2>2 DEF AdmissionInv
<1>g. ASSUME WorkerRestarts PROVE AdmissionInv'
    <2>1. AdmissionTypeOK'
        BY <1>0, <1>t, <1>g DEF WorkerRestarts, AdmissionTypeOK, Stage
    <2>2. ASSUME NEW s \in Request PROVE RequestInv(s)'
        <3>1. serving' = Nobody /\ UNCHANGED <<enabled, caller, snapshot, auth, decision, used>>
            BY <1>g DEF WorkerRestarts
        <3>2. CASE stage'[s] = stage[s]
            BY <1>t, <3>1, <3>2, UntouchedKeeps DEF Untouched
        <3>3. CASE stage'[s] = "failed" /\ stage[s] \in Middleware
            <4>1. decision[s] = "none"
                BY <1>t, <3>3 DEF RequestInv, AtApiKey, AtMetering, Middleware
            <4> QED BY <1>t, <3>1, <3>3, <4>1 DEF RequestInv, UsedIsBound, AtApiKey, AtMetering,
                    WhileServing, WhenDecided
        <3>4. stage'[s] = stage[s] \/ (stage'[s] = "failed" /\ stage[s] \in Middleware)
            <4>1. serving = s => stage[s] \in Middleware
                BY <1>t DEF RequestInv, WhileServing
            <4> QED BY <1>g, <4>1 DEF WorkerRestarts, Middleware
        <3> QED BY <3>2, <3>3, <3>4
    <2> QED BY <1>0, <2>1, <2>2 DEF AdmissionInv
<1> QED BY <1>a, <1>b, <1>c, <1>d, <1>e, <1>f, <1>g
        DEF AdmissionNext, EndpointReads, PolicySteps, vars

\* The invariant holds throughout.
LEMMA AdmissionInvariance == AdmissionSpec => []AdmissionInv
BY InitAdmissionInv, NextAdmissionInv, PTL DEF AdmissionSpec

-----------------------------------------------------------------------------
(* What follows.                                                           *)

\* Admission runs the policy cache: it adds requests and takes nothing away.
THEOREM AdmissionUsesCache == AdmissionSpec => Spec
<1>1. AdmissionInit => PolicyInit
    BY DEF AdmissionInit
<1> QED BY <1>1, PolicyStep, PTL DEF AdmissionSpec, Spec

\* The variables keep their types.
THEOREM AdmissionTypeCorrect == AdmissionSpec => []AdmissionTypeOK
BY AdmissionInvariance, PTL DEF AdmissionInv

\* A request is admitted and classified under one and the same policy.
THEOREM PolicyIsOne == AdmissionSpec => []OneSnapshot
<1>1. AdmissionInv => OneSnapshot
    BY DEF AdmissionInv, RequestInv, UsedIsBound, OneSnapshot
<1> QED BY <1>1, AdmissionInvariance, PTL

\* Under /v1/, nobody without a key ends in the subscription lane.
THEOREM SubscriptionNeedsKey == AdmissionSpec => []EntitledByKey
<1>1. AdmissionInv => EntitledByKey
    <2> SUFFICES ASSUME AdmissionInv, NEW r \in Request,
                        decision[r] \in {"free", "subscription"}, caller[r].path \in V1Path,
                        ~Skips(caller[r]), ~Disjointed(used[r].metering, caller[r].path)
                 PROVE  auth[r] = "api_key"
        BY DEF EntitledByKey
    <2>1. /\ used[r].metering = snapshot[r] /\ Admitted(r) /\ decision[r] = Verdict(r)
        BY DEF AdmissionInv, RequestInv, WhenDecided
    <2>2. ~caller[r].gone
        BY <2>1 DEF Admitted, Verdict, Admit
    <2>3. Classify(snapshot[r], caller[r], auth[r] = "api_key") \in {"free", "subscription"}
        BY <2>1 DEF Verdict
    <2> QED BY <2>1, <2>2, <2>3, KeyBeforeSubscription DEF Admitted
<1> QED BY <1>1, AdmissionInvariance, PTL

\* A subscriber that offers no payment is never charged.
THEOREM SubscribersAreNotCharged == AdmissionSpec => []SubscribersUnaffected
<1>1. AdmissionInv => SubscribersUnaffected
    <2> SUFFICES ASSUME AdmissionInv, NEW r \in Request,
                        caller[r].key = "plan", caller[r].method = "none",
                        caller[r].path \in V1Path, ~Skips(caller[r]), ~caller[r].gone,
                        decision[r] # "none"
                 PROVE  \/ decision[r] \in {"subscription", "free_metered"}
                        \/ /\ decision[r] = "deny" /\ Governed(used[r].metering, caller[r].path)
                           /\ ~AllowsSubscription(used[r].metering, caller[r].path)
        BY DEF SubscribersUnaffected
    <2>1. /\ used[r].metering = snapshot[r] /\ Admitted(r) /\ decision[r] = Verdict(r)
          /\ snapshot[r] \in Config
        BY DEF AdmissionInv, RequestInv, WhenDecided
    <2>2. auth[r] = "api_key"
        BY <2>1, SubscriberVerdict DEF Admitted
    <2>3. decision[r] = Classify(snapshot[r], caller[r], TRUE)
        BY <2>1, <2>2 DEF Verdict
    <2> QED BY <2>1, <2>3, SubscriberVerdict
<1> QED BY <1>1, AdmissionInvariance, PTL
=============================================================================
