--------------------------- MODULE ArtifactStore ---------------------------
(***************************************************************************)
(* The store of published intelligence artifacts, as a worker reads it: a   *)
(* manifest and the files it references, written by an exporter at any      *)
(* time, and one snapshot of the validated artifacts kept under a lock.  A  *)
(* paid request reads it twice: in ApiKeyMiddleware, before it may pay, and *)
(* in the endpoint, after it has paid.                                      *)
(***************************************************************************)
EXTENDS Integers, FiniteSets

CONSTANTS
    Request, Nobody,
    Name,           \* the files a manifest may reference
    Content,        \* the envelopes that may be in them
    Exports,        \* <<n, c>>: the exporter may put c in file n
    Manifests,      \* the manifests it may write
    Targets,        \* what may be asked for
    Torn, Missing,  \* a file that does not parse, and no file
    Unsafe,         \* a path or an id that is refused for its form
    Latest,         \* asked for in place of an id
    NoAnswer, Unavailable, Absent, NoSnapshot,
    Orderly,        \* the exporter writes the files before the manifest that lists them
    MaxEdits, MaxClock

Root == "manifest.json"
Type == {"market_guidance", "market_research_report", "editorial_preview", "discovery_metadata"}
PaidType == {"market_guidance", "market_research_report"}
PublicationStatus == {"publish_ready", "product_grade", "agent_actionable", "published"}

\* _SERVEABLE_PUBLICATION_STATUSES.
Serveable(type) == {"published", IF type \in PaidType THEN "product_grade" ELSE "publish_ready"}

ASSUME StoreAssumption ==
    /\ Nobody \notin Request
    /\ \A c \in Content : /\ c.type \in Type /\ c.status \in PublicationStatus
                          /\ c.sound \in BOOLEAN
                          /\ c.expires \in Nat /\ c.rank \in Nat
    /\ Content \cap {Torn, Missing, NoAnswer, Unavailable, Absent} = {}
    /\ NoAnswer # Unavailable /\ NoAnswer # Absent
    /\ Torn # Missing
    /\ Exports \subseteq Name \X (Content \cup {Torn, Missing})
    /\ \A m \in Manifests : \A e \in m : e.name \in Name \cup {Unsafe}
    /\ Manifests \cap {Torn, Missing} = {}
    /\ Name \cap {Unsafe, Root} = {}
    /\ \A t \in Targets : t.type \in Type
    /\ Orderly \in BOOLEAN /\ MaxEdits \in Nat /\ MaxClock \in Nat

\* The artifacts of a type can be put in order: of those there are, one is the latest.
ASSUME RankAssumption ==
    \A S \in SUBSET Content : S # {} => \E c \in S : \A d \in S : d.rank <= c.rank

VARIABLES
    manifest,   \* manifest.json
    file,       \* the referenced files
    stamp,      \* the signature (time and size) of each, and of the manifest
    edits,      \* the exporter's edits so far; each gives a new signature
    clock,
    snapshot,   \* _cache: the one entry of this worker's root and schema
    holder,     \* _cache_lock
    loading,    \* the locals of _load_valid_artifacts, for the holder
    pc,         \* where a request's call of the store is
    result,     \* what the call returned
    target,     \* what the request asks for
    stage,      \* how far the request is
    paid,       \* its payment gate has collected
    began,      \* edits and clock when each of its two calls began (history)
    listed,     \* the manifests in force since its call began (history)
    held        \* what each file has held since then (history)

storeVars == <<manifest, file, stamp, edits, clock>>
cacheVars == <<snapshot, holder, loading>>
requestVars == <<target, stage, paid>>
history == <<began, listed, held>>
vars == <<storeVars, cacheVars, pc, result, requestVars, history>>

Files == Content \cup {Torn, Missing}
Answers == Content \cup {NoAnswer, Unavailable, Absent}
Snapshot == [msig: Nat, esig: [Name -> Nat], artifacts: SUBSET Content]
Loading == [msig: Nat, entries: Manifests \cup {{}}, todo: SUBSET UNION Manifests,
            names: SUBSET Name, esig: [Name -> Nat], artifacts: SUBSET Content]
Idle == [msig |-> 0, entries |-> {}, todo |-> {}, names |-> {},
         esig |-> [n \in Name |-> 0], artifacts |-> {}]
Pc == {"out", "waiting", "check", "entries", "stat", "read", "sign", "load", "store"}
Stage == {"arrived", "checking", "admitted", "serving", "served", "failed", "refused"}
Moment == [edits: Nat, clock: Nat]

TypeOK ==
    /\ manifest \in Manifests \cup {Torn, Missing}
    /\ file \in [Name -> Files]
    /\ stamp \in [Name \cup {Root} -> Nat]
    /\ edits \in Nat /\ clock \in Nat
    /\ snapshot \in Snapshot \cup {NoSnapshot}
    /\ holder \in Request \cup {Nobody}
    /\ loading \in Loading
    /\ pc \in [Request -> Pc]
    /\ result \in [Request -> Answers]
    /\ target \in [Request -> Targets]
    /\ stage \in [Request -> Stage]
    /\ paid \in [Request -> BOOLEAN]
    /\ began \in [Request -> [{"checking", "serving"} -> Moment]]
    /\ listed \in [Request -> SUBSET (Manifests \cup {Torn, Missing})]
    /\ held \in [Request -> SUBSET (Name \X Files)]

Init ==
    /\ manifest \in Manifests
    /\ file \in [Name -> Content \cup {Missing}] /\ \A n \in Name : <<n, file[n]>> \in Exports
    /\ Orderly => \A e \in manifest : e.name \in Name => file[e.name] # Missing
    /\ stamp = [n \in Name \cup {Root} |-> 1]
    /\ edits = 1
    /\ clock = 0
    /\ snapshot = NoSnapshot
    /\ holder = Nobody
    /\ loading = Idle
    /\ pc = [r \in Request |-> "out"]
    /\ result = [r \in Request |-> NoAnswer]
    /\ target \in [Request -> Targets]
    /\ stage = [r \in Request |-> "arrived"]
    /\ paid = [r \in Request |-> FALSE]
    /\ began = [r \in Request |-> [s \in {"checking", "serving"} |-> [edits |-> 0, clock |-> 0]]]
    /\ listed = [r \in Request |-> {}]
    /\ held = [r \in Request |-> {}]

-----------------------------------------------------------------------------
(* The rules of the store.                                                 *)

Lines(m) == IF m \in {Torn, Missing} THEN {} ELSE m

\* A manifest with a path outside the store, or with an id twice, is not trusted.
Proper(m) ==
    /\ m \notin {Torn, Missing}
    /\ \A e \in m : e.name # Unsafe
    /\ \A e, f \in m : e.id = f.id => e = f

\* _validate_artifact, schema and parsing included.
Valid(c, e, now) ==
    /\ c \in Content
    /\ c.id = e.id /\ c.type = e.type /\ c.hash = e.hash
    /\ c.sound
    /\ c.status \in Serveable(c.type)
    /\ c.expires = 0 \/ c.expires > now

\* get_latest and get_by_id over the valid artifacts; rank is _artifact_sort_key.
Lookup(artifacts, t) ==
    LET matches == {c \in artifacts : c.type = t.type /\ (t.id = Latest \/ c.id = t.id)}
    IN  IF matches = {} THEN Absent
        ELSE CHOOSE c \in matches : \A d \in matches : d.rank <= c.rank

\* match_paid_intelligence_artifact_route: the requests checked before payment.
Gated(t) == t.type \in PaidType /\ t.id # Unsafe

-----------------------------------------------------------------------------
(* One call of the store: _load_valid_artifacts, then the lookup.          *)

Begin(r) ==
    /\ pc' = [pc EXCEPT ![r] = "waiting"]
    /\ result' = [result EXCEPT ![r] = NoAnswer]
    /\ began' = [began EXCEPT ![r][stage'[r]] = [edits |-> edits, clock |-> clock]]
    /\ listed' = [listed EXCEPT ![r] = {manifest}]
    /\ held' = [held EXCEPT ![r] = {<<n, file[n]>> : n \in Name}]

GoTo(r, next) == pc' = [pc EXCEPT ![r] = next] /\ UNCHANGED result

\* The with block ends and the caller has its answer.
Answer(r, answer) ==
    /\ pc' = [pc EXCEPT ![r] = "out"]
    /\ result' = [result EXCEPT ![r] = answer]
    /\ holder' = Nobody
    /\ loading' = Idle

Acquire(r) ==
    /\ pc[r] = "waiting"
    /\ holder = Nobody
    /\ holder' = r
    /\ GoTo(r, IF snapshot = NoSnapshot THEN "stat" ELSE "check")
    /\ UNCHANGED <<storeVars, snapshot, loading, requestVars, history>>

\* Mutant: a snapshot does not expire with its artifacts.
CheckManifest_Unexpiring(r) ==
    /\ pc[r] = "check"
    /\ \/ /\ manifest = Missing
          /\ Answer(r, Unavailable)
       \/ /\ manifest # Missing
          /\ stamp[Root] # snapshot.msig
          /\ GoTo(r, "stat")
          /\ UNCHANGED <<holder, loading>>
       \/ /\ manifest # Missing /\ stamp[Root] = snapshot.msig
          /\ GoTo(r, "entries")
          /\ loading' = [loading EXCEPT !.names = {n \in Name : snapshot.esig[n] # 0}]
          /\ UNCHANGED holder
    /\ UNCHANGED <<storeVars, snapshot, requestVars, history>>

Expired(s) == \E c \in s.artifacts : c.expires # 0 /\ c.expires <= clock

\* _snapshot_is_current: the manifest first, then expires_at.
CheckManifest(r) ==
    /\ pc[r] = "check"
    /\ \/ /\ manifest = Missing
          /\ Answer(r, Unavailable)
       \/ /\ manifest # Missing
          /\ stamp[Root] # snapshot.msig \/ Expired(snapshot)
          /\ GoTo(r, "stat")
          /\ UNCHANGED <<holder, loading>>
       \/ /\ manifest # Missing /\ stamp[Root] = snapshot.msig /\ ~Expired(snapshot)
          /\ GoTo(r, "entries")
          /\ loading' = [loading EXCEPT !.names = {n \in Name : snapshot.esig[n] # 0}]
          /\ UNCHANGED holder
    /\ UNCHANGED <<storeVars, snapshot, requestVars, history>>

Unchanged(n) == file[n] # Missing /\ stamp[n] = snapshot.esig[n]

\* Mutant: only the manifest's signature counts.
CheckEntries_Skipped(r) ==
    /\ pc[r] = "entries"
    /\ Answer(r, Lookup(snapshot.artifacts, target[r]))
    /\ UNCHANGED <<storeVars, snapshot, requestVars, history>>

\* ... then each file whose signature was recorded.
CheckEntries(r) ==
    /\ pc[r] = "entries"
    /\ \/ /\ loading.names = {}
          /\ Answer(r, Lookup(snapshot.artifacts, target[r]))
       \/ \E n \in loading.names :
            \/ /\ Unchanged(n)
               /\ loading' = [loading EXCEPT !.names = @ \ {n}]
               /\ UNCHANGED <<holder, pc, result>>
            \/ /\ ~Unchanged(n)
               /\ loading' = Idle
               /\ GoTo(r, "stat")
               /\ UNCHANGED holder
    /\ UNCHANGED <<storeVars, snapshot, requestVars, history>>

\* Mutant: the error leaves the lock taken.
StatManifest_KeepsLock(r) ==
    /\ pc[r] = "stat"
    /\ \/ /\ manifest = Missing
          /\ pc' = [pc EXCEPT ![r] = "out"]
          /\ result' = [result EXCEPT ![r] = Unavailable]
          /\ UNCHANGED <<holder, loading>>
       \/ /\ manifest # Missing
          /\ loading' = [loading EXCEPT !.msig = stamp[Root]]
          /\ GoTo(r, "read")
          /\ UNCHANGED holder
    /\ UNCHANGED <<storeVars, snapshot, requestVars, history>>

\* _load_manifest_with_cache_metadata takes the signature before the bytes.
StatManifest(r) ==
    /\ pc[r] = "stat"
    /\ \/ /\ manifest = Missing
          /\ Answer(r, Unavailable)
       \/ /\ manifest # Missing
          /\ loading' = [loading EXCEPT !.msig = stamp[Root]]
          /\ GoTo(r, "read")
          /\ UNCHANGED holder
    /\ UNCHANGED <<storeVars, snapshot, requestVars, history>>

ReadManifest(r) ==
    /\ pc[r] = "read"
    /\ \/ /\ ~Proper(manifest)
          /\ Answer(r, Unavailable)
       \/ /\ Proper(manifest)
          /\ loading' = [loading EXCEPT !.entries = manifest, !.todo = manifest]
          /\ GoTo(r, "sign")
          /\ UNCHANGED holder
    /\ UNCHANGED <<storeVars, snapshot, requestVars, history>>

\* _manifest_entry_signatures: a file that is not there gets none.
SignEntries(r) ==
    /\ pc[r] = "sign"
    /\ \/ /\ loading.todo = {}
          /\ loading' = [loading EXCEPT !.todo = loading.entries]
          /\ GoTo(r, "load")
       \/ \E e \in loading.todo :
            /\ loading' = [loading EXCEPT
                  !.todo = @ \ {e},
                  !.esig[e.name] = IF file[e.name] = Missing THEN 0 ELSE stamp[e.name]]
            /\ UNCHANGED <<pc, result>>
    /\ UNCHANGED <<storeVars, snapshot, holder, requestVars, history>>

\* _load_valid_manifest_artifacts: an entry that does not validate is left out.
LoadEntries(r) ==
    /\ pc[r] = "load"
    /\ \/ /\ loading.todo = {}
          /\ GoTo(r, "store")
          /\ UNCHANGED loading
       \/ \E e \in loading.todo :
            /\ loading' = [loading EXCEPT
                  !.todo = @ \ {e},
                  !.artifacts = IF Valid(file[e.name], e, clock) THEN @ \cup {file[e.name]} ELSE @]
            /\ UNCHANGED <<pc, result>>
    /\ UNCHANGED <<storeVars, snapshot, holder, requestVars, history>>

Store(r) ==
    /\ pc[r] = "store"
    /\ snapshot' = [msig |-> loading.msig, esig |-> loading.esig, artifacts |-> loading.artifacts]
    /\ Answer(r, Lookup(loading.artifacts, target[r]))
    /\ UNCHANGED <<storeVars, requestVars, history>>

CallStep(r) ==
    \/ CheckManifest(r) \/ CheckEntries(r) \/ StatManifest(r) \/ ReadManifest(r)
    \/ SignEntries(r) \/ LoadEntries(r) \/ Store(r)

-----------------------------------------------------------------------------
(* The request around its calls.                                           *)

\* check_intelligence_artifact_availability, called by ApiKeyMiddleware.
CheckAvailability(r) ==
    /\ stage[r] = "arrived"
    /\ \/ /\ Gated(target[r])
          /\ stage' = [stage EXCEPT ![r] = "checking"]
          /\ Begin(r)
       \/ /\ ~Gated(target[r])
          /\ stage' = [stage EXCEPT ![r] = "admitted"]
          /\ UNCHANGED <<pc, result, history>>
    /\ UNCHANGED <<storeVars, cacheVars, target, paid>>

Returned(r) == pc[r] = "out" /\ result[r] # NoAnswer

\* Mutant: only an unavailable store stops a request before payment.
AvailabilityKnown_StoreOnly(r) ==
    /\ stage[r] = "checking" /\ Returned(r)
    /\ stage' = [stage EXCEPT ![r] = IF result[r] # Unavailable THEN "admitted" ELSE "refused"]
    /\ UNCHANGED <<storeVars, cacheVars, pc, result, target, paid, history>>

\* IntelligenceArtifactAvailabilityResult: 503 or 404 before any payment rail.
AvailabilityKnown(r) ==
    /\ stage[r] = "checking" /\ Returned(r)
    /\ stage' = [stage EXCEPT ![r] = IF result[r] \in Content THEN "admitted" ELSE "refused"]
    /\ UNCHANGED <<storeVars, cacheVars, pc, result, target, paid, history>>

\* The route's validator (by id), then its payment gate (RequestLifecycle), then
\* the endpoint, which reads the store again.
CallEndpoint(r) ==
    /\ stage[r] = "admitted"
    /\ target[r].id # Unsafe
    /\ paid' = [paid EXCEPT ![r] = target[r].type \in PaidType]
    /\ stage' = [stage EXCEPT ![r] = "serving"]
    /\ Begin(r)
    /\ UNCHANGED <<storeVars, cacheVars, target>>

\* The validator refuses the id, or the payment gate refuses the request.
RefuseRequest(r) ==
    /\ stage[r] = "admitted"
    /\ target[r].id = Unsafe \/ target[r].type \in PaidType
    /\ stage' = [stage EXCEPT ![r] = "refused"]
    /\ UNCHANGED <<storeVars, cacheVars, pc, result, target, paid, history>>

\* _latest_artifact and _artifact_by_id: the envelope, or 404, or 503.
Respond(r) ==
    /\ stage[r] = "serving" /\ Returned(r)
    /\ stage' = [stage EXCEPT ![r] = IF result[r] \in Content THEN "served" ELSE "failed"]
    /\ UNCHANGED <<storeVars, cacheVars, pc, result, target, paid, history>>

-----------------------------------------------------------------------------
(* The exporter and the clock.                                             *)

Edit(n) ==
    /\ edits <= MaxEdits
    /\ edits' = edits + 1
    /\ stamp' = [stamp EXCEPT ![n] = edits + 1]

\* An edit of the manifest: it may be caught half-written, or be taken away.
ExportManifest(m) ==
    /\ Edit(Root)
    /\ m # manifest
    /\ Orderly => \A e \in Lines(m) : e.name \in Name => file[e.name] # Missing
    /\ manifest' = m
    /\ listed' = [r \in Request |-> IF pc[r] = "out" THEN listed[r] ELSE listed[r] \cup {m}]
    /\ UNCHANGED <<file, clock, cacheVars, pc, result, requestVars, began, held>>

ExportFile(n, c) ==
    /\ Edit(n)
    /\ c # file[n]
    /\ Orderly /\ c = Missing => \A e \in Lines(manifest) : e.name # n
    /\ file' = [file EXCEPT ![n] = c]
    /\ held' = [r \in Request |-> IF pc[r] = "out" THEN held[r] ELSE held[r] \cup {<<n, c>>}]
    /\ UNCHANGED <<manifest, clock, cacheVars, pc, result, requestVars, began, listed>>

Tick ==
    /\ clock < MaxClock
    /\ clock' = clock + 1
    /\ UNCHANGED <<manifest, file, stamp, edits, cacheVars, pc, result, requestVars, history>>

-----------------------------------------------------------------------------
Next ==
    \/ \E r \in Request : \/ CheckAvailability(r) \/ AvailabilityKnown(r)
                          \/ CallEndpoint(r) \/ RefuseRequest(r) \/ Respond(r)
                          \/ Acquire(r) \/ CallStep(r)
    \/ \E m \in Manifests \cup {Torn, Missing} : ExportManifest(m)
    \/ \E x \in Exports : ExportFile(x[1], x[2])
    \/ Tick

Spec == Init /\ [][Next]_vars

\* A thread that is inside the store goes on; nothing is asked of the lock.
FairSpec == Spec /\ \A r \in Request : WF_vars(CallStep(r))

-----------------------------------------------------------------------------
(* Properties.                                                             *)

\* What the files say now.
StoreAnswer(t) ==
    IF ~Proper(manifest) THEN Unavailable
    ELSE Lookup({file[e.name] : e \in {d \in manifest : Valid(file[d.name], d, clock)}}, t)

Returns(r) == pc[r] # "out" /\ pc'[r] = "out"
Quiet(r, call) == began[r][call] = [edits |-> edits, clock |-> clock]

\* A store that does not change during a call is answered from as it is, whatever
\* was cached before and while: the cache is never noticed.
QuietStoreIsRead ==
    [][\A r \in Request : (Returns(r) /\ Quiet(r, stage[r])) =>
          result'[r] = StoreAnswer(target[r])]_vars

\* While the store changes, an artifact is still only returned if, during the
\* call, a trusted manifest listed it and its file held it.
ReturnedWasPublished ==
    \A r \in Request : (pc[r] = "out" /\ result[r] \in Content) =>
        \E m \in listed[r] : Proper(m) /\ \E e \in m :
            /\ <<e.name, result[r]>> \in held[r]
            /\ result[r].hash = e.hash /\ result[r].sound

\* No artifact is returned that had expired when it was asked for.
NeverExpired ==
    [][\A r \in Request : (Returns(r) /\ result'[r] \in Content) =>
          \/ result'[r].expires = 0
          \/ result'[r].expires > began[r][stage[r]].clock]_vars

\* A payer is left with nothing only if the store changed, or an artifact
\* expired, after its availability was checked.
PaidIsServed ==
    [][\A r \in Request : (Returns(r) /\ paid[r] /\ result'[r] \notin Content) =>
          ~Quiet(r, "checking")]_vars

\* The event loop waits for this lock: however the store is torn, it comes free.
LockComesFree == (holder # Nobody) ~> (holder = Nobody)
=============================================================================
