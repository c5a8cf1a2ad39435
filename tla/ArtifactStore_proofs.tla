------------------------- MODULE ArtifactStore_proofs ------------------------
(***************************************************************************)
(* Theorems about ArtifactStore, for any requests, files, manifests and     *)
(* targets, any number of edits and any length of time.                     *)
(***************************************************************************)
EXTENDS ArtifactStore, TLAPS

-----------------------------------------------------------------------------
(* Types, and who is inside the store.                                     *)

\* Where the lock is held, and where the manifest of a load is known.
Inside == Pc \ {"out", "waiting"}
Local == {"sign", "load", "store"}

CallInv ==
    /\ holder = Nobody => loading.artifacts = {}
    /\ \A r \in Request :
          /\ pc[r] \in Inside <=> holder = r
          /\ pc[r] # "out" => stage[r] \in {"checking", "serving"}
          /\ pc[r] \in {"check", "entries"} => snapshot # NoSnapshot
          /\ pc[r] \in Local => /\ loading.entries \in Manifests /\ Proper(loading.entries)
                                /\ loading.todo \subseteq loading.entries
          /\ pc[r] \in Inside \ {"load", "store"} => loading.artifacts = {}
          /\ pc[r] = "store" => loading.todo = {}

TypeInv == TypeOK /\ CallInv

\* A lookup finds one of the artifacts it looks through, or none.
LEMMA LookupFinds ==
    ASSUME NEW artifacts \in SUBSET Content, NEW t
    PROVE  Lookup(artifacts, t) \in artifacts \cup {Absent}
<1> DEFINE matches == {c \in artifacts : c.type = t.type /\ (t.id = Latest \/ c.id = t.id)}
<1>1. Lookup(artifacts, t) = IF matches = {} THEN Absent
                             ELSE CHOOSE c \in matches : \A d \in matches : d.rank <= c.rank
    BY DEF Lookup
<1>2. matches # {} => \E c \in matches : \A d \in matches : d.rank <= c.rank
    BY RankAssumption
<1>3. matches \subseteq artifacts
    OBVIOUS
<1> HIDE DEF matches
<1> QED BY <1>1, <1>2, <1>3

\* The exporter may only write files into the store, and none of them is the manifest.
LEMMA ExportsAreFiles ==
    ASSUME NEW x \in Exports
    PROVE  x[1] \in Name /\ x[1] # Root /\ x[2] \in Files
BY StoreAssumption DEF Files

\* The initial states are well typed.
LEMMA InitTypes == Init => TypeInv
<1> SUFFICES ASSUME Init PROVE TypeInv
    OBVIOUS
<1>1. Idle \in Loading
    BY DEF Idle, Loading
<1>2. TypeOK
    BY <1>1, StoreAssumption DEF Init, TypeOK, Files, Answers, Pc, Stage, Moment
<1>3. CallInv
    BY StoreAssumption DEF Init, CallInv, Inside, Local, Pc, Idle
<1> QED BY <1>2, <1>3 DEF TypeInv

\* The start of a call keeps the types of what it writes.
LEMMA BeginTypes ==
    ASSUME TypeOK, NEW r \in Request, stage'[r] \in {"checking", "serving"}, Begin(r)
    PROVE  /\ pc' \in [Request -> Pc] /\ result' \in [Request -> Answers]
           /\ began' \in [Request -> [{"checking", "serving"} -> Moment]]
           /\ listed' \in [Request -> SUBSET (Manifests \cup {Torn, Missing})]
           /\ held' \in [Request -> SUBSET (Name \X Files)]
<1> DEFINE s == stage'[r]
           now == [edits |-> edits, clock |-> clock]
<1>1. now \in Moment /\ s \in {"checking", "serving"}
    BY DEF TypeOK, Moment
<1>2. began' = [began EXCEPT ![r] = [began[r] EXCEPT ![s] = now]]
    BY DEF Begin, TypeOK
<1>3. began[r] \in [{"checking", "serving"} -> Moment]
    BY DEF TypeOK
<1> HIDE DEF now, s
<1>4. [began[r] EXCEPT ![s] = now] \in [{"checking", "serving"} -> Moment]
    BY <1>1, <1>3
<1>5. began' \in [Request -> [{"checking", "serving"} -> Moment]]
    BY <1>2, <1>4 DEF TypeOK
<1>6. {<<n, file[n]>> : n \in Name} \in SUBSET (Name \X Files)
    BY DEF TypeOK
<1> QED BY <1>5, <1>6 DEF TypeOK, Begin, Pc, Answers

\* The steps of a request outside the store keep the types.
LEMMA RequestTypes ==
    ASSUME TypeInv, NEW r \in Request,
           CheckAvailability(r) \/ AvailabilityKnown(r) \/ CallEndpoint(r)
           \/ RefuseRequest(r) \/ Respond(r)
    PROVE  TypeInv'
<1> USE DEF TypeInv
<1>1. CASE CheckAvailability(r)
    <2>1. TypeOK'
        <3>1. CASE Gated(target[r])
            <4>1. stage'[r] = "checking" /\ Begin(r)
                BY <1>1, <3>1 DEF CheckAvailability, TypeOK
            <4> QED BY <1>1, <3>1, <4>1, BeginTypes DEF TypeOK, CheckAvailability, Stage, storeVars, cacheVars
        <3>2. CASE ~Gated(target[r])
            BY <1>1, <3>2 DEF TypeOK, CheckAvailability, Stage, storeVars, cacheVars, history
        <3> QED BY <3>1, <3>2
    <2>2. CallInv'
        BY <1>1 DEF TypeOK, CallInv, CheckAvailability, Begin, Inside, Local, Pc, storeVars, cacheVars, history
    <2> QED BY <2>1, <2>2
<1>2. CASE AvailabilityKnown(r)
    BY <1>2 DEF TypeOK, CallInv, AvailabilityKnown, Returned, Stage, Inside, Local, Pc, storeVars, cacheVars, history
<1>3. CASE CallEndpoint(r)
    <2>1. TypeOK'
        <3>1. stage'[r] = "serving" /\ Begin(r)
            BY <1>3 DEF CallEndpoint, TypeOK
        <3> QED BY <1>3, <3>1, BeginTypes DEF TypeOK, CallEndpoint, Stage, storeVars, cacheVars
    <2>2. CallInv'
        BY <1>3 DEF TypeOK, CallInv, CallEndpoint, Begin, Inside, Local, Pc, storeVars, cacheVars, history
    <2> QED BY <2>1, <2>2
<1>4. CASE RefuseRequest(r)
    BY <1>4 DEF TypeOK, CallInv, RefuseRequest, Stage, Inside, Local, Pc, storeVars, cacheVars, history
<1>5. CASE Respond(r)
    BY <1>5 DEF TypeOK, CallInv, Respond, Returned, Stage, Inside, Local, Pc, storeVars, cacheVars, history
<1> QED BY <1>1, <1>2, <1>3, <1>4, <1>5

\* The steps inside the store keep the types.
LEMMA CallTypes ==
    ASSUME TypeInv, NEW r \in Request, Acquire(r) \/ CallStep(r)
    PROVE  TypeInv'
<1> USE DEF TypeInv
<1>0. Idle \in Loading /\ Idle.artifacts = {} /\ Nobody \notin Request
    BY StoreAssumption DEF Idle, Loading
<1>a. ASSUME NEW answer \in Answers, Answer(r, answer), pc[r] \in Inside,
             UNCHANGED <<storeVars, requestVars, history>>,
             snapshot' \in Snapshot \/ snapshot' = snapshot
      PROVE  TypeInv'
    <2>1. TypeOK'
        BY <1>0, <1>a DEF TypeOK, Answer, Pc, storeVars, requestVars, history
    <2>2. CallInv'
        BY <1>0, <1>a DEF TypeOK, CallInv, Answer, Inside, Local, Pc, requestVars
    <2> QED BY <2>1, <2>2
<1>b. ASSUME NEW next \in Inside, GoTo(r, next), loading' \in Loading,
             UNCHANGED <<storeVars, snapshot, requestVars, history>>,
             holder' \in Request \cup {Nobody}
      PROVE  TypeOK'
    BY <1>b DEF TypeOK, GoTo, Inside, storeVars, requestVars, history
<1>u. Unavailable \in Answers
    BY DEF Answers
<1>1. CASE Acquire(r)
    <2>1. TypeOK'
        BY <1>1 DEF TypeOK, Acquire, GoTo, Pc, storeVars, requestVars, history
    <2>2. CallInv'
        BY <1>0, <1>1 DEF TypeOK, CallInv, Acquire, GoTo, Inside, Local, Pc, requestVars
    <2> QED BY <2>1, <2>2
<1>2. CASE CheckManifest(r)
    <2>0. pc[r] \in Inside /\ pc[r] = "check" /\ UNCHANGED <<storeVars, snapshot, requestVars, history>>
        BY <1>2 DEF CheckManifest, Inside, Pc
    <2>1. CASE Answer(r, Unavailable)
        BY <2>0, <2>1, <1>a, <1>u
    <2>2. CASE GoTo(r, "stat") /\ UNCHANGED <<holder, loading>>
        <3>1. TypeOK'
            BY <2>0, <2>2, <1>b DEF Inside, Pc, TypeOK
        <3>2. CallInv'
            BY <1>0, <2>0, <2>2 DEF TypeOK, CallInv, GoTo, Inside, Local, Pc, requestVars
        <3> QED BY <3>1, <3>2
    <2>3. CASE /\ GoTo(r, "entries")
               /\ loading' = [loading EXCEPT !.names = {n \in Name : snapshot.esig[n] # 0}]
               /\ UNCHANGED holder
        <3>0. loading' \in Loading /\ loading'.artifacts = loading.artifacts
            BY <2>3 DEF TypeOK, Loading
        <3>1. TypeOK'
            BY <3>0, <2>0, <2>3, <1>b DEF Inside, Pc, TypeOK
        <3>2. CallInv'
            BY <1>0, <2>0, <2>3, <3>0 DEF TypeOK, CallInv, GoTo, Inside, Local, Pc, requestVars
        <3> QED BY <3>1, <3>2
    <2> QED BY <1>2, <2>1, <2>2, <2>3 DEF CheckManifest
<1>3. CASE CheckEntries(r)
    <2>0. /\ pc[r] \in Inside /\ pc[r] = "entries" /\ snapshot # NoSnapshot
          /\ UNCHANGED <<storeVars, snapshot, requestVars, history>>
        BY <1>3 DEF CheckEntries, Inside, Pc, CallInv
    <2>1. CASE Answer(r, Lookup(snapshot.artifacts, target[r]))
        <3>1. Lookup(snapshot.artifacts, target[r]) \in Answers
            <4>1. snapshot.artifacts \in SUBSET Content
                BY <2>0 DEF TypeOK, Snapshot
            <4> QED BY <4>1, LookupFinds DEF Answers
        <3> QED BY <2>0, <2>1, <3>1, <1>a
    <2>2. CASE \E n \in loading.names : /\ loading' = [loading EXCEPT !.names = @ \ {n}]
                                         /\ UNCHANGED <<holder, pc, result>>
        <3>0. loading' \in Loading /\ loading'.artifacts = loading.artifacts
            BY <2>2 DEF TypeOK, Loading
        <3>1. TypeOK'
            BY <3>0, <2>0, <2>2 DEF TypeOK, storeVars, requestVars, history
        <3>2. CallInv'
            BY <1>0, <2>0, <2>2, <3>0 DEF TypeOK, CallInv, Inside, Local, Pc, requestVars
        <3> QED BY <3>1, <3>2
    <2>3. CASE loading' = Idle /\ GoTo(r, "stat") /\ UNCHANGED holder
        <3>1. TypeOK'
            BY <1>0, <2>0, <2>3, <1>b DEF Inside, Pc, TypeOK
        <3>2. CallInv'
            BY <1>0, <2>0, <2>3 DEF TypeOK, CallInv, GoTo, Inside, Local, Pc, requestVars
        <3> QED BY <3>1, <3>2
    <2> QED BY <1>3, <2>1, <2>2, <2>3 DEF CheckEntries
<1>4. CASE StatManifest(r)
    <2>0. pc[r] \in Inside /\ pc[r] = "stat" /\ UNCHANGED <<storeVars, snapshot, requestVars, history>>
        BY <1>4 DEF StatManifest, Inside, Pc
    <2>1. CASE Answer(r, Unavailable)
        BY <2>0, <2>1, <1>a, <1>u
    <2>2. CASE /\ loading' = [loading EXCEPT !.msig = stamp[Root]]
               /\ GoTo(r, "read") /\ UNCHANGED holder
        <3>0. loading' \in Loading /\ loading'.artifacts = loading.artifacts
            BY <2>2 DEF TypeOK, Loading
        <3>1. TypeOK'
            BY <3>0, <2>0, <2>2, <1>b DEF Inside, Pc, TypeOK
        <3>2. CallInv'
            BY <1>0, <2>0, <2>2, <3>0 DEF TypeOK, CallInv, GoTo, Inside, Local, Pc, requestVars
        <3> QED BY <3>1, <3>2
    <2> QED BY <1>4, <2>1, <2>2 DEF StatManifest
<1>5. CASE ReadManifest(r)
    <2>0. pc[r] \in Inside /\ pc[r] = "read" /\ UNCHANGED <<storeVars, snapshot, requestVars, history>>
        BY <1>5 DEF ReadManifest, Inside, Pc
    <2>1. CASE Answer(r, Unavailable)
        BY <2>0, <2>1, <1>a, <1>u
    <2>2. CASE /\ Proper(manifest)
               /\ loading' = [loading EXCEPT !.entries = manifest, !.todo = manifest]
               /\ GoTo(r, "sign") /\ UNCHANGED holder
        <3>0. manifest \in Manifests
            BY <2>2 DEF TypeOK, Proper
        <3>1. /\ loading' \in Loading /\ loading'.artifacts = loading.artifacts
              /\ loading'.entries = manifest /\ loading'.todo = manifest
            BY <2>2, <3>0 DEF TypeOK, Loading
        <3>2. TypeOK'
            BY <3>1, <2>0, <2>2, <1>b DEF Inside, Pc, TypeOK
        <3>3. CallInv'
            BY <1>0, <2>0, <2>2, <3>0, <3>1 DEF TypeOK, CallInv, GoTo, Inside, Local, Pc, requestVars, Proper
        <3> QED BY <3>2, <3>3
    <2> QED BY <1>5, <2>1, <2>2 DEF ReadManifest
<1>6. CASE SignEntries(r)
    <2>0. pc[r] \in Inside /\ pc[r] = "sign" /\ UNCHANGED <<storeVars, snapshot, holder, requestVars, history>>
        BY <1>6 DEF SignEntries, Inside, Pc
    <2>1. /\ loading.entries \in Manifests /\ Proper(loading.entries)
          /\ loading.todo \subseteq loading.entries /\ loading.artifacts = {}
        BY <2>0 DEF CallInv, Inside, Local, Pc
    <2>2. CASE /\ loading' = [loading EXCEPT !.todo = loading.entries]
               /\ GoTo(r, "load")
        <3>1. /\ loading' \in Loading /\ loading'.artifacts = loading.artifacts
              /\ loading'.entries = loading.entries /\ loading'.todo = loading.entries
            BY <2>1, <2>2 DEF TypeOK, Loading
        <3>2. TypeOK'
            BY <3>1, <2>0, <2>2, <1>b DEF Inside, Pc, TypeOK
        <3>3. CallInv'
            BY <1>0, <2>0, <2>1, <2>2, <3>1 DEF TypeOK, CallInv, GoTo, Inside, Local, Pc, requestVars, Proper
        <3> QED BY <3>2, <3>3
    <2>3. CASE \E e \in loading.todo :
            /\ loading' = [loading EXCEPT
                  !.todo = @ \ {e},
                  !.esig[e.name] = IF file[e.name] = Missing THEN 0 ELSE stamp[e.name]]
            /\ UNCHANGED <<pc, result>>
        <3>0. PICK e \in loading.todo : loading' = [loading EXCEPT
                  !.todo = @ \ {e},
                  !.esig[e.name] = IF file[e.name] = Missing THEN 0 ELSE stamp[e.name]]
            BY <2>3
        <3>1. e \in loading.entries /\ e.name \in Name
            BY <2>1, StoreAssumption DEF Proper
        <3>2. (IF file[e.name] = Missing THEN 0 ELSE stamp[e.name]) \in Nat
            BY <3>1 DEF TypeOK
        <3>3. /\ loading' \in Loading /\ loading'.artifacts = loading.artifacts
              /\ loading'.entries = loading.entries /\ loading'.todo = loading.todo \ {e}
            BY <3>0, <3>1, <3>2 DEF TypeOK, Loading
        <3>4. TypeOK'
            BY <3>3, <2>0, <2>3 DEF TypeOK, storeVars, requestVars, history
        <3>5. CallInv'
            BY <1>0, <2>0, <2>1, <2>3, <3>3 DEF TypeOK, CallInv, Inside, Local, Pc, requestVars, Proper
        <3> QED BY <3>4, <3>5
    <2> QED BY <1>6, <2>2, <2>3 DEF SignEntries
<1>7. CASE LoadEntries(r)
    <2>0. pc[r] \in Inside /\ pc[r] = "load" /\ UNCHANGED <<storeVars, snapshot, holder, requestVars, history>>
        BY <1>7 DEF LoadEntries, Inside, Pc
    <2>1. /\ loading.entries \in Manifests /\ Proper(loading.entries)
          /\ loading.todo \subseteq loading.entries
        BY <2>0 DEF CallInv, Inside, Local, Pc
    <2>2. CASE loading.todo = {} /\ GoTo(r, "store") /\ UNCHANGED loading
        <3>1. TypeOK'
            BY <2>0, <2>2, <1>b DEF Inside, Pc, TypeOK
        <3>2. CallInv'
            BY <1>0, <2>0, <2>1, <2>2 DEF TypeOK, CallInv, GoTo, Inside, Local, Pc, requestVars, Proper
        <3> QED BY <3>1, <3>2
    <2>3. CASE \E e \in loading.todo :
            /\ loading' = [loading EXCEPT
                  !.todo = @ \ {e},
                  !.artifacts = IF Valid(file[e.name], e, clock) THEN @ \cup {file[e.name]} ELSE @]
            /\ UNCHANGED <<pc, result>>
        <3>1. /\ loading' \in Loading
              /\ loading'.entries = loading.entries /\ loading'.todo \subseteq loading.todo
            <4>1. PICK e \in loading.todo : loading' = [loading EXCEPT
                  !.todo = @ \ {e},
                  !.artifacts = IF Valid(file[e.name], e, clock) THEN @ \cup {file[e.name]} ELSE @]
                BY <2>3
            <4> DEFINE A == IF Valid(file[e.name], e, clock)
                            THEN loading.artifacts \cup {file[e.name]} ELSE loading.artifacts
            <4>2. A \in SUBSET Content
                BY DEF TypeOK, Loading, Valid
            <4>3. loading' = [loading EXCEPT !.todo = loading.todo \ {e}, !.artifacts = A]
                BY <4>1 DEF TypeOK, Loading
            <4> HIDE DEF A
            <4> QED BY <4>2, <4>3 DEF TypeOK, Loading
        <3>2. TypeOK'
            BY <3>1, <2>0, <2>3 DEF TypeOK, storeVars, requestVars, history
        <3>3. CallInv'
            BY <1>0, <2>0, <2>1, <2>3, <3>1 DEF TypeOK, CallInv, Inside, Local, Pc, requestVars, Proper
        <3> QED BY <3>2, <3>3
    <2> QED BY <1>7, <2>2, <2>3 DEF LoadEntries
<1>8. CASE Store(r)
    <2>0. /\ pc[r] \in Inside /\ UNCHANGED <<storeVars, requestVars, history>>
          /\ Answer(r, Lookup(loading.artifacts, target[r]))
        BY <1>8 DEF Store, Inside, Pc
    <2>1. loading.artifacts \in SUBSET Content /\ snapshot' \in Snapshot
        BY <1>8 DEF TypeOK, Loading, Snapshot, Store
    <2>2. Lookup(loading.artifacts, target[r]) \in Answers
        BY <2>1, LookupFinds DEF Answers
    <2> QED BY <2>0, <2>1, <2>2, <1>a
<1> QED BY <1>1, <1>2, <1>3, <1>4, <1>5, <1>6, <1>7, <1>8 DEF CallStep

\* What the exporter and the clock do keeps the types.
LEMMA OutsideTypes ==
    ASSUME TypeInv,
           \/ \E m \in Manifests \cup {Torn, Missing} : ExportManifest(m)
           \/ \E x \in Exports : ExportFile(x[1], x[2])
           \/ Tick
           \/ UNCHANGED vars
    PROVE  TypeInv'
<1> USE DEF TypeInv
<1>1. CASE \E m \in Manifests \cup {Torn, Missing} : ExportManifest(m)
    BY <1>1 DEF TypeOK, CallInv, ExportManifest, Edit, cacheVars, requestVars
<1>2. CASE \E x \in Exports : ExportFile(x[1], x[2])
    <2>1. PICK x \in Exports : ExportFile(x[1], x[2])
        BY <1>2
    <2>2. x[1] \in Name /\ x[2] \in Files
        BY ExportsAreFiles
    <2> DEFINE n == x[1]
               c == x[2]
    <2>3. ExportFile(n, c)
        BY <2>1
    <2>4. n \in Name /\ c \in Files
        BY <2>2
    <2> HIDE DEF n, c
    <2>5. TypeOK'
        BY <2>3, <2>4 DEF TypeOK, ExportFile, Edit, cacheVars, requestVars
    <2>6. CallInv'
        BY <2>3 DEF CallInv, ExportFile, cacheVars, requestVars
    <2> QED BY <2>5, <2>6
<1>3. CASE Tick
    BY <1>3 DEF TypeOK, CallInv, Tick, cacheVars, requestVars, history
<1>4. CASE UNCHANGED vars
    BY <1>4 DEF TypeOK, CallInv, vars, storeVars, cacheVars, requestVars, history
<1> QED BY <1>1, <1>2, <1>3, <1>4

\* Every step keeps the types.
LEMMA NextTypes == TypeInv /\ [Next]_vars => TypeInv'
BY RequestTypes, CallTypes, OutsideTypes DEF Next

\* Every reachable state is well typed, and only the holder of the lock is inside the store.
THEOREM TypeCorrect == Spec => []TypeOK
<1>1. Spec => []TypeInv
    BY InitTypes, NextTypes, PTL DEF Spec
<1> QED BY <1>1, PTL DEF TypeInv

-----------------------------------------------------------------------------
(* What the steps leave alone.                                             *)

RequestStep(r) == \/ CheckAvailability(r) \/ AvailabilityKnown(r) \/ CallEndpoint(r)
                  \/ RefuseRequest(r) \/ Respond(r)
StoreStep == \/ \E m \in Manifests \cup {Torn, Missing} : ExportManifest(m)
             \/ \E x \in Exports : ExportFile(x[1], x[2])
             \/ Tick

\* A step is of a request outside the store, of one inside, or of the store.
LEMMA Steps ==
    ASSUME [Next]_vars
    PROVE  \/ \E r \in Request : RequestStep(r)
           \/ \E r \in Request : Acquire(r)
           \/ \E r \in Request : CallStep(r)
           \/ StoreStep
           \/ UNCHANGED vars
BY DEF Next, RequestStep, StoreStep

\* A call of a request that is in the middle of it.
SameCall(q) == /\ pc'[q] = pc[q] /\ result'[q] = result[q] /\ stage'[q] = stage[q]
               /\ began'[q] = began[q] /\ listed'[q] = listed[q] /\ held'[q] = held[q]

\* A step of a request outside the store touches no call that has begun.
LEMMA RequestFrame ==
    ASSUME TypeInv, NEW r \in Request, RequestStep(r)
    PROVE  /\ UNCHANGED <<storeVars, cacheVars>> /\ target' = target
           /\ \A q \in Request :
                 /\ pc[q] # "out" => SameCall(q)
                 /\ pc[q] = "out" => pc'[q] \in {"out", "waiting"}
                 /\ q # r => SameCall(q)
<1> USE DEF TypeInv
<1>0. stage[r] \notin {"checking", "serving"} => pc[r] = "out"
    BY DEF CallInv
<1>1. CASE CheckAvailability(r) \/ CallEndpoint(r)
    <2>1. pc[r] = "out"
        BY <1>0, <1>1 DEF CheckAvailability, CallEndpoint
    <2>2. CASE Begin(r)
        BY <1>1, <2>1, <2>2 DEF TypeOK, CheckAvailability, CallEndpoint, Begin, SameCall, storeVars, cacheVars
    <2>3. CASE UNCHANGED <<pc, result, history>>
        BY <1>1, <2>1, <2>3 DEF TypeOK, CheckAvailability, CallEndpoint, SameCall, storeVars, cacheVars, history
    <2> QED BY <1>1, <2>2, <2>3 DEF CheckAvailability, CallEndpoint
<1>2. CASE AvailabilityKnown(r) \/ RefuseRequest(r) \/ Respond(r)
    <2>1. pc[r] = "out"
        BY <1>0, <1>2 DEF AvailabilityKnown, RefuseRequest, Respond, Returned
    <2> QED BY <1>2, <2>1 DEF TypeOK, AvailabilityKnown, RefuseRequest, Respond, SameCall, storeVars, cacheVars, history
<1> QED BY <1>1, <1>2 DEF RequestStep

\* A step inside the store is the holder's: no other call is inside, before or after.
LEMMA CallFrame ==
    ASSUME TypeInv, NEW r \in Request, Acquire(r) \/ CallStep(r)
    PROVE  /\ UNCHANGED <<storeVars, requestVars, history>>
           /\ \A q \in Request \ {r} : SameCall(q) /\ pc[q] \notin Inside
<1> USE DEF TypeInv
<1>1. UNCHANGED <<storeVars, requestVars, history>>
    BY DEF Acquire, CallStep, CheckManifest, CheckEntries, StatManifest, ReadManifest,
           SignEntries, LoadEntries, Store
<1>2. \A q \in Request \ {r} : pc'[q] = pc[q] /\ result'[q] = result[q]
    BY DEF TypeOK, GoTo, Answer, Acquire, CallStep, CheckManifest, CheckEntries, StatManifest,
           ReadManifest, SignEntries, LoadEntries, Store
<1>3. holder \in {r, Nobody}
    BY DEF CallInv, Inside, Pc, Acquire, CallStep, CheckManifest, CheckEntries,
           StatManifest, ReadManifest, SignEntries, LoadEntries, Store
<1> QED BY <1>1, <1>2, <1>3, StoreAssumption DEF CallInv, SameCall, requestVars, history

\* The exporter and the clock touch no call, and neither goes back.
LEMMA StoreFrame ==
    ASSUME TypeInv, StoreStep
    PROVE  /\ UNCHANGED <<cacheVars, pc, result, requestVars, began>>
           /\ edits <= edits' /\ clock <= clock'
           /\ edits' = edits => clock < clock' /\ UNCHANGED <<manifest, file, stamp, listed, held>>
<1>1. edits \in Nat /\ clock \in Nat
    BY DEF TypeInv, TypeOK
<1> QED BY <1>1 DEF StoreStep, ExportManifest, ExportFile, Edit, Tick, cacheVars, requestVars, history

-----------------------------------------------------------------------------
(* Expiry.                                                                 *)

\* A call began in the past.
MomentInv ==
    \A r \in Request : \A s \in {"checking", "serving"} :
        began[r][s].edits <= edits /\ began[r][s].clock <= clock

Fresh(r, c) == c.expires = 0 \/ c.expires > began[r][stage[r]].clock

\* What a call is about to answer from had not expired when it began.
FreshInv ==
    \A r \in Request :
        /\ pc[r] = "entries" => \A c \in snapshot.artifacts : Fresh(r, c)
        /\ holder = r => \A c \in loading.artifacts : Fresh(r, c)

ReturnsFresh ==
    \A r \in Request : (Returns(r) /\ result'[r] \in Content) =>
        result'[r].expires = 0 \/ result'[r].expires > began[r][stage[r]].clock

\* Neither the clock nor the count of edits goes back.
LEMMA NextMoment == TypeInv /\ MomentInv /\ [Next]_vars => MomentInv'
<1> SUFFICES ASSUME TypeInv, MomentInv, [Next]_vars PROVE MomentInv'
    OBVIOUS
<1>1. ASSUME NEW r \in Request, RequestStep(r) PROVE MomentInv'
    <2>1. UNCHANGED <<edits, clock>>
        BY <1>1, RequestFrame DEF storeVars
    <2>2. CASE began' = began
        BY <2>1, <2>2 DEF MomentInv
    <2>3. CASE began' # began
        <3>1. Begin(r) /\ stage'[r] \in {"checking", "serving"}
            BY <1>1, <2>3 DEF RequestStep, CheckAvailability, AvailabilityKnown, CallEndpoint,
                   RefuseRequest, Respond, TypeInv, TypeOK, history
        <3> QED BY <2>1, <3>1 DEF MomentInv, Begin, TypeInv, TypeOK, Moment
    <2> QED BY <2>2, <2>3
<1>2. ASSUME NEW r \in Request, Acquire(r) \/ CallStep(r) PROVE MomentInv'
    BY <1>2, CallFrame DEF MomentInv, storeVars, history
<1>3. CASE StoreStep
    <2>1. /\ began' = began /\ edits <= edits' /\ clock <= clock'
          /\ edits \in Nat /\ clock \in Nat /\ edits' \in Nat /\ clock' \in Nat
        BY <1>3, StoreFrame, NextTypes DEF TypeInv, TypeOK
    <2>2. \A r \in Request : \A s \in {"checking", "serving"} :
              began[r][s].edits \in Nat /\ began[r][s].clock \in Nat
        BY DEF TypeInv, TypeOK, Moment
    <2> QED BY <2>1, <2>2 DEF MomentInv
<1>4. CASE UNCHANGED vars
    BY <1>4 DEF MomentInv, vars, storeVars, history
<1> QED BY <1>1, <1>2, <1>3, <1>4, Steps

\* What has expired is dropped before a call answers from it: with the snapshot when it is
\* checked, with the line when it is loaded.
LEMMA NextFresh ==
    ASSUME TypeInv, TypeInv', MomentInv, FreshInv, [Next]_vars
    PROVE  FreshInv' /\ ReturnsFresh
<1> USE DEF TypeInv
<1>0. \A q \in Request : began[q] \in [{"checking", "serving"} -> Moment]
    BY DEF TypeOK
<1>1. ASSUME NEW r \in Request, RequestStep(r) PROVE FreshInv' /\ ReturnsFresh
    <2>1. /\ UNCHANGED cacheVars
          /\ \A q \in Request : /\ pc[q] # "out" => SameCall(q)
                                /\ pc[q] = "out" => pc'[q] \in {"out", "waiting"}
        BY <1>1, RequestFrame
    <2> QED BY <2>1 DEF FreshInv, ReturnsFresh, Returns, Fresh, SameCall, CallInv, Inside, cacheVars
<1>2. ASSUME NEW r \in Request, Acquire(r) \/ CallStep(r) PROVE FreshInv' /\ ReturnsFresh
    <2>1. /\ UNCHANGED <<storeVars, requestVars, history>>
          /\ \A q \in Request \ {r} : SameCall(q) /\ pc[q] \notin Inside
        BY <1>2, CallFrame
    <2>2. \A q \in Request \ {r} : holder' # q /\ pc'[q] # "entries" /\ ~Returns(q)
        BY <2>1 DEF CallInv, Inside, Pc, SameCall, Returns
    <2>3. /\ \A c \in Content : Fresh(r, c)' <=> Fresh(r, c)
          /\ stage[r] \in {"checking", "serving"} /\ began[r][stage[r]].clock <= clock
          /\ began[r][stage[r]].clock \in Nat /\ clock \in Nat
        <3>1. pc[r] # "out"
            BY <1>2 DEF Acquire, CallStep, CheckManifest, CheckEntries, StatManifest, ReadManifest,
                   SignEntries, LoadEntries, Store
        <3> QED BY <2>1, <3>1 DEF Fresh, history, requestVars, TypeOK, CallInv, MomentInv, Moment
    <2>4. /\ loading.artifacts \subseteq Content /\ loading'.artifacts \subseteq Content
          /\ snapshot # NoSnapshot => snapshot.artifacts \subseteq Content
        BY DEF TypeOK, Loading, Snapshot
    <2>5. \A c \in Content : c.expires \in Nat
        BY StoreAssumption
    <2> SUFFICES /\ pc'[r] = "entries" => \A c \in snapshot'.artifacts : Fresh(r, c)
                 /\ holder' = r => \A c \in loading'.artifacts : Fresh(r, c)
                 /\ Returns(r) /\ result'[r] \in Content => Fresh(r, result'[r])
        <3> SUFFICES ASSUME /\ pc'[r] = "entries" => \A c \in snapshot'.artifacts : Fresh(r, c)
                            /\ holder' = r => \A c \in loading'.artifacts : Fresh(r, c)
                            /\ Returns(r) /\ result'[r] \in Content => Fresh(r, result'[r])
                     PROVE  FreshInv' /\ ReturnsFresh
            OBVIOUS
        <3>1. FreshInv'
            BY <2>2, <2>3, <2>4 DEF FreshInv, CallInv, TypeOK, Snapshot
        <3>2. ReturnsFresh
            BY <2>2 DEF ReturnsFresh, Fresh
        <3> QED BY <3>1, <3>2
    <2>6. CASE Acquire(r)
        BY <2>6 DEF Acquire, GoTo, Returns, CallInv, TypeOK, FreshInv
    <2>7. CASE CheckManifest(r)
        <3>1. loading.artifacts = {} /\ snapshot # NoSnapshot
            BY <2>7 DEF CheckManifest, CallInv, Inside, Pc
        <3>2. loading'.artifacts = {}
            BY <2>7, <3>1 DEF CheckManifest, Answer, Idle, TypeOK, Loading
        <3>3. pc'[r] = "entries" => ~Expired(snapshot) /\ snapshot' = snapshot
            BY <2>7 DEF CheckManifest, Answer, GoTo, TypeOK
        <3>4. ~Expired(snapshot) => \A c \in snapshot.artifacts : Fresh(r, c)
            BY <2>3, <2>4, <2>5, <3>1 DEF Expired, Fresh
        <3>5. Returns(r) => result'[r] = Unavailable
            BY <2>7 DEF CheckManifest, Answer, GoTo, TypeOK, Returns
        <3> QED BY <3>2, <3>3, <3>4, <3>5, StoreAssumption
    <2>8. CASE CheckEntries(r)
        <3>1. loading.artifacts = {} /\ snapshot # NoSnapshot /\ snapshot' = snapshot
            BY <2>8 DEF CheckEntries, CallInv, Inside, Pc
        <3>2. loading'.artifacts = {}
            BY <2>8, <3>1 DEF CheckEntries, Answer, Idle, TypeOK, Loading
        <3>3. \A c \in snapshot.artifacts : Fresh(r, c)
            BY <2>8 DEF CheckEntries, FreshInv
        <3>4. Returns(r) => result'[r] = Lookup(snapshot.artifacts, target[r])
            BY <2>8 DEF CheckEntries, Answer, GoTo, TypeOK, Returns
        <3>5. Lookup(snapshot.artifacts, target[r]) \in snapshot.artifacts \cup {Absent}
            BY <2>4, <3>1, LookupFinds
        <3> QED BY <3>1, <3>2, <3>3, <3>4, <3>5, StoreAssumption
    <2>9. CASE StatManifest(r) \/ ReadManifest(r) \/ SignEntries(r)
        <3>1. loading.artifacts = {}
            BY <2>9 DEF StatManifest, ReadManifest, SignEntries, CallInv, Inside, Pc
        <3>2. loading'.artifacts = {}
            <4>1. loading' = Idle \/ loading'.artifacts = loading.artifacts
                <5>1. CASE StatManifest(r)
                    BY <5>1 DEF StatManifest, Answer, TypeOK, Loading
                <5>2. CASE ReadManifest(r)
                    BY <5>2 DEF ReadManifest, Answer, TypeOK, Loading
                <5>3. CASE SignEntries(r)
                    BY <5>3 DEF SignEntries, TypeOK, Loading
                <5> QED BY <2>9, <5>1, <5>2, <5>3
            <4> QED BY <3>1, <4>1 DEF Idle
        <3>3. /\ pc'[r] # "entries"
              /\ Returns(r) => result'[r] = Unavailable
            BY <2>9 DEF StatManifest, ReadManifest, SignEntries, Answer, GoTo, TypeOK, Returns
        <3> QED BY <3>2, <3>3, StoreAssumption
    <2>10. CASE LoadEntries(r)
        <3>1. holder = r /\ pc'[r] # "entries" /\ ~Returns(r)
            BY <2>10 DEF LoadEntries, GoTo, CallInv, Inside, Pc, TypeOK, Returns
        <3>2. \A c \in loading.artifacts : Fresh(r, c)
            BY <3>1 DEF FreshInv
        <3>3. ASSUME NEW c \in loading'.artifacts, c \notin loading.artifacts
              PROVE  c.expires = 0 \/ c.expires > clock
            <4>1. PICK e \in loading.todo : loading' = [loading EXCEPT
                      !.todo = @ \ {e},
                      !.artifacts = IF Valid(file[e.name], e, clock) THEN @ \cup {file[e.name]} ELSE @]
                BY <2>10, <3>3 DEF LoadEntries
            <4>2. Valid(file[e.name], e, clock) /\ c = file[e.name]
                BY <3>3, <4>1 DEF TypeOK, Loading
            <4> QED BY <4>2 DEF Valid
        <3>4. \A c \in loading'.artifacts : Fresh(r, c)
            BY <2>3, <2>4, <2>5, <3>2, <3>3 DEF Fresh
        <3> QED BY <3>1, <3>4
    <2>11. CASE Store(r)
        <3>1. holder = r
            BY <2>11 DEF Store, CallInv, Inside, Pc
        <3>2. \A c \in loading.artifacts : Fresh(r, c)
            BY <3>1 DEF FreshInv
        <3>3. /\ pc'[r] # "entries" /\ holder' # r
              /\ result'[r] = Lookup(loading.artifacts, target[r])
            BY <2>11, StoreAssumption DEF Store, Answer, TypeOK
        <3>4. Lookup(loading.artifacts, target[r]) \in loading.artifacts \cup {Absent}
            BY <2>4, LookupFinds
        <3> QED BY <3>2, <3>3, <3>4, StoreAssumption
    <2> QED BY <1>2, <2>6, <2>7, <2>8, <2>9, <2>10, <2>11 DEF CallStep
<1>3. CASE StoreStep
    <2>1. UNCHANGED <<cacheVars, pc, result, requestVars, began>>
        BY <1>3, StoreFrame
    <2> QED BY <2>1 DEF FreshInv, Fresh, ReturnsFresh, Returns, cacheVars, requestVars
<1>4. CASE UNCHANGED vars
    BY <1>4 DEF FreshInv, Fresh, ReturnsFresh, Returns, vars, cacheVars, requestVars, history
<1> QED BY <1>1, <1>2, <1>3, <1>4, Steps

\* There is nothing to answer from at first.
LEMMA InitFresh == Init => MomentInv /\ FreshInv
<1> SUFFICES ASSUME Init PROVE MomentInv /\ FreshInv
    OBVIOUS
<1>1. MomentInv
    BY DEF Init, MomentInv
<1>2. FreshInv
    BY StoreAssumption DEF Init, FreshInv
<1> QED BY <1>1, <1>2

\* No call of the store returns an artifact that had expired when the call began, through
\* the snapshot or from the files (_snapshot_is_current, _validate_artifact).
THEOREM ExpiredIsNotReturned == Spec => NeverExpired
<1>1. TypeInv /\ MomentInv /\ FreshInv /\ [Next]_vars =>
          (TypeInv /\ MomentInv /\ FreshInv)'
    BY NextTypes, NextMoment, NextFresh
<1>2. TypeInv /\ MomentInv /\ FreshInv /\ [Next]_vars =>
          [\A r \in Request : (Returns(r) /\ result'[r] \in Content) =>
              \/ result'[r].expires = 0
              \/ result'[r].expires > began[r][stage[r]].clock]_vars
    BY NextTypes, NextFresh DEF ReturnsFresh
<1> QED BY <1>1, <1>2, InitTypes, InitFresh, PTL DEF Spec, NeverExpired

-----------------------------------------------------------------------------
(* What the steps inside the store do to the locals of the holder.         *)

\* The outcomes of the check of the snapshot's manifest.
LEMMA CheckManifestStep ==
    ASSUME TypeInv, NEW r \in Request, CheckManifest(r)
    PROVE  /\ pc[r] = "check" /\ snapshot # NoSnapshot /\ snapshot' = snapshot
           /\ \/ pc'[r] = "out" /\ manifest = Missing /\ result'[r] = Unavailable
              \/ pc'[r] = "stat"
              \/ /\ pc'[r] = "entries" /\ stamp[Root] = snapshot.msig /\ ~Expired(snapshot)
                 /\ loading'.names = {n \in Name : snapshot.esig[n] # 0}
BY DEF CheckManifest, Answer, GoTo, TypeInv, TypeOK, Loading, CallInv

\* The outcomes of the check of one file of the snapshot.
LEMMA CheckEntriesStep ==
    ASSUME TypeInv, NEW r \in Request, CheckEntries(r)
    PROVE  /\ pc[r] = "entries" /\ snapshot # NoSnapshot /\ snapshot' = snapshot
           /\ \/ /\ pc'[r] = "out" /\ loading.names = {}
                 /\ result'[r] = Lookup(snapshot.artifacts, target[r])
              \/ pc'[r] = "stat"
              \/ /\ pc'[r] = "entries"
                 /\ \E n \in loading.names : Unchanged(n) /\ loading'.names = loading.names \ {n}
BY DEF CheckEntries, Answer, GoTo, TypeInv, TypeOK, Loading, CallInv

\* The outcomes of the look at the manifest.
LEMMA StatManifestStep ==
    ASSUME TypeInv, NEW r \in Request, StatManifest(r)
    PROVE  /\ pc[r] = "stat" /\ snapshot' = snapshot
           /\ \/ pc'[r] = "out" /\ manifest = Missing /\ result'[r] = Unavailable
              \/ pc'[r] = "read"
BY DEF StatManifest, Answer, GoTo, TypeInv, TypeOK

\* The outcomes of the read of the manifest.
LEMMA ReadManifestStep ==
    ASSUME TypeInv, NEW r \in Request, ReadManifest(r)
    PROVE  /\ pc[r] = "read" /\ snapshot' = snapshot
           /\ \/ pc'[r] = "out" /\ ~Proper(manifest) /\ result'[r] = Unavailable
              \/ /\ pc'[r] = "sign" /\ Proper(manifest) /\ manifest \in Manifests
                 /\ loading'.entries = manifest /\ loading'.todo = manifest
                 /\ loading'.artifacts = {}
<1>1. loading.artifacts = {}
    BY DEF ReadManifest, TypeInv, CallInv, Inside, Pc
<1>2. Proper(manifest) => manifest \in Manifests
    BY DEF TypeInv, TypeOK, Proper
<1>3. CASE ~Proper(manifest)
    BY <1>3 DEF ReadManifest, Answer, TypeInv, TypeOK
<1>4. CASE Proper(manifest)
    <2>1. /\ loading' = [loading EXCEPT !.entries = manifest, !.todo = manifest]
          /\ GoTo(r, "sign") /\ pc[r] = "read" /\ snapshot' = snapshot
        BY <1>4 DEF ReadManifest
    <2>2. loading'.entries = manifest /\ loading'.todo = manifest /\ loading'.artifacts = {}
        BY <1>1, <2>1 DEF TypeInv, TypeOK, Loading
    <2> QED BY <1>2, <1>4, <2>1, <2>2 DEF GoTo, TypeInv, TypeOK
<1> QED BY <1>3, <1>4

\* The outcomes of the look at one file of a load.
LEMMA SignEntriesStep ==
    ASSUME TypeInv, NEW r \in Request, SignEntries(r)
    PROVE  /\ pc[r] = "sign" /\ snapshot' = snapshot
           /\ loading'.entries = loading.entries /\ loading'.msig = loading.msig
           /\ loading.artifacts = {} /\ loading'.artifacts = {}
           /\ loading.entries \in Manifests /\ Proper(loading.entries)
           /\ \/ /\ pc'[r] = "load" /\ loading.todo = {} /\ loading'.todo = loading.entries
                 /\ loading'.esig = loading.esig
              \/ /\ pc'[r] = "sign"
                 /\ \E e \in loading.entries :
                       /\ e.name \in Name
                       /\ loading'.todo = loading.todo \ {e}
                       /\ loading'.esig = [loading.esig EXCEPT ![e.name] =
                                              IF file[e.name] = Missing THEN 0 ELSE stamp[e.name]]
<1>1. /\ loading.entries \in Manifests /\ Proper(loading.entries)
      /\ loading.todo \subseteq loading.entries /\ loading.artifacts = {} /\ pc[r] = "sign"
      /\ snapshot' = snapshot
    BY DEF SignEntries, TypeInv, CallInv, Inside, Local, Pc
<1>2. CASE loading.todo = {} /\ loading' = [loading EXCEPT !.todo = loading.entries] /\ GoTo(r, "load")
    BY <1>1, <1>2 DEF GoTo, TypeInv, TypeOK, Loading
<1>3. CASE \E e \in loading.todo :
            /\ loading' = [loading EXCEPT
                  !.todo = @ \ {e},
                  !.esig[e.name] = IF file[e.name] = Missing THEN 0 ELSE stamp[e.name]]
            /\ UNCHANGED <<pc, result>>
    <2>1. PICK e \in loading.todo :
            /\ loading' = [loading EXCEPT
                  !.todo = @ \ {e},
                  !.esig[e.name] = IF file[e.name] = Missing THEN 0 ELSE stamp[e.name]]
            /\ UNCHANGED <<pc, result>>
        BY <1>3
    <2>2. e \in loading.entries /\ e.name \in Name
        BY <1>1, StoreAssumption DEF Proper
    <2>3. /\ loading'.entries = loading.entries /\ loading'.msig = loading.msig
          /\ loading'.artifacts = loading.artifacts /\ loading'.todo = loading.todo \ {e}
          /\ loading'.esig = [loading.esig EXCEPT ![e.name] =
                                IF file[e.name] = Missing THEN 0 ELSE stamp[e.name]]
        <3> DEFINE v == IF file[e.name] = Missing THEN 0 ELSE stamp[e.name]
        <3>1. loading' = [loading EXCEPT !.todo = loading.todo \ {e},
                                         !.esig = [loading.esig EXCEPT ![e.name] = v]]
            BY <2>1 DEF TypeInv, TypeOK, Loading
        <3> HIDE DEF v
        <3>2. /\ loading'.entries = loading.entries /\ loading'.msig = loading.msig
              /\ loading'.artifacts = loading.artifacts /\ loading'.todo = loading.todo \ {e}
              /\ loading'.esig = [loading.esig EXCEPT ![e.name] = v]
            BY <3>1 DEF TypeInv, TypeOK, Loading
        <3> QED BY <3>2 DEF v
    <2> QED BY <1>1, <2>1, <2>2, <2>3
<1> QED BY <1>2, <1>3 DEF SignEntries

\* The outcomes of the read of one file of a load.
LEMMA LoadEntriesStep ==
    ASSUME TypeInv, NEW r \in Request, LoadEntries(r)
    PROVE  /\ pc[r] = "load" /\ snapshot' = snapshot
           /\ loading'.entries = loading.entries /\ loading'.msig = loading.msig
           /\ loading'.esig = loading.esig
           /\ loading.entries \in Manifests /\ Proper(loading.entries)
           /\ \/ /\ pc'[r] = "store" /\ loading.todo = {} /\ loading' = loading
              \/ /\ pc'[r] = "load"
                 /\ \E e \in loading.entries :
                       /\ e \in loading.todo /\ e.name \in Name
                       /\ loading'.todo = loading.todo \ {e}
                       /\ loading'.artifacts = loading.artifacts \cup
                             (IF Valid(file[e.name], e, clock) THEN {file[e.name]} ELSE {})
<1>1. /\ loading.entries \in Manifests /\ Proper(loading.entries)
      /\ loading.todo \subseteq loading.entries /\ pc[r] = "load"
      /\ snapshot' = snapshot
    BY DEF LoadEntries, TypeInv, CallInv, Inside, Local, Pc
<1>2. CASE loading.todo = {} /\ UNCHANGED loading /\ GoTo(r, "store")
    BY <1>1, <1>2 DEF GoTo, TypeInv, TypeOK
<1>3. CASE \E e \in loading.todo :
            /\ loading' = [loading EXCEPT
                  !.todo = @ \ {e},
                  !.artifacts = IF Valid(file[e.name], e, clock) THEN @ \cup {file[e.name]} ELSE @]
            /\ UNCHANGED <<pc, result>>
    <2>1. PICK e \in loading.todo :
            /\ loading' = [loading EXCEPT
                  !.todo = @ \ {e},
                  !.artifacts = IF Valid(file[e.name], e, clock) THEN @ \cup {file[e.name]} ELSE @]
            /\ UNCHANGED <<pc, result>>
        BY <1>3
    <2>2. e \in loading.entries /\ e.name \in Name
        BY <1>1, StoreAssumption DEF Proper
    <2>3. /\ loading'.entries = loading.entries /\ loading'.msig = loading.msig
          /\ loading'.esig = loading.esig /\ loading'.todo = loading.todo \ {e}
          /\ loading'.artifacts = IF Valid(file[e.name], e, clock)
                                  THEN loading.artifacts \cup {file[e.name]} ELSE loading.artifacts
        BY <2>1 DEF TypeInv, TypeOK, Loading
    <2> QED BY <1>1, <2>1, <2>2, <2>3
<1> QED BY <1>2, <1>3 DEF LoadEntries

\* The end of a load.
LEMMA StoreStepResult ==
    ASSUME TypeInv, NEW r \in Request, Store(r)
    PROVE  /\ pc[r] = "store" /\ pc'[r] = "out"
           /\ loading.entries \in Manifests /\ Proper(loading.entries) /\ loading.todo = {}
           /\ snapshot' = [msig |-> loading.msig, esig |-> loading.esig, artifacts |-> loading.artifacts]
           /\ result'[r] = Lookup(loading.artifacts, target[r])
BY DEF Store, Answer, TypeInv, TypeOK, CallInv, Local

-----------------------------------------------------------------------------
(* Signatures.                                                             *)

\* An edit gives a signature that nothing was recorded with.
StampInv ==
    /\ \A n \in Name \cup {Root} : 1 <= stamp[n] /\ stamp[n] <= edits
    /\ loading.msig <= edits /\ \A n \in Name : loading.esig[n] <= edits
    /\ snapshot # NoSnapshot =>
          snapshot.msig <= edits /\ \A n \in Name : snapshot.esig[n] <= edits

\* No signature is newer than the last edit.
LEMMA NextStamp ==
    ASSUME TypeInv, TypeInv', StampInv, [Next]_vars
    PROVE  StampInv'
<1> USE DEF TypeInv
<1>0. /\ edits \in Nat /\ edits' \in Nat /\ Idle.msig = 0 /\ \A n \in Name : Idle.esig[n] = 0
      /\ \A n \in Name \cup {Root} : stamp[n] \in Nat
    BY DEF TypeOK, Idle
<1>1. ASSUME NEW r \in Request, RequestStep(r) PROVE StampInv'
    BY <1>1, RequestFrame DEF StampInv, storeVars, cacheVars
<1>2. ASSUME NEW r \in Request, Acquire(r) \/ CallStep(r) PROVE StampInv'
    <2>1. UNCHANGED <<stamp, edits>>
        BY <1>2, CallFrame DEF storeVars
    <2>2. CASE Acquire(r)
        BY <2>1, <2>2 DEF Acquire, StampInv
    <2>3. CASE CheckManifest(r) \/ CheckEntries(r)
        <3>1. snapshot' = snapshot
            BY <2>3 DEF CheckManifest, CheckEntries
        <3>2. loading' = Idle \/ (loading'.msig = loading.msig /\ loading'.esig = loading.esig)
            BY <2>3 DEF CheckManifest, CheckEntries, Answer, TypeOK, Loading
        <3> QED BY <1>0, <2>1, <3>1, <3>2 DEF StampInv
    <2>4. CASE StatManifest(r) \/ ReadManifest(r)
        <3>1. snapshot' = snapshot
            BY <2>4 DEF StatManifest, ReadManifest
        <3>2. \/ loading' = Idle
              \/ loading'.msig \in {loading.msig, stamp[Root]} /\ loading'.esig = loading.esig
            <4>1. CASE StatManifest(r)
                BY <4>1 DEF StatManifest, Answer, TypeOK, Loading
            <4>2. CASE ReadManifest(r)
                <5>1. \/ loading' = Idle
                      \/ loading' = [loading EXCEPT !.entries = manifest, !.todo = manifest]
                    BY <4>2 DEF ReadManifest, Answer
                <5> QED BY <5>1 DEF TypeOK, Loading
            <4> QED BY <2>4, <4>1, <4>2
        <3> QED BY <1>0, <2>1, <3>1, <3>2 DEF StampInv
    <2>5. CASE SignEntries(r)
        <3>1. loading.esig \in [Name -> Nat]
            BY DEF TypeOK, Loading
        <3>2. /\ loading'.msig = loading.msig /\ snapshot' = snapshot
              /\ \/ loading'.esig = loading.esig
                 \/ \E name \in Name : loading'.esig = [loading.esig EXCEPT ![name] =
                          IF file[name] = Missing THEN 0 ELSE stamp[name]]
            BY <2>5, SignEntriesStep
        <3>3. \A n \in Name : loading'.esig[n] <= edits
            <4>1. CASE loading'.esig = loading.esig
                BY <4>1 DEF StampInv
            <4>2. ASSUME NEW name \in Name,
                         loading'.esig = [loading.esig EXCEPT ![name] =
                             IF file[name] = Missing THEN 0 ELSE stamp[name]]
                  PROVE  \A n \in Name : loading'.esig[n] <= edits
                <5> DEFINE v == IF file[name] = Missing THEN 0 ELSE stamp[name]
                <5>1. v <= edits
                    BY <1>0 DEF StampInv
                <5> HIDE DEF v
                <5>2. loading'.esig = [loading.esig EXCEPT ![name] = v]
                    BY <4>2 DEF v
                <5> QED BY <3>1, <5>1, <5>2 DEF StampInv
            <4> QED BY <3>2, <4>1, <4>2
        <3> QED BY <2>1, <3>2, <3>3 DEF StampInv
    <2>6. CASE LoadEntries(r)
        BY <2>1, <2>6, LoadEntriesStep DEF StampInv
    <2>7. CASE Store(r)
        <3>1. loading' = Idle
            BY <2>7 DEF Store, Answer
        <3>2. snapshot'.msig = loading.msig /\ snapshot'.esig = loading.esig
            BY <2>7, StoreStepResult
        <3> QED BY <1>0, <2>1, <3>1, <3>2 DEF StampInv
    <2> QED BY <1>2, <2>2, <2>3, <2>4, <2>5, <2>6, <2>7 DEF CallStep
<1>3. CASE StoreStep
    <2>1. UNCHANGED cacheVars /\ edits <= edits'
        BY <1>3, StoreFrame
    <2>2. \A n \in Name \cup {Root} : 1 <= stamp'[n] /\ stamp'[n] <= edits'
        BY <1>0, <1>3, ExportsAreFiles DEF StoreStep, ExportManifest, ExportFile, Edit, Tick, StampInv, TypeOK
    <2>3. /\ loading.msig \in Nat /\ \A n \in Name : loading.esig[n] \in Nat
          /\ snapshot # NoSnapshot => snapshot.msig \in Nat /\ \A n \in Name : snapshot.esig[n] \in Nat
        BY DEF TypeOK, Loading, Snapshot
    <2> QED BY <1>0, <2>1, <2>2, <2>3 DEF StampInv, cacheVars
<1>4. CASE UNCHANGED vars
    BY <1>4 DEF StampInv, vars, storeVars, cacheVars
<1> QED BY <1>1, <1>2, <1>3, <1>4, Steps

-----------------------------------------------------------------------------
(* What a snapshot records.                                                *)

\* The exporter's order: a manifest in force lists no file that is missing.
NamedInv == \A e \in Lines(manifest) : e.name \in Name => file[e.name] # Missing

Meets(c, e) ==
    /\ c \in Content /\ c.id = e.id /\ c.type = e.type /\ c.hash = e.hash
    /\ c.sound /\ c.status \in Serveable(c.type)

\* What the record s of manifest m says of the store, as long as its signatures are the
\* store's: m is still in force, each of its artifacts is still in its file, and the
\* files of the lines in done hold no other valid one.
Recorded(s, m, done, man, st, fl, now) ==
    /\ s.msig = st[Root] => m = man
    /\ \A c \in s.artifacts : \E e \in m :
          Meets(c, e) /\ (s.esig[e.name] = st[e.name] => fl[e.name] = c)
    /\ \A e \in done :
          s.esig[e.name] = st[e.name] /\ Valid(fl[e.name], e, now) => fl[e.name] \in s.artifacts

\* A file without a signature is one that a later manifest does not list.
Signed(s, done, st) == \A e \in done : s.esig[e.name] = 0 => s.msig # st[Root]

RecordOf(s, m, done, signed) ==
    Recorded(s, m, done, manifest, stamp, file, clock) /\ Signed(s, signed, stamp)

RecordInv ==
    /\ snapshot # NoSnapshot =>
          \E m \in Manifests : Proper(m) /\ RecordOf(snapshot, m, m, m)
    /\ \A r \in Request : pc[r] \in Local =>
          RecordOf(loading, loading.entries,
                   IF pc[r] = "sign" THEN {} ELSE loading.entries \ loading.todo,
                   IF pc[r] = "sign" THEN loading.entries \ loading.todo ELSE loading.entries)

\* An artifact is valid if it meets its line and has not expired.
LEMMA ValidMeets ==
    ASSUME NEW c, NEW e, NEW now
    PROVE  Valid(c, e, now) <=> Meets(c, e) /\ (c.expires = 0 \/ c.expires > now)
BY DEF Valid, Meets

\* The lines of a trusted manifest name files of the store.
LEMMA ProperNames ==
    ASSUME NEW m \in Manifests, Proper(m), NEW e \in m
    PROVE  e.name \in Name /\ e.name # Root
BY StoreAssumption DEF Proper

\* A record survives an edit of the store: the edit gives a signature it does not have.
LEMMA RecordSurvives ==
    ASSUME TypeInv, StampInv, StoreStep,
           NEW s, s.msig \in Nat, s.msig <= edits, s.artifacts \subseteq Content,
           \A n \in Name : s.esig[n] \in Nat /\ s.esig[n] <= edits,
           NEW m \in Manifests, Proper(m), NEW done \in SUBSET m, NEW signed \in SUBSET m,
           Recorded(s, m, done, manifest, stamp, file, clock), Signed(s, signed, stamp)
    PROVE  Recorded(s, m, done, manifest', stamp', file', clock') /\ Signed(s, signed, stamp')
<1>0. edits \in Nat /\ clock \in Nat /\ clock' \in Nat /\ \A c \in Content : c.expires \in Nat
    BY StoreAssumption, NextTypes DEF TypeInv, TypeOK, StoreStep, Tick, ExportManifest, ExportFile
<1>1. \A n \in Name \cup {Root} : stamp'[n] = stamp[n] \/ stamp'[n] > edits
    BY <1>0, ExportsAreFiles DEF StoreStep, ExportManifest, ExportFile, Edit, Tick, TypeInv, TypeOK
<1>2. \A n \in Name : file'[n] = file[n] \/ stamp'[n] > edits
    BY <1>0, ExportsAreFiles DEF StoreStep, ExportManifest, ExportFile, Edit, Tick, TypeInv, TypeOK
<1>3. manifest' = manifest \/ stamp'[Root] > edits
    BY <1>0, ExportsAreFiles DEF StoreStep, ExportManifest, ExportFile, Edit, Tick, TypeInv, TypeOK
<1>4. clock <= clock' /\ \A n \in Name \cup {Root} : stamp[n] \in Nat /\ stamp'[n] \in Nat
    BY <1>0, StoreFrame, NextTypes DEF TypeInv, TypeOK, StoreStep, Next
<1>5. \A e \in m : e.name \in Name
    BY ProperNames
<1>6. s.msig = stamp'[Root] => s.msig = stamp[Root] /\ manifest' = manifest
    BY <1>0, <1>1, <1>3, <1>4
<1>7. \A n \in Name : s.esig[n] = stamp'[n] => s.esig[n] = stamp[n] /\ file'[n] = file[n]
    BY <1>0, <1>1, <1>2, <1>4
<1>8. s.msig = stamp'[Root] => m = manifest'
    BY <1>6 DEF Recorded
<1>9. \A c \in s.artifacts : \E e \in m :
          Meets(c, e) /\ (s.esig[e.name] = stamp'[e.name] => file'[e.name] = c)
    BY <1>5, <1>7 DEF Recorded
<1>10. ASSUME NEW e \in done, s.esig[e.name] = stamp'[e.name], Valid(file'[e.name], e, clock')
       PROVE  file'[e.name] \in s.artifacts
    <2>1. file'[e.name] = file[e.name] /\ s.esig[e.name] = stamp[e.name]
        BY <1>5, <1>7, <1>10
    <2>2. Valid(file[e.name], e, clock)
        BY <2>1, <1>0, <1>4, <1>10 DEF Valid
    <2> QED BY <2>1, <2>2 DEF Recorded
<1>11. Signed(s, signed, stamp')
    BY <1>6 DEF Signed
<1> QED BY <1>8, <1>9, <1>10, <1>11 DEF Recorded

\* The exporter keeps its order.
LEMMA NextNamed ==
    ASSUME Orderly, TypeInv, NamedInv, [Next]_vars
    PROVE  NamedInv'
<1>1. CASE UNCHANGED <<manifest, file>>
    BY <1>1 DEF NamedInv, Lines
<1>2. ASSUME NEW m \in Manifests \cup {Torn, Missing}, ExportManifest(m) PROVE NamedInv'
    BY <1>2 DEF NamedInv, ExportManifest
<1>3. ASSUME NEW x \in Exports, ExportFile(x[1], x[2]) PROVE NamedInv'
    <2> DEFINE n == x[1]
               c == x[2]
    <2>1. ExportFile(n, c) /\ n \in Name
        BY <1>3, ExportsAreFiles
    <2> HIDE DEF n, c
    <2> QED BY <2>1 DEF NamedInv, ExportFile, Lines, TypeInv, TypeOK
<1>4. UNCHANGED <<manifest, file>> \/ (\E m \in Manifests \cup {Torn, Missing} : ExportManifest(m))
      \/ \E x \in Exports : ExportFile(x[1], x[2])
    BY Steps, RequestFrame, CallFrame DEF StoreStep, Tick, vars, storeVars
<1> QED BY <1>1, <1>2, <1>3, <1>4

\* A snapshot stays a record of one manifest and of the files it lists.
LEMMA NextRecord ==
    ASSUME TypeInv, TypeInv', StampInv, NamedInv, RecordInv, [Next]_vars
    PROVE  RecordInv'
<1> USE DEF TypeInv
<1>0. /\ \A n \in Name \cup {Root} : stamp[n] \in Nat /\ stamp[n] >= 1
      /\ loading.msig \in Nat /\ loading.esig \in [Name -> Nat] /\ loading.artifacts \subseteq Content
      /\ snapshot # NoSnapshot => /\ snapshot.msig \in Nat /\ snapshot.esig \in [Name -> Nat]
                                  /\ snapshot.artifacts \subseteq Content
    BY DEF TypeOK, Loading, Snapshot, StampInv
<1>1. ASSUME NEW r \in Request, RequestStep(r) PROVE RecordInv'
    <2>1. /\ UNCHANGED <<storeVars, cacheVars>>
          /\ \A q \in Request : pc'[q] \in Local => pc'[q] = pc[q]
        BY <1>1, RequestFrame DEF SameCall, Local
    <2> QED BY <2>1 DEF RecordInv, RecordOf, storeVars, cacheVars
<1>2. ASSUME NEW r \in Request, Acquire(r) \/ CallStep(r) PROVE RecordInv'
    <2>1. /\ UNCHANGED <<manifest, stamp, file, clock>>
          /\ \A q \in Request \ {r} : pc'[q] = pc[q] /\ pc[q] \notin Local
        BY <1>2, CallFrame DEF storeVars, SameCall, Inside, Local, Pc
    <2> DEFINE Snap == snapshot' # NoSnapshot =>
                   \E m \in Manifests : Proper(m) /\ RecordOf(snapshot', m, m, m)
               Load == pc'[r] \in Local =>
                   RecordOf(loading', loading'.entries,
                       IF pc'[r] = "sign" THEN {} ELSE loading'.entries \ loading'.todo,
                       IF pc'[r] = "sign" THEN loading'.entries \ loading'.todo ELSE loading'.entries)
    <2> SUFFICES Snap /\ Load
        BY <2>1 DEF RecordInv, RecordOf
    <2>2. snapshot' = snapshot => Snap
        BY DEF RecordInv
    <2>3. pc[r] \in Local =>
             RecordOf(loading, loading.entries,
                      IF pc[r] = "sign" THEN {} ELSE loading.entries \ loading.todo,
                      IF pc[r] = "sign" THEN loading.entries \ loading.todo ELSE loading.entries)
        BY DEF RecordInv
    <2> HIDE DEF Snap
    <2>4. CASE Acquire(r)
        BY <2>2, <2>4 DEF Acquire, GoTo, Local, TypeOK
    <2>5. CASE CheckManifest(r)
        BY <2>2, <2>5, CheckManifestStep DEF Local
    <2>6. CASE CheckEntries(r)
        BY <2>2, <2>6, CheckEntriesStep DEF Local
    <2>7. CASE StatManifest(r)
        BY <2>2, <2>7, StatManifestStep DEF Local
    <2>8. CASE ReadManifest(r)
        BY <2>2, <2>8, ReadManifestStep DEF Local, RecordOf, Recorded, Signed
    <2>9. CASE SignEntries(r)
        <3>1. /\ pc[r] = "sign" /\ snapshot' = snapshot /\ pc'[r] \in {"sign", "load"}
              /\ loading'.entries = loading.entries /\ loading'.msig = loading.msig
              /\ loading'.artifacts = {} /\ loading.entries \in Manifests /\ Proper(loading.entries)
              /\ pc'[r] = "load" => loading'.todo = loading.entries
            BY <2>9, SignEntriesStep
        <3>2. /\ loading.msig = stamp[Root] => loading.entries = manifest
              /\ Signed(loading, loading.entries \ loading.todo, stamp)
            BY <2>3, <3>1 DEF RecordOf, Recorded, Local
        <3>3. ASSUME NEW e \in loading.entries, e \notin loading'.todo \/ pc'[r] = "load",
                     loading'.esig[e.name] = 0, loading.msig = stamp[Root]
              PROVE  FALSE
            <4>1. e.name \in Name /\ file[e.name] # Missing
                BY <3>1, <3>2, <3>3, ProperNames DEF NamedInv, Lines, Proper
            <4>2. CASE pc'[r] = "load"
                <5>1. loading'.esig = loading.esig /\ loading.todo = {}
                    BY <2>9, <4>2, SignEntriesStep
                <5> QED BY <5>1, <3>2, <3>3 DEF Signed
            <4>3. CASE pc'[r] = "sign"
                <5>1. PICK d \in loading.entries :
                          /\ d.name \in Name /\ loading'.todo = loading.todo \ {d}
                          /\ loading'.esig = [loading.esig EXCEPT ![d.name] =
                                                IF file[d.name] = Missing THEN 0 ELSE stamp[d.name]]
                    BY <2>9, <4>3, SignEntriesStep
                <5>2. CASE e.name = d.name
                    BY <1>0, <4>1, <5>1, <5>2, <3>3
                <5>3. CASE e.name # d.name
                    <6>1. loading.esig[e.name] = 0 /\ e \in loading.entries \ loading.todo
                        BY <1>0, <4>1, <4>3, <5>1, <5>3, <3>3
                    <6> QED BY <6>1, <3>2, <3>3 DEF Signed
                <5> QED BY <5>2, <5>3
            <4> QED BY <4>2, <4>3, <3>1
        <3>4. Load
            BY <3>1, <3>2, <3>3 DEF RecordOf, Recorded, Signed
        <3> QED BY <3>1, <3>4, <2>2
    <2>10. CASE LoadEntries(r)
        <3>1. /\ pc[r] = "load" /\ snapshot' = snapshot /\ pc'[r] \in {"load", "store"}
              /\ loading'.entries = loading.entries /\ loading'.msig = loading.msig
              /\ loading'.esig = loading.esig
            BY <2>10, LoadEntriesStep
        <3>2. CASE pc'[r] = "store"
            <4>1. loading' = loading /\ pc[r] = "load"
                BY <2>10, <3>2, LoadEntriesStep
            <4>2. Load
                BY <2>3, <4>1, <3>2 DEF Local
            <4> QED BY <4>2, <3>1, <2>2
        <3>3. CASE pc'[r] = "load"
            <4>1. PICK e \in loading.entries :
                      /\ e.name \in Name /\ loading'.todo = loading.todo \ {e}
                      /\ loading'.artifacts = loading.artifacts \cup
                             (IF Valid(file[e.name], e, clock) THEN {file[e.name]} ELSE {})
                BY <2>10, <3>3, LoadEntriesStep
            <4>2. RecordOf(loading, loading.entries, loading.entries \ loading.todo, loading.entries)
                BY <2>3, <3>1 DEF Local
            <4>3. \A c \in loading'.artifacts : \E d \in loading.entries :
                      Meets(c, d) /\ (loading.esig[d.name] = stamp[d.name] => file[d.name] = c)
                BY <4>1, <4>2, ValidMeets DEF RecordOf, Recorded
            <4>4. \A d \in loading.entries \ loading'.todo :
                      loading.esig[d.name] = stamp[d.name] /\ Valid(file[d.name], d, clock) =>
                          file[d.name] \in loading'.artifacts
                BY <4>1, <4>2 DEF RecordOf, Recorded
            <4>5. Load
                BY <3>1, <3>3, <4>2, <4>3, <4>4 DEF RecordOf, Recorded, Signed
            <4> QED BY <4>5, <3>1, <2>2
        <3> QED BY <3>1, <3>2, <3>3
    <2>11. CASE Store(r)
        <3>1. /\ pc[r] = "store" /\ pc'[r] = "out"
              /\ loading.entries \in Manifests /\ Proper(loading.entries) /\ loading.todo = {}
              /\ snapshot' = [msig |-> loading.msig, esig |-> loading.esig,
                              artifacts |-> loading.artifacts]
            BY <2>11, StoreStepResult
        <3>2. RecordOf(loading, loading.entries, loading.entries, loading.entries)
            BY <2>3, <3>1 DEF Local
        <3>3. RecordOf(snapshot', loading.entries, loading.entries, loading.entries)
            BY <3>1, <3>2 DEF RecordOf, Recorded, Signed
        <3>4. Snap
            BY <3>1, <3>3 DEF Snap
        <3> QED BY <3>1, <3>4 DEF Local
    <2> QED BY <1>2, <2>4, <2>5, <2>6, <2>7, <2>8, <2>9, <2>10, <2>11 DEF CallStep
<1>3. CASE StoreStep
    <2>1. UNCHANGED <<cacheVars, pc>>
        BY <1>3, StoreFrame
    <2>2. ASSUME snapshot # NoSnapshot
          PROVE  \E m \in Manifests : Proper(m) /\ RecordOf(snapshot, m, m, m)'
        <3>1. PICK m \in Manifests : Proper(m) /\ RecordOf(snapshot, m, m, m)
            BY <2>2 DEF RecordInv
        <3>2. /\ Recorded(snapshot, m, m, manifest', stamp', file', clock')
              /\ Signed(snapshot, m, stamp')
            BY <1>0, <1>3, <2>2, <3>1, RecordSurvives DEF RecordOf, StampInv
        <3> QED BY <2>1, <3>1, <3>2 DEF RecordOf, cacheVars
    <2>3. ASSUME NEW r \in Request, pc[r] \in Local
          PROVE  RecordOf(loading, loading.entries,
                   IF pc[r] = "sign" THEN {} ELSE loading.entries \ loading.todo,
                   IF pc[r] = "sign" THEN loading.entries \ loading.todo ELSE loading.entries)'
        <3> DEFINE done == IF pc[r] = "sign" THEN {} ELSE loading.entries \ loading.todo
                   signed == IF pc[r] = "sign" THEN loading.entries \ loading.todo ELSE loading.entries
        <3>1. loading.entries \in Manifests /\ Proper(loading.entries)
            BY <2>3 DEF CallInv
        <3>2. done \in SUBSET loading.entries /\ signed \in SUBSET loading.entries
            OBVIOUS
        <3>3. RecordOf(loading, loading.entries, done, signed)
            BY <2>3 DEF RecordInv
        <3>4. loading' = loading /\ pc' = pc
            BY <2>1 DEF cacheVars
        <3> HIDE DEF done, signed
        <3>5. /\ Recorded(loading, loading.entries, done, manifest', stamp', file', clock')
              /\ Signed(loading, signed, stamp')
            BY <1>0, <1>3, <3>1, <3>2, <3>3, RecordSurvives DEF RecordOf, StampInv
        <3> QED BY <3>4, <3>5 DEF RecordOf, done, signed
    <2> QED BY <2>1, <2>2, <2>3 DEF RecordInv, cacheVars
<1>4. CASE UNCHANGED vars
    BY <1>4 DEF RecordInv, RecordOf, vars, storeVars, cacheVars
<1> QED BY <1>1, <1>2, <1>3, <1>4, Steps

-----------------------------------------------------------------------------
(* What was published during a call.                                       *)

\* An artifact of the snapshot that is being checked: it was published under a manifest
\* of this call, and once its file has been checked, in that file.
InSnapshot(r, c) ==
    \E m \in listed[r] : Proper(m) /\ \E e \in m :
        /\ Meets(c, e) /\ e.name \in Name /\ snapshot.esig[e.name] # 0
        /\ snapshot.esig[e.name] = stamp[e.name] => file[e.name] = c
        /\ e.name \notin loading.names => <<e.name, c>> \in held[r]

PublishedInv ==
    \A r \in Request :
        /\ pc[r] # "out" => manifest \in listed[r] /\ \A n \in Name : <<n, file[n]>> \in held[r]
        /\ pc[r] \in Local =>
              /\ loading.entries \in listed[r]
              /\ \A c \in loading.artifacts : \E e \in loading.entries :
                    Meets(c, e) /\ <<e.name, c>> \in held[r]
        /\ pc[r] = "entries" => \A c \in snapshot.artifacts : InSnapshot(r, c)

\* What ReturnedWasPublished says of one request's artifact c.
WasPublished(r, c) ==
    \E m \in listed[r] : Proper(m) /\ \E e \in m :
        <<e.name, c>> \in held[r] /\ c.hash = e.hash /\ c.sound

\* What is returned was published: a load reads it in the call, and a check of the snapshot
\* finds the signatures it was recorded with.
LEMMA NextPublished ==
    ASSUME TypeInv, TypeInv', StampInv, RecordInv, PublishedInv, ReturnedWasPublished, [Next]_vars
    PROVE  PublishedInv' /\ ReturnedWasPublished'
<1> USE DEF TypeInv
<1>0. \A r \in Request : (pc[r] = "out" /\ result[r] \in Content) => WasPublished(r, result[r])
    BY DEF ReturnedWasPublished, WasPublished
<1>1. ASSUME NEW r \in Request, RequestStep(r) PROVE PublishedInv' /\ ReturnedWasPublished'
    <2>1. /\ UNCHANGED <<storeVars, cacheVars>> /\ target' = target
          /\ \A q \in Request :
                 /\ pc[q] # "out" => SameCall(q)
                 /\ pc[q] = "out" => pc'[q] \in {"out", "waiting"}
                 /\ q # r => SameCall(q)
        BY <1>1, RequestFrame
    <2>2. pc[r] = "out" => SameCall(r) \/ Begin(r) \/
              (pc'[r] = "out" /\ UNCHANGED <<pc, result, history>>)
        BY <1>1 DEF RequestStep, CheckAvailability, AvailabilityKnown, CallEndpoint, RefuseRequest, Respond
    <2>3. \A q \in Request : pc'[q] # "out" =>
              manifest' \in listed'[q] /\ \A n \in Name : <<n, file'[n]>> \in held'[q]
        BY <2>1, <2>2 DEF PublishedInv, SameCall, Begin, TypeOK, storeVars, history
    <2>4. \A q \in Request : pc'[q] \in Local \cup {"entries"} => SameCall(q)
        BY <2>1 DEF Local
    <2>5. PublishedInv'
        BY <2>1, <2>3, <2>4 DEF PublishedInv, InSnapshot, SameCall, Local, storeVars, cacheVars
    <2>6. \A q \in Request : (pc'[q] = "out" /\ result'[q] \in Content) =>
              pc[q] = "out" /\ result'[q] = result[q] /\ listed'[q] = listed[q] /\ held'[q] = held[q]
        BY <2>1, <2>2 DEF SameCall, Begin, TypeOK, history
    <2>7. ReturnedWasPublished'
        BY <2>6 DEF ReturnedWasPublished
    <2> QED BY <2>5, <2>7
<1>2. ASSUME NEW r \in Request, Acquire(r) \/ CallStep(r) PROVE PublishedInv' /\ ReturnedWasPublished'
    <2>1. /\ UNCHANGED <<manifest, stamp, file, clock, listed, held>>
          /\ \A q \in Request \ {r} : SameCall(q) /\ pc[q] \notin Inside
        BY <1>2, CallFrame DEF storeVars, history
    <2>2. pc[r] # "out"
        BY <1>2 DEF Acquire, CallStep, CheckManifest, CheckEntries, StatManifest, ReadManifest,
               SignEntries, LoadEntries, Store
    <2> SUFFICES
            /\ pc'[r] \in Local =>
                  /\ loading'.entries \in listed[r]
                  /\ \A c \in loading'.artifacts : \E e \in loading'.entries :
                        Meets(c, e) /\ <<e.name, c>> \in held[r]
            /\ pc'[r] = "entries" => \A c \in snapshot'.artifacts : InSnapshot(r, c)'
            /\ pc'[r] = "out" /\ result'[r] \in Content => WasPublished(r, result'[r])
        <3> SUFFICES ASSUME
                /\ pc'[r] \in Local =>
                      /\ loading'.entries \in listed[r]
                      /\ \A c \in loading'.artifacts : \E e \in loading'.entries :
                            Meets(c, e) /\ <<e.name, c>> \in held[r]
                /\ pc'[r] = "entries" => \A c \in snapshot'.artifacts : InSnapshot(r, c)'
                /\ pc'[r] = "out" /\ result'[r] \in Content => WasPublished(r, result'[r])
            PROVE PublishedInv' /\ ReturnedWasPublished'
            OBVIOUS
        <3>1. \A q \in Request \ {r} : pc'[q] \notin Local \cup {"entries"}
            BY <2>1 DEF SameCall, Inside, Local, Pc
        <3>2. PublishedInv'
            BY <2>1, <2>2, <3>1 DEF PublishedInv, SameCall
        <3>3. ReturnedWasPublished'
            BY <1>0, <2>1 DEF ReturnedWasPublished, WasPublished, SameCall
        <3> QED BY <3>2, <3>3
    <2>3. Unavailable \notin Content /\ Absent \notin Content
        BY StoreAssumption
    <2>4. CASE Acquire(r)
        BY <2>4 DEF Acquire, GoTo, Local, TypeOK
    <2>5. CASE CheckManifest(r)
        <3>1. ASSUME pc'[r] = "entries", NEW c \in snapshot.artifacts PROVE InSnapshot(r, c)'
            <4>1. /\ stamp[Root] = snapshot.msig /\ snapshot' = snapshot /\ snapshot # NoSnapshot
                  /\ loading'.names = {n \in Name : snapshot.esig[n] # 0}
                BY <2>5, <3>1, CheckManifestStep
            <4>2. PICK m \in Manifests : Proper(m) /\ RecordOf(snapshot, m, m, m)
                BY <4>1 DEF RecordInv
            <4>3. m = manifest /\ m \in listed[r]
                BY <2>2, <4>1, <4>2 DEF RecordOf, Recorded, PublishedInv
            <4>4. PICK e \in m : Meets(c, e) /\ (snapshot.esig[e.name] = stamp[e.name] => file[e.name] = c)
                BY <3>1, <4>2 DEF RecordOf, Recorded
            <4>5. e.name \in Name /\ snapshot.esig[e.name] # 0
                BY <4>1, <4>2, <4>4, ProperNames DEF RecordOf, Signed
            <4> QED BY <2>1, <4>1, <4>2, <4>3, <4>4, <4>5 DEF InSnapshot
        <3> QED BY <2>3, <2>5, <3>1, CheckManifestStep DEF Local
    <2>6. CASE CheckEntries(r)
        <3>1. pc[r] = "entries" /\ snapshot # NoSnapshot /\ snapshot' = snapshot
            BY <2>6, CheckEntriesStep
        <3>2. \A c \in snapshot.artifacts : InSnapshot(r, c)
            BY <3>1 DEF PublishedInv
        <3>3. CASE pc'[r] = "out"
            <4>1. /\ loading.names = {} /\ result'[r] = Lookup(snapshot.artifacts, target[r])
                BY <2>6, <3>3, CheckEntriesStep
            <4>2. snapshot.artifacts \subseteq Content
                BY <3>1 DEF TypeOK, Snapshot
            <4>3. result'[r] \in Content => result'[r] \in snapshot.artifacts
                BY <2>3, <4>1, <4>2, LookupFinds
            <4>4. \A c \in snapshot.artifacts : WasPublished(r, c)
                BY <3>2, <4>1 DEF InSnapshot, WasPublished, Meets
            <4> QED BY <3>3, <4>3, <4>4 DEF Local
        <3>4. CASE pc'[r] = "entries"
            <4>1. PICK n \in loading.names : Unchanged(n) /\ loading'.names = loading.names \ {n}
                BY <2>6, <3>4, CheckEntriesStep
            <4>2. /\ snapshot.esig[n] = stamp[n]
                  /\ \A k \in Name : <<k, file[k]>> \in held[r]
                BY <2>2, <4>1 DEF Unchanged, PublishedInv
            <4>3. ASSUME NEW c \in snapshot.artifacts PROVE InSnapshot(r, c)'
                <5>1. PICK m \in listed[r] : Proper(m) /\ \E e \in m :
                          /\ Meets(c, e) /\ e.name \in Name /\ snapshot.esig[e.name] # 0
                          /\ snapshot.esig[e.name] = stamp[e.name] => file[e.name] = c
                          /\ e.name \notin loading.names => <<e.name, c>> \in held[r]
                    BY <3>2, <4>3 DEF InSnapshot
                <5>2. PICK e \in m :
                          /\ Meets(c, e) /\ e.name \in Name /\ snapshot.esig[e.name] # 0
                          /\ snapshot.esig[e.name] = stamp[e.name] => file[e.name] = c
                          /\ e.name \notin loading.names => <<e.name, c>> \in held[r]
                    BY <5>1
                <5>3. e.name \notin loading'.names => <<e.name, c>> \in held[r]
                    BY <4>1, <4>2, <5>2
                <5> QED BY <2>1, <3>1, <5>1, <5>2, <5>3 DEF InSnapshot
            <4> QED BY <3>1, <3>4, <4>3 DEF Local
        <3> QED BY <2>6, <3>3, <3>4, CheckEntriesStep DEF Local
    <2>7. CASE StatManifest(r)
        BY <2>3, <2>7, StatManifestStep DEF Local
    <2>8. CASE ReadManifest(r)
        <3>1. manifest \in listed[r]
            BY <2>2 DEF PublishedInv
        <3> QED BY <2>3, <2>8, <3>1, ReadManifestStep DEF Local
    <2>9. CASE SignEntries(r)
        <3>1. /\ pc[r] = "sign" /\ pc'[r] \in {"sign", "load"}
              /\ loading'.entries = loading.entries /\ loading'.artifacts = {}
            BY <2>9, SignEntriesStep
        <3> QED BY <3>1 DEF PublishedInv, Local
    <2>10. CASE LoadEntries(r)
        <3>1. /\ pc[r] = "load" /\ pc'[r] \in {"load", "store"}
              /\ loading'.entries = loading.entries /\ loading.entries \in listed[r]
              /\ \A c \in loading.artifacts : \E e \in loading.entries :
                    Meets(c, e) /\ <<e.name, c>> \in held[r]
            BY <2>10, LoadEntriesStep DEF PublishedInv, Local
        <3>2. CASE loading' = loading
            BY <3>1, <3>2
        <3>3. CASE loading' # loading
            <4>1. PICK e \in loading.entries :
                      /\ e.name \in Name
                      /\ loading'.artifacts = loading.artifacts \cup
                             (IF Valid(file[e.name], e, clock) THEN {file[e.name]} ELSE {})
                BY <2>10, <3>3, LoadEntriesStep
            <4>2. <<e.name, file[e.name]>> \in held[r]
                BY <2>2, <4>1 DEF PublishedInv
            <4>3. \A c \in loading'.artifacts : \E d \in loading.entries :
                      Meets(c, d) /\ <<d.name, c>> \in held[r]
                BY <3>1, <4>1, <4>2, ValidMeets
            <4> QED BY <3>1, <4>3
        <3> QED BY <3>2, <3>3
    <2>11. CASE Store(r)
        <3>1. /\ pc[r] = "store" /\ pc'[r] = "out" /\ Proper(loading.entries)
              /\ result'[r] = Lookup(loading.artifacts, target[r])
            BY <2>11, StoreStepResult
        <3>2. loading.artifacts \subseteq Content
            BY DEF TypeOK, Loading
        <3>3. result'[r] \in Content => result'[r] \in loading.artifacts
            BY <2>3, <3>1, <3>2, LookupFinds
        <3>4. \A c \in loading.artifacts : WasPublished(r, c)
            BY <3>1 DEF PublishedInv, Local, WasPublished, Meets
        <3> QED BY <3>1, <3>3, <3>4 DEF Local
    <2> QED BY <1>2, <2>4, <2>5, <2>6, <2>7, <2>8, <2>9, <2>10, <2>11 DEF CallStep
<1>3. CASE StoreStep
    <2>1. UNCHANGED <<cacheVars, pc, result>>
        BY <1>3, StoreFrame
    <2>2. \A q \in Request : /\ listed[q] \subseteq listed'[q] /\ held[q] \subseteq held'[q]
                             /\ pc[q] = "out" => listed'[q] = listed[q] /\ held'[q] = held[q]
        BY <1>3 DEF StoreStep, ExportManifest, ExportFile, Tick, history
    <2>3. \A q \in Request : pc[q] # "out" =>
              manifest' \in listed'[q] /\ \A n \in Name : <<n, file'[n]>> \in held'[q]
        <3>1. CASE \E m \in Manifests \cup {Torn, Missing} : ExportManifest(m)
            BY <3>1 DEF ExportManifest, PublishedInv
        <3>2. CASE \E x \in Exports : ExportFile(x[1], x[2])
            <4>1. PICK x \in Exports : ExportFile(x[1], x[2])
                BY <3>2
            <4> DEFINE n == x[1]
                       c == x[2]
            <4>2. ExportFile(n, c) /\ n \in Name
                BY <4>1, ExportsAreFiles
            <4> HIDE DEF n, c
            <4>3. \A k \in Name : file'[k] = IF k = n THEN c ELSE file[k]
                BY <4>2 DEF ExportFile, TypeOK
            <4>4. \A q \in Request : pc[q] # "out" => held'[q] = held[q] \cup {<<n, c>>}
                BY <4>2 DEF ExportFile
            <4>5. manifest' = manifest /\ listed' = listed
                BY <4>2 DEF ExportFile
            <4> QED BY <4>3, <4>4, <4>5 DEF PublishedInv
        <3>3. CASE Tick
            BY <3>3 DEF Tick, PublishedInv, history
        <3> QED BY <1>3, <3>1, <3>2, <3>3 DEF StoreStep
    <2>4. \A n \in Name : (stamp'[n] = stamp[n] /\ file'[n] = file[n]) \/ stamp'[n] > edits
        BY <1>3, ExportsAreFiles DEF StoreStep, ExportManifest, ExportFile, Edit, Tick, TypeOK
    <2>5. ASSUME NEW q \in Request, pc[q] = "entries", NEW c \in snapshot.artifacts
          PROVE  InSnapshot(q, c)'
        <3>1. PICK m \in listed[q] : Proper(m) /\ \E e \in m :
                  /\ Meets(c, e) /\ e.name \in Name /\ snapshot.esig[e.name] # 0
                  /\ snapshot.esig[e.name] = stamp[e.name] => file[e.name] = c
                  /\ e.name \notin loading.names => <<e.name, c>> \in held[q]
            BY <2>5 DEF PublishedInv, InSnapshot
        <3>2. PICK e \in m :
                  /\ Meets(c, e) /\ e.name \in Name /\ snapshot.esig[e.name] # 0
                  /\ snapshot.esig[e.name] = stamp[e.name] => file[e.name] = c
                  /\ e.name \notin loading.names => <<e.name, c>> \in held[q]
            BY <3>1
        <3>3. snapshot # NoSnapshot /\ snapshot.esig[e.name] \in Nat /\ snapshot.esig[e.name] <= edits
              /\ edits \in Nat
            BY <2>5, <3>2 DEF CallInv, StampInv, TypeOK, Snapshot
        <3>4. snapshot.esig[e.name] = stamp'[e.name] => file'[e.name] = c
            BY <2>4, <3>2, <3>3
        <3> QED BY <2>1, <2>2, <3>1, <3>2, <3>4 DEF InSnapshot, cacheVars
    <2>6. PublishedInv'
        BY <2>1, <2>2, <2>3, <2>5 DEF PublishedInv, cacheVars
    <2>7. ReturnedWasPublished'
        BY <2>1, <2>2 DEF ReturnedWasPublished
    <2> QED BY <2>6, <2>7
<1>4. CASE UNCHANGED vars
    BY <1>4 DEF PublishedInv, InSnapshot, ReturnedWasPublished, vars, storeVars, cacheVars, history
<1> QED BY <1>1, <1>2, <1>3, <1>4, Steps

\* The parts together, under an exporter that keeps its order.
StoreInv ==
    /\ TypeInv /\ MomentInv /\ StampInv /\ NamedInv /\ RecordInv
    /\ PublishedInv /\ ReturnedWasPublished

\* The initial states satisfy the invariant.
LEMMA InitStore == Orderly /\ Init => StoreInv
<1> SUFFICES ASSUME Orderly, Init PROVE StoreInv
    OBVIOUS
<1>1. TypeInv /\ MomentInv
    BY InitTypes, InitFresh
<1>2. StampInv
    BY DEF Init, StampInv, Idle
<1>3. NamedInv
    <2>1. manifest \in Manifests
        BY DEF Init
    <2> QED BY <2>1, StoreAssumption DEF Init, NamedInv, Lines
<1>4. RecordInv /\ PublishedInv /\ ReturnedWasPublished
    BY StoreAssumption DEF Init, RecordInv, PublishedInv, ReturnedWasPublished, Local
<1> QED BY <1>1, <1>2, <1>3, <1>4 DEF StoreInv

\* Every step keeps the invariant.
LEMMA NextStore == Orderly /\ StoreInv /\ [Next]_vars => StoreInv'
BY NextTypes, NextMoment, NextStamp, NextNamed, NextRecord, NextPublished DEF StoreInv

\* An artifact that is returned was listed, during the call, by a manifest that may be
\* trusted, and was in its file, however the snapshot, the reader and an exporter that
\* keeps its order interleave.
THEOREM ReturnsPublished ==
    ASSUME Orderly PROVE Spec => []ReturnedWasPublished
<1>1. Spec => []StoreInv
    BY InitStore, NextStore, PTL DEF Spec
<1> QED BY <1>1, PTL DEF StoreInv

-----------------------------------------------------------------------------
(* Calls during which the store does not change.                           *)

\* The valid artifacts of the lines in done, as the files are now.
ValidOf(done) == {file[e.name] : e \in {d \in done : Valid(file[d.name], d, clock)}}

QuietInv ==
    \A r \in Request : (pc[r] # "out" /\ Quiet(r, stage[r])) =>
        /\ pc[r] \in Local => loading.entries = manifest
        /\ pc[r] \in {"load", "store"} =>
              loading.artifacts = ValidOf(loading.entries \ loading.todo)
        /\ pc[r] = "entries" =>
              /\ snapshot.msig = stamp[Root] /\ ~Expired(snapshot)
              /\ \A n \in Name : snapshot.esig[n] # 0 /\ n \notin loading.names =>
                    snapshot.esig[n] = stamp[n]

ReturnsStore ==
    \A r \in Request : (Returns(r) /\ Quiet(r, stage[r])) => result'[r] = StoreAnswer(target[r])

\* Under a snapshot whose signatures are all the store's, the artifacts are the store's.
LEMMA CurrentIsExact ==
    ASSUME TypeInv, RecordInv, snapshot # NoSnapshot,
           snapshot.msig = stamp[Root], ~Expired(snapshot),
           \A n \in Name : snapshot.esig[n] # 0 => snapshot.esig[n] = stamp[n]
    PROVE  Proper(manifest) /\ snapshot.artifacts = ValidOf(manifest)
<1>1. PICK m \in Manifests : Proper(m) /\ RecordOf(snapshot, m, m, m)
    BY DEF RecordInv
<1>2. m = manifest
    BY <1>1 DEF RecordOf, Recorded
<1>3. \A e \in m : snapshot.esig[e.name] = stamp[e.name]
    BY <1>1, ProperNames DEF RecordOf, Signed
<1>4. /\ \A c \in snapshot.artifacts : c.expires \in Nat /\ (c.expires = 0 \/ c.expires > clock)
      /\ clock \in Nat
    BY StoreAssumption DEF Expired, TypeInv, TypeOK, Snapshot
<1>5. ASSUME NEW c \in snapshot.artifacts PROVE c \in ValidOf(m)
    <2>1. PICK e \in m : Meets(c, e) /\ (snapshot.esig[e.name] = stamp[e.name] => file[e.name] = c)
        BY <1>1, <1>5 DEF RecordOf, Recorded
    <2>2. file[e.name] = c /\ Valid(file[e.name], e, clock)
        BY <1>3, <1>4, <1>5, <2>1, ValidMeets
    <2> QED BY <2>2 DEF ValidOf
<1>6. ASSUME NEW c \in ValidOf(m) PROVE c \in snapshot.artifacts
    BY <1>1, <1>3, <1>6 DEF ValidOf, RecordOf, Recorded
<1> QED BY <1>1, <1>2, <1>5, <1>6

\* After an edit or a tick no call that has begun is quiet.
LEMMA StoreStepIsLoud ==
    ASSUME TypeInv, TypeInv', MomentInv, StoreStep, NEW r \in Request, NEW s \in {"checking", "serving"}
    PROVE  ~Quiet(r, s)'
<1>1. /\ began[r][s].edits <= edits /\ began[r][s].clock <= clock
      /\ began[r][s].edits \in Nat /\ began[r][s].clock \in Nat
    BY DEF MomentInv, TypeInv, TypeOK, Moment
<1>2. /\ began' = began /\ edits <= edits' /\ clock <= clock'
      /\ edits' = edits => clock < clock'
    BY StoreFrame
<1>3. edits \in Nat /\ clock \in Nat /\ edits' \in Nat /\ clock' \in Nat
    BY DEF TypeInv, TypeOK
<1>4. Quiet(r, s)' => began[r][s].edits = edits' /\ began[r][s].clock = clock'
    BY <1>2 DEF Quiet
<1> QED BY <1>1, <1>2, <1>3, <1>4

\* A load and a check that nothing disturbs end in the store's own answer.
LEMMA NextQuiet ==
    ASSUME TypeInv, TypeInv', MomentInv, RecordInv, QuietInv, [Next]_vars
    PROVE  QuietInv' /\ ReturnsStore
<1> USE DEF TypeInv
<1>1. ASSUME NEW r \in Request, RequestStep(r) PROVE QuietInv' /\ ReturnsStore
    <2>1. /\ UNCHANGED <<storeVars, cacheVars>>
          /\ \A q \in Request : /\ pc[q] # "out" => SameCall(q)
                                /\ pc[q] = "out" => pc'[q] \in {"out", "waiting"}
        BY <1>1, RequestFrame
    <2>2. \A q \in Request : pc[q] # "out" => (Quiet(q, stage[q])' <=> Quiet(q, stage[q]))
        BY <2>1 DEF SameCall, Quiet, storeVars
    <2> QED BY <2>1, <2>2 DEF QuietInv, ReturnsStore, Returns, SameCall, Local, ValidOf, Expired,
                              storeVars, cacheVars
<1>2. ASSUME NEW r \in Request, Acquire(r) \/ CallStep(r) PROVE QuietInv' /\ ReturnsStore
    <2>1. /\ UNCHANGED <<manifest, stamp, file, edits, clock, requestVars, history>>
          /\ \A q \in Request \ {r} : SameCall(q) /\ pc[q] \notin Inside
        BY <1>2, CallFrame DEF storeVars
    <2>2. pc[r] # "out"
        BY <1>2 DEF Acquire, CallStep, CheckManifest, CheckEntries, StatManifest, ReadManifest,
               SignEntries, LoadEntries, Store
    <2>3. Quiet(r, stage[r])' <=> Quiet(r, stage[r])
        BY <2>1 DEF Quiet, requestVars, history
    <2> DEFINE Now == /\ pc'[r] \in Local => loading'.entries = manifest
                      /\ pc'[r] \in {"load", "store"} =>
                            loading'.artifacts = ValidOf(loading'.entries \ loading'.todo)
                      /\ pc'[r] = "entries" =>
                            /\ snapshot'.msig = stamp[Root] /\ ~Expired(snapshot')
                            /\ \A n \in Name : snapshot'.esig[n] # 0 /\ n \notin loading'.names =>
                                  snapshot'.esig[n] = stamp[n]
                      /\ pc'[r] = "out" => result'[r] = StoreAnswer(target[r])
    <2> SUFFICES ASSUME Quiet(r, stage[r]) PROVE Now
        <3> SUFFICES ASSUME Quiet(r, stage[r]) => Now PROVE QuietInv' /\ ReturnsStore
            OBVIOUS
        <3>1. \A q \in Request \ {r} : pc'[q] \notin Inside /\ ~Returns(q)
            BY <2>1 DEF SameCall, Returns
        <3>2. \A s : Expired(s)' <=> Expired(s)
            BY <2>1 DEF Expired
        <3>3. \A S : ValidOf(S)' = ValidOf(S)
            BY <2>1 DEF ValidOf
        <3>4. QuietInv'
            BY <2>1, <2>3, <3>1, <3>2, <3>3 DEF QuietInv, Inside, Local, Pc, Expired, ValidOf
        <3>5. ReturnsStore
            BY <3>1 DEF ReturnsStore, Returns
        <3> QED BY <3>4, <3>5
    <2>4. CASE Acquire(r)
        BY <2>4 DEF Acquire, GoTo, Local, TypeOK
    <2>5. CASE CheckManifest(r)
        <3>1. manifest = Missing => StoreAnswer(target[r]) = Unavailable
            BY DEF StoreAnswer, Proper
        <3> QED BY <2>5, <3>1, CheckManifestStep DEF Local
    <2>6. CASE CheckEntries(r)
        <3>1. /\ pc[r] = "entries" /\ snapshot' = snapshot /\ snapshot # NoSnapshot
              /\ snapshot.msig = stamp[Root] /\ ~Expired(snapshot)
              /\ \A n \in Name : snapshot.esig[n] # 0 /\ n \notin loading.names =>
                    snapshot.esig[n] = stamp[n]
            BY <2>6, CheckEntriesStep DEF QuietInv
        <3>2. CASE pc'[r] = "out"
            <4>1. loading.names = {} /\ result'[r] = Lookup(snapshot.artifacts, target[r])
                BY <2>6, <3>2, CheckEntriesStep
            <4>2. Proper(manifest) /\ snapshot.artifacts = ValidOf(manifest)
                BY <3>1, <4>1, CurrentIsExact
            <4> QED BY <3>2, <4>1, <4>2 DEF StoreAnswer, ValidOf, Local
        <3>3. CASE pc'[r] = "entries"
            <4>1. PICK n \in loading.names : Unchanged(n) /\ loading'.names = loading.names \ {n}
                BY <2>6, <3>3, CheckEntriesStep
            <4> QED BY <3>1, <3>3, <4>1 DEF Unchanged, Local
        <3> QED BY <2>6, <3>2, <3>3, CheckEntriesStep DEF Local
    <2>7. CASE StatManifest(r)
        <3>1. manifest = Missing => StoreAnswer(target[r]) = Unavailable
            BY DEF StoreAnswer, Proper
        <3> QED BY <2>7, <3>1, StatManifestStep DEF Local
    <2>8. CASE ReadManifest(r)
        <3>1. ~Proper(manifest) => StoreAnswer(target[r]) = Unavailable
            BY DEF StoreAnswer
        <3> QED BY <2>8, <3>1, ReadManifestStep DEF Local
    <2>9. CASE SignEntries(r)
        <3>1. /\ pc[r] = "sign" /\ pc'[r] \in {"sign", "load"}
              /\ loading'.entries = loading.entries /\ loading'.artifacts = {}
              /\ pc'[r] = "load" => loading'.todo = loading.entries
            BY <2>9, SignEntriesStep
        <3>2. loading.entries = manifest
            BY <3>1 DEF QuietInv, Local
        <3>3. ValidOf({}) = {}
            BY DEF ValidOf
        <3>4. loading.entries \ loading.entries = {}
            OBVIOUS
        <3> QED BY <3>1, <3>2, <3>3, <3>4
    <2>10. CASE LoadEntries(r)
        <3>1. /\ pc[r] = "load" /\ pc'[r] \in {"load", "store"}
              /\ loading'.entries = loading.entries /\ loading.entries = manifest
              /\ loading.artifacts = ValidOf(loading.entries \ loading.todo)
            BY <2>10, LoadEntriesStep DEF QuietInv, Local
        <3>2. CASE loading' = loading
            BY <3>1, <3>2
        <3>3. CASE loading' # loading
            <4>1. PICK e \in loading.entries :
                      /\ e \in loading.todo
                      /\ loading'.todo = loading.todo \ {e}
                      /\ loading'.artifacts = loading.artifacts \cup
                             (IF Valid(file[e.name], e, clock) THEN {file[e.name]} ELSE {})
                BY <2>10, <3>3, LoadEntriesStep
            <4>2. loading.entries \ loading'.todo = (loading.entries \ loading.todo) \cup {e}
                BY <4>1
            <4>3. \A D : ValidOf(D \cup {e}) = ValidOf(D) \cup
                             (IF Valid(file[e.name], e, clock) THEN {file[e.name]} ELSE {})
                BY DEF ValidOf
            <4> QED BY <3>1, <4>1, <4>2, <4>3
        <3> QED BY <3>2, <3>3
    <2>11. CASE Store(r)
        <3>1. /\ pc[r] = "store" /\ pc'[r] = "out" /\ Proper(loading.entries) /\ loading.todo = {}
              /\ result'[r] = Lookup(loading.artifacts, target[r])
            BY <2>11, StoreStepResult
        <3>2. /\ loading.entries = manifest
              /\ loading.artifacts = ValidOf(loading.entries \ loading.todo)
            BY <3>1, <2>2 DEF QuietInv, Local
        <3>3. loading.entries \ {} = loading.entries
            OBVIOUS
        <3> QED BY <3>1, <3>2, <3>3 DEF StoreAnswer, ValidOf, Local
    <2> QED BY <1>2, <2>4, <2>5, <2>6, <2>7, <2>8, <2>9, <2>10, <2>11 DEF CallStep
<1>3. CASE StoreStep
    <2>1. UNCHANGED <<pc, stage>>
        BY <1>3, StoreFrame DEF requestVars
    <2>2. \A q \in Request : pc[q] # "out" => ~Quiet(q, stage[q])'
        BY <1>3, <2>1, StoreStepIsLoud DEF CallInv, Quiet
    <2> QED BY <2>1, <2>2 DEF QuietInv, ReturnsStore, Returns
<1>4. CASE UNCHANGED vars
    BY <1>4 DEF QuietInv, Quiet, ValidOf, Expired, ReturnsStore, Returns, vars, storeVars,
                cacheVars, requestVars, history
<1> QED BY <1>1, <1>2, <1>3, <1>4, Steps

\* No call has begun at first.
LEMMA InitQuiet == Init => QuietInv
BY DEF Init, QuietInv

\* A store that does not change during a call is answered from as it is, whatever the
\* snapshot holds and whoever shares it, under an exporter that keeps its order.
THEOREM QuietStoreAnswers ==
    ASSUME Orderly PROVE Spec => QuietStoreIsRead
<1>1. StoreInv /\ QuietInv /\ [Next]_vars => (StoreInv /\ QuietInv)'
    BY NextStore, NextQuiet DEF StoreInv
<1>2. StoreInv /\ QuietInv /\ [Next]_vars =>
          [\A r \in Request : (Returns(r) /\ Quiet(r, stage[r])) =>
              result'[r] = StoreAnswer(target[r])]_vars
    BY NextStore, NextQuiet DEF StoreInv, ReturnsStore
<1> QED BY <1>1, <1>2, InitStore, InitQuiet, PTL DEF Spec, QuietStoreIsRead

-----------------------------------------------------------------------------
(* A payer and its two calls.                                              *)

\* A payer's artifact was there when its availability was checked, and if nothing has
\* changed since, it is there now.
PayerInv ==
    \A r \in Request :
        /\ paid[r] => Gated(target[r]) /\ stage[r] \in {"serving", "served", "failed"}
        /\ (/\ stage[r] = "checking" /\ pc[r] = "out" /\ result[r] # NoAnswer
            /\ Quiet(r, "checking")) => result[r] = StoreAnswer(target[r])
        /\ (/\ stage[r] \in {"admitted", "serving"} /\ Gated(target[r])
            /\ Quiet(r, "checking")) => StoreAnswer(target[r]) \in Content
        /\ stage[r] = "serving" /\ Quiet(r, "checking") => Quiet(r, "serving")

\* Between its two calls a payer's artifact stays, unless the store is disturbed.
LEMMA NextPayer ==
    ASSUME TypeInv, TypeInv', MomentInv, PayerInv, ReturnsStore, [Next]_vars
    PROVE  PayerInv'
<1> USE DEF TypeInv
<1>0. \A q \in Request : /\ pc[q] \in Pc /\ stage[q] \in Stage /\ target[q] \in Targets
                         /\ stage[q] \notin {"checking", "serving"} => pc[q] = "out"
    BY DEF TypeOK, CallInv
<1>1. ASSUME NEW r \in Request, RequestStep(r) PROVE PayerInv'
    <2>1. /\ UNCHANGED <<manifest, file, edits, clock>> /\ target' = target
          /\ \A q \in Request : /\ pc[q] # "out" => SameCall(q)
                                /\ q # r => SameCall(q)
        BY <1>1, RequestFrame DEF storeVars
    <2>2. \A q \in Request \ {r} : paid'[q] = paid[q]
        BY <1>1 DEF RequestStep, CheckAvailability, AvailabilityKnown, CallEndpoint, RefuseRequest,
               Respond, TypeOK
    <2>3. \A t : StoreAnswer(t)' = StoreAnswer(t)
        BY <2>1 DEF StoreAnswer
    <2>4. \A q \in Request : began'[q] = began[q] =>
              \A s \in {"checking", "serving"} : Quiet(q, s)' <=> Quiet(q, s)
        BY <2>1 DEF Quiet
    <2> DEFINE Payer(q) ==
          /\ paid'[q] => Gated(target[q]) /\ stage'[q] \in {"serving", "served", "failed"}
          /\ (/\ stage'[q] = "checking" /\ pc'[q] = "out" /\ result'[q] # NoAnswer
              /\ Quiet(q, "checking")') => result'[q] = StoreAnswer(target[q])
          /\ (/\ stage'[q] \in {"admitted", "serving"} /\ Gated(target[q])
              /\ Quiet(q, "checking")') => StoreAnswer(target[q]) \in Content
          /\ stage'[q] = "serving" /\ Quiet(q, "checking")' => Quiet(q, "serving")'
    <2>5. \A q \in Request \ {r} : Payer(q)
        BY <2>1, <2>2, <2>4 DEF PayerInv, SameCall
    <2>6. Payer(r)
        <3>1. CASE CheckAvailability(r)
            <4>1. CASE Gated(target[r])
                <5>1. stage'[r] = "checking" /\ pc'[r] = "waiting" /\ paid'[r] = paid[r] /\ ~paid[r]
                    BY <3>1, <4>1 DEF CheckAvailability, Begin, TypeOK, PayerInv
                <5> QED BY <5>1
            <4>2. CASE ~Gated(target[r])
                <5>1. stage'[r] = "admitted" /\ pc'[r] = pc[r] /\ paid'[r] = paid[r] /\ ~paid[r]
                    BY <3>1, <4>2 DEF CheckAvailability, TypeOK, PayerInv
                <5> QED BY <4>2, <5>1
            <4> QED BY <4>1, <4>2
        <3>2. CASE AvailabilityKnown(r)
            <4>1. /\ stage[r] = "checking" /\ pc[r] = "out" /\ result[r] # NoAnswer
                  /\ stage'[r] \in {"admitted", "refused"} /\ paid'[r] = paid[r] /\ ~paid[r]
                  /\ stage'[r] = "admitted" => result[r] \in Content
                  /\ began' = began
                BY <3>2 DEF AvailabilityKnown, Returned, TypeOK, PayerInv, history
            <4> QED BY <2>4, <4>1 DEF PayerInv
        <3>3. CASE CallEndpoint(r)
            <4>1. /\ stage[r] = "admitted" /\ stage'[r] = "serving" /\ pc'[r] = "waiting"
                  /\ paid'[r] = (target[r].type \in PaidType) /\ target[r].id # Unsafe
                BY <3>3 DEF CallEndpoint, Begin, TypeOK
            <4>2. /\ began'[r]["checking"] = began[r]["checking"]
                  /\ began'[r]["serving"] = [edits |-> edits, clock |-> clock]
                BY <3>3, <4>1 DEF CallEndpoint, Begin, TypeOK
            <4>3. Quiet(r, "checking")' <=> Quiet(r, "checking")
                BY <2>1, <4>2 DEF Quiet
            <4>4. Quiet(r, "serving")'
                BY <2>1, <4>2 DEF Quiet
            <4> QED BY <4>1, <4>3, <4>4 DEF PayerInv, Gated
        <3>4. CASE RefuseRequest(r) \/ Respond(r)
            <4>1. /\ stage'[r] \in {"refused", "served", "failed"} /\ paid'[r] = paid[r]
                  /\ paid[r] => stage'[r] # "refused" /\ Gated(target[r])
                BY <3>4 DEF RefuseRequest, Respond, TypeOK, PayerInv
            <4> QED BY <4>1
        <3> QED BY <1>1, <3>1, <3>2, <3>3, <3>4 DEF RequestStep
    <2> HIDE DEF Payer
    <2>7. \A q \in Request : Payer(q)
        BY <2>5, <2>6
    <2> QED BY <2>1, <2>3, <2>7 DEF Payer, PayerInv, Gated
<1>2. ASSUME NEW r \in Request, Acquire(r) \/ CallStep(r) PROVE PayerInv'
    <2>1. /\ UNCHANGED <<manifest, file, edits, clock, target, stage, paid, began>>
          /\ \A q \in Request \ {r} : SameCall(q)
        BY <1>2, CallFrame DEF storeVars, requestVars, history
    <2>2. /\ \A q \in Request : \A s \in {"checking", "serving"} : Quiet(q, s)' <=> Quiet(q, s)
          /\ \A t : StoreAnswer(t)' = StoreAnswer(t)
        BY <2>1 DEF Quiet, StoreAnswer
    <2>3. pc[r] # "out"
        BY <1>2 DEF Acquire, CallStep, CheckManifest, CheckEntries, StatManifest, ReadManifest,
               SignEntries, LoadEntries, Store
    <2>4. \A q \in Request : (pc'[q] = "out" /\ Quiet(q, "checking") /\ stage[q] = "checking") =>
              \/ pc[q] = "out" /\ result'[q] = result[q]
              \/ result'[q] = StoreAnswer(target[q])
        BY <2>1, <2>3 DEF SameCall, ReturnsStore, Returns
    <2> QED BY <2>1, <2>2, <2>4 DEF PayerInv
<1>3. CASE StoreStep
    <2>1. UNCHANGED <<stage, paid, target>>
        BY <1>3, StoreFrame DEF requestVars
    <2>2. \A q \in Request : ~Quiet(q, "checking")'
        BY <1>3, StoreStepIsLoud
    <2> QED BY <2>1, <2>2 DEF PayerInv
<1>4. CASE UNCHANGED vars
    BY <1>4 DEF PayerInv, Quiet, StoreAnswer, vars, storeVars, requestVars, history
<1> QED BY <1>1, <1>2, <1>3, <1>4, Steps

\* Nobody has paid at first.
LEMMA InitPayer == Init => PayerInv
BY DEF Init, PayerInv

\* A payer is left without an artifact only if the store changed, or the artifact expired,
\* after its availability was checked: the middleware's answer holds for the endpoint.
THEOREM PayersAreServed ==
    ASSUME Orderly PROVE Spec => PaidIsServed
<1>1. StoreInv /\ QuietInv /\ PayerInv /\ [Next]_vars => (StoreInv /\ QuietInv /\ PayerInv)'
    BY NextStore, NextQuiet, NextPayer DEF StoreInv
<1>2. StoreInv /\ QuietInv /\ PayerInv /\ [Next]_vars =>
          [\A r \in Request : (Returns(r) /\ paid[r] /\ result'[r] \notin Content) =>
              ~Quiet(r, "checking")]_vars
    <2> SUFFICES ASSUME StoreInv, QuietInv, PayerInv, [Next]_vars, NEW r \in Request,
                        Returns(r), paid[r], Quiet(r, "checking")
                 PROVE  result'[r] \in Content
        OBVIOUS
    <2>1. ReturnsStore
        BY NextStore, NextQuiet DEF StoreInv
    <2>2. stage[r] = "serving" /\ Gated(target[r])
        BY DEF PayerInv, StoreInv, TypeInv, CallInv, Returns
    <2>3. Quiet(r, stage[r]) /\ StoreAnswer(target[r]) \in Content
        BY <2>2 DEF PayerInv
    <2> QED BY <2>1, <2>3 DEF ReturnsStore
<1> QED BY <1>1, <1>2, InitStore, InitQuiet, InitPayer, PTL DEF Spec, PaidIsServed
=============================================================================
