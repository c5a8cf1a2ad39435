------------------------ MODULE AgentRegistry_proofs ------------------------
(***************************************************************************)
(* Theorems about AgentRegistry, for any requests of any customers, any     *)
(* agents registered before, and any statements that fail.                  *)
(***************************************************************************)
EXTENDS AgentRegistry, TLAPS

\* The steps of the two ensure functions, and those after them.
Ensuring == {"lookup", "touch", "reload", "insert", "created"}
Handling == {"handler", "check", "change", "reread", "usage"}
After == Handling \cup {"gate", "done"}

Identified(c) == request[c] # None /\ request[c].identifier # None

\* What a call has of its own agent, and what it may conclude from it.
EnsureInv(c) ==
    /\ pc[c] = "idle" <=> request[c] = None
    /\ pc[c] \in Ensuring => Identified(c)
    /\ pc[c] \in {"touch", "reload"} => record[c] # None
    /\ record[c] # None => /\ Identified(c)
                           /\ agents[Own(c)] # None /\ agents[Own(c)].id = record[c].id
                           /\ record[c].status \in held[c]
    /\ pc[c] = "created" /\ ~failed[c] => agents[Own(c)] # None
    /\ pc[c] \in After /\ Identified(c) /\ ~failed[c] => record[c] # None
    /\ pc[c] # "done" /\ Identified(c) => StatusOf(Own(c)) \in held[c]

\* What a call does with the agent it manages, and what it answered.
HandleInv(c) ==
    /\ pc[c] \in Handling => request[c].owner \in Customer
    /\ pc[c] \in {"change", "reread"} => request[c].op \in {"disable", "enable"}
    /\ pc[c] \in {"handler", "usage"} => request[c].op \notin {"disable", "enable"}
    /\ pc[c] = "reread" => \E a \in Managed(c) : agents[a].status \in shown[c]
    /\ answer[c] # None => pc[c] = "done"
    /\ Passed(c) /\ Identified(c) /\ ~failed[c] => "active" \in held[c]
    /\ Answer(c) /\ answer[c].status = 403 => "disabled" \in held[c]
    /\ OkAnswer(c) /\ request[c].op \in {"disable", "enable"} =>
          answer[c].row.id = request[c].agent /\ answer[c].row.status \in shown[c]

\* A uuid drawn by a call is the id of that call's agent, once the call has inserted it.
IdInv == \A a \in Agent : agents[a] # None /\ agents[a].id \in Call =>
            /\ pc[agents[a].id] \notin {"idle", "lookup", "insert"}
            /\ a = Own(agents[a].id)

\* A row of the log tells what its call had when it ended.
LogInv == \A l \in log :
    /\ l.call \in Call /\ pc[l.call] = "done"
    /\ l.owner = request[l.call].owner /\ l.identifier = request[l.call].identifier
    /\ l.agent # None => record[l.call] # None /\ l.agent = record[l.call].id
    /\ l.identifier # None /\ ~failed[l.call] => l.agent # None

Inv == /\ TypeOK /\ IdInv /\ LogInv /\ DOMAIN answer = Call
       /\ \A c \in Call : EnsureInv(c) /\ HandleInv(c)

\* The agent of an identified request.
LEMMA OwnIsAnAgent == ASSUME TypeOK, NEW c \in Call, Identified(c) PROVE Own(c) \in Agent
BY DEF TypeOK, Identified, Own, Agent, Asked

\* A request's identifier is one of the agents', or None.
LEMMA IdentifierIsOne ==
    ASSUME NEW q \in Requests
    PROVE  normalize_agent_identifier(q.named, q.details.vendor) \in Identifier \cup {None}
<1>1. q \in Request
    BY RegistryAssumption
<1>2. q.named \in Header \cup {None} /\ q.details.vendor \in Header \cup {None}
    BY <1>1 DEF Request, Detail
<1> QED BY <1>2 DEF normalize_agent_identifier, Identifier

\* The initial states satisfy the invariant.
LEMMA InitInv == Init => Inv
<1> SUFFICES ASSUME Init PROVE Inv
    OBVIOUS
<1>1. /\ agents \in [Agent -> Row \cup {None}]
      /\ \A a, b \in Agent : agents[a] # None /\ agents[b] # None /\ agents[a].id = agents[b].id => a = b
      /\ \A a \in Agent : agents[a] # None => agents[a].id \in Earlier
    BY RegistryAssumption DEF Init
<1>2. TypeOK
    BY <1>1, RegistryAssumption DEF Init, TypeOK, Steps
<1>3. IdInv /\ LogInv
    BY <1>1, RegistryAssumption DEF Init, IdInv, LogInv
<1>4. \A c \in Call : EnsureInv(c) /\ HandleInv(c)
    BY DEF Init, EnsureInv, HandleInv, Ensuring, Handling, After, Identified, Passed, Answer, OkAnswer
<1>5. DOMAIN answer = Call
    BY DEF Init
<1> QED BY <1>2, <1>3, <1>4, <1>5 DEF Inv

\* The rows a step of call c writes: those it refreshes or manages keep their id, the one it
\* inserts is new.
Writes(c, a, row) ==
    /\ Write(a, row) /\ a \in Agent /\ row \in Row
    /\ \/ /\ agents[a] = None /\ a = Own(c) /\ row = NewRow(c)
          /\ Identified(c) /\ pc[c] = "insert" /\ pc'[c] = "created"
       \/ /\ agents[a] # None /\ row.id = agents[a].id
          /\ \/ row.status = agents[a].status /\ pc[c] = "touch"
             \/ /\ pc[c] = "change" /\ pc'[c] = "reread" /\ a \in Managed(c)
                /\ row.status = NewStatus(request[c].op)
                /\ \A d \in Call : d = c \/ (pc[d] = "reread" /\ request[d].agent = request[c].agent)
                       => row.status \in shown'[d]

\* What a step of a call does to the registry: nothing, or one such row.
LEMMA StepWrites ==
    ASSUME Inv, NEW c \in Call, Begin(c) \/ Step(c)
    PROVE  \/ UNCHANGED agents
              /\ (UNCHANGED held \/ (Begin(c) /\ \A d \in Call : pc[d] # "idle" => held'[d] = held[d]))
           \/ \E a \in Agent, row \in Row : Writes(c, a, row)
<1> USE DEF Inv
<1>1. CASE Touch(c)
    <2>1. /\ pc[c] = "touch" /\ Identified(c) /\ Own(c) \in Agent /\ agents[Own(c)] # None
          /\ agents[Own(c)] \in Row
        BY <1>1, OwnIsAnAgent DEF Touch, At, EnsureInv, Ensuring, TypeOK
    <2> DEFINE row == Refreshed(agents[Own(c)], request[c].details)
    <2>2. request[c].details \in Detail
        BY <2>1 DEF Identified, TypeOK, Asked
    <2>3. row \in Row /\ row.id = agents[Own(c)].id /\ row.status = agents[Own(c)].status
        BY <2>1, <2>2 DEF Refreshed, Row
    <2>4. Write(Own(c), row)
        BY <1>1 DEF Touch
    <2> HIDE DEF row
    <2> QED BY <2>1, <2>3, <2>4 DEF Writes
<1>2. CASE Insert(c)
    <2>1. pc[c] = "insert" /\ pc'[c] = "created" /\ Identified(c) /\ Own(c) \in Agent
        BY <1>2, OwnIsAnAgent DEF Insert, At, GoTo, EnsureInv, Ensuring, TypeOK
    <2>2. NewRow(c) \in Row
        <3>1. request[c].details \in Detail
            BY <2>1 DEF Identified, TypeOK, Asked
        <3> QED BY <3>1 DEF NewRow, Row
    <2> QED BY <1>2, <2>1, <2>2 DEF Insert, Writes
<1>3. CASE Change(c)
    <2>1. PICK a \in Managed(c) : Write(a, [agents[a] EXCEPT !.status = NewStatus(request[c].op)])
        BY <1>3 DEF Change
    <2> DEFINE row == [agents[a] EXCEPT !.status = NewStatus(request[c].op)]
    <2>2. a \in Agent /\ agents[a] # None /\ agents[a] \in Row
        BY DEF Managed, OfCustomer, TypeOK
    <2>3. row \in Row /\ row.id = agents[a].id /\ row.status = NewStatus(request[c].op)
        BY <2>2 DEF Row, NewStatus
    <2>4. pc[c] = "change" /\ pc'[c] = "reread"
        BY <1>3 DEF Change, At, GoTo, TypeOK
    <2>5. \A d \in Call : d = c \/ (pc[d] = "reread" /\ request[d].agent = request[c].agent)
              => NewStatus(request[c].op) \in shown'[d]
        BY <1>3 DEF Change
    <2>6. Write(a, row)
        BY <2>1
    <2> HIDE DEF row
    <2> QED BY <2>2, <2>3, <2>4, <2>5, <2>6 DEF Writes
<1>4. CASE Begin(c)
    <2>1. pc[c] = "idle" /\ UNCHANGED agents
        BY <1>4 DEF Begin, At
    <2>2. held' = held \/ \E s : held' = [held EXCEPT ![c] = s]
        BY <1>4 DEF Begin
    <2> QED BY <1>4, <2>1, <2>2 DEF TypeOK
<1>5. CASE UNCHANGED <<agents, held>>
    BY <1>5
<1> QED BY <1>1, <1>2, <1>3, <1>4, <1>5 DEF Step, Lookup, Reload, Created, RegistryFails, Gate,
        list_agents, Check, Reread, ReadUsage, HandlerFails, history

\* No row is ever removed or renamed, and a row that is written is not absent.
LEMMA RowsStay ==
    ASSUME Inv, NEW c \in Call, Begin(c) \/ Step(c)
    PROVE  \A a \in Agent : agents[a] # None => agents'[a] # None /\ agents'[a].id = agents[a].id
<1>1. CASE UNCHANGED agents
    BY <1>1
<1>2. ASSUME NEW a \in Agent, NEW row \in Row, Writes(c, a, row)
      PROVE  \A b \in Agent : agents[b] # None => agents'[b] # None /\ agents'[b].id = agents[b].id
    <2>1. agents' = [agents EXCEPT ![a] = row] /\ row # None
        BY <1>2, RegistryAssumption DEF Writes, Write
    <2>2. agents[a] # None => row.id = agents[a].id
        BY <1>2 DEF Writes
    <2> QED BY <2>1, <2>2 DEF Inv, TypeOK
<1> QED BY <1>1, <1>2, StepWrites

\* A call does not move the others.
LEMMA OthersStay ==
    ASSUME Inv, NEW c \in Call, Begin(c) \/ Step(c), NEW d \in Call, d # c
    PROVE  /\ pc'[d] = pc[d] /\ request'[d] = request[d] /\ record'[d] = record[d]
           /\ answer'[d] = answer[d] /\ failed'[d] = failed[d] /\ shown[d] \subseteq shown'[d]
<1> USE DEF Inv, TypeOK
<1>1. CASE Begin(c)
    <2>1. UNCHANGED <<record, answer, failed, shown>> /\ \E q : request' = [request EXCEPT ![c] = q]
        BY <1>1 DEF Begin
    <2>2. \E step : pc' = [pc EXCEPT ![c] = step]
        BY <1>1 DEF Begin, GoTo
    <2> QED BY <2>1, <2>2
<1>2. CASE Step(c)
    <2>1. UNCHANGED request /\ \E step : pc' = [pc EXCEPT ![c] = step]
        <3>1. UNCHANGED request
            BY <1>2 DEF Step, Lookup, Touch, Reload, Insert, Created, RegistryFails, Gate, list_agents,
                    Check, Change, Reread, ReadUsage, HandlerFails
        <3>2. CASE Lookup(c) \/ Touch(c) \/ Reload(c) \/ Insert(c) \/ Created(c)
            BY <3>1, <3>2 DEF Lookup, Touch, Reload, Insert, Created, GoTo
        <3>3. CASE RegistryFails(c) \/ Change(c)
            BY <3>1, <3>3 DEF RegistryFails, Change, GoTo
        <3>4. ASSUME NEW response, Respond(c, response) PROVE \E step : pc' = [pc EXCEPT ![c] = step]
            BY <3>4 DEF Respond, GoTo
        <3>5. CASE Gate(c)
            BY <3>1, <3>5 DEF Gate, Respond, GoTo
        <3>6. CASE Check(c)
            BY <3>1, <3>6 DEF Check, Respond, GoTo
        <3>7. CASE list_agents(c) \/ Reread(c)
            BY <3>1, <3>4, <3>7 DEF list_agents, Reread
        <3>8. CASE ReadUsage(c) \/ HandlerFails(c)
            BY <3>1, <3>4, <3>8 DEF ReadUsage, HandlerFails
        <3> QED BY <1>2, <3>1, <3>2, <3>3, <3>5, <3>6, <3>7, <3>8 DEF Step
    <2>2. record' = record \/ \E row : record' = [record EXCEPT ![c] = row]
        BY <1>2 DEF Step, Lookup, Touch, Reload, Insert, Created, RegistryFails, Gate, list_agents,
                    Check, Change, Reread, ReadUsage, HandlerFails, Keep
    <2>3. answer' = answer \/ \E response : answer' = [answer EXCEPT ![c] = response]
        BY <1>2 DEF Step, Lookup, Touch, Reload, Insert, Created, RegistryFails, Gate, list_agents,
                    Check, Change, Reread, ReadUsage, HandlerFails, Respond
    <2>4. failed' = failed \/ failed' = [failed EXCEPT ![c] = TRUE]
        BY <1>2 DEF Step, Lookup, Touch, Reload, Insert, Created, RegistryFails, Gate, list_agents,
                    Check, Change, Reread, ReadUsage, HandlerFails, history
    <2>5. shown[d] \subseteq shown'[d]
        <3>1. CASE Change(c)
            BY <3>1 DEF Change
        <3>2. CASE UNCHANGED shown
            BY <3>2
        <3> QED BY <1>2, <3>1, <3>2 DEF Step, Lookup, Touch, Reload, Insert, Created, RegistryFails,
                    Gate, list_agents, Check, Reread, ReadUsage, HandlerFails, history
    <2>6. pc'[d] = pc[d] /\ request'[d] = request[d]
        BY <2>1
    <2>7. record'[d] = record[d]
        BY <2>2
    <2>8. answer'[d] = answer[d]
        BY <2>3
    <2>9. failed'[d] = failed[d]
        BY <2>4
    <2> QED BY <2>5, <2>6, <2>7, <2>8, <2>9
<1> QED BY <1>1, <1>2

\* The statuses an agent has had are kept, and its new one is added, for every call of it that
\* has begun.
LEMMA HeldGrows ==
    ASSUME Inv, NEW c \in Call, Begin(c) \/ Step(c), NEW d \in Call, pc[d] # "idle"
    PROVE  /\ held[d] \subseteq held'[d]
           /\ Identified(d) /\ pc[d] # "done" => (StatusOf(Own(d)))' \in held'[d]
<1>1. Identified(d) => Own(d) \in Agent
    BY OwnIsAnAgent DEF Inv
<1>2. request'[d] = request[d]
    BY OthersStay DEF Begin, At, Step, Lookup, Touch, Reload, Insert, Created, RegistryFails, Gate,
        list_agents, Check, Change, Reread, ReadUsage, HandlerFails
<1>3. Identified(d) /\ pc[d] # "done" => StatusOf(Own(d)) \in held[d]
    BY DEF Inv, EnsureInv
<1>4. CASE UNCHANGED agents /\ held'[d] = held[d]
    BY <1>2, <1>3, <1>4 DEF StatusOf, Own
<1>5. ASSUME NEW a \in Agent, NEW row \in Row, Writes(c, a, row)
      PROVE  /\ held[d] \subseteq held'[d]
             /\ Identified(d) /\ pc[d] # "done" => (StatusOf(Own(d)))' \in held'[d]
    <2>1. agents' = [agents EXCEPT ![a] = row] /\ row # None
        BY <1>5, RegistryAssumption DEF Writes, Write
    <2>2. held'[d] = IF request[d] # None /\ pc[d] # "done" /\ Own(d) = a
                     THEN held[d] \cup {row.status} ELSE held[d]
        BY <1>5 DEF Writes, Write
    <2>3. CASE Own(d) = a
        BY <1>2, <2>1, <2>2, <2>3 DEF StatusOf, Own, Identified, Inv, TypeOK
    <2>4. CASE Own(d) # a
        BY <1>1, <1>2, <1>3, <2>1, <2>2, <2>4 DEF StatusOf, Own, Inv, TypeOK
    <2> QED BY <2>3, <2>4
<1> QED BY <1>4, <1>5, StepWrites

\* A step of a call that has begun goes forward, and asks what it asked.
LEMMA MovesOn ==
    ASSUME Inv, NEW c \in Call, Step(c)
    PROVE  /\ UNCHANGED request /\ pc' \in [Call -> Steps]
           /\ pc[c] \notin {"idle", "done"} /\ pc'[c] \notin {"idle", "lookup"}
           /\ pc'[c] = "insert" => pc[c] = "lookup"
<1> USE DEF Inv, TypeOK, Steps, At, GoTo
<1>1. CASE Lookup(c)
    BY <1>1 DEF Lookup
<1>2. CASE Touch(c) \/ Reload(c) \/ Insert(c) \/ Created(c)
    BY <1>2 DEF Touch, Reload, Insert, Created
<1>3. CASE RegistryFails(c)
    <2>1. AfterFailure(pc[c]) \in {"insert", "created", "gate"} /\ (AfterFailure(pc[c]) = "insert" => pc[c] = "lookup")
        BY <1>3 DEF RegistryFails, AfterFailure
    <2> QED BY <1>3, <2>1 DEF RegistryFails
<1>4. CASE Change(c)
    BY <1>4 DEF Change
<1>5. ASSUME NEW response, Respond(c, response) PROVE pc' = [pc EXCEPT ![c] = "done"]
    BY <1>5 DEF Respond
<1>6. CASE Gate(c)
    <2>1. pc[c] = "gate" /\ UNCHANGED request
        BY <1>6 DEF Gate
    <2>2. \E step \in {"done", "handler", "check"} : pc' = [pc EXCEPT ![c] = step]
        BY <1>6 DEF Gate, Respond
    <2> QED BY <2>1, <2>2
<1>7. CASE Check(c)
    <2>1. pc[c] = "check" /\ UNCHANGED request
        BY <1>7 DEF Check
    <2>2. \E step \in {"done", "change", "usage"} : pc' = [pc EXCEPT ![c] = step]
        BY <1>7 DEF Check, Respond
    <2> QED BY <2>1, <2>2
<1>8. CASE list_agents(c) \/ Reread(c) \/ ReadUsage(c) \/ HandlerFails(c)
    <2>1. pc[c] \in Handling /\ UNCHANGED request
        BY <1>8 DEF list_agents, Reread, ReadUsage, HandlerFails, Handling
    <2>2. CASE list_agents(c) \/ Reread(c)
        BY <1>5, <2>1, <2>2 DEF list_agents, Reread, Handling
    <2>3. CASE ReadUsage(c) \/ HandlerFails(c)
        BY <1>5, <2>1, <2>3 DEF ReadUsage, HandlerFails, Handling
    <2> QED BY <1>8, <2>2, <2>3
<1> QED BY <1>1, <1>2, <1>3, <1>4, <1>6, <1>7, <1>8 DEF Step

\* Every step keeps the types, and agents with ids of their own.
LEMMA NextTypes == ASSUME Inv, NEW c \in Call, Begin(c) \/ Step(c) PROVE TypeOK' /\ IdInv' /\ (DOMAIN answer)' = Call
<1> USE DEF Inv
<1>1. /\ agents' \in [Agent -> Row \cup {None}]
      /\ \A a, b \in Agent : agents'[a] # None /\ agents'[b] # None /\ agents'[a].id = agents'[b].id => a = b
      /\ IdInv'
    <2>a. \A d \in Call : pc[d] \notin {"idle", "lookup", "insert"} =>
              pc'[d] \notin {"idle", "lookup", "insert"} /\ request'[d] = request[d]
        <3>1. ASSUME NEW d \in Call, d # c, pc[d] \notin {"idle", "lookup", "insert"}
              PROVE  pc'[d] = pc[d] /\ request'[d] = request[d]
            BY <3>1, OthersStay
        <3>2. pc[c] # "idle" => Step(c)
            BY DEF Begin, At
        <3> QED BY <3>1, <3>2, MovesOn
    <2>1. CASE UNCHANGED agents
        BY <2>1, <2>a DEF TypeOK, IdInv, Own
    <2>2. ASSUME NEW a \in Agent, NEW row \in Row, Writes(c, a, row), agents[a] # None
          PROVE  /\ agents' \in [Agent -> Row \cup {None}]
                 /\ \A b \in Agent : (agents'[b] # None <=> agents[b] # None) /\ agents'[b].id = agents[b].id
        <3>1. agents' = [agents EXCEPT ![a] = row] /\ row # None /\ row.id = agents[a].id
            BY <2>2, RegistryAssumption DEF Writes, Write
        <3> QED BY <2>2, <3>1 DEF TypeOK
    <2>3. ASSUME NEW a \in Agent, NEW row \in Row, Writes(c, a, row), agents[a] = None
          PROVE  /\ agents' \in [Agent -> Row \cup {None}]
                 /\ \A d, b \in Agent : agents'[d] # None /\ agents'[b] # None /\ agents'[d].id = agents'[b].id => d = b
                 /\ IdInv'
        <3>1. /\ agents' = [agents EXCEPT ![a] = row] /\ a = Own(c) /\ row.id = c
              /\ pc[c] = "insert" /\ pc'[c] = "created"
            BY <2>3 DEF Writes, Write, NewRow
        <3>2. request'[c] = request[c]
            BY <3>1, MovesOn DEF Begin, At
        <3>3. \A b \in Agent : agents[b] # None => agents[b].id # c
            BY <3>1 DEF IdInv
        <3>4. agents' \in [Agent -> Row \cup {None}]
            BY <2>3, <3>1 DEF TypeOK
        <3>5. \A b \in Agent : b # a => agents'[b] = agents[b]
            BY <3>1 DEF TypeOK
        <3>6. agents'[a].id = c
            BY <3>1 DEF TypeOK
        <3>7. IdInv'
            BY <2>a, <3>1, <3>2, <3>5, <3>6 DEF IdInv, Own
        <3>8. \A d, b \in Agent : agents'[d] # None /\ agents'[b] # None /\ agents'[d].id = agents'[b].id => d = b
            BY <3>3, <3>5, <3>6 DEF TypeOK
        <3> QED BY <3>4, <3>7, <3>8
    <2>4. CASE \E a \in Agent, row \in Row : Writes(c, a, row) /\ agents[a] # None
        <3>1. /\ agents' \in [Agent -> Row \cup {None}]
              /\ \A b \in Agent : (agents'[b] # None <=> agents[b] # None) /\ agents'[b].id = agents[b].id
            BY <2>2, <2>4
        <3>2. IdInv'
            BY <2>a, <3>1 DEF IdInv, Own
        <3> QED BY <3>1, <3>2 DEF TypeOK
    <2> QED BY <2>1, <2>3, <2>4, StepWrites
<1>2. CASE Begin(c)
    <2>1. PICK q \in Requests :
              /\ request' = [request EXCEPT ![c] =
                    [owner |-> q.owner, identifier |-> normalize_agent_identifier(q.named, q.details.vendor),
                     details |-> q.details, op |-> q.op, agent |-> q.agent, status |-> q.status,
                     offset |-> q.offset]]
              /\ \E step \in {"gate", "lookup"} : pc' = [pc EXCEPT ![c] = step]
              /\ \/ UNCHANGED held
                 \/ held' = [held EXCEPT ![c] =
                       {StatusOf(<<q.owner, normalize_agent_identifier(q.named, q.details.vendor)>>)}]
                    /\ normalize_agent_identifier(q.named, q.details.vendor) # None
        BY <1>2 DEF Begin, GoTo
    <2> DEFINE identifier == normalize_agent_identifier(q.named, q.details.vendor)
    <2>2. q \in Request /\ identifier \in Identifier \cup {None}
        BY IdentifierIsOne, RegistryAssumption
    <2>3. identifier # None => StatusOf(<<q.owner, identifier>>) \in {"active", "disabled", None}
        <3>1. identifier # None => <<q.owner, identifier>> \in Agent
            BY <2>2 DEF Agent, Request
        <3> QED BY <3>1 DEF StatusOf, TypeOK, Row
    <2> HIDE DEF identifier
    <2>4. [owner |-> q.owner, identifier |-> identifier, details |-> q.details, op |-> q.op,
           agent |-> q.agent, status |-> q.status, offset |-> q.offset] \in Asked
        BY <2>2 DEF Asked, Request
    <2>5. request' \in [Call -> Asked \cup {None}]
        BY <2>1, <2>4 DEF TypeOK, identifier
    <2>6. held' \in [Call -> SUBSET {"active", "disabled", None}]
        BY <2>1, <2>3 DEF TypeOK, identifier
    <2>7. pc' \in [Call -> Steps]
        BY <2>1 DEF TypeOK, Steps
    <2>8. UNCHANGED <<record, answer, failures, failed, shown>>
        BY <1>2 DEF Begin
    <2> QED BY <1>1, <2>5, <2>6, <2>7, <2>8 DEF TypeOK
<1>3. CASE Step(c)
    <2>1. pc' \in [Call -> Steps] /\ request' \in [Call -> Asked \cup {None}]
        BY <1>3, MovesOn DEF TypeOK
    <2>2. record' \in [Call -> Row \cup {None}]
        <3>1. CASE Lookup(c) \/ Reload(c) \/ Created(c)
            <4>1. Identified(c)
                BY <3>1 DEF Lookup, Reload, Created, At, EnsureInv, Ensuring
            <4>2. agents[Own(c)] \in Row \cup {None}
                BY <4>1, OwnIsAnAgent DEF TypeOK
            <4> QED BY <3>1, <4>2 DEF Lookup, Reload, Created, Keep, FoundRow, TypeOK
        <3>2. CASE UNCHANGED record
            BY <3>2 DEF TypeOK
        <3> QED BY <1>3, <3>1, <3>2 DEF Step, Touch, Insert, RegistryFails, Gate, list_agents,
                    Check, Change, Reread, ReadUsage, HandlerFails
    <2>3. answer' = answer \/ \E response : answer' = [answer EXCEPT ![c] = response]
        BY <1>3 DEF Step, Lookup, Touch, Reload, Insert, Created, RegistryFails, Gate, list_agents,
                    Check, Change, Reread, ReadUsage, HandlerFails, Respond
    <2>4. (DOMAIN answer)' = Call
        BY <2>3
    <2>5. failures' \in 0 .. MaxFailures
        <3>1. failures' = failures \/ (failures < MaxFailures /\ failures' = failures + 1)
            BY <1>3 DEF Step, Lookup, Touch, Reload, Insert, Created, RegistryFails, Gate, list_agents,
                    Check, Change, Reread, ReadUsage, HandlerFails
        <3> QED BY <3>1, RegistryAssumption DEF TypeOK
    <2>6. failed' \in [Call -> BOOLEAN]
        <3>1. failed' = failed \/ failed' = [failed EXCEPT ![c] = TRUE]
            BY <1>3 DEF Step, Lookup, Touch, Reload, Insert, Created, RegistryFails, Gate, list_agents,
                    Check, Change, Reread, ReadUsage, HandlerFails, history
        <3> QED BY <3>1 DEF TypeOK
    <2>7. shown' \in [Call -> SUBSET {"active", "disabled"}]
        <3>1. CASE Change(c)
            BY <3>1 DEF Change, NewStatus, TypeOK
        <3>2. CASE UNCHANGED shown
            BY <3>2 DEF TypeOK
        <3> QED BY <1>3, <3>1, <3>2 DEF Step, Lookup, Touch, Reload, Insert, Created, RegistryFails,
                    Gate, list_agents, Check, Reread, ReadUsage, HandlerFails, history
    <2>8. held' \in [Call -> SUBSET {"active", "disabled", None}]
        <3>1. ASSUME NEW a \in Agent, NEW row \in Row, Write(a, row)
              PROVE  held' \in [Call -> SUBSET {"active", "disabled", None}]
            <4>1. row.status \in {"active", "disabled"}
                BY DEF Row
            <4> QED BY <3>1, <4>1 DEF Write, TypeOK
        <3>2. CASE UNCHANGED held
            BY <3>2 DEF TypeOK
        <3>3. CASE \E a \in Agent, row \in Row : Writes(c, a, row)
            BY <3>1, <3>3 DEF Writes
        <3>4. ~Begin(c)
            BY <1>3, MovesOn DEF Begin, At
        <3> QED BY <1>3, <3>2, <3>3, <3>4, StepWrites
    <2> QED BY <1>1, <2>1, <2>2, <2>4, <2>5, <2>6, <2>7, <2>8 DEF TypeOK
<1> QED BY <1>2, <1>3

\* Every step keeps what the calls have of their own agents.
LEMMA NextEnsure ==
    ASSUME Inv, NEW c \in Call, Begin(c) \/ Step(c), NEW d \in Call
    PROVE  EnsureInv(d)'
<1> USE DEF Inv
<1>0. EnsureInv(d)
    OBVIOUS
<1>1. ASSUME pc[d] # "idle"
      PROVE  /\ request'[d] = request[d] /\ Identified(d)' = Identified(d) /\ Own(d)' = Own(d)
             /\ pc'[d] # "idle"
             /\ held[d] \subseteq held'[d]
             /\ Identified(d) /\ agents[Own(d)] # None =>
                   agents'[Own(d)] # None /\ agents'[Own(d)].id = agents[Own(d)].id
             /\ Identified(d) /\ pc[d] # "done" => (StatusOf(Own(d)))' \in held'[d]
    <2>1. request'[d] = request[d] /\ pc'[d] # "idle"
        <3>1. CASE d # c
            BY <1>1, <3>1, OthersStay
        <3>2. CASE d = c
            BY <1>1, <3>2, MovesOn DEF Begin, At
        <3> QED BY <3>1, <3>2
    <2>2. Identified(d)' = Identified(d) /\ Own(d)' = Own(d)
        BY <2>1 DEF Identified, Own
    <2>3. Identified(d) => Own(d) \in Agent
        BY OwnIsAnAgent
    <2> QED BY <1>1, <2>1, <2>2, <2>3, RowsStay, HeldGrows
<1>2. CASE d # c
    <2>1. pc'[d] = pc[d] /\ request'[d] = request[d] /\ record'[d] = record[d] /\ failed'[d] = failed[d]
        BY <1>2, OthersStay
    <2>2. CASE pc[d] = "idle"
        <3>1. ~Identified(d) /\ ~Identified(d)' /\ record[d] = None
            BY <1>0, <2>1, <2>2 DEF EnsureInv, Identified
        <3> QED BY <1>0, <2>1, <2>2, <3>1 DEF EnsureInv, Ensuring, After, Handling
    <2>3. CASE pc[d] # "idle"
        <3>1. record'[d] # None => /\ Identified(d)'
                                   /\ agents'[Own(d)'] # None /\ agents'[Own(d)'].id = record'[d].id
                                   /\ record'[d].status \in held'[d]
            BY <1>0, <1>1, <2>1, <2>3 DEF EnsureInv
        <3>2. pc[d] = "created" /\ ~failed[d] => agents'[Own(d)'] # None
            BY <1>0, <1>1, <2>1, <2>3 DEF EnsureInv, Ensuring
        <3>3. pc[d] # "done" /\ Identified(d)' => (StatusOf(Own(d)))' \in held'[d]
            BY <1>1, <2>3
        <3>4. /\ pc'[d] = "idle" <=> request'[d] = None
              /\ pc'[d] \in Ensuring => Identified(d)'
              /\ pc'[d] \in {"touch", "reload"} => record'[d] # None
              /\ pc'[d] \in After /\ Identified(d)' /\ ~failed'[d] => record'[d] # None
            BY <1>0, <1>1, <2>1, <2>3 DEF EnsureInv
        <3> QED BY <2>1, <3>1, <3>2, <3>3, <3>4 DEF EnsureInv
    <2> QED BY <2>2, <2>3
<1>3. CASE d = c /\ Begin(c)
    <2>1. PICK q \in Requests :
              LET identifier == normalize_agent_identifier(q.named, q.details.vendor) IN
              /\ request' = [request EXCEPT ![c] =
                    [owner |-> q.owner, identifier |-> identifier, details |-> q.details,
                     op |-> q.op, agent |-> q.agent, status |-> q.status, offset |-> q.offset]]
              /\ IF identifier = None
                 THEN pc' = [pc EXCEPT ![c] = "gate"] /\ UNCHANGED held
                 ELSE /\ pc' = [pc EXCEPT ![c] = "lookup"]
                      /\ held' = [held EXCEPT ![c] = {StatusOf(<<q.owner, identifier>>)}]
        BY <1>3 DEF Begin, GoTo
    <2> DEFINE identifier == normalize_agent_identifier(q.named, q.details.vendor)
    <2>2. /\ request'[c].identifier = identifier /\ request'[c].owner = q.owner
          /\ pc'[c] = IF identifier = None THEN "gate" ELSE "lookup"
          /\ identifier # None => held'[c] = {StatusOf(<<q.owner, identifier>>)}
        BY <2>1 DEF TypeOK
    <2>3. request'[c] # None
        <3>1. request' \in [Call -> Asked \cup {None}]
            BY NextTypes DEF TypeOK
        <3>2. q \in Request /\ identifier \in Identifier \cup {None}
            BY IdentifierIsOne, RegistryAssumption
        <3> HIDE DEF identifier
        <3>3. [owner |-> q.owner, identifier |-> identifier, details |-> q.details, op |-> q.op,
               agent |-> q.agent, status |-> q.status, offset |-> q.offset] \in Asked
            BY <3>2 DEF Asked, Request
        <3>4. request'[c] \in Asked
            BY <2>1, <3>3 DEF TypeOK, identifier
        <3> QED BY <3>4, RegistryAssumption
    <2> HIDE DEF identifier
    <2>4. UNCHANGED <<agents, record>> /\ pc[c] = "idle"
        BY <1>3 DEF Begin, At
    <2>5. record'[c] = None
        BY <1>0, <1>3, <2>4 DEF EnsureInv, Identified
    <2>6. (StatusOf(Own(c)))' = StatusOf(<<q.owner, identifier>>)
        BY <2>2, <2>4 DEF StatusOf, Own
    <2>7. Identified(c)' <=> identifier # None
        BY <2>2, <2>3 DEF Identified
    <2> QED BY <1>3, <2>2, <2>3, <2>5, <2>6, <2>7 DEF EnsureInv, Ensuring, After, Handling
<1>4. CASE d = c /\ Step(c)
    <2> DEFINE own == Own(c)
    <2>1. /\ pc[c] \notin {"idle", "done"} /\ pc'[c] # "idle" /\ request'[c] = request[c]
          /\ Identified(c)' = Identified(c) /\ Own(c)' = own
          /\ held[c] \subseteq held'[c]
          /\ Identified(c) /\ agents[own] # None => agents'[own] # None /\ agents'[own].id = agents[own].id
          /\ Identified(c) => (StatusOf(Own(c)))' \in held'[c]
        BY <1>1, <1>4, MovesOn
    <2>2. /\ pc'[c] = "idle" <=> request'[c] = None
          /\ pc'[c] # "done" /\ Identified(c)' => (StatusOf(Own(c)))' \in held'[c]
        BY <1>0, <1>4, <2>1 DEF EnsureInv
    <2>3. CASE Lookup(c) \/ Reload(c) \/ Created(c)
        <3>1. /\ record'[c] = agents[own] /\ UNCHANGED <<agents, held, failed>>
              /\ pc[c] \in {"lookup", "reload", "created"}
              /\ pc'[c] \in {"touch", "insert", "gate"}
              /\ pc[c] = "lookup" <=> pc'[c] # "gate"
              /\ pc'[c] = "touch" => agents[own] # None
            BY <2>3 DEF Lookup, Reload, Created, At, GoTo, Keep, FoundRow, history, TypeOK
        <3>2. Identified(c) /\ (StatusOf(own) \in held[c])
            BY <1>0, <1>4, <2>1, <3>1 DEF EnsureInv, Ensuring
        <3>3. pc'[c] = "gate" /\ ~failed[c] => agents[own] # None
            BY <1>0, <1>4, <2>1, <3>1 DEF EnsureInv
        <3> QED BY <1>4, <2>1, <2>2, <3>1, <3>2, <3>3 DEF EnsureInv, Ensuring, After, Handling, StatusOf
    <2>4. CASE Touch(c) \/ Insert(c)
        <3>1. /\ UNCHANGED <<record, failed>> /\ pc[c] \in {"touch", "insert"}
              /\ pc'[c] = IF pc[c] = "touch" THEN "reload" ELSE "created"
            BY <2>4 DEF Touch, Insert, At, GoTo, TypeOK
        <3>2. Identified(c) /\ own \in Agent
            BY <1>0, <1>4, <3>1, OwnIsAnAgent DEF EnsureInv, Ensuring
        <3>3. pc'[c] = "created" => agents'[own] # None
            <4>1. CASE Touch(c)
                BY <3>1, <4>1 DEF Touch, At
            <4>2. CASE Insert(c) /\ agents[own] = None
                <5>1. agents'[own] = NewRow(c)
                    BY <3>2, <4>2 DEF Insert, Write, TypeOK
                <5>2. NewRow(c) \in Row
                    <6>1. request[c].details \in Detail
                        BY <3>2 DEF Identified, TypeOK, Asked
                    <6> QED BY <6>1 DEF NewRow, Row
                <5> QED BY <5>1, <5>2, RegistryAssumption
            <4>3. CASE Insert(c) /\ agents[own] # None
                BY <4>3 DEF Insert
            <4> QED BY <2>4, <4>1, <4>2, <4>3
        <3> QED BY <1>0, <1>4, <2>1, <2>2, <3>1, <3>2, <3>3 DEF EnsureInv, Ensuring, After, Handling
    <2>5. CASE RegistryFails(c)
        <3>1. /\ UNCHANGED <<record>> /\ failed'[c] /\ pc[c] \in Ensuring
              /\ pc'[c] \in {"insert", "created", "gate"}
            BY <2>5 DEF RegistryFails, AfterFailure, Ensuring, GoTo, TypeOK
        <3>2. Identified(c)
            BY <1>0, <1>4, <3>1 DEF EnsureInv
        <3> QED BY <1>0, <1>4, <2>1, <2>2, <3>1, <3>2 DEF EnsureInv, Ensuring, After, Handling
    <2>6. CASE pc[c] \in After /\ pc'[c] \in After /\ UNCHANGED <<record, failed>>
        BY <1>0, <1>4, <2>1, <2>2, <2>6 DEF EnsureInv, Ensuring, After, Handling
    <2>7. CASE \E response : pc[c] \in After /\ Respond(c, response) /\ UNCHANGED <<record, failed>>
        BY <2>6, <2>7 DEF Respond, GoTo, After, TypeOK
    <2>8. CASE Gate(c)
        BY <2>6, <2>7, <2>8 DEF Gate, At, GoTo, After, Handling, history, TypeOK
    <2>9. CASE Check(c)
        BY <2>6, <2>7, <2>9 DEF Check, At, GoTo, After, Handling, history, TypeOK
    <2>10. CASE Change(c)
        BY <2>6, <2>10 DEF Change, At, GoTo, After, Handling, TypeOK
    <2>11. CASE list_agents(c) \/ Reread(c)
        BY <2>7, <2>11 DEF list_agents, Reread, At, After, Handling, history
    <2>12. CASE ReadUsage(c)
        BY <2>7, <2>12 DEF ReadUsage, At, After, Handling, history
    <2>13. CASE HandlerFails(c)
        BY <2>7, <2>13 DEF HandlerFails, After, Handling, history
    <2> QED BY <1>4, <2>3, <2>4, <2>5, <2>8, <2>9, <2>10, <2>11, <2>12, <2>13 DEF Step
<1> QED BY <1>2, <1>3, <1>4

\* Every step keeps what the calls do with the agents they manage, and what they answered.
LEMMA NextHandle ==
    ASSUME Inv, NEW c \in Call, Begin(c) \/ Step(c), NEW d \in Call
    PROVE  HandleInv(d)'
<1> USE DEF Inv
<1>0. HandleInv(d) /\ EnsureInv(d)
    OBVIOUS
<1>1. pc[d] # "idle" => held[d] \subseteq held'[d]
    BY HeldGrows
<1>2. ASSUME d # c, pc[d] = "reread"
      PROVE  \E a \in Managed(d)' : agents'[a].status \in shown'[d]
    <2>1. request'[d] = request[d] /\ shown[d] \subseteq shown'[d]
        BY <1>2, OthersStay
    <2>2. PICK a \in Managed(d) : agents[a].status \in shown[d]
        BY <1>0, <1>2 DEF HandleInv
    <2>3. a \in Agent /\ agents[a] # None /\ a[1] = request[d].owner /\ agents[a].id = request[d].agent
        BY DEF Managed, OfCustomer
    <2>4. agents'[a] # None /\ agents'[a].id = agents[a].id
        BY <2>3, RowsStay
    <2>5. a \in Managed(d)'
        BY <2>1, <2>3, <2>4 DEF Managed, OfCustomer
    <2>6. agents'[a].status \in shown'[d]
        <3>1. CASE UNCHANGED agents
            BY <2>1, <2>2, <3>1
        <3>2. ASSUME NEW b \in Agent, NEW row \in Row, Writes(c, b, row) PROVE agents'[a].status \in shown'[d]
            <4>1. agents' = [agents EXCEPT ![b] = row]
                BY <3>2 DEF Writes, Write
            <4>2. CASE a # b
                BY <2>1, <2>2, <2>3, <4>1, <4>2 DEF TypeOK
            <4>3. CASE a = b /\ row.status = agents[a].status
                BY <2>1, <2>2, <2>3, <4>1, <4>3 DEF TypeOK
            <4>4. CASE a = b /\ row.status # agents[a].status
                <5>1. /\ a \in Managed(c)
                      /\ \A e \in Call : e = c \/ (pc[e] = "reread" /\ request[e].agent = request[c].agent)
                             => row.status \in shown'[e]
                    BY <2>3, <3>2, <4>4 DEF Writes
                <5>2. request[d].agent = request[c].agent
                    BY <2>3, <5>1 DEF Managed
                <5>3. row.status \in shown'[d]
                    BY <1>2, <5>1, <5>2
                <5> QED BY <2>3, <4>1, <4>4, <5>3 DEF TypeOK
            <4> QED BY <4>2, <4>3, <4>4
        <3> QED BY <3>1, <3>2, StepWrites
    <2> QED BY <2>5, <2>6
<1>3. CASE d # c
    <2>1. /\ pc'[d] = pc[d] /\ request'[d] = request[d] /\ record'[d] = record[d]
          /\ failed'[d] = failed[d] /\ answer'[d] = answer[d] /\ shown[d] \subseteq shown'[d]
        BY <1>3, OthersStay
    <2>2. Answer(d)' = Answer(d) /\ OkAnswer(d)' = OkAnswer(d) /\ Identified(d)' = Identified(d)
          /\ Passed(d)' = Passed(d)
        BY <2>1 DEF Answer, OkAnswer, Identified, Passed
    <2>3. pc[d] = "idle" => ~Answer(d) /\ ~Passed(d)
        BY <1>0 DEF HandleInv, Answer, Passed
    <2>4. /\ Passed(d)' /\ Identified(d)' /\ ~failed'[d] => "active" \in held'[d]
          /\ Answer(d)' /\ answer'[d].status = 403 => "disabled" \in held'[d]
        BY <1>0, <1>1, <2>1, <2>2, <2>3 DEF HandleInv
    <2>5. OkAnswer(d)' /\ request'[d].op \in {"disable", "enable"} =>
              answer'[d].row.id = request'[d].agent /\ answer'[d].row.status \in shown'[d]
        BY <1>0, <2>1, <2>2 DEF HandleInv
    <2>6. pc'[d] = "reread" => \E a \in Managed(d)' : agents'[a].status \in shown'[d]
        BY <1>2, <1>3, <2>1
    <2> QED BY <1>0, <2>1, <2>4, <2>5, <2>6 DEF HandleInv
<1>4. CASE d = c /\ Begin(c)
    <2>1. pc[c] = "idle" /\ pc'[c] \in {"gate", "lookup"} /\ UNCHANGED answer
        BY <1>4 DEF Begin, At, GoTo, TypeOK
    <2>2. answer'[c] = None
        BY <1>0, <1>4, <2>1 DEF HandleInv
    <2> QED BY <1>4, <2>1, <2>2 DEF HandleInv, Handling, Passed, Answer, OkAnswer
<1>5. CASE d = c /\ Step(c)
    <2>1. UNCHANGED request /\ pc[c] \notin {"idle", "done"} /\ held[c] \subseteq held'[c]
        BY <1>1, <1>5, MovesOn
    <2>2. answer[c] = None /\ Identified(c)' = Identified(c)
        BY <1>0, <1>5, <2>1 DEF HandleInv, Identified
    <2>3. CASE pc'[c] \in Ensuring \cup {"gate"} /\ UNCHANGED answer
        BY <1>5, <2>2, <2>3 DEF HandleInv, Ensuring, Handling, Passed, Answer, OkAnswer
    <2>a. pc[c] \in Handling /\ Identified(c) /\ ~failed[c] => "active" \in held'[c]
        BY <1>0, <1>5, <2>1 DEF HandleInv, Passed, Handling
    <2>b. request[c] # None /\ request[c].owner \in Owner
        BY <1>0, <1>5, <2>1 DEF EnsureInv, TypeOK, Asked
    <2>4. CASE Gate(c)
        <3>1. pc[c] = "gate" /\ UNCHANGED <<failed, held>>
            BY <2>4 DEF Gate, At, history
        <3>2. CASE Disabled(c)
            <4>1. record[c] # None /\ record[c].status = "disabled" /\ record[c].status \in held[c]
                BY <1>0, <1>5, <3>2 DEF Disabled, EnsureInv
            <4>2. answer'[c] = Error(403) /\ pc'[c] = "done"
                BY <2>4, <3>2 DEF Gate, Respond, GoTo, TypeOK
            <4>3. answer'[c].status = 403 /\ ~answer'[c].ok
                BY <4>2 DEF Error
            <4> QED BY <1>5, <3>1, <4>1, <4>2, <4>3 DEF HandleInv, Handling, Passed, Answer, OkAnswer
        <3>3. CASE ~Disabled(c)
            <4>1. Identified(c) /\ ~failed[c] => "active" \in held'[c]
                <5>1. Identified(c) /\ ~failed[c] => record[c] # None /\ record[c].status \in held[c]
                    BY <1>0, <1>5, <3>1 DEF EnsureInv, After
                <5>2. record[c] # None => record[c].status \in {"active", "disabled"}
                    BY DEF TypeOK, Row
                <5> QED BY <3>1, <3>3, <5>1, <5>2 DEF Disabled
            <4>2. CASE request[c].op = "use" \/ request[c].owner = External
                <5> DEFINE response == IF request[c].op = "use" THEN [ok |-> TRUE, status |-> 200]
                                                                 ELSE Error(401)
                <5>0. Respond(c, response)
                    BY <2>4, <3>3, <4>2 DEF Gate
                <5>1. answer'[c] = response /\ pc'[c] = "done"
                    BY <5>0 DEF Respond, GoTo, TypeOK
                <5>2. answer'[c].status # 403 /\ (answer'[c].ok => request[c].op = "use")
                    BY <5>1 DEF Error
                <5> HIDE DEF response
                <5> QED BY <1>5, <2>1, <2>2, <3>1, <4>1, <5>1, <5>2 DEF HandleInv, Handling, Passed, Answer, OkAnswer
            <4>3. CASE ~(request[c].op = "use" \/ request[c].owner = External)
                <5>1. UNCHANGED answer /\ pc'[c] = (IF request[c].op = "list" THEN "handler" ELSE "check")
                    BY <2>4, <3>3, <4>3 DEF Gate, GoTo, TypeOK
                <5>2. request[c].owner \in Customer
                    BY <2>b, <4>3 DEF Owner
                <5> QED BY <1>5, <2>1, <2>2, <3>1, <4>1, <5>1, <5>2 DEF HandleInv, Handling, Passed, Answer, OkAnswer
            <4> QED BY <4>2, <4>3
        <3> QED BY <3>2, <3>3
    <2>5. ASSUME pc[c] \in Handling, NEW response, Respond(c, response), UNCHANGED failed,
                 response.status # 403,
                 response.ok /\ request[c].op \in {"disable", "enable"} =>
                     response.row.id = request[c].agent /\ response.row.status \in shown'[c]
          PROVE  HandleInv(c)'
        <3>1. answer'[c] = response /\ pc'[c] = "done"
            BY <2>5 DEF Respond, GoTo, TypeOK
        <3> QED BY <2>1, <2>2, <2>a, <2>5, <3>1 DEF HandleInv, Handling, Passed, Answer, OkAnswer
    <2>6. CASE Check(c)
        <3>1. pc[c] = "check" /\ UNCHANGED history
            BY <2>6 DEF Check, At
        <3>2. CASE Managed(c) = {}
            <4>1. Respond(c, Error(404)) /\ Error(404).status # 403 /\ ~Error(404).ok
                BY <2>6, <3>2 DEF Check, Error
            <4> QED BY <1>5, <2>5, <3>1, <4>1 DEF Handling, history
        <3>3. CASE Managed(c) # {}
            <4>1. /\ UNCHANGED answer
                  /\ pc'[c] = IF request[c].op \in {"disable", "enable"} THEN "change" ELSE "usage"
                BY <2>6, <3>3 DEF Check, GoTo, TypeOK
            <4>2. request[c].owner \in Customer
                BY <1>0, <1>5, <3>1 DEF HandleInv, Handling
            <4> QED BY <1>5, <2>1, <2>2, <2>a, <3>1, <4>1, <4>2
                    DEF HandleInv, Handling, Passed, Answer, OkAnswer, history
        <3> QED BY <3>2, <3>3
    <2>7. CASE Change(c)
        <3>1. pc[c] = "change" /\ pc'[c] = "reread" /\ UNCHANGED <<answer, failed>>
            BY <2>7 DEF Change, At, GoTo, TypeOK
        <3>2. request[c].owner \in Customer /\ request[c].op \in {"disable", "enable"}
            BY <1>0, <1>5, <3>1 DEF HandleInv, Handling
        <3>3. \E a \in Managed(c)' : agents'[a].status \in shown'[c]
            <4>1. PICK a \in Managed(c) : Write(a, [agents[a] EXCEPT !.status = NewStatus(request[c].op)])
                BY <2>7 DEF Change
            <4>2. a \in Agent /\ agents[a] # None /\ a[1] = request[c].owner /\ agents[a].id = request[c].agent
                BY DEF Managed, OfCustomer
            <4>3. agents[a] \in Row
                BY <4>2 DEF TypeOK
            <4>4. agents'[a].status = NewStatus(request[c].op)
                BY <4>1, <4>2, <4>3 DEF Write, TypeOK, Row
            <4>5. NewStatus(request[c].op) \in shown'[c]
                BY <2>7 DEF Change, TypeOK
            <4>6. agents'[a] # None /\ agents'[a].id = agents[a].id
                BY <4>2, RowsStay
            <4>7. a \in Managed(c)'
                BY <2>1, <4>2, <4>6 DEF Managed, OfCustomer
            <4> QED BY <4>4, <4>5, <4>7
        <3> QED BY <1>5, <2>1, <2>2, <2>a, <3>1, <3>2, <3>3 DEF HandleInv, Handling, Passed, Answer, OkAnswer
    <2>8. CASE list_agents(c)
        <3>1. pc[c] = "handler" /\ UNCHANGED history /\ request[c].op \notin {"disable", "enable"}
            BY <1>0, <1>5, <2>8 DEF list_agents, At, HandleInv
        <3>2. PICK page \in Pages(Listed(c), request[c].offset) :
                  Respond(c, [ok |-> TRUE, status |-> 200, page |-> {agents[a] : a \in page},
                              total |-> Cardinality(Listed(c))])
            BY <2>8 DEF list_agents
        <3> QED BY <1>5, <2>5, <3>1, <3>2 DEF Handling, history
    <2>9. CASE Reread(c)
        <3>1. pc[c] = "reread" /\ UNCHANGED history
            BY <2>9 DEF Reread, At
        <3>2. PICK a \in Managed(c) : Respond(c, [ok |-> TRUE, status |-> 200, row |-> agents[a]])
            BY <2>9 DEF Reread
        <3>3. PICK b \in Managed(c) : agents[b].status \in shown[c]
            BY <1>0, <1>5, <3>1 DEF HandleInv
        <3>4. a = b /\ agents[a].id = request[c].agent
            BY DEF Managed, OfCustomer, TypeOK
        <3> QED BY <1>5, <2>5, <3>1, <3>2, <3>3, <3>4 DEF Handling, history
    <2>10. CASE ReadUsage(c)
        <3>1. pc[c] = "usage" /\ UNCHANGED history /\ request[c].op \notin {"disable", "enable"}
            BY <1>0, <1>5, <2>10 DEF ReadUsage, At, HandleInv
        <3>2. ASSUME NEW response, Respond(c, response), response.status = 200 PROVE HandleInv(c)'
            BY <1>5, <2>5, <3>1, <3>2 DEF Handling, history
        <3>3. CASE request[c].op = "detail"
            <4> DEFINE rows == LoggedFor(c)
                       response == [ok |-> TRUE, status |-> 200, count |-> Cardinality(rows),
                                    good |-> Cardinality({l \in rows : l.success}),
                                    bad |-> Cardinality({l \in rows : ~l.success})]
            <4>1. Respond(c, response)
                BY <2>10, <3>3 DEF ReadUsage
            <4>2. response.status = 200
                OBVIOUS
            <4> HIDE DEF response
            <4> QED BY <1>5, <3>2, <4>1, <4>2
        <3>4. CASE request[c].op # "detail"
            <4> DEFINE rows == LoggedFor(c)
                       response(page) == [ok |-> TRUE, status |-> 200, page |-> page,
                                          total |-> Cardinality(rows)]
            <4>1. \E page \in Pages(rows, request[c].offset) : Respond(c, response(page))
                BY <2>10, <3>4 DEF ReadUsage
            <4>2. \A page : response(page).status = 200
                OBVIOUS
            <4> HIDE DEF response
            <4> QED BY <1>5, <3>2, <4>1, <4>2
        <3> QED BY <1>5, <3>3, <3>4
    <2>11. CASE HandlerFails(c)
        <3>1. pc[c] \in Handling /\ UNCHANGED history /\ Respond(c, Error(500))
            BY <2>11 DEF HandlerFails, Handling
        <3>2. Error(500).status = 500 /\ ~Error(500).ok
            BY DEF Error
        <3> QED BY <1>5, <2>5, <3>1, <3>2 DEF history
    <2>12. CASE Lookup(c) \/ Touch(c) \/ Reload(c) \/ Insert(c) \/ Created(c) \/ RegistryFails(c)
        BY <2>3, <2>12 DEF Lookup, Touch, Reload, Insert, Created, RegistryFails, AfterFailure, GoTo,
                           Ensuring, TypeOK
    <2> QED BY <1>5, <2>4, <2>6, <2>7, <2>8, <2>9, <2>10, <2>11, <2>12 DEF Step
<1> QED BY <1>3, <1>4, <1>5

\* Every step keeps what the log tells.
LEMMA NextLog == ASSUME Inv, NEW c \in Call, Begin(c) \/ Step(c) PROVE LogInv'
<1> USE DEF Inv
<1>1. ASSUME NEW l \in log
      PROVE  /\ l.call \in Call /\ pc'[l.call] = "done"
             /\ l.owner = request'[l.call].owner /\ l.identifier = request'[l.call].identifier
             /\ l.agent # None => record'[l.call] # None /\ l.agent = record'[l.call].id
             /\ l.identifier # None /\ ~failed'[l.call] => l.agent # None
    <2>1. l.call \in Call /\ pc[l.call] = "done"
        BY DEF LogInv
    <2>2. l.call # c
        BY <2>1, MovesOn DEF Begin, At
    <2>3. /\ pc'[l.call] = pc[l.call] /\ request'[l.call] = request[l.call]
          /\ record'[l.call] = record[l.call] /\ failed'[l.call] = failed[l.call]
        BY <2>1, <2>2, OthersStay
    <2> QED BY <2>1, <2>3 DEF LogInv
<1>2. CASE log' = log
    BY <1>1, <1>2 DEF LogInv
<1>3. ASSUME NEW response, Respond(c, response), UNCHANGED <<request, record, failed>>, pc[c] \in After
      PROVE  LogInv'
    <2> DEFINE new == LogRow(c, response)
    <2>1. log' = log \cup {new} /\ pc'[c] = "done"
        BY <1>3 DEF Respond, GoTo, TypeOK
    <2>2. /\ new.call = c /\ new.owner = request[c].owner /\ new.identifier = request[c].identifier
          /\ new.agent = IF record[c] = None THEN None ELSE record[c].id
        BY DEF LogRow
    <2> HIDE DEF new
    <2>3. record[c] # None => record[c].id # None
        BY RegistryAssumption DEF TypeOK, Row
    <2>4. pc[c] # "idle" => request[c] # None
        BY DEF EnsureInv
    <2>5. new.identifier # None /\ ~failed[c] => record[c] # None
        BY <1>3, <2>2, <2>4 DEF EnsureInv, Identified, After, Handling
    <2> QED BY <1>1, <1>3, <2>1, <2>2, <2>3, <2>5 DEF LogInv
<1>4. CASE Gate(c)
    <2>1. CASE \E response : Respond(c, response)
        BY <1>3, <1>4, <2>1 DEF Gate, At, After, history
    <2>2. CASE UNCHANGED log
        BY <1>2, <2>2
    <2> QED BY <1>4, <2>1, <2>2 DEF Gate
<1>5. CASE Check(c)
    <2>1. CASE \E response : Respond(c, response)
        BY <1>3, <1>5, <2>1 DEF Check, At, After, Handling, history
    <2>2. CASE UNCHANGED log
        BY <1>2, <2>2
    <2> QED BY <1>5, <2>1, <2>2 DEF Check
<1>6. CASE list_agents(c) \/ Reread(c)
    BY <1>3, <1>6 DEF list_agents, Reread, At, After, Handling, history
<1>7. CASE ReadUsage(c) \/ HandlerFails(c)
    BY <1>3, <1>7 DEF ReadUsage, HandlerFails, At, After, Handling, history
<1> QED BY <1>2, <1>4, <1>5, <1>6, <1>7 DEF Begin, Step, Lookup, Touch, Reload, Insert, Created,
        RegistryFails, Change

\* Every step keeps the invariant.
LEMMA NextInv == Inv /\ [Next]_vars => Inv'
<1> SUFFICES ASSUME Inv, [Next]_vars PROVE Inv'
    OBVIOUS
<1>1. ASSUME NEW c \in Call, Begin(c) \/ Step(c) PROVE Inv'
    BY <1>1, NextTypes, NextLog, NextEnsure, NextHandle DEF Inv
<1>2. CASE UNCHANGED vars
    <2>1. TypeOK' /\ IdInv' /\ LogInv' /\ (DOMAIN answer)' = Call
        BY <1>2 DEF vars, history, Inv, TypeOK, IdInv, LogInv, Own
    <2>2. ASSUME NEW c \in Call PROVE EnsureInv(c)' /\ HandleInv(c)'
        <3>1. EnsureInv(c)'
            BY <1>2 DEF vars, history, Inv, EnsureInv, Own, StatusOf, Identified
        <3>2. HandleInv(c)'
            BY <1>2 DEF vars, history, Inv, HandleInv, Identified, Passed, Answer, OkAnswer, Managed, OfCustomer
        <3> QED BY <3>1, <3>2
    <2> QED BY <2>1, <2>2 DEF Inv
<1> QED BY <1>1, <1>2 DEF Next

\* The invariant holds throughout.
LEMMA Invariance == Spec => []Inv
BY InitInv, NextInv, PTL DEF Spec

\* Every record is of its type, and no two agents share an id: a uuid is inserted by the call that
\* drew it, once, and INSERT IGNORE keeps the row of whoever came first.
THEOREM TypeCorrect == Spec => []TypeOK
BY Invariance, PTL DEF Inv

\* A request is refused when its agent was disabled since it began, and only when it was disabled
\* at some time, however refreshes, registrations and updates interleave.
THEOREM DisabledRefused == Spec => []DisabledIsRefused
<1>1. Inv => DisabledIsRefused
    BY DEF Inv, EnsureInv, HandleInv, DisabledIsRefused, Identified
<1> QED BY <1>1, Invariance, PTL

\* The log attributes a request to the one id its agent has, also when requests race to register it.
THEOREM Attributed == Spec => []AttributedToItsAgent
<1>1. Inv => AttributedToItsAgent
    <2> SUFFICES ASSUME Inv, NEW l \in log
                 PROVE  /\ l.agent # None => /\ l.identifier # None
                                             /\ agents[<<l.owner, l.identifier>>] # None
                                             /\ agents[<<l.owner, l.identifier>>].id = l.agent
                        /\ l.identifier # None /\ ~failed[l.call] => l.agent # None
        BY DEF AttributedToItsAgent
    <2>1. /\ l.call \in Call /\ l.owner = request[l.call].owner /\ l.identifier = request[l.call].identifier
          /\ l.agent # None => record[l.call] # None /\ l.agent = record[l.call].id
          /\ l.identifier # None /\ ~failed[l.call] => l.agent # None
        BY DEF Inv, LogInv
    <2>2. EnsureInv(l.call)
        BY <2>1 DEF Inv
    <2> QED BY <2>1, <2>2 DEF EnsureInv, Own, Identified
<1> QED BY <1>1, Invariance, PTL

\* Disabling and enabling answer with a status the agent had since their own update.
THEOREM AnsweredSince == Spec => []AnsweredSinceItsUpdate
<1>1. Inv => AnsweredSinceItsUpdate
    BY DEF Inv, HandleInv, AnsweredSinceItsUpdate
<1> QED BY <1>1, Invariance, PTL

\* Nothing but a registration, and a customer's own disable or enable, changes an agent's status:
\* no refresh of an agent by its requests makes it active again.
THEOREM StatusOfItsCustomer == Spec => StatusByItsCustomer
<1>1. Inv /\ [Next]_vars => [\A a \in Agent : StatusOf(a)' # StatusOf(a) =>
          \/ agents[a] = None /\ StatusOf(a)' = "active"
          \/ /\ a[1] \in Customer
             /\ \E c \in Call : pc[c] = "change" /\ pc'[c] = "reread"
                               /\ request[c].owner = a[1]]_vars
    <2> SUFFICES ASSUME Inv, NEW c \in Call, Begin(c) \/ Step(c), NEW a \in Agent,
                        StatusOf(a)' # StatusOf(a)
                 PROVE  \/ agents[a] = None /\ StatusOf(a)' = "active"
                        \/ /\ a[1] \in Customer
                           /\ pc[c] = "change" /\ pc'[c] = "reread" /\ request[c].owner = a[1]
        BY DEF Next
    <2>1. ~UNCHANGED agents
        BY DEF StatusOf
    <2>2. PICK b \in Agent, row \in Row : Writes(c, b, row)
        BY <2>1, StepWrites
    <2>3. agents' = [agents EXCEPT ![b] = row] /\ row # None
        BY <2>2, RegistryAssumption DEF Writes, Write
    <2>4. a = b /\ StatusOf(a)' = row.status
        BY <2>3 DEF StatusOf, Inv, TypeOK
    <2>5. CASE agents[b] = None
        BY <2>2, <2>4, <2>5 DEF Writes, NewRow
    <2>6. CASE agents[b] # None
        <3>1. row.status # agents[b].status
            BY <2>4, <2>6 DEF StatusOf
        <3>2. pc[c] = "change" /\ pc'[c] = "reread" /\ b \in Managed(c)
            BY <2>2, <2>6, <3>1 DEF Writes
        <3>3. b[1] = request[c].owner /\ request[c].owner \in Customer
            BY <3>2 DEF Managed, OfCustomer, Inv, HandleInv, Handling
        <3> QED BY <2>4, <3>2, <3>3
    <2> QED BY <2>5, <2>6
<1> QED BY <1>1, Invariance, PTL DEF Spec, StatusByItsCustomer
=============================================================================
