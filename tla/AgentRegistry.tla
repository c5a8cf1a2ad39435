--------------------------- MODULE AgentRegistry ---------------------------
(***************************************************************************)
(* The registry of agents.  Every identified request looks its agent up,    *)
(* registers or refreshes it, and is refused when the agent is disabled;    *)
(* its customer lists, reads, disables and enables the agents through       *)
(* requests that take the same way.  Each statement is a transaction of its *)
(* own, and each may fail: a request goes on with what it has.              *)
(***************************************************************************)
EXTENDS Integers, FiniteSets

CONSTANTS
    Call,           \* requests; each draws a uuid of its own, named as the request
    Customer, External,     \* External owns the rows of api_external_agents
    Header,         \* what X-StockTrends-Agent-Id and -Vendor may hold
    None,           \* an absent header, and an absent record
    Requests,       \* what may be asked
    Registered,     \* the registries a run may start with
    Earlier,        \* the ids of the agents registered before
    Limit, MaxFailures

Owner == Customer \cup {External}
Identifier == Header \cup ({"vendor"} \X Header)
Agent == Owner \X Identifier
Detail == [type: Header \cup {None}, vendor: Header \cup {None}]
Row == [id: Call \cup Earlier, details: Detail, status: {"active", "disabled"}]
Operation == {"use", "list", "detail", "ledger", "disable", "enable"}
Request == [owner: Owner, named: Header \cup {None}, details: Detail, op: Operation,
            agent: Call \cup Earlier \cup {None}, status: {"active", "disabled", None},
            offset: Nat]
Asked == [owner: Owner, identifier: Identifier \cup {None}, details: Detail, op: Operation,
          agent: Call \cup Earlier \cup {None}, status: {"active", "disabled", None},
          offset: Nat]

ASSUME RegistryAssumption ==
    /\ External \notin Customer
    /\ None \notin Header \cup Call \cup Earlier \cup Row \cup Asked
    /\ Call \cap Earlier = {}
    /\ Requests \subseteq Request
    /\ Registered \subseteq [Agent -> Row \cup {None}]
    /\ \A start \in Registered : \A a, b \in Agent :
          start[a] # None =>
             /\ start[a].id \in Earlier
             /\ (start[b] # None /\ start[a].id = start[b].id => a = b)
    /\ Limit \in Nat \ {0} /\ MaxFailures \in Nat

VARIABLES
    agents,     \* api_agents and api_external_agents, by their unique key
    log,        \* api_request_logs, with the agent each row is attributed to
    pc,
    request,    \* what each call asks
    record,     \* the record ensure_agent_record has so far
    answer,
    failures,   \* the statements that failed so far
    failed,     \* whether one of this call's registry statements did (history)
    held,       \* the statuses its own agent has had since it began (history)
    shown       \* those the agent it manages has had since its update (history)

history == <<failed, held, shown>>
vars == <<agents, log, pc, request, record, answer, failures, history>>

Steps == {"idle", "lookup", "touch", "reload", "insert", "created", "gate", "handler", "check",
          "change", "reread", "usage", "done"}

\* The id header names the agent; without one its vendor does.
normalize_agent_identifier(named, vendor) ==
    IF named # None THEN named ELSE IF vendor # None THEN <<"vendor", vendor>> ELSE None

Own(c) == <<request[c].owner, request[c].identifier>>
StatusOf(a) == IF agents[a] = None THEN None ELSE agents[a].status

Init ==
    /\ agents \in Registered
    /\ log = {}
    /\ pc = [c \in Call |-> "idle"]
    /\ request = [c \in Call |-> None]
    /\ record = [c \in Call |-> None]
    /\ answer = [c \in Call |-> None]
    /\ failures = 0
    /\ failed = [c \in Call |-> FALSE]
    /\ held = [c \in Call |-> {}]
    /\ shown = [c \in Call |-> {}]

At(c, step) == pc[c] = step
GoTo(c, step) == pc' = [pc EXCEPT ![c] = step]

\* A request without an identifier passes the registry by: both ensure functions return None.
Begin(c) ==
    /\ At(c, "idle")
    /\ \E q \in Requests :
          LET identifier == normalize_agent_identifier(q.named, q.details.vendor) IN
          /\ request' = [request EXCEPT ![c] =
                [owner |-> q.owner, identifier |-> identifier, details |-> q.details,
                 op |-> q.op, agent |-> q.agent, status |-> q.status, offset |-> q.offset]]
          /\ IF identifier = None
             THEN /\ GoTo(c, "gate") /\ UNCHANGED held
             ELSE /\ GoTo(c, "lookup")
                  /\ held' = [held EXCEPT ![c] = {StatusOf(<<q.owner, identifier>>)}]
    /\ UNCHANGED <<agents, log, record, answer, failures, failed, shown>>

----------------------------------------------------------------------------
(* ensure_agent_record and ensure_external_agent_record.                      *)

Keep(c, row) == record' = [record EXCEPT ![c] = row]

\* A failed lookup is a lookup that found nothing.
Lookup(c) ==
    /\ At(c, "lookup")
    /\ Keep(c, agents[Own(c)])
    /\ GoTo(c, IF agents[Own(c)] = None THEN "insert" ELSE "touch")
    /\ UNCHANGED <<agents, log, request, answer, failures, history>>

\* A change of the row of agent a: the calls of this agent see its new status, and so do
\* the calls that have changed its status before.
Write(a, row) ==
    /\ agents' = [agents EXCEPT ![a] = row]
    /\ held' = [c \in Call |-> IF /\ request[c] # None /\ pc[c] # "done"
                                  /\ Own(c) = a
                               THEN held[c] \cup {row.status} ELSE held[c]]

\* UPDATE by the id that was read: the details become this request's, the status stays.
Refreshed_Reactivated(row, details) == [row EXCEPT !.details = details, !.status = "active"]
Refreshed(row, details) == [row EXCEPT !.details = details]

Touch(c) ==
    /\ At(c, "touch")
    /\ Write(Own(c), Refreshed(agents[Own(c)], request[c].details))
    /\ GoTo(c, "reload")
    /\ UNCHANGED <<log, request, record, answer, failures, failed, shown>>

\* refreshed or existing.
Reload(c) ==
    /\ At(c, "reload")
    /\ Keep(c, agents[Own(c)])
    /\ GoTo(c, "gate")
    /\ UNCHANGED <<agents, log, request, answer, failures, history>>

NewRow(c) == [id |-> c, details |-> request[c].details, status |-> "active"]

\* INSERT IGNORE: another request may have registered the agent since the lookup.
Insert(c) ==
    /\ At(c, "insert")
    /\ IF agents[Own(c)] = None
       THEN Write(Own(c), NewRow(c))
       ELSE UNCHANGED <<agents, held>>
    /\ GoTo(c, "created")
    /\ UNCHANGED <<log, request, record, answer, failures, failed, shown>>

\* created = lookup: the row of whoever registered it.
FoundRow_Inserted(c) == NewRow(c)
FoundRow(c) == agents[Own(c)]

Created(c) ==
    /\ At(c, "created")
    /\ Keep(c, FoundRow(c))
    /\ GoTo(c, "gate")
    /\ UNCHANGED <<agents, log, request, answer, failures, history>>

\* A statement of the registry fails.  A lookup finds nothing, so a registered agent may
\* be inserted again; a refresh keeps what it has read; an insert is followed by a lookup.
AfterFailure(step) == CASE step = "lookup" -> "insert"
                        [] step = "insert" -> "created"
                        [] step \in {"touch", "reload", "created"} -> "gate"
RegistryFails(c) ==
    /\ pc[c] \in {"lookup", "touch", "reload", "insert", "created"}
    /\ failures < MaxFailures /\ failures' = failures + 1
    /\ failed' = [failed EXCEPT ![c] = TRUE]
    /\ GoTo(c, AfterFailure(pc[c]))
    /\ UNCHANGED <<agents, log, request, record, answer, held, shown>>

----------------------------------------------------------------------------
(* The rest of the request: the refusal of a disabled agent, the handler, and *)
(* the row of its log.                                                        *)

Disabled_UseOnly(c) ==
    record[c] # None /\ record[c].status = "disabled" /\ request[c].op = "use"
Disabled(c) == record[c] # None /\ record[c].status = "disabled"

LogRow(c, response) ==
    [call |-> c, owner |-> request[c].owner, identifier |-> request[c].identifier,
     agent |-> IF record[c] = None THEN None ELSE record[c].id,
     success |-> response.ok]

Respond(c, response) ==
    /\ answer' = [answer EXCEPT ![c] = response]
    /\ GoTo(c, "done")
    /\ log' = log \cup {LogRow(c, response)}

Error(status) == [ok |-> FALSE, status |-> status]

Gate(c) ==
    /\ At(c, "gate")
    /\ IF Disabled(c)
       THEN Respond(c, Error(403))
       ELSE IF request[c].op = "use" \/ request[c].owner = External
       THEN Respond(c, IF request[c].op = "use" THEN [ok |-> TRUE, status |-> 200]
                       ELSE Error(401))     \* _require_customer_id
       ELSE /\ GoTo(c, IF request[c].op = "list" THEN "handler" ELSE "check")
            /\ UNCHANGED <<answer, log>>
    /\ UNCHANGED <<agents, request, record, failures, history>>

OfCustomer(customer) == {a \in Agent : agents[a] # None /\ a[1] = customer}

\* WHERE id = :agent_id AND customer_id = :customer_id.
Managed_AnyCustomer(c) ==
    {a \in Customer \X Identifier : agents[a] # None /\ agents[a].id = request[c].agent}
Managed(c) == {a \in OfCustomer(request[c].owner) : agents[a].id = request[c].agent}

Least(m, n) == IF m < n THEN m ELSE n
PageSize(total, offset) == IF offset > total THEN 0 ELSE Least(Limit, total - offset)

\* ORDER BY updated_at is left out: the page is any of the right size.
Pages(found, offset) ==
    {page \in SUBSET found : Cardinality(page) = PageSize(Cardinality(found), offset)}

Listed(c) == {a \in OfCustomer(request[c].owner) :
                 request[c].status \in {None, agents[a].status}}

list_agents(c) ==
    /\ At(c, "handler")
    /\ \E page \in Pages(Listed(c), request[c].offset) :
          Respond(c, [ok |-> TRUE, status |-> 200, page |-> {agents[a] : a \in page},
                      total |-> Cardinality(Listed(c))])
    /\ UNCHANGED <<agents, request, record, failures, history>>

\* _get_agent_for_customer before anything else.
Check(c) ==
    /\ At(c, "check")
    /\ IF Managed(c) = {}
       THEN Respond(c, Error(404))
       ELSE /\ GoTo(c, IF request[c].op \in {"disable", "enable"} THEN "change" ELSE "usage")
            /\ UNCHANGED <<answer, log>>
    /\ UNCHANGED <<agents, request, record, failures, history>>

NewStatus(op) == IF op = "disable" THEN "disabled" ELSE "active"

\* disable_agent and enable_agent: the update, and the read that answers.
Change(c) ==
    /\ At(c, "change")
    /\ \E a \in Managed(c) : Write(a, [agents[a] EXCEPT !.status = NewStatus(request[c].op)])
    /\ shown' = [d \in Call |->
                   IF \/ d = c
                      \/ pc[d] = "reread" /\ request[d].agent = request[c].agent
                   THEN shown[d] \cup {NewStatus(request[c].op)} ELSE shown[d]]
    /\ GoTo(c, "reread")
    /\ UNCHANGED <<log, request, record, answer, failures, failed>>

Reread(c) ==
    /\ At(c, "reread")
    /\ \E a \in Managed(c) : Respond(c, [ok |-> TRUE, status |-> 200, row |-> agents[a]])
    /\ UNCHANGED <<agents, request, record, failures, history>>

\* get_agent_detail and get_agent_usage count the rows of the log; get_agent_ledger pages
\* them, rows and total in one transaction.
LoggedFor(c) == {l \in log : l.owner = request[c].owner /\ l.agent = request[c].agent}

ReadUsage(c) ==
    /\ At(c, "usage")
    /\ LET rows == LoggedFor(c) IN
       IF request[c].op = "detail"
       THEN Respond(c, [ok |-> TRUE, status |-> 200, count |-> Cardinality(rows),
                        good |-> Cardinality({l \in rows : l.success}),
                        bad |-> Cardinality({l \in rows : ~l.success})])
       ELSE \E page \in Pages(rows, request[c].offset) :
               Respond(c, [ok |-> TRUE, status |-> 200, page |-> page,
                           total |-> Cardinality(rows)])
    /\ UNCHANGED <<agents, request, record, failures, history>>

\* The handler's database fails: 500, after whatever it has committed.
HandlerFails(c) ==
    /\ pc[c] \in {"handler", "check", "change", "reread", "usage"}
    /\ failures < MaxFailures /\ failures' = failures + 1
    /\ Respond(c, Error(500))
    /\ UNCHANGED <<agents, request, record, history>>

Step(c) ==
    \/ Lookup(c) \/ Touch(c) \/ Reload(c) \/ Insert(c) \/ Created(c) \/ RegistryFails(c)
    \/ Gate(c) \/ list_agents(c) \/ Check(c) \/ Change(c) \/ Reread(c) \/ ReadUsage(c)
    \/ HandlerFails(c)

Next == \E c \in Call : Begin(c) \/ Step(c)

Spec == Init /\ [][Next]_vars

----------------------------------------------------------------------------
Answer(c) == answer[c] # None
OkAnswer(c) == Answer(c) /\ answer[c].ok

\* Every record of the registry and of the log is of its type.  The unique key on the
\* tables gives an agent one row (the function); no two agents share an id.
TypeOK ==
    /\ agents \in [Agent -> Row \cup {None}]
    /\ \A a, b \in Agent :
          agents[a] # None /\ agents[b] # None /\ agents[a].id = agents[b].id => a = b
    /\ pc \in [Call -> Steps]
    /\ request \in [Call -> Asked \cup {None}]
    /\ record \in [Call -> Row \cup {None}]
    /\ failures \in 0..MaxFailures
    /\ failed \in [Call -> BOOLEAN]
    /\ held \in [Call -> SUBSET {"active", "disabled", None}]
    /\ shown \in [Call -> SUBSET {"active", "disabled"}]

Passed(c) == \/ pc[c] \in {"handler", "check", "change", "reread", "usage"}
             \/ Answer(c) /\ answer[c].status # 403

\* A request whose agent was disabled all the time since it began is refused, unless a
\* statement of its registry failed; and none is refused whose agent never was disabled
\* (metering.py 1461, on the record that ensure_agent_record returned).
DisabledIsRefused ==
    \A c \in Call : request[c] # None /\ request[c].identifier # None =>
        /\ Passed(c) /\ ~failed[c] => held[c] # {"disabled"}
        /\ Answer(c) /\ answer[c].status = 403 => "disabled" \in held[c]

\* The rows of the log name the agent that made the request, by the one id it has, however
\* its requests raced to register it; a row without an id is that of an unidentified
\* request, or of one whose registry failed.
AttributedToItsAgent ==
    \A l \in log :
        /\ l.agent # None => /\ l.identifier # None
                             /\ agents[<<l.owner, l.identifier>>] # None
                             /\ agents[<<l.owner, l.identifier>>].id = l.agent
        /\ l.identifier # None /\ ~failed[l.call] => l.agent # None

\* An agent is registered active, and from then on only disable_agent and enable_agent, asked
\* by the customer it belongs to, change its status; external agents keep theirs.
StatusByItsCustomer ==
    [][\A a \in Agent : StatusOf(a)' # StatusOf(a) =>
          \/ agents[a] = None /\ StatusOf(a)' = "active"
          \/ /\ a[1] \in Customer
             /\ \E c \in Call : pc[c] = "change" /\ pc'[c] = "reread"
                               /\ request[c].owner = a[1]]_vars

\* What disable_agent and enable_agent answer is a status the agent has had since their
\* update: their own, or that of a later one.
AnsweredSinceItsUpdate ==
    \A c \in Call : OkAnswer(c) /\ request[c].op \in {"disable", "enable"} =>
        answer[c].row.id = request[c].agent /\ answer[c].row.status \in shown[c]
=============================================================================
