---------------------------- MODULE WeeklyTables ----------------------------
(***************************************************************************)
(* The weekly market tables as an endpoint reads them.  A loader commits    *)
(* batches of rows; a handler opens one connection after another, and each  *)
(* is a snapshot taken at its first query.  The bounds of every history     *)
(* endpoint are here too (utils/history_bounds.py).                         *)
(***************************************************************************)
EXTENDS Integers, FiniteSets, SequencesExt

CONSTANTS
    Batch,          \* what the loader commits: rows of some tables, after other batches
    Query,          \* the requests that may arrive
    Window,         \* DEFAULT_HISTORY_WINDOW_WEEKS
    Exchanges,      \* VALID_EXCHANGES
    Omitted         \* a parameter that is not given

BatchId == DOMAIN Batch
Table == {"data", "means", "select", "shadow", "epoch", "mast",
          "ports", "returnslog", "positions", "strategy", "condition"}

ASSUME TablesAssumption ==
    /\ Window \in Nat \ {0}
    /\ \A b \in BatchId :
          /\ DOMAIN Batch[b].rows \subseteq Table
          /\ Batch[b].needs \subseteq BatchId
          /\ \A t \in DOMAIN Batch[b].rows : \A x \in Batch[b].rows[t] :
                {"week", "id"} \subseteq DOMAIN x /\ x.week \in Nat /\ x.id \in Nat

\* The tables of weekly rows: every row has a week, which 0 is not.
Dated == {"data", "means", "select", "shadow", "epoch"}

VARIABLES
    committed,  \* the batches the loader has committed
    query,      \* the request
    pc,         \* how far its handler is
    paid,       \* its payment gate has collected
    view,       \* the batches the open connection sees; none is open when Omitted
    anchor,     \* the week the handler resolved, 0 for none
    source,     \* the table the rows are read from
    found,      \* the first query's row, where there is a second
    answer,     \* the response
    first,      \* what was committed when the handler began (history)
    matched     \* the rows that met the query's WHERE clause (history)

vars == <<committed, query, pc, paid, view, anchor, source, found, answer, first, matched>>

NoAnswer == [status |-> 0, week |-> 0, rows |-> <<>>, truncated |-> FALSE,
             start |-> 0, end |-> 0, extra |-> Omitted]

Init ==
    /\ committed \in {c \in SUBSET BatchId : \A b \in c : Batch[b].needs \subseteq c}
    /\ query \in Query
    /\ pc = "arrived"
    /\ paid = FALSE
    /\ view = Omitted
    /\ anchor = 0
    /\ source = "raw"
    /\ found = Omitted
    /\ answer = NoAnswer
    /\ first = {}
    /\ matched = {}

-----------------------------------------------------------------------------
(* Rows and snapshots.                                                     *)

RowsAt(snapshot, t) ==
    UNION {Batch[b].rows[t] : b \in {c \in snapshot : t \in DOMAIN Batch[c].rows}}

ASSUME RowsAssumption ==
    /\ \A t \in Table : IsFiniteSet(RowsAt(BatchId, t))
    /\ \A t \in Dated : \A x \in RowsAt(BatchId, t) : x.week # 0
    /\ \A x \in RowsAt(BatchId, "shadow") : "week" \in DOMAIN x.row /\ x.row.week = x.week

\* No set of batches and no row is taken for a parameter that is not given.
ASSUME OmittedAssumption ==
    /\ \A c \in SUBSET BatchId : c # Omitted
    /\ \A t \in Table : Omitted \notin RowsAt(BatchId, t)

\* "*", which stands for the canonical exchanges, is none of them.
ASSUME ExchangesAssumption == "*" \notin Exchanges \cup {Omitted}

\* What FastAPI makes of a request: weeks and limits are numbers, a limit is at least 1,
\* or 0 for the limit of the report, the history of the regime has no last week, and a
\* population is one of three.
ASSUME QueryAssumption ==
    \A q \in Query :
        /\ q.start \in Nat /\ q.end \in Nat /\ q.week \in Nat /\ q.limit \in Nat
        /\ q.limit = 0 => q.path = "stwr/latest"
        /\ q.path = "regime/history" => q.end = 0
        /\ q.population \in {Omitted, "equities", "cs", "all"}

\* The batches c hold every row that a table ever has of a week.
WholeAt(c, t, week) == \A y \in RowsAt(BatchId, t) : y.week = week => y \in RowsAt(c, t)

\* What a query sees: the open connection's snapshot, or a new connection's.
Snapshot == IF view = Omitted THEN committed ELSE view
Rows(t) == RowsAt(Snapshot, t)

\* MAX(weekdate); no rows give no week.
LatestWeek(S) == IF S = {} THEN 0 ELSE Max({x.week : x \in S})

Between(S, start, end) ==
    {x \in S : (start # 0 => start <= x.week) /\ (end # 0 => x.week <= end)}

OnExchange(S, exchange) ==
    IF exchange = Omitted THEN S ELSE {x \in S : x.exchange = exchange}

\* ORDER BY: a list of columns, each ascending (1) or descending (-1).
Asc(column) == <<column, 1>>
Desc(column) == <<column, -1>>
Precedes(order, x, y) ==
    \E i \in DOMAIN order :
        /\ \A j \in 1 .. i - 1 : x[order[j][1]] = y[order[j][1]]
        /\ order[i][2] * x[order[i][1]] < order[i][2] * y[order[i][1]]

\* The first n rows in the order, or all; rows it leaves tied may come in any order.
FirstInOrder(S, order, n) ==
    LET leading(T) == {x \in T : \A z \in T : ~Precedes(order, z, x)}
        taken[k \in 0 .. Min({n, Cardinality(S)})] ==
            IF k = 0 THEN {<<>>}
            ELSE UNION {{Append(s, x) : x \in leading(S \ ToSet(s))} : s \in taken[k - 1]}
    IN  taken[Min({n, Cardinality(S)})]

-----------------------------------------------------------------------------
(* utils/history_bounds.py.                                                *)

\* resolve_history_window; the latest week is asked for only when it is used.
HistoryWindow(start, end, latest) ==
    IF start # 0 \/ end # 0 THEN [start |-> start, end |-> end]
    ELSE IF latest = 0 THEN [start |-> 0, end |-> 0]
    ELSE [start |-> latest - (Window - 1), end |-> latest]

\* Mutant: no row is asked for beyond the limit.
ProbeLimit_Exact(limit) == limit

\* probe_limit and split_probe_rows.
ProbeLimit(limit) == limit + 1
SplitProbe(s, limit) ==
    [rows |-> SubSeq(s, 1, IF Len(s) < limit THEN Len(s) ELSE limit), truncated |-> Len(s) > limit]

-----------------------------------------------------------------------------
(* The steps a handler is made of.                                         *)

At(path, step) == query.path = path /\ pc = step
\* parse_symbol_exchange: SYMBOL-EXCHANGE in the vocabulary.
PairParses(p) == p.dash /\ p.symbol # Omitted /\ p.exchange \in Exchanges

\* The instrument a request names.
Symbol == IF query.pair # Omitted THEN query.pair.symbol ELSE query.symbol
Exchange == IF query.pair # Omitted THEN query.pair.exchange ELSE query.exchange

Bare(q) == q.start = 0 /\ q.end = 0
Static == UNCHANGED <<committed, query, paid>>

\* The handler answers without rows.
Respond(status) ==
    /\ pc' = "done"
    /\ answer' = [answer EXCEPT !.status = status]
    /\ view' = Omitted
    /\ Static
    /\ UNCHANGED <<anchor, source, found, first, matched>>

\* A query in a connection of its own finds a week, or there is none.
ResolveWeek(week, from, next) ==
    /\ anchor' = week
    /\ source' = from
    /\ pc' = next
    /\ Static
    /\ UNCHANGED <<view, found, answer, first, matched>>

\* The same, in a connection that stays open for the next query.
ResolveWeekOpen(week, next) ==
    /\ anchor' = week
    /\ view' = Snapshot
    /\ pc' = next
    /\ Static
    /\ UNCHANGED <<source, found, answer, first, matched>>

\* The rows are fetched and sent, the first `limit` in order.
SendRows(S, order, limit, week) ==
    \E s \in FirstInOrder(S, order, limit) :
        /\ answer' = [answer EXCEPT !.status = 200, !.week = week, !.rows = s]
        /\ matched' = S
        /\ pc' = "done"
        /\ view' = Omitted
        /\ Static
        /\ UNCHANGED <<anchor, source, found, first>>

\* The same with one row more, so that the answer says if there was one; rows
\* selected newest first may be sent oldest first.
SendHistory(S, order, limit, bounds, oldestFirst) ==
    \E s \in FirstInOrder(S, order, ProbeLimit(limit)) :
        LET split == SplitProbe(s, limit) IN
        /\ answer' = [answer EXCEPT !.status = 200,
                                    !.rows = IF oldestFirst THEN Reverse(split.rows) ELSE split.rows,
                                    !.truncated = split.truncated,
                                    !.start = bounds.start, !.end = bounds.end]
        /\ matched' = S
        /\ pc' = IF query.gaps THEN "gaps" ELSE "done"
        /\ view' = Omitted
        /\ Static
        /\ UNCHANGED <<anchor, source, found, first>>

\* group_by_week of the histories: a bucket is closed when the week changes.
Counted(weeks, week) ==
    IF weeks = <<>> \/ Last(weeks).week # week
    THEN Append(weeks, [week |-> week, count |-> 1])
    ELSE [weeks EXCEPT ![Len(weeks)].count = @ + 1]
GroupByWeek(rows) ==
    LET grouped[n \in 0 .. Len(rows)] ==
            IF n = 0 THEN <<>> ELSE Counted(grouped[n - 1], rows[n].week)
    IN  grouped[Len(rows)]

\* The bounds of an endpoint that applies no default window.
CallerBounds == [start |-> query.start, end |-> query.end]

-----------------------------------------------------------------------------
(* The loader.                                                             *)

Load(b) ==
    /\ b \notin committed
    /\ Batch[b].needs \subseteq committed
    /\ pc # "done"
    /\ committed' = committed \cup {b}
    /\ UNCHANGED <<query, pc, paid, view, anchor, source, found, answer, first, matched>>
=============================================================================
