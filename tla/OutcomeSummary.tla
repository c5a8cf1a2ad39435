--------------------------- MODULE OutcomeSummary --------------------------
(***************************************************************************)
(* The outcomes of past ST-IM selections.  A maintenance command summarises *)
(* them into a table, one row per exchange and rank cutoff, in one          *)
(* transaction over one view of the data; the public endpoint serves those  *)
(* rows, or summarises the 13-week outcomes itself when the request has     *)
(* dates.  Runs of the command may overlap each other, the weekly loads of  *)
(* the data, and the requests.  Rates and averages are kept as fractions,   *)
(* which the table rounds to DECIMAL(18,10) and DECIMAL(18,6).              *)
(***************************************************************************)
EXTENDS Integers, Sequences, FiniteSetsExt

CONSTANTS
    Run,            \* runs of the maintenance command
    Arguments,      \* the keys a run may be asked for, in order
    Loads,          \* what st_data joined with st_returnmeans holds, load after load
    Window,         \* STIM_SELECT_OUTCOME_DEFAULT_WINDOW_YEARS, in weeks
    All, None,
    Requests        \* what is asked of the endpoint

Horizon == {"4w", "13w", "40w"}
Base == [h \in Horizon |-> CASE h = "4w" -> 0 [] h = "13w" -> 219 [] h = "40w" -> 645]
MinPrice == 200
MinVolume == 1000
Exchange == {"N", "Q", "A", "B", "T"}

\* build_default_summary_key: "all" for what is not given.
Key(exchange, limit) == <<IF exchange = None THEN All ELSE exchange,
                          IF limit = None THEN All ELSE limit>>
Argument == (Exchange \cup {None}) \X (Nat \cup {None})
Given == UNION {{arguments[i] : i \in DOMAIN arguments} : arguments \in Arguments}
Keys == {Key(a[1], a[2]) : a \in Given}

ASSUME OutcomeAssumption ==
    /\ Arguments \subseteq Seq(Argument) \ {<<>>}
    /\ Len(Loads) \in Nat \ {0} /\ DOMAIN Loads = 1 .. Len(Loads) /\ Window \in Nat
    /\ None \notin Run \cup Int \cup Exchange /\ All \notin Exchange \cup Nat \cup {None}

\* A load is a finite table of dated rows; FastAPI has parsed a request before its handler runs.
ASSUME DataAssumption ==
    /\ \A v \in DOMAIN Loads : IsFiniteSet(Loads[v]) /\ \A o \in Loads[v] : o.week \in Nat
    /\ Requests \subseteq [start: Nat \cup {None}, end: Nat \cup {None},
                           exchange: STRING \cup {None}, limit: Nat \cup {None}]

----------------------------------------------------------------------------
(* The queries.  An outcome is a row of the join: its weekdate, instrument,   *)
(* price, volume, the lower bounds of its expected returns, the 13-week mean  *)
(* and deviation, and the realised return of each horizon, or None.           *)

Selected(o) == \A h \in Horizon : o.bound[h] > Base[h]

\* outcome_base_where.
base_where(data, exchange, start, end) ==
    {o \in data : /\ Selected(o)
                  /\ o.price >= MinPrice /\ o.volume > MinVolume
                  /\ o.realised["13w"] # None
                  /\ (start = None \/ o.week >= start)
                  /\ (end = None \/ o.week <= end)
                  /\ exchange \in {None, o.exchange}}

\* The z-score (x13wk - base) / x13wksd, the lowest without a deviation; then the mean, then
\* the exchange and the symbol.
NoDeviation(o) == o.sd \in {None, 0}
Likelier(o, p) ==
    LET excess(x) == x.mean - Base["13w"] IN
    IF NoDeviation(o) \/ NoDeviation(p)
    THEN ~NoDeviation(o) /\ NoDeviation(p)
    ELSE excess(o) * p.sd > excess(p) * o.sd
Before(o, p) == \/ Likelier(o, p)
                \/ /\ ~Likelier(p, o)
                   /\ (o.mean > p.mean \/ (o.mean = p.mean /\ o.order < p.order))

Rank(o, rows) == 1 + Cardinality({p \in rows : p.week = o.week /\ Before(p, o)})

\* ranked_outcomes_cte, and the cutoff.
WithinRank(rows, limit) == IF limit = None THEN rows ELSE {o \in rows : Rank(o, rows) <= limit}

With(rows, h) == {o \in rows : o.realised[h] # None}
Average(rows, h) ==
    IF With(rows, h) = {} THEN None
    ELSE <<MapThenSumSet(LAMBDA o : o.realised[h], With(rows, h)), Cardinality(With(rows, h))>>

\* Twice the median: the middle value, or the sum of the two.
Median(rows, h) ==
    LET values == With(rows, h)
        below(o) == Cardinality({p \in values : p.realised[h] < o.realised[h]})
        upto(o) == Cardinality({p \in values : p.realised[h] <= o.realised[h]})
        n == Cardinality(values)
        at(i) == (CHOOSE o \in values : below(o) < i /\ i <= upto(o)).realised[h]
    IN IF n = 0 THEN None ELSE at((n + 1) \div 2) + at((n + 2) \div 2)

FirstWeek(rows) == IF rows = {} THEN None ELSE Min({o.week : o \in rows})
LastWeek(rows) == IF rows = {} THEN None ELSE Max({o.week : o \in rows})

Rate(part, whole) == IF whole <= 0 THEN <<0, 1>> ELSE <<part, whole>>

----------------------------------------------------------------------------
(* The command's summary: every horizon, each over the outcomes it has.       *)

HorizonCount_OfAll(rows, h) == Cardinality(rows)
HorizonCount(rows, h) == Cardinality(With(rows, h))

HorizonOf(rows, h) ==
    LET n == HorizonCount(rows, h)
        positive == Cardinality({o \in With(rows, h) : o.realised[h] > 0})
        outperform == Cardinality({o \in With(rows, h) : o.realised[h] > Base[h]})
    IN [count |-> n, average |-> Average(rows, h), median |-> Median(rows, h),
        positive |-> positive, positive_rate |-> Rate(positive, n),
        outperform |-> outperform, outperform_rate |-> Rate(outperform, n)]

\* latest_mature_outcome_date: of all exchanges, whatever the key's.
latest_mature_outcome_date(data) == LastWeek(base_where(data, None, None, None))

compute_summary_record(data, exchange, limit) ==
    LET latest == latest_mature_outcome_date(data)
        start == latest - Window
        rows == WithinRank(base_where(data, exchange, start, latest), limit)
    IN [key |-> Key(exchange, limit), exchange |-> exchange, limit |-> limit,
        start |-> start, end |-> latest, count |-> Cardinality(rows),
        first |-> FirstWeek(rows), last |-> LastWeek(rows),
        horizons |-> [h \in Horizon |-> HorizonOf(rows, h)]]

HasMature == [v \in DOMAIN Loads |-> latest_mature_outcome_date(Loads[v]) # None]

\* What a run computes for each of its arguments, from each load.
Summary == [v \in DOMAIN Loads |->
              [a \in Given |-> IF HasMature[v] THEN compute_summary_record(Loads[v], a[1], a[2])
                               ELSE None]]

\* A row of the table: the summary, its generated_at, and the run that wrote it.
Summaries == {Summary[v][a] : v \in DOMAIN Loads, a \in Given}
Row == [summary: Summaries, generated: DOMAIN Loads, run: Run]

ASSUME RowAssumption == None \notin Row

----------------------------------------------------------------------------
VARIABLES
    loaded,     \* how many loads there were; time is counted in loads
    table,      \* the committed row of each key, or None
    created,    \* whether the table exists
    pc,
    args,       \* the keys a run was asked to refresh
    next,       \* the position of the one it is at
    generated,  \* its generated_at
    view,       \* the load its transaction reads, or None
    record,     \* what it has computed
    pending,    \* what it has written, for the keys it has locked: a row, or None for a
                \* deleted one
    lock        \* who holds the lock on the row of a key

runVars == <<args, next, generated, view, record, pending>>
vars == <<loaded, table, created, pc, runVars, lock>>

Init ==
    /\ loaded = 1
    /\ table = [k \in Keys |-> None] /\ created = FALSE
    /\ pc = [r \in Run |-> "idle"]
    /\ args = [r \in Run |-> <<>>]
    /\ next = [r \in Run |-> 1]
    /\ generated = [r \in Run |-> 0]
    /\ view = [r \in Run |-> None]
    /\ record = [r \in Run |-> None]
    /\ pending = [r \in Run |-> [k \in Keys |-> None]]
    /\ lock = [k \in Keys |-> None]

At(r, step) == pc[r] = step
GoTo(r, step) == pc' = [pc EXCEPT ![r] = step]
KeyOf(r) == Key(args[r][next[r]][1], args[r][next[r]][2])

Load ==
    /\ loaded < Len(Loads) /\ loaded' = loaded + 1
    /\ UNCHANGED <<table, created, pc, runVars, lock>>

\* main: CREATE TABLE IF NOT EXISTS, on a connection of its own.
Create(r) ==
    /\ At(r, "idle") /\ GoTo(r, "stamp")
    /\ \E arguments \in Arguments : args' = [args EXCEPT ![r] = arguments]
    /\ created' = TRUE
    /\ UNCHANGED <<loaded, table, next, generated, view, record, pending, lock>>

\* generated_at, before the transaction.
Stamp(r) ==
    /\ At(r, "stamp") /\ GoTo(r, "compute")
    /\ generated' = [generated EXCEPT ![r] = loaded]
    /\ UNCHANGED <<loaded, table, created, args, next, view, record, pending, lock>>

\* The first SELECT of a transaction fixes what all of them read.
ViewOf_Committed(r) == loaded
ViewOf(r) == IF view[r] = None THEN loaded ELSE view[r]

\* A run raises RuntimeError when no outcome is mature, and rolls back.
Compute(r) ==
    /\ At(r, "compute")
    /\ view' = [view EXCEPT ![r] = ViewOf(r)]
    /\ IF ~HasMature[ViewOf(r)]
       THEN GoTo(r, "abort") /\ UNCHANGED record
       ELSE /\ GoTo(r, "delete")
            /\ record' = [record EXCEPT ![r] =
                                        Summary[ViewOf(r)][args[r][next[r]]]]
    /\ UNCHANGED <<loaded, table, created, args, next, generated, pending, lock>>

\* DELETE waits for the lock of the row and keeps it until the end of the transaction.
Free(r, key) == lock[key] \in {None, r}
TableAfterDelete_Committed(r) == [table EXCEPT ![KeyOf(r)] = None]
TableAfterDelete(r) == table

Delete(r) ==
    /\ At(r, "delete") /\ Free(r, KeyOf(r)) /\ GoTo(r, "insert")
    /\ lock' = [lock EXCEPT ![KeyOf(r)] = r]
    /\ table' = TableAfterDelete(r)
    /\ pending' = [pending EXCEPT ![r][KeyOf(r)] = None]
    /\ UNCHANGED <<loaded, created, args, next, generated, view, record>>

StampOf(r) == generated[r]

Insert(r) ==
    /\ At(r, "insert")
    /\ pending' = [pending EXCEPT ![r][KeyOf(r)] =
          [summary |-> record[r], generated |-> StampOf(r), run |-> r]]
    /\ IF next[r] = Len(args[r])
       THEN GoTo(r, "commit") /\ UNCHANGED next
       ELSE GoTo(r, "compute") /\ next' = [next EXCEPT ![r] = @ + 1]
    /\ UNCHANGED <<loaded, table, created, args, generated, view, record, lock>>

Unlocked_Last(r) == [lock EXCEPT ![KeyOf(r)] = None]
Unlocked(r) == [k \in Keys |-> IF lock[k] = r THEN None ELSE lock[k]]

Commit(r) ==
    /\ At(r, "commit") /\ GoTo(r, "done")
    /\ table' = [k \in Keys |-> IF lock[k] = r THEN pending[r][k] ELSE table[k]]
    /\ lock' = Unlocked(r)
    /\ UNCHANGED <<loaded, created, runVars>>

Rollback(r) ==
    /\ GoTo(r, "failed")
    /\ lock' = Unlocked(r)
    /\ UNCHANGED <<loaded, table, created, runVars>>

\* No mature outcome.
Abort(r) == At(r, "abort") /\ Rollback(r)

\* InnoDB rolls one of two runs back that wait for each other.
Victim(r) ==
    /\ At(r, "delete") /\ ~Free(r, KeyOf(r))
    /\ At(lock[KeyOf(r)], "delete") /\ lock[KeyOf(lock[KeyOf(r)])] = r
    /\ Rollback(r)

\* The process, its connection or the database fails; two runs that insert where neither
\* found a row may also be told to restart.
Fail(r) == pc[r] \in {"compute", "delete", "insert", "commit"} /\ Rollback(r)

Step(r) == \/ Create(r) \/ Stamp(r) \/ Compute(r) \/ Delete(r) \/ Insert(r)
           \/ Commit(r) \/ Abort(r) \/ Victim(r)

Next == Load \/ \E r \in Run : Step(r) \/ Fail(r)

Spec == Init /\ [][Next]_vars
FairSpec == Spec /\ \A r \in Run : WF_vars(Step(r))

----------------------------------------------------------------------------
(* stim_select_outcomes_summary.  It changes nothing and reads one view: what *)
(* it answers is a function of the state.                                     *)

Refused(status) == [status |-> status]

\* The live aggregate of selections.py: the 13-week outcomes, rates over all of them.
LiveRank(rows, limit) == WithinRank(rows, limit)

LiveOutcomes(data, q) ==
    LET rows == LiveRank(base_where(data, q.exchange, q.start, q.end), q.limit)
        positive == Cardinality({o \in rows : o.realised["13w"] > 0})
        outperform == Cardinality({o \in rows : o.realised["13w"] > Base["13w"]})
        n == Cardinality(rows)
    IN [count |-> n, first |-> FirstWeek(rows), last |-> LastWeek(rows),
        average |-> Average(rows, "13w"), median |-> Median(rows, "13w"),
        positive |-> positive, positive_rate |-> Rate(positive, n),
        outperform |-> outperform, outperform_rate |-> Rate(outperform, n)]

\* The 13-week block of a stored row: its count is that of all the row's outcomes.
StoredOutcomes(summary) ==
    LET h == summary.horizons["13w"] IN
    [count |-> summary.count, first |-> summary.first, last |-> summary.last,
     average |-> h.average, median |-> h.median,
     positive |-> h.positive, positive_rate |-> h.positive_rate,
     outperform |-> h.outperform, outperform_rate |-> h.outperform_rate]

InvertedDates(q) == q.start # None /\ q.end # None /\ q.start > q.end
Stored(q) ==
    IF created /\ Key(q.exchange, q.limit) \in Keys THEN table[Key(q.exchange, q.limit)] ELSE None

stim_select_outcomes_summary(q) ==
    IF InvertedDates(q) \/ q.exchange \notin Exchange \cup {None} THEN Refused(400)
    ELSE IF q.start # None \/ q.end # None
    THEN [status |-> 200, start |-> q.start, end |-> q.end,
          outcomes |-> LiveOutcomes(Loads[loaded], q), horizons |-> None]
    ELSE IF Stored(q) = None THEN Refused(503)
    ELSE LET summary == Stored(q).summary IN
         [status |-> 200, start |-> summary.start, end |-> summary.end,
          outcomes |-> StoredOutcomes(summary), horizons |-> summary.horizons]

----------------------------------------------------------------------------
SummaryLike(row, v) == Summary[v][<<row.summary.exchange, row.summary.limit>>]
Rows == {table[k] : k \in Keys} \ {None}

\* The run's variables are of their types, and a row is stored under its own key.
TypeOK ==
    /\ loaded \in DOMAIN Loads
    /\ table \in [Keys -> Row \cup {None}] /\ created \in BOOLEAN
    /\ \A k \in Keys : table[k] # None => created /\ table[k].summary.key = k
    /\ pc \in [Run -> {"idle", "stamp", "compute", "delete", "insert", "commit", "abort",
                       "done", "failed"}]
    /\ args \in [Run -> Arguments \cup {<<>>}] /\ next \in [Run -> Nat \ {0}]
    /\ generated \in [Run -> DOMAIN Loads \cup {0}]
    /\ view \in [Run -> DOMAIN Loads \cup {None}]
    /\ record \in [Run -> Summaries \cup {None}]
    /\ pending \in [Run -> [Keys -> Row \cup {None}]]
    /\ lock \in [Keys -> Run \cup {None}]

\* generated_at is never later than the data: a row has everything that was loaded before
\* the time it gives (refresh main takes the time before its transaction reads anything).
StampIsHonest ==
    \A row \in Rows : \E v \in row.generated..loaded :
        row.summary = SummaryLike(row, v)

\* The rows of one run are summaries of the same data, so the ranked and the unranked one
\* can be compared, whatever is loaded while it runs.
RunIsOneSnapshot ==
    \A row1, row2 \in Rows : row1.run = row2.run =>
        \E v \in 1..loaded : \A row \in {row1, row2} :
            row.summary = SummaryLike(row, v)

\* A row tells what it summarises: by its time, and beside the other rows of its run.
RowsAreOfOneView == StampIsHonest /\ RunIsOneSnapshot

\* What a run has refreshed is served from then on, also while a later run replaces it or
\* fails half-way: a default request is not told that the summary is not available.
RefreshedIsServed ==
    \A r \in Run : pc[r] = "done" => \A i \in DOMAIN args[r] :
        stim_select_outcomes_summary([start |-> None, end |-> None, exchange |-> args[r][i][1],
                                      limit |-> args[r][i][2]]).status = 200

\* The rates and the average of a horizon are over the same outcomes, those that have its
\* return: a mature row has a 13-week one and may lack the others.
RatesAreOfTheirHorizon ==
    \A q \in Requests : LET a == stim_select_outcomes_summary(q) IN
        a.status = 200 /\ a.horizons # None =>
            \A h \in Horizon : LET m == a.horizons[h] IN
                /\ m.count <= a.outcomes.count /\ m.positive <= m.count
                /\ m.average # None => m.average[2] = m.count
                /\ \A rate \in {m.positive_rate, m.outperform_rate} : m.count = 0 \/ rate[2] = m.count

\* The two implementations agree: a request that gives the window of a stored row as its
\* dates is answered with the same outcomes, unless other data has been loaded since.
LiveAgreesWithTheRow ==
    \A q \in Requests : LET stored == stim_select_outcomes_summary(q) IN
        (stored.status = 200 /\ stored.horizons # None /\ Stored(q).generated = loaded) =>
            stim_select_outcomes_summary([q EXCEPT !.start = stored.start, !.end = stored.end]).outcomes
                = stored.outcomes

\* The figures of an answer belong together, however they came about.
AnswersAgree == RatesAreOfTheirHorizon /\ LiveAgreesWithTheRow

\* A run that has begun ends, though runs with their keys in another order wait for each
\* other's rows.
RunEnds == \A r \in Run : pc[r] = "compute" ~> pc[r] \in {"done", "failed"}
=============================================================================
