---------------------------- MODULE BreadthRoutes ----------------------------
(***************************************************************************)
(* Sector breadth and sector leadership (routers/breadth.py,                *)
(* leadership.py).  Both aggregate the weekly rows, or read aggregates that *)
(* were published to shadow tables, whichever can answer the request.       *)
(***************************************************************************)
EXTENDS WeeklyTables

Canonical == {"A", "N", "Q", "T"}
Bullish == {"^+", "^-", "v^"}
Bearish == {"v-", "v+", "^v"}
Neutral == {"--", "="}

\* _resolve_population, where cs_only is the older way to say it.
Legacy(q) == IF q.legacyCs = Omitted THEN Omitted ELSE IF q.legacyCs THEN "cs" ELSE "all"
Population(q) ==
    IF q.population # Omitted THEN q.population
    ELSE IF Legacy(q) # Omitted THEN Legacy(q) ELSE "equities"

KnownExchange(q) == q.exchange \in Exchanges \cup {"*", Omitted}
BreadthRefused(q) ==
    \/ ~KnownExchange(q)
    \/ Omitted \notin {q.population, Legacy(q)} /\ q.population # Legacy(q)

-----------------------------------------------------------------------------
(* The two sources.                                                        *)

_use_sector_summary(q) ==
    /\ q.level = "sector" /\ Population(q) # "all" /\ ~q.unknown
    /\ q.minPrice = Omitted
    /\ q.exchange \in Canonical \cup {"*", Omitted}

Materialized(t, type, exchange) ==
    {x \in Rows(t) : x.type = type /\ x.exchange = IF exchange = Omitted THEN "*" ELSE exchange}
SummaryType(q) == IF Population(q) = "equities" THEN "EQ" ELSE "CS"
Summary(q) == Materialized("shadow", SummaryType(q), q.exchange)

\* _where_clause without its dates.
RawScope(q) ==
    {x \in Rows("data") :
        /\ q.exchange \notin {"*", Omitted} => x.exchange = q.exchange
        /\ Population(q) = "cs" => x.type = "CS"
        /\ Population(q) = "equities" => x.type \in {"CS", "UN"}
        /\ (q.exchange = "*" \/ (q.exchange = Omitted /\ Population(q) # "all"))
              => x.exchange \in Canonical
        /\ q.minPrice # Omitted => x.price >= q.minPrice
        /\ ~q.unknown => x.sector # Omitted}

\* _latest_weekdate, which knows only the exchanges of the scope.
RawWeek(q) ==
    LatestWeek({x \in Rows("data") :
        IF q.exchange \notin {"*", Omitted} THEN x.exchange = q.exchange
        ELSE (q.exchange = "*" \/ Population(q) # "all") => x.exchange \in Canonical})

Count(S, trends) == Cardinality({x \in S : x.trend \in trends})

\* AVG to the hundredth, over the classified rows; nothing to average sorts last.
Average(S, column) ==
    LET C == {x \in S : x.trend \in Bullish \cup Bearish}
    IN  IF C = {} THEN -1
        ELSE (100 * MapThenSumSet(LAMBDA x : x[column], C)) \div Cardinality(C)

\* One row of _breadth_sql after _postprocess.
Breadth(week, key, S) ==
    LET bull == Count(S, Bullish)
        bear == Count(S, Bearish)
        neutral == Count(S, Neutral)
    IN  [week |-> week, key |-> key, observed |-> Cardinality(S), classified |-> bull + bear,
         bull |-> bull, neutral |-> neutral,
         unclassified |-> Max({0, Cardinality(S) - bull - bear - neutral}),
         rsi |-> Average(S, "rsi"), mt |-> Average(S, "mt_cnt"), score |-> 0, rank |-> 0]

\* GROUP BY weekdate and a level of the sector tree.
_breadth_sql(S, level) ==
    {Breadth(g[1], g[2], {x \in S : x.week = g[1] /\ x[level] = g[2]}) :
        g \in {<<x.week, x[level]>> : x \in S}}

\* What a published summary is made of: a security type, or EQ for both kinds of equities, on an
\* exchange, or "*" for the canonical ones.
SummaryScope(S, type, exchange) ==
    {x \in S : /\ x.sector # Omitted
               /\ IF type = "EQ" THEN x.type \in {"CS", "UN"} ELSE x.type = type
               /\ IF exchange = "*" THEN x.exchange \in Canonical ELSE x.exchange = exchange}

\* The weekly run: a summary row is made of the rows of its week, all of them loaded before.
ASSUME SummaryAssumption ==
    \A b \in BatchId : "shadow" \in DOMAIN Batch[b].rows =>
        \A x \in Batch[b].rows["shadow"] :
            /\ WholeAt(Batch[b].needs, "data", x.week)
            /\ x.row \in _breadth_sql(SummaryScope(RowsAt(Batch[b].needs, "data"),
                                                   x.type, x.exchange), "sector")

\* _breadth_summary_sql: a published row is one of them.
Stored(x) == x.row

-----------------------------------------------------------------------------
(* Breadth.                                                                *)

BreadthPath == {"breadth/latest", "breadth/history"}
AtBreadth(step) == query.path \in BreadthPath /\ pc = step

\* _explicit_shadow_range_available, in a connection of its own.
BreadthRange ==
    /\ AtBreadth("called") /\ _use_sector_summary(query) /\ ~Bare(query)
    /\ LET weeks == {x.week : x \in Summary(query)} IN
       IF weeks = {} THEN Respond(503)
       ELSE IF /\ query.start # 0 => Min(weeks) <= query.start /\ query.start <= Max(weeks)
               /\ query.end # 0 => query.end >= Min(weeks)
       THEN ResolveWeek(0, "raw", "ranged")
       ELSE ResolveWeek(query.start, "raw", "anchored")

\* _latest_summary_weekdate, in another: no summary is no answer.
BreadthAnchor ==
    /\ \/ AtBreadth("ranged")
       \/ AtBreadth("called") /\ _use_sector_summary(query) /\ Bare(query)
    /\ LET latest == LatestWeek(Summary(query)) IN
       IF latest = 0 THEN Respond(503)
       ELSE ResolveWeek(IF Bare(query) THEN latest ELSE query.start, "shadow", "anchored")

BreadthProbeFails ==
    /\ AtBreadth("ranged") \/ (AtBreadth("called") /\ _use_sector_summary(query))
    /\ Respond(503)

BreadthRaw ==
    /\ AtBreadth("called") /\ ~_use_sector_summary(query)
    /\ IF query.path = "breadth/latest" /\ Bare(query) /\ RawWeek(query) = 0 THEN Respond(404)
       ELSE ResolveWeek(IF Bare(query) THEN RawWeek(query) ELSE query.start, "raw", "anchored")

BreadthRows(start, end) ==
    IF source = "shadow" THEN {Stored(x) : x \in Between(Summary(query), start, end)}
    ELSE _breadth_sql(Between(RawScope(query), start, end), query.level)

\* A weekdate given to the latest endpoint is both its bounds.
breadth_sector_latest ==
    /\ At("breadth/latest", "anchored")
    /\ SendRows(BreadthRows(anchor, anchor), <<Desc("bull"), Desc("rsi")>>, query.limit, anchor)

breadth_sector_history ==
    /\ At("breadth/history", "anchored")
    /\ LET bounds == HistoryWindow(query.start, query.end, anchor)
       IN  SendHistory(BreadthRows(bounds.start, bounds.end),
                       <<Asc("week"), Desc("bull"), Desc("rsi")>>, query.limit, bounds, FALSE)

-----------------------------------------------------------------------------
(* Leadership.                                                             *)

LeadershipRefused(q) == q.exchange \notin Exchanges \cup {Omitted} \/ q.type = "EQ"
RotationRefused(q) == ~KnownExchange(q)

\* _rotation_raw_scope.
TypeScope(q) ==
    {x \in Rows("data") :
        /\ IF q.type = "EQ" THEN x.type \in {"CS", "UN"} ELSE x.type = q.type
        /\ IF q.exchange = "*" THEN x.exchange \in Canonical
           ELSE q.exchange # Omitted => x.exchange = q.exchange}

Leaders(q) ==
    {x \in Between(TypeScope(q), anchor, anchor) :
        x.rsi >= q.knobs.min_rsi /\ x.mt_cnt >= q.knobs.min_mt_cnt /\ x.sector # Omitted}
LeaderOrder == <<Desc("rsi"), Desc("mt_cnt"), Asc("id")>>

LeadershipWeek ==
    /\ At("leadership/latest", "called")
    /\ IF query.week # 0 THEN ResolveWeek(query.week, "raw", "anchored")
       ELSE IF TypeScope(query) = {} THEN Respond(404)
       ELSE ResolveWeek(LatestWeek(TypeScope(query)), "raw", "anchored")

\* Mutant: the second list is read in another connection.
LeadershipOverall_Closed ==
    /\ At("leadership/latest", "anchored")
    /\ \E s \in FirstInOrder(Leaders(query), LeaderOrder, query.limit) :
          answer' = [answer EXCEPT !.week = anchor, !.rows = s]
    /\ matched' = Leaders(query)
    /\ pc' = "overall"
    /\ Static
    /\ UNCHANGED <<view, anchor, source, found, first>>

\* leadership_summary_latest: three lists from one connection.
LeadershipOverall ==
    /\ At("leadership/latest", "anchored")
    /\ \E s \in FirstInOrder(Leaders(query), LeaderOrder, query.limit) :
          answer' = [answer EXCEPT !.week = anchor, !.rows = s]
    /\ matched' = Leaders(query)
    /\ view' = Snapshot
    /\ pc' = "overall"
    /\ Static
    /\ UNCHANGED <<anchor, source, found, first>>

\* Ranks within a bucket, as the user variables count them.
Ahead(S, x, level) == {y \in S : y[level] = x[level] /\ Precedes(LeaderOrder, y, x)}

leadership_summary_latest ==
    /\ At("leadership/latest", "overall")
    /\ LET top(level) == {x \in Leaders(query) :
                             Cardinality(Ahead(Leaders(query), x, level)) < query.limitBucket}
       IN  answer' = [answer EXCEPT !.status = 200,
                        !.extra = [sectors |-> top("sector"), groups |-> top("industry_group")]]
    /\ view' = Omitted
    /\ pc' = "done"
    /\ Static
    /\ UNCHANGED <<anchor, source, found, first, matched>>

\* _use_rotation_summary.
UseRotation(q) == q.type \in {"CS", "EQ"} /\ q.exchange \in Canonical \cup {"*", Omitted}

\* _current_rotation_summary_anchor, asked for whatever the bounds are.
RotationAnchor ==
    /\ At("rotation/history", "called") /\ UseRotation(query)
    /\ LET latest == LatestWeek(Materialized("shadow", query.type, query.exchange))
       IN  IF latest = 0 THEN Respond(503) ELSE ResolveWeek(latest, "shadow", "anchored")

RotationProbeFails ==
    /\ At("rotation/history", "called") /\ UseRotation(query)
    /\ Respond(503)

RotationRaw ==
    /\ At("rotation/history", "called") /\ ~UseRotation(query)
    /\ ResolveWeek(IF Bare(query) THEN LatestWeek(TypeScope(query)) ELSE 0, "raw", "anchored")

\* leadership_score: avg_rsi * bull_pct + avg_mt_cnt / 4, to the hundredth.
Score(x) == IF x.classified = 0 THEN -1 ELSE (x.rsi * x.bull) \div x.classified + x.mt \div 4

\* _rotation_summary_sql and _rotation_raw_sql: ranks within each week.
RankInWeek(S, x) ==
    1 + Cardinality({y \in S : y.week = x.week /\ Precedes(<<Desc("score"), Asc("key")>>, y, x)})
Ranked(S, topK) ==
    LET scored == {[x EXCEPT !.score = Score(x)] : x \in S}
    IN  {[x EXCEPT !.rank = RankInWeek(scored, x)] :
            x \in {y \in scored : topK = Omitted \/ RankInWeek(scored, y) <= topK}}

leadership_rotation_history ==
    /\ At("rotation/history", "anchored")
    /\ LET bounds == HistoryWindow(query.start, query.end, anchor)
           rows == IF source = "shadow"
                   THEN {Stored(x) : x \in Between(Materialized("shadow", query.type, query.exchange),
                                                    bounds.start, bounds.end)}
                   ELSE _breadth_sql({x \in Between(TypeScope(query), bounds.start, bounds.end) :
                                         x.sector # Omitted}, "sector")
       IN  SendHistory(Ranked({x \in rows : x.observed >= query.minConstituents}, query.topK),
                       <<Asc("week"), Asc("rank")>>, query.limit, bounds, FALSE)

BreadthNext ==
    \/ BreadthRange \/ BreadthAnchor \/ BreadthProbeFails \/ BreadthRaw
    \/ breadth_sector_latest \/ breadth_sector_history
    \/ LeadershipWeek \/ LeadershipOverall \/ leadership_summary_latest
    \/ RotationAnchor \/ RotationProbeFails \/ RotationRaw \/ leadership_rotation_history
=============================================================================
