----------------------------- MODULE ListRoutes -----------------------------
(***************************************************************************)
(* The ST-IM selections, as a base universe and as the published list       *)
(* (routers/selections.py, selections_published.py), and the screener       *)
(* (screener.py).                                                           *)
(***************************************************************************)
EXTENDS WeeklyTables

\* resolve_selection_filters: an exchange given beside a pair replaces the pair's.
FilterSymbol(q) == IF q.pair # Omitted THEN q.pair.symbol ELSE q.symbol
FilterExchange(q) ==
    IF q.exchange # Omitted THEN q.exchange
    ELSE IF q.pair # Omitted THEN q.pair.exchange ELSE Omitted
FilterRefused(q) ==
    \/ q.pair # Omitted /\ (~q.pair.dash \/ q.pair.exchange \notin Exchanges)
    \/ q.exchange # Omitted /\ q.exchange \notin Exchanges

\* _validate_exchange_values of the latest lists.
ExchangeRefused(q) == q.exchange # Omitted /\ q.exchange \notin Exchanges

\* _validate_published_thresholds: a caller may repeat the criteria, not change them.
ThresholdsRefused(q) == q.minProb \notin {Omitted, 55}

Matches(S, x) == {y \in S : y.week = x.week /\ y.id = x.id}

\* cs_only filters the selections themselves, through the data of their week.
Selected(q, symbol, exchange) ==
    {x \in OnExchange(Rows("select"), exchange) :
        /\ symbol # Omitted => x.symbol = symbol
        /\ q.csOnly => \E y \in Matches(Rows("data"), x) : y.type = "CS"}

AtLeast(S, prob) == IF prob = Omitted THEN S ELSE {x \in S : x.prob13wk >= prob}

\* _published_where: every lower bound beats its base period mean, and prob13wk
\* its threshold; the means are in hundredths of a percent.
Published(S) ==
    {x \in S : /\ x.prob13wk >= 55
              /\ \E r \in Matches(Rows("means"), x) :
                    r.x4wk1 > 0 /\ r.x13wk1 > 219 /\ r.x40wk1 > 645}

\* The weekly run: a week's selections are loaded together, after all the rows they are made of.
ASSUME SelectionsAssumption ==
    \A b \in BatchId : "select" \in DOMAIN Batch[b].rows =>
        \A x \in Batch[b].rows["select"] : \A t \in {"select", "data", "means"} :
            WholeAt({b} \cup Batch[b].needs, t, x.week)

ByProb == <<Desc("prob13wk")>>
NewestByProb == <<Desc("week"), Desc("prob13wk")>>

\* Mutant: the lists are anchored on the weekly data.
SelectionWeek_OfData(path) ==
    /\ At(path, "called")
    /\ IF Rows("data") = {} THEN Respond(404)
       ELSE ResolveWeek(LatestWeek(Rows("data")), "raw", "anchored")

\* The week of the newest selection, in a connection of its own.
SelectionWeek(path) ==
    /\ At(path, "called")
    /\ IF Rows("select") = {} THEN Respond(404)
       ELSE ResolveWeek(LatestWeek(Rows("select")), "raw", "anchored")

\* ... and the list, in another.
selections_latest ==
    /\ At("selections/latest", "anchored")
    /\ SendRows(Between(AtLeast(Selected(query, Omitted, query.exchange), query.minProb),
                        anchor, anchor), ByProb, query.limit, anchor)

selections_published_latest ==
    /\ At("published/latest", "anchored")
    /\ SendRows(Between(Published(Selected(query, Omitted, query.exchange)), anchor, anchor),
                ByProb, query.limit, anchor)

\* Newest first; one instrument's rows are sent oldest first.
OneInstrument(q) == FilterSymbol(q) # Omitted /\ FilterExchange(q) # Omitted

selections_history ==
    /\ At("selections/history", "called")
    /\ SendHistory(Between(AtLeast(Selected(query, FilterSymbol(query), FilterExchange(query)),
                                   query.minProb), query.start, query.end),
                   NewestByProb, query.limit, CallerBounds, OneInstrument(query))

selections_published_history ==
    /\ At("published/history", "called")
    /\ SendHistory(Between(Published(Selected(query, FilterSymbol(query), FilterExchange(query))),
                           query.start, query.end),
                   NewestByProb, query.limit, CallerBounds, OneInstrument(query))

-----------------------------------------------------------------------------
(* The screener.                                                           *)

TrendCodes == {"^+", "^-", "v^", "v+", "v-", "^v"}

\* resolve_screener_filters; Omitted is the default of three bullish codes, and
\* the empty set stands for "all" and for a list of blanks.
ScreenerRefused(q) ==
    \/ q.sort \notin {"rsi", "mt_cnt"}
    \/ ExchangeRefused(q)
    \/ q.trend # Omitted /\ ~(q.trend \subseteq TrendCodes)

InTrend(q, x) ==
    IF q.trend = Omitted THEN x.trend \in {"^+", "^-", "v^"} ELSE q.trend = {} \/ x.trend \in q.trend

ScreenerOrder(q) ==
    (IF q.sort = "rsi" THEN <<Desc("rsi"), Desc("mt_cnt")>> ELSE <<Desc("mt_cnt"), Desc("rsi")>>)
        \o <<Desc("trend_cnt"), Asc("id")>>

\* screener_top looks the week up and reads it in one connection.
ScreenerWeek ==
    /\ At("screener/top", "called")
    /\ IF query.week # 0 THEN ResolveWeekOpen(query.week, "anchored")
       ELSE IF Rows("data") = {} THEN Respond(503)
       ELSE ResolveWeekOpen(LatestWeek(Rows("data")), "anchored")

screener_top ==
    /\ At("screener/top", "anchored")
    /\ SendRows({x \in Between(OnExchange(Rows("data"), query.exchange), anchor, anchor) :
                    /\ x.type = "CS"
                    /\ x.rsi >= query.knobs.min_rsi
                    /\ x.mt_cnt >= query.knobs.min_mt_cnt
                    /\ x.trend_cnt >= query.knobs.min_trend_cnt
                    /\ InTrend(query, x)},
                ScreenerOrder(query), query.limit, anchor)

ListNext ==
    \/ SelectionWeek("selections/latest") \/ selections_latest \/ selections_history
    \/ SelectionWeek("published/latest") \/ selections_published_latest
    \/ selections_published_history
    \/ ScreenerWeek \/ screener_top
=============================================================================
