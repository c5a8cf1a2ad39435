---------------------------- MODULE SymbolRoutes ----------------------------
(***************************************************************************)
(* The endpoints about one instrument: prices, indicators, ST-IM estimates  *)
(* (routers/prices.py, indicators.py, stim.py) and the resolution of a      *)
(* symbol (instruments.py).                                                 *)
(***************************************************************************)
EXTENDS WeeklyTables

\* _resolve_symbol_exchange refuses: no instrument named, or none that exists.
SymbolRefused(q) ==
    IF q.pair # Omitted THEN ~PairParses(q.pair)
    ELSE q.symbol = Omitted \/ q.exchange = Omitted \/ q.exchange \notin Exchanges

OfSymbol(S) == {x \in S : x.symbol = Symbol /\ x.exchange = Exchange}
CommonStock(S) == {x \in S : query.csOnly => x.type = "CS"}

Newest == <<Desc("week")>>

\* prices_latest; indicators_latest selects other columns of the same row.
prices_latest(path) ==
    /\ At(path, "called")
    /\ LET rows == CommonStock(OfSymbol(Rows("data")))
       IN  IF rows = {} THEN Respond(404) ELSE SendRows(rows, Newest, 1, LatestWeek(rows))
indicators_latest == prices_latest("indicators/latest")

\* prices_history: the newest rows, sent oldest first, and no default window.
prices_history(path) ==
    /\ At(path, "called")
    /\ SendHistory(Between(CommonStock(OfSymbol(Rows("data"))), query.start, query.end),
                   Newest, query.limit, CallerBounds, TRUE)
indicators_history == prices_history("indicators/history")

-----------------------------------------------------------------------------
(* ST-IM estimates.                                                        *)

\* stim_latest takes the estimate in one connection ...
StimEstimate ==
    /\ At("stim/latest", "called")
    /\ LET rows == OfSymbol(Rows("means"))
       IN  found' \in IF rows = {} THEN {Omitted} ELSE {x \in rows : x.week = LatestWeek(rows)}
    /\ pc' = "estimated"
    /\ Static
    /\ UNCHANGED <<view, anchor, source, answer, first, matched>>

\* _fetch_latest_weekdate_st_data, in a second one.
DataWeek == LatestWeek(OfSymbol(Rows("data")))

stim_latest ==
    /\ At("stim/latest", "estimated")
    /\ IF found = Omitted THEN Respond(404)
       ELSE /\ answer' = [answer EXCEPT !.status = 200, !.week = found.week, !.rows = <<found>>,
                             !.extra = [dataWeek |-> DataWeek, isStale |-> found.week < DataWeek]]
            /\ pc' = "done"
            /\ Static
            /\ UNCHANGED <<view, anchor, source, found, first, matched>>

stim_history ==
    /\ At("stim/history", "called")
    /\ SendHistory(Between(OfSymbol(Rows("means")), query.start, query.end),
                   Newest, query.limit, CallerBounds, TRUE)

\* The first and the last week that gaps are looked for in; 0 where unbounded.
GapStart == IF query.start # 0 \/ answer.rows = <<>> THEN query.start ELSE answer.rows[1].week
GapEnd ==
    IF query.end # 0 \/ answer.rows = <<>> THEN query.end ELSE answer.rows[Len(answer.rows)].week

WeeksOf(S) == {x.week : x \in S}

\* include_gaps: in one more connection, the weeks with data and no estimate.
StimGaps ==
    /\ At("stim/history", "gaps")
    /\ LET data == WeeksOf(Between(OfSymbol(Rows("data")), GapStart, GapEnd))
           means == WeeksOf(Between(OfSymbol(Rows("means")), GapStart, GapEnd))
       IN  answer' = [answer EXCEPT
                        !.extra = [gaps |-> IF GapStart = 0 \/ GapEnd = 0 THEN {}
                                            ELSE data \ means]]
    /\ pc' = "done"
    /\ Static
    /\ UNCHANGED <<view, anchor, source, found, first, matched>>

\* ... and an error there is an answer without gaps.
StimGapsFail ==
    /\ At("stim/history", "gaps")
    /\ answer' = [answer EXCEPT !.extra = [gaps |-> {}]]
    /\ pc' = "done"
    /\ Static
    /\ UNCHANGED <<view, anchor, source, found, first, matched>>

-----------------------------------------------------------------------------
(* Instruments, from st_mast; neither endpoint is paid for.                 *)

instrument_lookup ==
    /\ At("instruments/lookup", "called")
    /\ LET rows == CommonStock({x \in Rows("mast") : x.symbol = query.symbol})
       IN  IF rows = {} THEN Respond(404)
           ELSE SendRows(rows, <<Asc("exchangeOrder")>>, query.limit, 0)

\* The checks of instrument_resolve before its query.
ResolveRefused(q) ==
    IF q.pair # Omitted THEN ~PairParses(q.pair)
    ELSE q.symbol = Omitted \/ (q.exchange # Omitted /\ q.exchange \notin Exchanges)

\* The one match, or the one on the preferred exchange.
Resolved(rows) ==
    IF Cardinality(rows) = 1 THEN rows ELSE {x \in rows : x.exchange = query.prefer}

instrument_resolve ==
    /\ At("instruments/resolve", "called")
    /\ LET one == query.pair # Omitted \/ query.exchange # Omitted
           rows == CommonStock(IF one THEN OfSymbol(Rows("mast"))
                               ELSE {x \in Rows("mast") : x.symbol = query.symbol})
       IN  IF ResolveRefused(query) THEN Respond(400)
           ELSE IF rows = {} THEN Respond(404)
           ELSE IF one \/ Cardinality(rows) = 1 THEN SendRows(rows, <<Asc("id")>>, 1, 0)
           ELSE IF query.prefer \notin Exchanges THEN Respond(400)
           ELSE IF Cardinality(Resolved(rows)) # 1 THEN Respond(409)
           ELSE SendRows(Resolved(rows), <<Asc("id")>>, 1, 0)

SymbolNext ==
    \/ prices_latest("prices/latest") \/ prices_history("prices/history")
    \/ indicators_latest \/ indicators_history
    \/ StimEstimate \/ stim_latest \/ stim_history \/ StimGaps \/ StimGapsFail
    \/ instrument_lookup \/ instrument_resolve
=============================================================================
