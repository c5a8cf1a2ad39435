---------------------------- MODULE RegimeRoutes ----------------------------
(***************************************************************************)
(* The market regime, the market epoch and the evaluation of a symbol       *)
(* (routers/market.py, decision.py), over the queries of                    *)
(* services/regime_queries.py and epoch_queries.py.                         *)
(***************************************************************************)
EXTENDS WeeklyTables, Decisions

Equities(S) == {x \in S : x.type \in {"CS", "UN"} /\ x.exchange \in {"A", "N", "Q", "T"}}
Side(S, bias) == {x \in S : symbol_bias(x.trend) = bias}
Classified(S) == {x \in S : symbol_bias(x.trend) # "neutral"}

\* fetch_eligible_regime_weekdates: the weeks with a classified row.
EligibleWeeks(start) == {x.week : x \in Between(Classified(Equities(Rows("data"))), start, 0)}

\* The newest n of them, newest first.
NewestWeeks(weeks, n) ==
    LET s == CHOOSE s \in FirstInOrder({[week |-> w] : w \in weeks}, <<Desc("week")>>, n) : TRUE
    IN  [i \in DOMAIN s |-> s[i].week]

\* fetch_regime_trend_aggregates, of one week.
WeekRows(week) == {x \in Equities(Rows("data")) : x.week = week}

compute_regime_score(S) ==
    [n |-> Cardinality(Side(S, "bullish")) - Cardinality(Side(S, "bearish")),
     d |-> Cardinality(Classified(S))]

\* A week without classified rows has no score and no snapshot, and is left out.
Scored(weeks) ==
    LET scored[n \in 0 .. Len(weeks)] ==
            IF n = 0 THEN <<>>
            ELSE IF Classified(WeekRows(weeks[n])) = {} THEN scored[n - 1]
            ELSE Append(scored[n - 1], weeks[n])
    IN  scored[Len(weeks)]

compute_scores_by_week(weeks) ==
    [i \in DOMAIN Scored(weeks) |-> compute_regime_score(WeekRows(Scored(weeks)[i]))]

\* _regime_snapshot.
Snapshot1(week) ==
    LET S == WeekRows(week)
        score == compute_regime_score(S)
    IN  [week |-> week, score |-> score, regime |-> classify_regime(score),
         confidence |-> classify_confidence(score),
         bull |-> Cardinality(Side(S, "bullish")), bear |-> Cardinality(Side(S, "bearish")),
         neutral |-> Cardinality({x \in S : x.trend \in {"--", "="}}),
         unclassified |-> Cardinality({x \in S : symbol_bias(x.trend) = "neutral"
                                                 /\ x.trend \notin {"--", "="}}),
         observed |-> Cardinality(S)]

-----------------------------------------------------------------------------
(* Fractions.                                                              *)

Plus(a, b) == [n |-> a.n * b.d + b.n * a.d, d |-> a.d * b.d]
Minus(a, b) == Plus(a, [b EXCEPT !.n = -@])
Clamped(s) == IF s.n > s.d THEN [n |-> 1, d |-> 1] ELSE IF s.n < -s.d THEN [n |-> -1, d |-> 1] ELSE s

\* avg_delta of compute_forecast_signals: scores are newest first.
AverageDelta(scores) ==
    LET deltas == Len(scores) - 1
        sum[n \in 0 .. deltas] ==
            IF n = 0 THEN [n |-> 0, d |-> 1]
            ELSE Plus(sum[n - 1], Minus(scores[n], scores[n + 1]))
    IN  IF deltas = 0 THEN sum[0] ELSE [sum[deltas] EXCEPT !.d = @ * deltas]

compute_forecast_signals(scores) ==
    LET delta == AverageDelta(scores)
        projected == Clamped(Plus(scores[1], delta))
    IN  [delta |-> delta, projected |-> projected, regime |-> classify_regime(projected),
         direction |-> recent_direction(delta)]

\* The weeks that carry the newest week's label.
Consistent(scores) ==
    Cardinality({i \in DOMAIN scores : classify_regime(scores[i]) = classify_regime(scores[1])})

ForecastOf(scores) ==
    LET forecast == compute_forecast_signals(scores)
    IN  [forecast |-> forecast, current |-> classify_regime(scores[1]), score |-> scores[1],
         scores |-> scores,
         confidence |-> forecast_confidence(Consistent(scores), Len(scores), scores[1],
                                            forecast.delta)]

-----------------------------------------------------------------------------
(* The market endpoints: the weeks, then their rows, in one connection.     *)

\* market_regime_latest, _history and _forecast up to their second query;
\* the history probes for one week more and drops it before aggregating.
RegimeWeeks ==
    /\ query.path \in {"regime/latest", "regime/history", "regime/forecast"} /\ pc = "called"
    /\ LET wanted == IF query.path = "regime/latest" THEN 1 ELSE query.limit
           weeks == EligibleWeeks(IF query.path = "regime/history" THEN query.start ELSE 0)
           probed == NewestWeeks(weeks, ProbeLimit(wanted))
           split == SplitProbe(probed, wanted)
       IN  IF weeks = {} THEN Respond(503)
           ELSE /\ found' = split.rows
                /\ anchor' = split.rows[1]
                /\ answer' = [answer EXCEPT !.truncated = query.path = "regime/history"
                                                          /\ split.truncated,
                                            !.start = query.start]
                /\ matched' = {[week |-> w] : w \in weeks}
                /\ view' = Snapshot
                /\ pc' = "weeks"
                /\ Static
                /\ UNCHANGED <<source, first>>

Finish(rows, extra) ==
    /\ answer' = [answer EXCEPT !.status = 200, !.week = anchor, !.rows = rows, !.extra = extra]
    /\ pc' = "done"
    /\ view' = Omitted
    /\ Static
    /\ UNCHANGED <<anchor, source, found, first, matched>>

\* A week whose rows are not classified gives no snapshot.
market_regime ==
    /\ query.path \in {"regime/latest", "regime/history"} /\ pc = "weeks"
    /\ LET rows == [i \in DOMAIN Scored(found) |-> Snapshot1(Scored(found)[i])]
       IN  IF query.path = "regime/latest" /\ rows = <<>> THEN Respond(503)
           ELSE Finish(rows, Omitted)

\* A quantifier over one value: TLC computes what it binds once, and a LET at each of its uses.
market_regime_forecast ==
    /\ At("regime/forecast", "weeks")
    /\ \E scores \in {compute_scores_by_week(found)} :
          IF scores = <<>> THEN Respond(503) ELSE Finish(<<>>, ForecastOf(scores))

\* The epochs are persisted by another program and read as they are.
market_epoch_latest ==
    /\ At("epoch/latest", "called")
    /\ IF Rows("epoch") = {} THEN Respond(503)
       ELSE SendRows(Rows("epoch"), <<Desc("week")>>, 1, LatestWeek(Rows("epoch")))

\* _validate_epoch_history_date_range.
EpochRefused(q) == q.start # 0 /\ q.end # 0 /\ q.start > q.end

market_epoch_history ==
    /\ At("epoch/history", "called")
    /\ LET rows == Between(Rows("epoch"), query.start, query.end)
       IN  IF rows = {} THEN Respond(503)
           ELSE SendHistory(rows, <<Desc("week")>>, query.limit, CallerBounds, FALSE)

-----------------------------------------------------------------------------
(* evaluate_symbol.                                                        *)

\* resolve_instrument_identity.
IdentityRefused(q) ==
    IF q.pair # Omitted THEN ~PairParses(q.pair)
    ELSE q.symbol = Omitted \/ q.exchange \notin Exchanges

\* Mutant: the weeks are those the symbol has.
SymbolWeek_Own(week) ==
    LET own == {x \in Equities(Rows("data")) : x.symbol = Symbol /\ x.exchange = Exchange}
    IN  {x \in own : x.week = LatestWeek(own)}

\* The listed equity's row in the newest eligible week.
SymbolWeek(week) ==
    {x \in Rows("data") : /\ x.week = week /\ x.type \in {"CS", "UN"}
                          /\ x.symbol = Symbol /\ x.exchange = Exchange}

EvaluateWeeks ==
    /\ At("decision/evaluate", "called")
    /\ LET weeks == NewestWeeks(EligibleWeeks(0), 5)
       IN  IF weeks = <<>> THEN Respond(503)
           ELSE /\ found' = weeks
                /\ anchor' = weeks[1]
                /\ view' = Snapshot
                /\ pc' = "weeks"
                /\ Static
                /\ UNCHANGED <<source, answer, first, matched>>

\* _signal_notes: what is noted of the week's performance and volume.
_signal_notes(x) ==
    (IF x.rsi_updn = "U" THEN {"improving"} ELSE IF x.rsi_updn = "D" THEN {"weakening"} ELSE {})
    \cup (IF x.vol_tag = "HV" THEN {"high volume"}
          ELSE IF x.vol_tag = "LV" THEN {"low volume"} ELSE {})
    \cup (IF x.trend_cnt >= 8 THEN {"mature"} ELSE IF x.trend_cnt = 1 THEN {"new"} ELSE {})
    \cup (IF x.mt_cnt >= 12 THEN {"long-standing"} ELSE {})

evaluate_symbol ==
    /\ At("decision/evaluate", "weeks")
    /\ \E scores \in {compute_scores_by_week(found)} :
       LET rows == SymbolWeek(anchor)
       IN  IF rows = {} THEN Respond(404)
           ELSE IF scores = <<>> THEN Respond(503)
           ELSE \E x \in rows :
                  LET bias == symbol_bias(x.trend)
                      aligned == alignment(bias, classify_regime(scores[1]))
                  IN  Finish(<<x>>,
                        [bias |-> compute_bias(bias, aligned), alignment |-> aligned,
                         confidence |-> decision_confidence(aligned, bias, x.trend_cnt, x.rsi, scores[1]),
                         score |-> decision_score(aligned, bias, x.trend_cnt, x.rsi, scores[1]),
                         market |-> ForecastOf(scores), notes |-> _signal_notes(x)])

RegimeNext ==
    \/ RegimeWeeks \/ market_regime \/ market_regime_forecast
    \/ market_epoch_latest \/ market_epoch_history
    \/ EvaluateWeeks \/ evaluate_symbol
=============================================================================
