--------------------------- MODULE PortfolioRoutes ---------------------------
(***************************************************************************)
(* Portfolios judged against the market (routers/portfolio.py): one is      *)
(* constructed, one of the caller's is evaluated, or two are compared.  The *)
(* caller's weights are in hundredths and scores in ten-thousandths, the   *)
(* four places they are rounded to.                                         *)
(***************************************************************************)
EXTENDS RegimeRoutes

PortfolioPath == {"portfolio/construct", "portfolio/evaluate", "portfolio/compare"}

-----------------------------------------------------------------------------
(* What the bodies alone decide.                                           *)

\* resolve_construct_request.
ConstructRefused(q) ==
    \/ q.universe # "top"
    \/ q.bias \notin {"auto", "bullish", "bearish"}
    \/ q.exchange # Omitted /\ q.exchange \notin Exchanges

WeightSum(ps) == SumFunction([i \in DOMAIN ps |-> ps[i].weight])

\* _parse_and_validate_positions.
PositionsRefused(ps) ==
    \/ \E i \in DOMAIN ps : ~PairParses(ps[i].pair) \/ ps[i].weight <= 0
    \/ \E i, j \in DOMAIN ps : i # j /\ ps[i].pair = ps[j].pair
    \/ WeightSum(ps) \notin 99 .. 101

\* A body lists finitely many positions, and a weight is a number of hundredths.
ASSUME PositionsAssumption ==
    \A q \in Query : \A ps \in {q.left, q.right} :
        IsFiniteSet(DOMAIN ps) /\ \A i \in DOMAIN ps : ps[i].weight \in Int

PortfolioRefused(q) ==
    CASE q.path = "portfolio/construct" -> ConstructRefused(q)
      [] q.path = "portfolio/evaluate" -> PositionsRefused(q.left)
      [] OTHER -> PositionsRefused(q.left) \/ PositionsRefused(q.right)

-----------------------------------------------------------------------------
(* The market the positions are judged against, and their judgement.        *)

\* _load_regime_context; the connection stays open.
PortfolioWeeks ==
    /\ query.path \in PortfolioPath /\ pc = "called"
    /\ LET weeks == NewestWeeks(EligibleWeeks(0), 5)
       IN  IF weeks = <<>> THEN Respond(503)
           ELSE /\ found' = weeks
                /\ anchor' = weeks[1]
                /\ view' = Snapshot
                /\ pc' = "weeks"
                /\ Static
                /\ UNCHANGED <<source, answer, first, matched>>

\* The nearest whole number to n / d.
Rounded(n, d) == (2 * n + d) \div (2 * d)

\* A row as the endpoints evaluate it.
Judge(x, s) ==
    LET bias == symbol_bias(x.trend)
        aligned == alignment(bias, classify_regime(s))
    IN  [week |-> x.week, id |-> x.id, symbol |-> x.symbol, exchange |-> x.exchange, bias |-> bias,
         alignment |-> aligned,
         confidence |-> decision_confidence(aligned, bias, x.trend_cnt, x.rsi, s),
         score |-> Rounded(100 * decision_score(aligned, bias, x.trend_cnt, x.rsi, s), s.d)]

CommonStocks(week) == {x \in Rows("data") : x.week = week /\ x.type = "CS"}

-----------------------------------------------------------------------------
(* construct_portfolio.                                                    *)

\* _resolve_trend_codes: the classified rows of the bias, or of both in a mixed market.
OfBias(S, bias, regime) ==
    LET side == IF bias = "auto" THEN regime ELSE bias
    IN  IF side = "mixed" THEN Classified(S) ELSE Side(S, side)

InPortfolioScope(S) ==
    {x \in S : IF query.exchange # Omitted THEN x.exchange = query.exchange
               ELSE x.exchange \in {"N", "Q", "A"}}

\* not stim_is_stale: the newest estimates in scope are of the portfolio's week.
StimIsCurrent(means, week) == means # {} /\ LatestWeek(means) >= week

\* The weekly run: before the estimates of a week come the rows they are made of, so that
\* estimates may be older than the rows, which is what stim_is_stale looks for, and never newer.
ASSUME EstimatesAssumption ==
    \A b \in BatchId : "means" \in DOMAIN Batch[b].rows =>
        \A r \in Batch[b].rows["means"] : \E c \in Batch[b].needs :
            /\ "data" \in DOMAIN Batch[c].rows
            /\ \E x \in Classified(Equities(Batch[c].rows["data"])) : r.week <= x.week

\* The estimates that break ties: of the newest week, with a spread.
Estimates(week) ==
    LET means == InPortfolioScope(Rows("means"))
    IN  IF StimIsCurrent(means, week)
        THEN {r \in means : r.week = LatestWeek(means) /\ r.x13wksd # 0} ELSE {}
EstimatesOf(x, estimates) ==
    {r \in estimates : r.symbol = x.symbol /\ r.exchange = x.exchange}

RiskAdjusted(r) == (10000 * r.x13wk) \div r.x13wksd

\* The hundredths of the covered values are cut off and the rest mapped to 0 .. 10000.
Percentile(v, values) ==
    LET n == Len(values)
        high == IF (99 * n) \div 100 < n - 1 THEN (99 * n) \div 100 ELSE n - 1
        lo == values[1 + n \div 100]
        hi == values[1 + high]
        kept == IF v < lo THEN lo ELSE IF v > hi THEN hi ELSE v
    IN  IF lo = hi THEN 5000 ELSE ((kept - lo) * 10000) \div (hi - lo)

Covered(S, estimates) == {x \in S : EstimatesOf(x, estimates) # {}}
ValueOf(x, estimates) == RiskAdjusted(CHOOSE r \in EstimatesOf(x, estimates) : TRUE)

\* The candidates with what they are ranked by; -1 stands for no estimate.
Candidates(S, estimates, s) ==
    LET covered == SetToSeq(Covered(S, estimates))
        values == SortSeq([i \in DOMAIN covered |-> ValueOf(covered[i], estimates)],
                          LAMBDA a, b : a < b)
    IN  {[judged |-> Judge(x, s), score |-> Judge(x, s).score, id |-> x.id, week |-> x.week,
          percentile |-> IF x \in Covered(S, estimates)
                         THEN Percentile(ValueOf(x, estimates), values) ELSE -1] : x \in S}

\* Instruments are numbered in the order of their symbols.
RankOrder == <<Desc("score"), Desc("percentile"), Asc("id")>>

MeanScore(rows) ==
    Rounded(SumFunction([i \in DOMAIN rows |-> rows[i].score]), Len(rows))

\* Equal weights, in ten-thousandths.
EqualWeight(rows) == Rounded(10000, Len(rows))

construct_portfolio ==
    /\ At("portfolio/construct", "weeks")
    /\ \E scores \in {compute_scores_by_week(found)} :
       LET s == scores[1]
           S == OfBias(InPortfolioScope(CommonStocks(anchor)), query.bias, classify_regime(s))
           ranked == Candidates(S, Estimates(anchor), s)
       IN  IF S = {} THEN Respond(422)
           ELSE \E rows \in FirstInOrder(ranked, RankOrder, query.limit) :
                  /\ answer' = [answer EXCEPT !.status = 200, !.week = anchor, !.rows = rows,
                                    !.extra = [market |-> ForecastOf(scores),
                                               weight |-> EqualWeight(rows),
                                               score |-> MeanScore(rows)]]
                  /\ matched' = ranked
                  /\ pc' = "done"
                  /\ view' = Omitted
                  /\ Static
                  /\ UNCHANGED <<anchor, source, found, first>>

-----------------------------------------------------------------------------
(* evaluate_portfolio and compare_portfolios.                               *)

\* _evaluate_positions_helper: the found positions, judged.
Evaluated(ps, week, s) ==
    UNION {{[weight |-> ps[i].weight, judged |-> Judge(x, s)] :
               x \in {y \in CommonStocks(week) : /\ y.symbol = ps[i].pair.symbol
                                                 /\ y.exchange = ps[i].pair.exchange}} :
           i \in DOMAIN ps}

\* Mutant: a missing position keeps its share of the weight.
FoundWeight_Submitted(F) == 100

\* The weight the found positions are normalised by.
FoundWeight(F) == MapThenSumSet(LAMBDA p : p.weight, F)

\* What they add up to, before the division by FoundWeight.
WeightedSum(F, value) == MapThenSumSet(LAMBDA p : p.weight * value[p], F)

SidedScore(F, side) ==
    LET S == {p \in F : p.judged.bias = side} IN WeightedSum(S, [p \in S |-> p.judged.score])

_agg_portfolio_bias(F) ==
    LET net == SidedScore(F, "bullish") - SidedScore(F, "bearish")
    IN  IF net >= 500 * FoundWeight(F) THEN "bullish"
        ELSE IF net <= -500 * FoundWeight(F) THEN "bearish" ELSE "mixed"

ConfidenceHundredths(level) == CASE level = "high" -> 100 [] level = "moderate" -> 50 [] OTHER -> 0

_agg_portfolio_confidence(F) ==
    LET sum == WeightedSum(F, [p \in F |-> ConfidenceHundredths(p.judged.confidence)])
    IN  IF sum >= 75 * FoundWeight(F) THEN "high"
        ELSE IF sum >= 40 * FoundWeight(F) THEN "moderate" ELSE "low"

AlignmentValue(a) == CASE a = "aligned" -> 1 [] a = "neutral" -> 0 [] OTHER -> -1

_agg_portfolio_alignment(F) ==
    LET sum == WeightedSum(F, [p \in F |-> AlignmentValue(p.judged.alignment)])
    IN  IF 2 * sum >= FoundWeight(F) THEN "aligned"
        ELSE IF 2 * sum <= -FoundWeight(F) THEN "divergent" ELSE "mixed"

\* The portfolio fields of an evaluation.
_build_portfolio_summary(ps, F) ==
    [submitted |-> ps, found |-> F, missing |-> Len(ps) - Cardinality(F),
     weight |-> FoundWeight(F),
     score |-> Rounded(WeightedSum(F, [p \in F |-> p.judged.score]), FoundWeight(F)),
     bias |-> _agg_portfolio_bias(F), confidence |-> _agg_portfolio_confidence(F),
     alignment |-> _agg_portfolio_alignment(F)]

evaluate_portfolio ==
    /\ At("portfolio/evaluate", "weeks")
    /\ \E scores \in {compute_scores_by_week(found)} :
       LET F == Evaluated(query.left, anchor, scores[1])
       IN  IF F = {} THEN Respond(422)
           ELSE Finish(<<>>, [market |-> ForecastOf(scores),
                              left |-> _build_portfolio_summary(query.left, F)])

ALIGN_RANK(a) == CASE a = "aligned" -> 2 [] a = "mixed" -> 1 [] OTHER -> 0
CONF_RANK(c) == CASE c = "high" -> 2 [] c = "moderate" -> 1 [] OTHER -> 0
Advantage(l, r) == IF l > r THEN "left" ELSE IF r > l THEN "right" ELSE "tie"

\* Scores that differ by ten ten-thousandths decide, then the alignment.
Winner(delta, aligned) ==
    IF delta >= 10 THEN "left" ELSE IF delta <= -10 THEN "right" ELSE aligned

_compare_summary(l, r) ==
    LET aligned == Advantage(ALIGN_RANK(l.alignment), ALIGN_RANK(r.alignment))
    IN  [delta |-> l.score - r.score, score |-> Advantage(l.score, r.score),
         alignment |-> aligned,
         confidence |-> Advantage(CONF_RANK(l.confidence), CONF_RANK(r.confidence)),
         winner |-> Winner(l.score - r.score, aligned),
         overlap |-> {l.submitted[i].pair : i \in DOMAIN l.submitted}
                     \cap {r.submitted[i].pair : i \in DOMAIN r.submitted}]

compare_portfolios ==
    /\ At("portfolio/compare", "weeks")
    /\ \E scores \in {compute_scores_by_week(found)} :
       LET L == Evaluated(query.left, anchor, scores[1])
           R == Evaluated(query.right, anchor, scores[1])
           left == _build_portfolio_summary(query.left, L)
           right == _build_portfolio_summary(query.right, R)
       IN  IF L = {} \/ R = {} THEN Respond(422)
           ELSE Finish(<<>>, [market |-> ForecastOf(scores), left |-> left, right |-> right,
                              comparison |-> _compare_summary(left, right)])

PortfolioNext ==
    \/ PortfolioWeeks
    \/ construct_portfolio \/ evaluate_portfolio \/ compare_portfolios
=============================================================================
