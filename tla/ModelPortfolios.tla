--------------------------- MODULE ModelPortfolios ---------------------------
(***************************************************************************)
(* The published model portfolios and the strategies behind them            *)
(* (routers/stocktrends_portfolios.py, stocktrends_strategies.py).  The     *)
(* portfolio program closes a position by rewriting its row, so rows of     *)
(* stp_ports and stp_positions come in versions; days are numbered.         *)
(***************************************************************************)
EXTENDS WeeklyTables

ModelPath == {"model/list", "model/detail", "model/returns", "model/summary",
              "model/positions", "model/strategies", "model/strategy", "model/provenance"}

\* The rows as last written.
Written(S) == {x \in S : \A y \in S : y.id = x.id => y.version <= x.version}
Ports == Written(Rows("ports"))
PortRows(t) == {x \in Rows(t) : x.port = query.port}

\* WHERE port_id = ... AND status = 1.
Listed == {x \in Ports : x.status = 1}
Asked == {x \in Listed : x.id = query.port}

list_stocktrends_portfolios ==
    /\ At("model/list", "called")
    /\ SendRows(Listed, <<Asc("id")>>, Cardinality(Listed), 0)

get_stocktrends_portfolio ==
    /\ At("model/detail", "called")
    /\ IF Asked = {} THEN Respond(404) ELSE SendRows(Asked, <<Asc("id")>>, 1, 0)

\* The others find the portfolio and go on in the same connection.
PortfolioLookup ==
    /\ query.path \in {"model/returns", "model/summary", "model/positions", "model/provenance"}
    /\ pc = "called"
    /\ IF Asked = {} THEN Respond(404)
       ELSE /\ found' \in Asked
            /\ view' = Snapshot
            /\ pc' = "listed"
            /\ Static
            /\ UNCHANGED <<anchor, source, answer, first, matched>>

-----------------------------------------------------------------------------
(* Returns and closed positions.                                           *)

Returns == Between(PortRows("returnslog"), query.start, query.end)

\* Mutant: an empty trigger is taken for a close.
Closed_NotNull(S) == {x \in S : x.sell_trigger # Omitted}

\* sell_trigger IS NOT NULL AND sell_trigger <> ''.
Closed(S) == {x \in S : x.sell_trigger \notin {Omitted, ""}}

\* The dates bound the day the position was closed; an open one has none.
ClosedPositions ==
    {x \in Closed(Written(PortRows("positions"))) :
        /\ query.start # 0 => x.date_out # Omitted /\ query.start <= x.date_out
        /\ query.end # 0 => x.date_out # Omitted /\ x.date_out <= query.end}

get_stocktrends_portfolio_returns ==
    /\ At("model/returns", "listed")
    /\ SendRows(Returns, <<Asc("week")>>, Cardinality(Returns), 0)

get_stocktrends_portfolio_positions_history ==
    /\ At("model/positions", "listed")
    /\ SendRows(ClosedPositions, <<Asc("date_out"), Asc("id")>>, Cardinality(ClosedPositions), 0)

Least(S) == IF S = {} THEN Omitted ELSE Min(S)
Greatest(S) == IF S = {} THEN Omitted ELSE Max(S)
Sum(S, value(_)) == MapThenSumSet(value, S)

\* _calculate_roi_summary: gain over the average investment, a year; n / d.
_calculate_roi_summary(S) ==
    LET days == Greatest({x.date_out : x \in S}) - Least({x.date_in : x \in S})
        cost == Sum(S, LAMBDA x : x.total_cost)
        weeks == Sum(S, LAMBDA x : x.weeks_held)
        gain == Sum(S, LAMBDA x : x.gain_loss)
    IN  IF S = {} \/ days <= 0 \/ cost * weeks = 0 THEN Omitted
        ELSE [n |-> gain * Cardinality(S) * 36525, d |-> cost * weeks * 7]

get_stocktrends_portfolio_summary ==
    /\ At("model/summary", "listed")
    /\ LET R == Returns
           P == ClosedPositions
       IN  /\ answer' = [answer EXCEPT !.status = 200, !.extra =
                 [returns |-> Cardinality(R), firstWeek |-> Least({x.week : x \in R}),
                  latestWeek |-> Greatest({x.week : x \in R}),
                  latest |-> {x.total : x \in {y \in R : y.week = LatestWeek(R)}},
                  closed |-> Cardinality(P), firstIn |-> Least({x.date_in : x \in P}),
                  firstOut |-> Least({x.date_out : x \in P}),
                  latestOut |-> Greatest({x.date_out : x \in P}),
                  gain |-> Sum(P, LAMBDA x : x.gain_loss),
                  winning |-> Cardinality({x \in P : x.gain_loss > 0}),
                  losing |-> Cardinality({x \in P : x.gain_loss < 0}),
                  roi |-> _calculate_roi_summary(P)]]
           /\ matched' = P
           /\ pc' = "done"
           /\ view' = Omitted
           /\ Static
           /\ UNCHANGED <<anchor, source, found, first>>

-----------------------------------------------------------------------------
(* Strategies.                                                             *)

Conditions(strategy) == {x \in Rows("condition") : x.strategy = strategy}
BuyConditions(S) == {x \in S : x.buy_sell = "B"}
SellConditions(S) == {x \in S : x.buy_sell = "S"}

\* The counts of a LEFT JOIN over the conditions; those of neither side count in the total.
list_stocktrends_strategies ==
    /\ At("model/strategies", "called")
    /\ SendRows({[id |-> x.id, week |-> 0, buy |-> Cardinality(BuyConditions(Conditions(x.id))),
                  sell |-> Cardinality(SellConditions(Conditions(x.id))),
                  total |-> Cardinality(Conditions(x.id))] : x \in Rows("strategy")},
                <<Asc("id")>>, Cardinality(Rows("strategy")), 0)

\* _strategy_detail_payload of the strategy with this number, or 404.
AnswerStrategy(strategy) ==
    IF {x \in Rows("strategy") : x.id = strategy} = {} THEN Respond(404)
    ELSE /\ answer' = [answer EXCEPT !.status = 200, !.extra =
                [strategy |-> strategy, buy |-> BuyConditions(Conditions(strategy)),
                 sell |-> SellConditions(Conditions(strategy))]]
         /\ matched' = Conditions(strategy)
         /\ pc' = "done"
         /\ view' = Omitted
         /\ Static
         /\ UNCHANGED <<anchor, source, found, first>>

get_stocktrends_strategy ==
    /\ At("model/strategy", "called")
    /\ AnswerStrategy(query.strategy)

\* The strategy of a listed portfolio; some have none.
get_stocktrends_portfolio_strategy ==
    /\ At("model/provenance", "listed")
    /\ AnswerStrategy(found.strategy)

ModelNext ==
    \/ list_stocktrends_portfolios \/ get_stocktrends_portfolio
    \/ PortfolioLookup \/ get_stocktrends_portfolio_returns
    \/ get_stocktrends_portfolio_positions_history \/ get_stocktrends_portfolio_summary
    \/ list_stocktrends_strategies \/ get_stocktrends_strategy
    \/ get_stocktrends_portfolio_strategy
=============================================================================
