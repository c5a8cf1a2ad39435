---------------------------- MODULE MCDataRoutes ----------------------------
(***************************************************************************)
(* Six instruments and three weeks, the newest of which arrives while      *)
(* requests are served; the weeks are 4 and 13 apart for the trend report.  *)
(***************************************************************************)
EXTENDS DataRoutes

MCExchanges == {"A", "B", "N", "Q", "T"}

Instrument == <<
    [symbol |-> "IBM", exchange |-> "N", type |-> "CS", sector |-> 1, industry_group |-> 11, industry |-> 111],
    [symbol |-> "IBM", exchange |-> "B", type |-> "CS", sector |-> 1, industry_group |-> 12, industry |-> 121],
    [symbol |-> "PIP", exchange |-> "A", type |-> "UN", sector |-> 2, industry_group |-> 21, industry |-> 211],
    [symbol |-> "RY", exchange |-> "T", type |-> "CS", sector |-> 1, industry_group |-> 11, industry |-> 111],
    [symbol |-> "SPY", exchange |-> "N", type |-> "TF", sector |-> Omitted, industry_group |-> Omitted,
     industry |-> Omitted],
    [symbol |-> "XOM", exchange |-> "N", type |-> "CS", sector |-> 1, industry_group |-> 11, industry |-> 112]>>

\* Each instrument in each week: trend, its age, the major trend's, and the RSI.
Weekly3 == [w \in {1, 10, 14} |->
    CASE w = 1 -> <<<<"v^", 1, 1, 112>>, <<"v+", 1, 9, 95>>, <<"^+", 3, 12, 104>>,
                    <<"^v", 1, 1, 88>>, <<"=", 2, 2, 100>>, <<"^-", 5, 6, 111>>>>
      [] w = 10 -> <<<<"^+", 4, 10, 125>>, <<"^-", 1, 9, 99>>, <<"v-", 1, 3, 92>>,
                     <<"v+", 1, 10, 101>>, <<"^-", 1, 11, 103>>,
                     <<"^+", 8, 9, 115>>>>
      [] w = 14 -> <<<<"^+", 8, 14, 131>>, <<"v^", 1, 1, 118>>, <<"--", 2, 4, 97>>,
                     <<"^+", 1, 1, 110>>, <<"^+", 5, 15, 140>>,
                     <<"^+", 9, 13, 120>>>>]

DataRow(i, w) ==
    LET t == Weekly3[w][i]
        s == Instrument[i]
    IN  [id |-> i, week |-> w, symbol |-> s.symbol, exchange |-> s.exchange, type |-> s.type,
         sector |-> s.sector, industry_group |-> s.industry_group, industry |-> s.industry,
         trend |-> t[1], trend_cnt |-> t[2], mt_cnt |-> t[3], rsi |-> t[4],
         rsi_updn |-> IF t[4] >= 100 THEN "+" ELSE "-",
         vol_tag |-> IF i = 1 THEN "**" ELSE IF i = 3 THEN "!" ELSE "",
         volume |-> 1000 * i, shares_os |-> 100, price |-> 20 + i * w, price13 |-> 18,
         shortavg |-> 19 + w, longavg |-> 20, pr_change |-> IF w = 10 THEN i - 3 ELSE i,
         rvol |-> i + 5, yr_hi |-> 25, pr_week_hi |-> 24 + (i % 2), yr_lo |-> 9,
         pr_week_lo |-> 9 + (i % 3), rank |-> 0]

Data(S, W) == {DataRow(i, w) : i \in S, w \in W}
Means(S, W) == {[id |-> i, week |-> w, symbol |-> Instrument[i].symbol,
                 exchange |-> Instrument[i].exchange, x13wk |-> i + w, x13wksd |-> i % 4, x4wk1 |-> i, x13wk1 |-> 218 + i,
                 x40wk1 |-> IF w = 10 /\ i = 3 THEN 600 ELSE 700] : i \in S, w \in W}
Select(S, W) == {[id |-> i, week |-> w, symbol |-> Instrument[i].symbol,
                  exchange |-> Instrument[i].exchange, prob13wk |-> 53 + i + (w % 3)] :
                 i \in S, w \in W}
Shadow(W) ==
    UNION {{[id |-> 1, week |-> r.week, type |-> p[1], exchange |-> p[2], row |-> r] :
                r \in _breadth_sql(SummaryScope(Data(1 .. 6, W), p[1], p[2]), "sector")} :
           p \in {"CS", "EQ"} \X (Canonical \cup {"*"})}
Epoch(W) == {[id |-> 1, week |-> w] : w \in W}
Mast == {[id |-> i, week |-> 0, symbol |-> Instrument[i].symbol, type |-> Instrument[i].type,
          exchange |-> Instrument[i].exchange,
          exchangeOrder |-> CASE i = 1 -> 3 [] i = 2 -> 2 [] OTHER -> i] : i \in 1 .. 6}

Commit(t, rows, needs) == [rows |-> (t :> rows), needs |-> needs]
OldWeeks == {1, 10}

Port(i, v, status, strategy) ==
    [id |-> i, week |-> 0, version |-> v, status |-> status, strategy |-> strategy]
Position(i, v, in, out, trigger, gain) ==
    [id |-> i, week |-> IF out = Omitted THEN in ELSE out, port |-> 1, version |-> v, date_in |-> in,
     date_out |-> out, sell_trigger |-> trigger, weeks_held |-> 3, total_cost |-> 100,
     gain_loss |-> gain]
Return(i, w) == [id |-> i, week |-> w, port |-> 1, total |-> 10 * w]
Condition(i, side) == [id |-> i, week |-> 0, strategy |-> 1, buy_sell |-> side]

Commits == <<
    Commit("data", Data(1 .. 6, OldWeeks), {14}),
    Commit("means", Means({1, 3, 4, 6}, OldWeeks), {1}),
    Commit("select", Select({1, 3, 4}, OldWeeks), {1, 2}),
    Commit("shadow", Shadow(OldWeeks), {1, 2, 3}),
    Commit("epoch", Epoch(OldWeeks), {1, 2, 3, 4}),
    Commit("mast", Mast, {1, 2, 3, 4, 5}),
    Commit("data", Data({3, 5}, {14}), 1 .. 6),
    Commit("data", Data({1}, {14}), 1 .. 7),
    Commit("data", Data({2, 4, 6}, {14}), 1 .. 8),
    Commit("means", Means({1, 4, 6}, {14}), 1 .. 9),
    Commit("select", Select({1, 4}, {14}), 1 .. 10),
    Commit("shadow", Shadow({14}), 1 .. 9),
    Commit("epoch", Epoch({14}), (1 .. 9) \cup {12}),
    [rows |-> [ports |-> {Port(1, 1, 1, 1), Port(2, 1, 0, 1), Port(3, 1, 1, 2)},
               returnslog |-> {Return(1, 1), Return(2, 10)},
               positions |-> {Position(1, 1, 1, 10, "stop", -5), Position(2, 1, 1, 10, "", 7),
                              Position(3, 1, 10, Omitted, Omitted, 2)},
               condition |-> {Condition(1, "B"), Condition(2, "S"), Condition(3, "?")},
               strategy |-> {[id |-> 1, week |-> 0]}], needs |-> {}],
    [rows |-> [positions |-> {Position(2, 2, 1, 14, "trend", 9)}, returnslog |-> {Return(3, 14)}],
     needs |-> 1 .. 14],
    Commit("ports", {Port(1, 2, 0, 1), Port(2, 2, 1, 1)}, 1 .. 15)>>

Knobs == [vol_scale |-> 100, min_vol |-> 100000, min_cap |-> 2000, min_price |-> 10, min_rsi |-> 90,
          min_mt_cnt |-> 1, min_trend_cnt |-> 1, lvg_min_pr_chg |-> 0, rvol_min_turnover |-> 7,
          tt_min_price |-> 5, tt_min_range_pct |-> 10, tt_min_4wk_chg |-> 5,
          tt_min_13wk_ma_chg |-> 10]

Ask == [path |-> "", symbol |-> Omitted, exchange |-> Omitted, pair |-> Omitted,
        population |-> Omitted, legacyCs |-> Omitted, csOnly |-> FALSE, type |-> "CS",
        sort |-> "rsi", trend |-> Omitted, start |-> 0, end |-> 0, week |-> 0, limit |-> 2,
        limitBucket |-> 1, minProb |-> Omitted, prefer |-> Omitted, gaps |-> FALSE,
        level |-> "sector", unknown |-> FALSE, minPrice |-> Omitted, minConstituents |-> 1,
        topK |-> Omitted, rpt |-> "topgainers", knobs |-> Knobs,
        universe |-> "top", bias |-> "auto", left |-> <<>>, right |-> <<>>,
        port |-> 1, strategy |-> 1]
Pair(s, e) == [dash |-> TRUE, symbol |-> s, exchange |-> e]
IBM(path) == [Ask EXCEPT !.path = path, !.symbol = "IBM", !.exchange = "N"]
On(path, e) == [Ask EXCEPT !.path = path, !.exchange = e]
To(path) == [Ask EXCEPT !.path = path]

SymbolQuery ==
    {IBM(p) : p \in SymbolPath}
    \cup {[IBM(p) EXCEPT !.limit = 1] : p \in {"prices/history", "indicators/history", "stim/history"}}
    \cup {[IBM("prices/history") EXCEPT !.start = 10, !.csOnly = TRUE],
          [To("prices/latest") EXCEPT !.pair = Pair("PIP", "A"), !.csOnly = TRUE],
          [To("prices/latest") EXCEPT !.symbol = "IBM"],
          [To("stim/latest") EXCEPT !.pair = Pair("IBM", "X")],
          [IBM("stim/history") EXCEPT !.gaps = TRUE],
          [IBM("stim/history") EXCEPT !.gaps = TRUE, !.start = 1, !.end = 14]}
InstrumentQuery ==
    {[To("instruments/lookup") EXCEPT !.symbol = "IBM"],
     [To("instruments/lookup") EXCEPT !.symbol = "PIP", !.csOnly = TRUE],
     [To("instruments/resolve") EXCEPT !.symbol = "IBM"],
     [To("instruments/resolve") EXCEPT !.symbol = "IBM", !.prefer = "N"],
     [To("instruments/resolve") EXCEPT !.symbol = "IBM", !.prefer = "A"],
     [To("instruments/resolve") EXCEPT !.symbol = "RY"],
     [To("instruments/resolve") EXCEPT !.pair = Pair("RY", "T")]}
ListQuery ==
    {To(p) : p \in {"selections/latest", "published/latest", "screener/top",
                    "selections/history", "published/history"}}
    \cup {On("published/latest", "T"), On("selections/latest", "X"), On("screener/top", "T"),
          [On("published/latest", "N") EXCEPT !.csOnly = TRUE, !.limit = 1],
          [To("published/history") EXCEPT !.minProb = 60],
          [To("selections/history") EXCEPT !.pair = Pair("PIP", "N"), !.exchange = "A"],
          [To("selections/history") EXCEPT !.start = 1, !.end = 10, !.minProb = 55],
          [To("screener/top") EXCEPT !.sort = "price"],
          [To("screener/top") EXCEPT !.week = 10, !.sort = "mt_cnt", !.trend = {}]}
ReportQuery ==
    {[On("stwr/latest", "N") EXCEPT !.rpt = r] : r \in REPORTS}
    \cup {[On("stwr/history", "N") EXCEPT !.rpt = r] : r \in {"topgainers", "oldbulls"}}
    \cup {[On("stwr/history", "T") EXCEPT !.start = 10, !.rpt = "activebyvol"],
          [On("stwr/history", "A") EXCEPT !.start = 1, !.limit = 1, !.rpt = "yrlows"],
          [On("stwr/history", "N") EXCEPT !.start = 1, !.end = 14, !.limit = 3],
          [On("stwr/latest", "T") EXCEPT !.limit = 0], [On("stwr/latest", "N") EXCEPT !.week = 10],
          [On("stwr/latest", "N") EXCEPT !.rpt = "none"]}
BreadthQuery ==
    {To(p) : p \in BreadthPath} \cup {On(p, "N") : p \in BreadthPath}
    \cup {[To("breadth/latest") EXCEPT !.population = "all", !.level = "industry_group"],
          [To("breadth/latest") EXCEPT !.population = "all", !.legacyCs = TRUE],
          [To("breadth/latest") EXCEPT !.population = "cs", !.minPrice = 35],
          [To("breadth/history") EXCEPT !.start = 10],
          [To("breadth/history") EXCEPT !.start = 14, !.end = 14, !.legacyCs = TRUE],
          [To("breadth/history") EXCEPT !.unknown = TRUE, !.limit = 1],
          [On("breadth/history", "B") EXCEPT !.level = "industry", !.start = 1, !.limit = 5]}
LeaderQuery ==
    {To("leadership/latest"), On("leadership/latest", "N"), On("leadership/latest", "*"),
     [To("leadership/latest") EXCEPT !.week = 10],
     [To("rotation/history") EXCEPT !.type = "EQ"],
     [On("rotation/history", "N") EXCEPT !.topK = 1, !.start = 1],
     [On("rotation/history", "*") EXCEPT !.type = "UN"],
     [To("rotation/history") EXCEPT !.type = "EQ", !.minConstituents = 2, !.start = 1, !.limit = 1]}
RegimeQuery ==
    {To(p) : p \in {"regime/latest", "regime/history", "regime/forecast",
                    "epoch/latest", "epoch/history"}}
    \cup {[To("regime/history") EXCEPT !.limit = 1, !.start = 10],
          [To("regime/forecast") EXCEPT !.limit = 3],
          [To("epoch/history") EXCEPT !.limit = 1],
          [To("epoch/history") EXCEPT !.start = 14, !.end = 1]}
    \cup {[To("decision/evaluate") EXCEPT !.pair = p] :
             p \in {Pair("RY", "T"), Pair("IBM", "N"), Pair("SPY", "N"), Pair("IBM", "X")}}

Of(pair, weight) == [pair |-> pair, weight |-> weight]
IbmN == Pair("IBM", "N")
XomN == Pair("XOM", "N")
RyT == Pair("RY", "T")
Evaluate(left) == [To("portfolio/evaluate") EXCEPT !.left = left]
Compare(left, right) == [To("portfolio/compare") EXCEPT !.left = left, !.right = right]
PortfolioQuery ==
    {To("portfolio/construct"), On("portfolio/construct", "T"), On("portfolio/construct", "X"),
     [To("portfolio/construct") EXCEPT !.limit = 1],
     [To("portfolio/construct") EXCEPT !.limit = 1, !.bias = "bearish"],
     [On("portfolio/construct", "N") EXCEPT !.limit = 1, !.bias = "bullish"],
     [To("portfolio/construct") EXCEPT !.universe = "all"],
     Evaluate(<<Of(IbmN, 60), Of(RyT, 40)>>), Evaluate(<<Of(IbmN, 30), Of(Pair("PIP", "A"), 70)>>),
     Evaluate(<<Of(Pair("SPY", "N"), 100)>>), Evaluate(<<Of(IbmN, 50), Of(IbmN, 50)>>),
     Evaluate(<<Of(IbmN, 60), Of(RyT, 60)>>),
     Compare(<<Of(IbmN, 100)>>, <<Of(XomN, 101)>>), Compare(<<Of(IbmN, 100)>>, <<Of(IbmN, 100)>>),
     Compare(<<Of(RyT, 50), Of(XomN, 50)>>, <<Of(IbmN, 99)>>),
     Compare(<<Of(IbmN, 100)>>, <<Of(Pair("PIP", "A"), 100)>>),
     Compare(<<Of(IbmN, 100)>>, <<Of(XomN, 90)>>)}
ModelQuery ==
    {To(p) : p \in ModelPath}
    \cup {[To(p) EXCEPT !.port = i] : p \in {"model/detail", "model/provenance"}, i \in {2, 3}}
    \cup {[To("model/summary") EXCEPT !.start = 11], [To("model/positions") EXCEPT !.end = 12],
          [To("model/returns") EXCEPT !.start = 10], [To("model/strategy") EXCEPT !.strategy = 2]}

Requests == SymbolQuery \cup InstrumentQuery \cup ListQuery \cup ReportQuery \cup BreadthQuery
            \cup LeaderQuery \cup RegimeQuery \cup PortfolioQuery \cup ModelQuery

\* Named apart from what the constants are given, so that TLC computes them once.
MCBatch == Commits
MCQuery == Requests
=============================================================================
