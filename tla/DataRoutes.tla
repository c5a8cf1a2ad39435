----------------------------- MODULE DataRoutes -----------------------------
(***************************************************************************)
(* A request to a data endpoint: checked, paid for, and answered from       *)
(* tables that a loader goes on extending while the handler reads them.     *)
(***************************************************************************)
EXTENDS SymbolRoutes, ListRoutes, StwrReports, BreadthRoutes, PortfolioRoutes, ModelPortfolios

SymbolPath == {"prices/latest", "prices/history", "indicators/latest", "indicators/history",
               "stim/latest", "stim/history"}
FreePath == {"instruments/lookup", "instruments/resolve"} \cup ModelPath

\* Mutant: the screener's validator is not registered.
Refused_NoScreener(q) ==
    CASE q.path \in SymbolPath -> SymbolRefused(q)
      [] q.path = "selections/latest" -> ExchangeRefused(q)
      [] q.path = "published/latest" -> ThresholdsRefused(q) \/ ExchangeRefused(q)
      [] q.path = "selections/history" -> FilterRefused(q)
      [] q.path = "published/history" -> ThresholdsRefused(q) \/ FilterRefused(q)
      [] q.path \in {"stwr/latest", "stwr/history"} -> ReportRefused(q)
      [] q.path \in BreadthPath -> BreadthRefused(q)
      [] q.path = "leadership/latest" -> LeadershipRefused(q)
      [] q.path = "rotation/history" -> RotationRefused(q)
      [] q.path = "epoch/history" -> EpochRefused(q)
      [] q.path = "decision/evaluate" -> IdentityRefused(q)
      [] q.path \in PortfolioPath -> PortfolioRefused(q)
      [] OTHER -> FALSE

\* The validators registered with pre_payment_semantic_validator.
Refused(q) ==
    CASE q.path \in SymbolPath -> SymbolRefused(q)
      [] q.path = "selections/latest" -> ExchangeRefused(q)
      [] q.path = "published/latest" -> ThresholdsRefused(q) \/ ExchangeRefused(q)
      [] q.path = "selections/history" -> FilterRefused(q)
      [] q.path = "published/history" -> ThresholdsRefused(q) \/ FilterRefused(q)
      [] q.path = "screener/top" -> ScreenerRefused(q)
      [] q.path \in {"stwr/latest", "stwr/history"} -> ReportRefused(q)
      [] q.path \in BreadthPath -> BreadthRefused(q)
      [] q.path = "leadership/latest" -> LeadershipRefused(q)
      [] q.path = "rotation/history" -> RotationRefused(q)
      [] q.path = "epoch/history" -> EpochRefused(q)
      [] q.path = "decision/evaluate" -> IdentityRefused(q)
      [] q.path \in PortfolioPath -> PortfolioRefused(q)
      [] OTHER -> FALSE

\* What the handlers raise for the request alone: the same resolvers, but for the
\* leadership summary, whose handler takes more than its validator.
HandlerRefuses(q) ==
    CASE q.path \in SymbolPath -> SymbolRefused(q)
      [] q.path = "selections/latest" -> ExchangeRefused(q)
      [] q.path = "published/latest" -> ThresholdsRefused(q) \/ ExchangeRefused(q)
      [] q.path = "selections/history" -> FilterRefused(q)
      [] q.path = "published/history" -> ThresholdsRefused(q) \/ FilterRefused(q)
      [] q.path = "screener/top" -> ScreenerRefused(q)
      [] q.path \in {"stwr/latest", "stwr/history"} -> ReportRefused(q)
      [] q.path \in BreadthPath -> BreadthRefused(q)
      [] q.path \in {"leadership/latest", "rotation/history"} -> ~KnownExchange(q)
      [] q.path = "decision/evaluate" -> IdentityRefused(q)
      [] q.path \in PortfolioPath -> PortfolioRefused(q)
      [] OTHER -> FALSE

\* PrePaymentSemanticRoute: the validator, then the payment gate.
Validate ==
    /\ pc = "arrived"
    /\ IF Refused(query) THEN Respond(400)
       ELSE /\ paid' = (query.path \notin FreePath)
            /\ pc' = "admitted"
            /\ UNCHANGED <<committed, query, view, anchor, source, found, answer, first, matched>>

PaymentRefused ==
    /\ pc = "arrived" /\ ~Refused(query) /\ query.path \notin FreePath
    /\ Respond(402)

CallHandler ==
    /\ pc = "admitted"
    /\ IF HandlerRefuses(query) THEN Respond(400)
       ELSE /\ pc' = "called"
            /\ first' = committed
            /\ Static
            /\ UNCHANGED <<view, anchor, source, found, answer, matched>>

\* A query or a connection fails; the gaps of an ST-IM history are caught.
DatabaseFails ==
    /\ pc \notin {"arrived", "admitted", "gaps", "done"}
    /\ Respond(500)

HandlerNext == SymbolNext \/ ListNext \/ StwrNext \/ BreadthNext \/ RegimeNext
               \/ PortfolioNext \/ ModelNext

Next ==
    \/ Validate \/ PaymentRefused \/ CallHandler \/ DatabaseFails
    \/ HandlerNext
    \/ \E b \in BatchId : Load(b)

Spec == Init /\ [][Next]_vars

-----------------------------------------------------------------------------
(* Properties.                                                             *)

Path == SymbolPath \cup FreePath \cup BreadthPath \cup
        {"selections/latest", "selections/history", "published/latest", "published/history",
         "screener/top", "stwr/latest", "stwr/history", "leadership/latest", "rotation/history",
         "regime/latest", "regime/history", "regime/forecast", "epoch/latest", "epoch/history",
         "decision/evaluate"} \cup PortfolioPath

\* Every request is for a path that a router answers.
ASSUME PathAssumption == \A q \in Query : q.path \in Path

TypeOK ==
    /\ committed \subseteq BatchId
    /\ \A b \in committed : Batch[b].needs \subseteq committed
    /\ query \in Query /\ query.path \in Path
    /\ pc \in {"arrived", "admitted", "called", "ranged", "anchored", "estimated", "overall",
               "weeks", "listed", "gaps", "done"}
    /\ paid \in BOOLEAN
    /\ view = Omitted \/ view \subseteq committed
    /\ anchor \in Nat
    /\ source \in {"raw", "shadow"}
    /\ answer.status \in {0, 200, 400, 402, 404, 409, 422, 500, 503}
    /\ pc = "done" => view = Omitted /\ answer.status # 0
    /\ first \subseteq committed

Answered == pc = "done" /\ answer.status = 200

\* Nobody pays to be told that the request itself is wrong.
PaidIsNotRefused == paid => answer.status # 400

\* The rows an endpoint takes its latest week from.
LatestScope(snapshot, q) ==
    CASE q.path = "screener/top" -> RowsAt(snapshot, "data")
      [] q.path \in {"selections/latest", "published/latest"} -> RowsAt(snapshot, "select")
      [] q.path = "stwr/latest" -> OnExchange(RowsAt(snapshot, "data"), q.exchange)
      [] q.path = "epoch/latest" -> RowsAt(snapshot, "epoch")
      [] q.path = "leadership/latest" ->
            {x \in OnExchange(RowsAt(snapshot, "data"), q.exchange) : x.type = q.type}
      [] q.path \in {"prices/latest", "indicators/latest"} ->
            CommonStock(OfSymbol(RowsAt(snapshot, "data")))
      [] q.path = "stim/latest" -> OfSymbol(RowsAt(snapshot, "means"))
      [] q.path \in {"regime/latest", "regime/forecast", "decision/evaluate"} ->
            Classified(Equities(RowsAt(snapshot, "data")))
      [] q.path \in PortfolioPath -> Classified(Equities(RowsAt(snapshot, "data")))
LatestPath == {"screener/top", "selections/latest", "published/latest", "stwr/latest",
               "epoch/latest", "leadership/latest", "prices/latest", "indicators/latest",
               "stim/latest", "regime/latest", "regime/forecast", "decision/evaluate"} \cup PortfolioPath

\* A latest answer speaks of one week, and that week was the newest its endpoint
\* had at some moment of the call, however much was loaded meanwhile.
LatestWasLatest ==
    (Answered /\ query.path \in LatestPath /\ query.week = 0) =>
        /\ \A i \in DOMAIN answer.rows : answer.rows[i].week = answer.week
        /\ LatestWeek(LatestScope(first, query)) <= answer.week
        /\ answer.week <= LatestWeek(LatestScope(committed, query))

HistoryPath == {"prices/history", "indicators/history", "stim/history", "selections/history",
                "published/history", "stwr/history", "breadth/history", "rotation/history",
                "regime/history", "epoch/history"}

\* A history says it was truncated exactly when rows that matched are missing.
TruncationIsSeen ==
    (Answered /\ query.path \in HistoryPath) =>
        (answer.truncated <=> Len(answer.rows) < Cardinality(matched))

WindowedPath == {"stwr/history", "breadth/history", "rotation/history"}

\* Where the newest rows come first, a truncated history has lost only older ones.
NewestAreKept ==
    (Answered /\ query.path \in HistoryPath \ WindowedPath) =>
        \A x \in matched : \A i \in DOMAIN answer.rows :
            x.week > answer.rows[i].week => \E j \in DOMAIN answer.rows : answer.rows[j].week = x.week

\* A request without dates gets the window that ends at the newest week there was;
\* one with a date gets what it asked for.
BoundsAreTheCallers ==
    (Answered /\ query.path \in HistoryPath) =>
        /\ IF ~Bare(query) THEN answer.start = query.start /\ answer.end = query.end
           ELSE answer.start = (IF answer.end = 0 THEN 0 ELSE answer.end - (Window - 1))
        /\ \A i \in DOMAIN answer.rows :
              /\ answer.start <= answer.rows[i].week
              /\ answer.end # 0 => answer.rows[i].week <= answer.end

\* The buckets of a grouped history are weeks, each once, and only the last one
\* of a truncated history can be short.
BucketsAreWeeks ==
    (Answered /\ query.path \in WindowedPath) =>
        LET buckets == GroupByWeek(answer.rows) IN
        \A i \in DOMAIN buckets :
            /\ \A j \in DOMAIN buckets : buckets[i].week = buckets[j].week => i = j
            /\ i < Len(buckets) \/ ~answer.truncated =>
                  buckets[i].count = Cardinality({x \in matched : x.week = buckets[i].week})

\* A history is what was asked for, or says what it lacks.
HistoryIsWhole == TruncationIsSeen /\ NewestAreKept /\ BoundsAreTheCallers /\ BucketsAreWeeks

StimDataWeek(snapshot) == LatestWeek(OfSymbol(RowsAt(snapshot, "data")))

\* An estimate is called stale if data was newer when the call began, and only if
\* newer data is there; its two reads are of different moments.
StaleWasTrue ==
    (Answered /\ query.path = "stim/latest") =>
        /\ StimDataWeek(first) > answer.week => answer.extra.isStale
        /\ answer.extra.isStale => answer.week < StimDataWeek(committed)

\* The published list of the newest selections is whole: what the tables will say
\* of that week once every batch is in. It rests on the loader's order.
PublishedIsWhole ==
    (Answered /\ query.path = "published/latest") =>
        Cardinality(matched) =
            Cardinality({x \in OnExchange(RowsAt(BatchId, "select"), query.exchange) :
                /\ x.week = answer.week /\ x.prob13wk >= 55
                /\ query.csOnly => \E y \in Matches(RowsAt(BatchId, "data"), x) : y.type = "CS"
                /\ \E r \in Matches(RowsAt(BatchId, "means"), x) :
                      r.x4wk1 > 0 /\ r.x13wk1 > 219 /\ r.x40wk1 > 645})

\* Where the published summary answers in place of the weekly rows, it answers
\* what they would have.
SummaryIsExact ==
    (Answered /\ query.path \in BreadthPath /\ source = "shadow") =>
        matched \subseteq _breadth_sql(RawScope(query), query.level)

\* A canonical request without dates is never answered by aggregating weekly rows.
CanonicalFromSummary ==
    (Answered /\ query.path \in BreadthPath /\ _use_sector_summary(query) /\ Bare(query)) =>
        source = "shadow"

\* What is derived from the weekly rows agrees with them.
DerivedIsExact == PublishedIsWhole /\ SummaryIsExact /\ CanonicalFromSummary

\* The three lists of leaders are of one moment: who leads a sector is the first
\* of it overall.
LeadersAgree ==
    (Answered /\ query.path = "leadership/latest") =>
        \A x \in answer.extra.sectors \cup answer.extra.groups : x \in matched

\* An answer about now is about one moment.
LatestIsCoherent == LatestWasLatest /\ StaleWasTrue /\ LeadersAgree

\* A symbol is judged in the week of the market it is judged against, and that
\* market is the newest there is.
JudgedInTheMarketsWeek ==
    (Answered /\ query.path = "decision/evaluate") =>
        /\ answer.rows[1].week = answer.week
        /\ answer.extra.alignment = "aligned" => answer.extra.bias \in {"strong_bullish", "strong_bearish"}
        /\ answer.extra.confidence = "high" => answer.extra.score >= 73 * answer.extra.market.score.d

\* The portfolios of an answer, and the positions of one that were found.
FoundIn(summary) == {p.judged : p \in summary.found}
Sides == IF query.path = "portfolio/compare" THEN {answer.extra.left, answer.extra.right}
         ELSE {answer.extra.left}

\* A portfolio is judged by the positions that were found: its score lies between
\* the worst and the best of them, and it leans to a side only if one of them does.
PortfolioIsItsPositions ==
    (Answered /\ query.path \in {"portfolio/evaluate", "portfolio/compare"}) =>
        \A side \in Sides :
            /\ \A j \in FoundIn(side) : j.week = answer.week
            /\ Min({j.score : j \in FoundIn(side)}) <= side.score
            /\ side.score <= Max({j.score : j \in FoundIn(side)})
            /\ side.bias # "mixed" => \E j \in FoundIn(side) : j.bias = side.bias
            /\ side.confidence = "high" => \E j \in FoundIn(side) : j.confidence = "high"

Swapped(verdict) == CASE verdict = "left" -> "right" [] verdict = "right" -> "left" [] OTHER -> "tie"

\* Which of two portfolios wins does not depend on which is named first, and the
\* winner is not the worse of them by as much as decides.
ComparisonIsFair ==
    (Answered /\ query.path = "portfolio/compare") =>
        LET there == answer.extra.comparison
            back == _compare_summary(answer.extra.right, answer.extra.left)
        IN  /\ back.winner = Swapped(there.winner)
            /\ there.winner = "left" => there.delta > -10
            /\ there.winner = "right" => there.delta < 10

\* No candidate that was left out has a better score than one that was taken.
BestAreTaken ==
    (Answered /\ query.path = "portfolio/construct") =>
        \A x \in matched \ {answer.rows[i] : i \in DOMAIN answer.rows} :
            \A i \in DOMAIN answer.rows : x.score <= answer.rows[i].score

\* Portfolios are judged, compared and built by the merits of their positions.
PortfoliosAreFair == PortfolioIsItsPositions /\ ComparisonIsFair /\ BestAreTaken

\* Ties are broken by estimates of the portfolio's own week, or not by estimates.
TiebreakIsCurrent ==
    (Answered /\ query.path = "portfolio/construct") =>
        \A x \in matched : x.percentile # -1 =>
            \E r \in RowsAt(committed, "means") :
                r.week = answer.week /\ r.symbol = x.judged.symbol /\ r.exchange = x.judged.exchange

\* What a model portfolio holds today is not told: every position an answer is made
\* of has been closed, and the portfolio was listed at some moment of the call.
HoldingsAreHidden ==
    (Answered /\ query.path \in {"model/summary", "model/positions"}) =>
        \A x \in matched : \E y \in RowsAt(committed, "positions") :
            y.id = x.id /\ y.sell_trigger \notin {Omitted, ""}
OnlyListed ==
    (Answered /\ query.path \in {"model/returns", "model/summary", "model/positions",
                                 "model/detail", "model/provenance"}) =>
        \E y \in RowsAt(committed, "ports") : y.id = query.port /\ y.status = 1

\* Of a model portfolio only the past is told, and only while it is listed.
OnlyThePastIsTold == HoldingsAreHidden /\ OnlyListed

\* The average change of a forecast is that from the oldest week to the newest.
ForecastSpansTheWeeks ==
    (Answered /\ query.path = "regime/forecast") =>
        LET scores == answer.extra.scores
            delta == answer.extra.forecast.delta
            span == Minus(scores[1], scores[Len(scores)])
        IN  delta.n * span.d * (IF Len(scores) = 1 THEN 1 ELSE Len(scores) - 1) = span.n * delta.d

\* The weeks that a judgement rests on are those it speaks of.
JudgementsAreOfTheirWeeks ==
    JudgedInTheMarketsWeek /\ TiebreakIsCurrent /\ ForecastSpansTheWeeks

\* routers/leadership.py: rsi_updn is + or -; the notes are to speak of it.
PerformanceIsNoted ==
    (Answered /\ query.path = "decision/evaluate" /\ answer.rows[1].rsi_updn \in {"+", "-"}) =>
        answer.extra.notes \cap {"improving", "weakening"} # {}
=============================================================================
