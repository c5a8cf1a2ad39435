-------------------------- MODULE DataRoutes_proofs --------------------------
(***************************************************************************)
(* Theorems about DataRoutes, in the order of the sections: what every      *)
(* request keeps to (the frame), what a caller who paid is never told, that *)
(* an answer about now is of one moment, that a history is whole, that      *)
(* portfolios are judged by their positions, that the judgement of a symbol *)
(* or a market is of the weeks it names, and that what is derived from the  *)
(* weekly rows agrees with them.                                            *)
(***************************************************************************)
EXTENDS DataRoutes, WeeklyTables_proofs

Status == {0, 200, 400, 402, 404, 409, 422, 500, 503}

\* The fields of the response.
Answerable == DOMAIN answer = DOMAIN NoAnswer

\* Where no connection is open.
Unread == {"arrived", "admitted", "called", "estimated", "gaps", "done"}

\* A set of batches the loader may have committed.
Loaded(c) == c \subseteq BatchId /\ \A b \in c : Batch[b].needs \subseteq c

\* What every request keeps to: an open connection sees what the loader had committed at some
\* moment of the call, and none is left open where the handler does not read.
Frame ==
    /\ TypeOK
    /\ Answerable
    /\ view # Omitted => first \subseteq view /\ Loaded(view)
    /\ pc \in Unread => view = Omitted
    /\ pc = "gaps" => answer.status = 200

\* What a step of a handler does: it goes on with its own request and answer, in the open
\* connection, a new one or none.
Moved ==
    /\ UNCHANGED <<committed, query, paid, first>>
    /\ DOMAIN answer' = DOMAIN answer /\ answer'.status \in Status
    /\ pc' \in {"ranged", "anchored", "estimated", "overall", "weeks", "gaps", "done"}
    /\ view' \in {view, Omitted, Snapshot}
    /\ anchor' \in Nat /\ source' \in {"raw", "shadow"}
    /\ pc' \in Unread => view' = Omitted
    /\ pc' = "done" => answer'.status # 0
    /\ pc' = "gaps" => answer'.status = 200

\* No handler but those of paths that are free refuses a request that it was called for.
Unrefused == answer'.status # 400 \/ answer'.status = answer.status

\* A step of a handler that is no model portfolio's.
HandledElsewhere ==
    /\ query.path \notin ModelPath /\ pc # "done"
    /\ Moved
    /\ Unrefused \/ query.path \in FreePath

-----------------------------------------------------------------------------
(* What a handler reads.                                                    *)

LEMMA FieldsOfTheAnswer ==
    DOMAIN NoAnswer = {"status", "week", "rows", "truncated", "start", "end", "extra"}
BY DEF NoAnswer

\* What the frame says of the steps of a handler.
LEMMA FrameFacts ==
    ASSUME Frame
    PROVE  /\ DOMAIN answer = {"status", "week", "rows", "truncated", "start", "end", "extra"}
           /\ "status" \in DOMAIN answer /\ answer.status \in Status
           /\ anchor \in Nat /\ source \in {"raw", "shadow"}
           /\ query \in Query /\ query.path \in Path
           /\ query.start \in Nat /\ query.end \in Nat /\ query.week \in Nat /\ query.limit \in Nat
           /\ query.path # "stwr/latest" => query.limit # 0
<1>1. query \in Query
    BY DEF Frame, TypeOK
<1>2. /\ query.start \in Nat /\ query.end \in Nat /\ query.week \in Nat /\ query.limit \in Nat
      /\ query.path # "stwr/latest" => query.limit # 0
    BY <1>1, QueryAssumption
<1>3. answer.status \in Status /\ anchor \in Nat /\ source \in {"raw", "shadow"}
      /\ query.path \in Path
    BY DEF Frame, TypeOK, Status
<1> QED BY <1>1, <1>2, <1>3, FieldsOfTheAnswer DEF Frame, Answerable

LEMMA AnswerHasStatus == ASSUME Frame PROVE "status" \in DOMAIN answer
BY FrameFacts

\* A query sees what was committed when the handler began, and nothing that never was.
LEMMA SnapshotIsOfTheCall ==
    ASSUME Frame
    PROVE  /\ first \subseteq Snapshot /\ Snapshot \subseteq committed /\ committed \subseteq BatchId
           /\ Loaded(Snapshot) /\ Loaded(committed)
BY DEF Frame, TypeOK, Snapshot, Loaded

\* The tables a handler reads are made of weekly rows.
LEMMA RowsAreWeekly ==
    ASSUME Frame, NEW t \in Table
    PROVE  /\ AreWeekly(Rows(t)) /\ Omitted \notin Rows(t)
           /\ \A x \in Rows(t) : "week" \in DOMAIN x
           /\ t \in Dated => \A x \in Rows(t) : x.week # 0
<1>1. Snapshot \subseteq BatchId
    BY SnapshotIsOfTheCall
<1> QED BY <1>1, TablesAreWeekly DEF Rows

\* So is any part of them.
LEMMA SelectionIsWeekly ==
    ASSUME Frame, NEW t \in Table, NEW S, S \subseteq Rows(t)
    PROVE  AreWeekly(S) /\ LatestWeek(S) \in Nat
<1>1. AreWeekly(S)
    BY RowsAreWeekly, WeeklySubset
<1> QED BY <1>1, LatestIsNewest

-----------------------------------------------------------------------------
(* The steps that handlers are made of (WeeklyTables).                      *)

\* Respond answers with the status it is given.
LEMMA RespondMoves ==
    ASSUME Frame, NEW status \in Status \ {0}, Respond(status)
    PROVE  Moved /\ pc' = "done" /\ answer'.status = status
<1>1. answer' = [answer EXCEPT !.status = status] /\ pc' = "done" /\ view' = Omitted
      /\ UNCHANGED <<committed, query, paid, anchor, source, first>>
    BY DEF Respond, Static
<1>2. DOMAIN answer' = DOMAIN answer /\ answer'.status = status
    BY <1>1, FrameFacts, Zenon
<1> QED BY <1>1, <1>2, FrameFacts DEF Moved

\* SendRows answers with success.
LEMMA SendRowsMoves ==
    ASSUME Frame, NEW S, NEW order, NEW limit, NEW week, SendRows(S, order, limit, week)
    PROVE  Moved /\ Unrefused /\ answer'.status = 200
<1>1. PICK s : answer' = [answer EXCEPT !.status = 200, !.week = week, !.rows = s]
    BY Zenon DEF SendRows
<1>2. pc' = "done" /\ view' = Omitted /\ UNCHANGED <<committed, query, paid, anchor, source, first>>
    BY Zenon DEF SendRows, Static
<1>3. DOMAIN answer' = DOMAIN answer /\ answer'.status = 200
    BY <1>1, FrameFacts, Zenon
<1> QED BY <1>2, <1>3, FrameFacts DEF Moved, Unrefused, Status

\* So does SendHistory, unless gaps are still to be looked for.
LEMMA SendHistoryMoves ==
    ASSUME Frame, NEW S, NEW order, NEW limit, NEW bounds, NEW oldestFirst,
           SendHistory(S, order, limit, bounds, oldestFirst)
    PROVE  Moved /\ Unrefused
<1>1. PICK s : answer' = [answer EXCEPT !.status = 200,
                  !.rows = IF oldestFirst THEN Reverse(SplitProbe(s, limit).rows)
                           ELSE SplitProbe(s, limit).rows,
                  !.truncated = SplitProbe(s, limit).truncated,
                  !.start = bounds.start, !.end = bounds.end]
    BY Zenon DEF SendHistory
<1>2. pc' \in {"gaps", "done"} /\ view' = Omitted
      /\ UNCHANGED <<committed, query, paid, anchor, source, first>>
    BY Zenon DEF SendHistory, Static
<1>3. DOMAIN answer' = DOMAIN answer /\ answer'.status = 200
    BY <1>1, FrameFacts, Zenon
<1> QED BY <1>2, <1>3, FrameFacts DEF Moved, Unrefused, Status

\* Resolving a week leaves the answer alone.
LEMMA ResolveWeekMoves ==
    ASSUME Frame, NEW week \in Nat, NEW from \in {"raw", "shadow"},
           NEW next \in {"ranged", "anchored"},
           ResolveWeek(week, from, next) \/ ResolveWeekOpen(week, next)
    PROVE  Moved /\ Unrefused
BY FrameFacts DEF ResolveWeek, ResolveWeekOpen, Static, Moved, Unrefused, Unread

\* Finish answers with success.
LEMMA FinishMoves ==
    ASSUME Frame, NEW rows, NEW extra, Finish(rows, extra) PROVE Moved /\ Unrefused
<1>1. DOMAIN answer' = DOMAIN answer /\ answer'.status = 200
    BY AnswerHasStatus, Zenon DEF Finish
<1>2. pc' = "done" /\ view' = Omitted /\ UNCHANGED <<committed, query, paid, anchor, source, first>>
    BY DEF Finish, Static
<1> QED BY <1>1, <1>2, FrameFacts DEF Moved, Unrefused, Status

\* AnswerStrategy answers with success, or does not know the strategy.
LEMMA StrategyMoves ==
    ASSUME Frame, NEW strategy, AnswerStrategy(strategy) PROVE Moved
<1>1. \/ Respond(404)
      \/ \E extra : /\ answer' = [answer EXCEPT !.status = 200, !.extra = extra]
                    /\ pc' = "done" /\ view' = Omitted
                    /\ UNCHANGED <<committed, query, paid, anchor, source, first>>
    BY Zenon DEF AnswerStrategy, Static
<1>2. CASE Respond(404)
    BY <1>2, RespondMoves DEF Status
<1>3. CASE ~Respond(404)
    <2>1. DOMAIN answer' = DOMAIN answer /\ answer'.status = 200
        BY <1>1, <1>3, FrameFacts, Zenon
    <2>2. pc' = "done" /\ view' = Omitted
          /\ UNCHANGED <<committed, query, paid, anchor, source, first>>
        BY <1>1, <1>3, Zenon
    <2> QED BY <2>1, <2>2, FrameFacts DEF Moved, Status
<1> QED BY <1>2, <1>3

\* The summary of a model portfolio is made of its closed positions.
LEMMA SummaryAnswers ==
    ASSUME Frame, get_stocktrends_portfolio_summary
    PROVE  /\ query.path = "model/summary" /\ pc = "listed"
           /\ Moved /\ matched' = ClosedPositions
<1>1. PICK extra : answer' = [answer EXCEPT !.status = 200, !.extra = extra]
    BY Zenon DEF get_stocktrends_portfolio_summary
<1>2. /\ query.path = "model/summary" /\ pc = "listed" /\ matched' = ClosedPositions
      /\ pc' = "done" /\ view' = Omitted
      /\ UNCHANGED <<committed, query, paid, anchor, source, first>>
    BY Zenon DEF get_stocktrends_portfolio_summary, At, Static
<1>3. DOMAIN answer' = DOMAIN answer /\ answer'.status = 200
    BY <1>1, FrameFacts, Zenon
<1> QED BY <1>2, <1>3, FrameFacts DEF Moved, Status

-----------------------------------------------------------------------------
(* The newest weeks of the market (RegimeRoutes).                          *)

\* The weeks as rows.
AsRows(W) == {[week |-> w] : w \in W}

LEMMA WeeksAsRows ==
    ASSUME NEW W, IsFiniteSet(W), W \subseteq Nat
    PROVE  /\ AreWeekly(AsRows(W))
           /\ \A r \in AsRows(W) : r.week \in W /\ r = [week |-> r.week]
           /\ W # {} => AsRows(W) # {}
<1>1. [w \in W |-> [week |-> w]] \in Surjection(W, AsRows(W))
    BY DEF Surjection, AsRows
<1>2. IsFiniteSet(AsRows(W))
    BY <1>1, FS_Surjection
<1>3. \A r \in AsRows(W) : r.week \in W /\ r = [week |-> r.week]
    BY DEF AsRows
<1>4. W # {} => AsRows(W) # {}
    BY DEF AsRows
<1> QED BY <1>2, <1>3, <1>4 DEF AreWeekly

\* Some rows are the first, and NewestWeeks has their weeks.
HasWeeksOf(weeks, s) == weeks = [i \in DOMAIN s |-> s[i].week]

LEMMA NewestAreChosen ==
    ASSUME NEW W, IsFiniteSet(W), W \subseteq Nat, NEW n \in Nat
    PROVE  \E s \in FirstInOrder(AsRows(W), <<Desc("week")>>, n) :
               HasWeeksOf(NewestWeeks(W, n), s)
<1>1. PICK F : F = FirstInOrder(AsRows(W), <<Desc("week")>>, n)
    OBVIOUS
<1>2. F # {}
    BY <1>1, WeeksAsRows, NewestExist
<1>3. PICK s : s = CHOOSE x \in F : TRUE
    OBVIOUS
<1>4. s \in F
    BY <1>2, <1>3
<1>5. NewestWeeks(W, n) = [i \in DOMAIN s |-> s[i].week]
    BY <1>1, <1>3 DEF NewestWeeks, AsRows
<1>6. HasWeeksOf(NewestWeeks(W, n), s)
    BY <1>5 DEF HasWeeksOf
<1> QED BY <1>1, <1>4, <1>6

LEMMA NewestWeekFirst ==
    ASSUME NEW W, IsFiniteSet(W), W \subseteq Nat, NEW n \in Nat
    PROVE  /\ NewestWeeks(W, n) \in Seq(W)
           /\ W # {} /\ n # 0 => /\ 1 \in DOMAIN NewestWeeks(W, n)
                                 /\ \A w \in W : w <= NewestWeeks(W, n)[1]
<1>1. PICK R : R = AsRows(W)
    OBVIOUS
<1>2. PICK order : order = <<Desc("week")>>
    OBVIOUS
<1>3. PICK s \in FirstInOrder(R, order, n) : HasWeeksOf(NewestWeeks(W, n), s)
    BY <1>1, <1>2, NewestAreChosen
<1> USE DEF HasWeeksOf
<1>4. AreWeekly(R) /\ (W # {} => R # {}) /\ (\A r \in R : r.week \in W)
      /\ (\A w \in W : [week |-> w] \in R)
    BY <1>1, WeeksAsRows DEF AsRows
<1>5. NewestFirst(order)
    BY <1>2 DEF NewestFirst
<1>6. s \in Seq(R)
    BY <1>3, <1>4, FirstAreFirst DEF AreWeekly
<1>7. NewestWeeks(W, n) \in Seq(W)
    BY <1>3, <1>4, <1>6
<1>8. ASSUME W # {}, n # 0
      PROVE  1 \in DOMAIN s /\ s[1].week = LatestWeek(R)
    BY <1>3, <1>4, <1>5, <1>8, FirstIsNewest
<1>9. ASSUME W # {}, n # 0, NEW w \in W PROVE w <= NewestWeeks(W, n)[1]
    <2>1. PICK r \in R : r.week = w
        BY <1>4
    <2>2. r.week <= LatestWeek(R)
        BY <1>4, LatestIsNewest
    <2> QED BY <1>3, <1>8, <1>9, <2>1, <2>2
<1> QED BY <1>3, <1>7, <1>8, <1>9

\* The rows that make a week eligible.
EligibleRows(start) == Between(Classified(Equities(Rows("data"))), start, 0)

LEMMA EligibleWeeksAre ==
    ASSUME Frame, NEW start
    PROVE  /\ EligibleRows(start) \subseteq Rows("data")
           /\ AreWeekly(EligibleRows(start))
           /\ EligibleWeeks(start) = {x.week : x \in EligibleRows(start)}
           /\ IsFiniteSet(EligibleWeeks(start)) /\ EligibleWeeks(start) \subseteq Nat
<1>1. EligibleRows(start) \subseteq Rows("data")
    BY DEF EligibleRows, Between, Classified, Equities
<1>2. AreWeekly(EligibleRows(start))
    BY <1>1, SelectionIsWeekly DEF Table
<1>3. EligibleWeeks(start) = {x.week : x \in EligibleRows(start)}
    BY DEF EligibleWeeks, EligibleRows
<1>4. PICK S : S = EligibleRows(start)
    OBVIOUS
<1>5. PICK W : W = {x.week : x \in S}
    OBVIOUS
<1>6. [x \in S |-> x.week] \in Surjection(S, W)
    BY <1>5 DEF Surjection
<1>7. IsFiniteSet(W) /\ W \subseteq Nat
    BY <1>2, <1>4, <1>5, <1>6, FS_Surjection DEF AreWeekly
<1> QED BY <1>1, <1>2, <1>3, <1>4, <1>5, <1>7

\* The first of the newest eligible weeks is the newest there is.
LEMMA FirstEligibleIsNewest ==
    ASSUME Frame, NEW start, NEW n \in Nat, n # 0, EligibleWeeks(start) # {}
    PROVE  /\ NewestWeeks(EligibleWeeks(start), n) \in Seq(EligibleWeeks(start))
           /\ 1 \in DOMAIN NewestWeeks(EligibleWeeks(start), n)
           /\ NewestWeeks(EligibleWeeks(start), n)[1] = LatestWeek(EligibleRows(start))
<1>1. PICK W : W = EligibleWeeks(start)
    OBVIOUS
<1>2. PICK S : S = EligibleRows(start)
    OBVIOUS
<1>3. IsFiniteSet(W) /\ W \subseteq Nat /\ W = {x.week : x \in S} /\ AreWeekly(S) /\ W # {}
    BY <1>1, <1>2, EligibleWeeksAre
<1>4. PICK weeks : weeks = NewestWeeks(W, n)
    OBVIOUS
<1>5. weeks \in Seq(W) /\ 1 \in DOMAIN weeks /\ \A w \in W : w <= weeks[1]
    BY <1>3, <1>4, NewestWeekFirst
<1>6. weeks[1] \in W /\ weeks[1] \in Nat
    BY <1>3, <1>5
<1>7. LatestWeek(S) \in Nat /\ (\E x \in S : x.week = LatestWeek(S))
      /\ \A x \in S : x.week <= LatestWeek(S)
    BY <1>3, LatestIsNewest
<1>8. LatestWeek(S) <= weeks[1] /\ weeks[1] <= LatestWeek(S)
    BY <1>3, <1>5, <1>6, <1>7
<1>9. weeks[1] = LatestWeek(S)
    BY <1>6, <1>7, <1>8
<1> QED BY <1>1, <1>2, <1>4, <1>5, <1>9

-----------------------------------------------------------------------------
(* The handlers, router by router.                                          *)

\* routers/prices.py, indicators.py, stim.py, instruments.py.
LEMMA SymbolHandles == ASSUME Frame, SymbolNext PROVE HandledElsewhere
<1> USE DEF HandledElsewhere, ModelPath, At, Status
<1>0. pc \in {"called", "estimated", "gaps"} => view = Omitted
    BY DEF Frame, Unread
<1>1. CASE prices_latest("prices/latest")
    BY <1>1, RespondMoves, SendRowsMoves DEF prices_latest, Unrefused
<1>2. CASE prices_history("prices/history")
    BY <1>2, SendHistoryMoves DEF prices_history
<1>3. CASE indicators_latest
    BY <1>3, RespondMoves, SendRowsMoves DEF indicators_latest, prices_latest, Unrefused
<1>4. CASE indicators_history
    BY <1>4, SendHistoryMoves DEF indicators_history, prices_history
<1>5. CASE StimEstimate
    BY <1>0, <1>5, FrameFacts DEF StimEstimate, Static, Moved, Unrefused
<1>6. CASE stim_latest
    <2>1. CASE found = Omitted
        BY <1>6, <2>1, RespondMoves DEF stim_latest, Unrefused
    <2>2. CASE ~(found = Omitted)
        <3>1. DOMAIN answer' = DOMAIN answer /\ answer'.status = 200
            BY <1>6, <2>2, AnswerHasStatus, Zenon DEF stim_latest
        <3> QED BY <1>0, <1>6, <2>2, <3>1, FrameFacts DEF stim_latest, Moved, Unrefused, Static
    <2> QED BY <2>1, <2>2
<1>7. CASE stim_history
    BY <1>7, SendHistoryMoves DEF stim_history
<1>8. CASE StimGaps
    <2>1. DOMAIN answer' = DOMAIN answer /\ answer'.status = answer.status
        BY <1>8, AnswerHasStatus, Zenon DEF StimGaps
    <2>2. answer.status = 200
        BY <1>8 DEF StimGaps, Frame
    <2> QED BY <1>0, <1>8, <2>1, <2>2, FrameFacts DEF StimGaps, Moved, Unrefused, Static
<1>9. CASE StimGapsFail
    <2>1. DOMAIN answer' = DOMAIN answer /\ answer'.status = answer.status
        BY <1>9, AnswerHasStatus, Zenon DEF StimGapsFail
    <2>2. answer.status = 200
        BY <1>9 DEF StimGapsFail, Frame
    <2> QED BY <1>0, <1>9, <2>1, <2>2, FrameFacts DEF StimGapsFail, Moved, Unrefused, Static
<1>10. CASE instrument_lookup
    BY <1>10, RespondMoves, SendRowsMoves DEF instrument_lookup, Unrefused
<1>11. CASE instrument_resolve
    BY <1>11, RespondMoves, SendRowsMoves DEF instrument_resolve, FreePath
<1> QED BY <1>1, <1>2, <1>3, <1>4, <1>5, <1>6, <1>7, <1>8, <1>9, <1>10, <1>11 DEF SymbolNext

\* routers/selections.py, selections_published.py, screener.py.
LEMMA ListHandles == ASSUME Frame, ListNext PROVE HandledElsewhere
<1> USE DEF HandledElsewhere, ModelPath, At, Status
<1>0. LatestWeek(Rows("select")) \in Nat /\ LatestWeek(Rows("data")) \in Nat
    BY SelectionIsWeekly DEF Table
<1>1. CASE SelectionWeek("selections/latest") \/ SelectionWeek("published/latest")
    BY <1>0, <1>1, RespondMoves, ResolveWeekMoves DEF SelectionWeek, Unrefused
<1>2. CASE selections_latest
    BY <1>2, SendRowsMoves DEF selections_latest
<1>3. CASE selections_history
    BY <1>3, SendHistoryMoves DEF selections_history
<1>4. CASE selections_published_latest
    BY <1>4, SendRowsMoves DEF selections_published_latest
<1>5. CASE selections_published_history
    BY <1>5, SendHistoryMoves DEF selections_published_history
<1>6. CASE ScreenerWeek
    BY <1>0, <1>6, FrameFacts, RespondMoves, ResolveWeekMoves DEF ScreenerWeek, Unrefused
<1>7. CASE screener_top
    BY <1>7, SendRowsMoves DEF screener_top
<1> QED BY <1>1, <1>2, <1>3, <1>4, <1>5, <1>6, <1>7 DEF ListNext

\* routers/stwr.py.
LEMMA StwrHandles == ASSUME Frame, StwrNext PROVE HandledElsewhere
<1> USE DEF HandledElsewhere, ModelPath, At, Status
<1>0. LatestWeek(Weekly(query)) \in Nat
    <2>1. Weekly(query) \subseteq Rows("data")
        BY DEF Weekly, OnExchange
    <2> QED BY <2>1, SelectionIsWeekly DEF Table
<1>1. CASE ReportWeek
    BY <1>0, <1>1, FrameFacts, RespondMoves, ResolveWeekMoves DEF ReportWeek, Unrefused
<1>2. CASE stwr_reports_latest
    BY <1>2, SendRowsMoves DEF stwr_reports_latest
<1>3. CASE ReportWindow
    BY <1>0, <1>3, ResolveWeekMoves DEF ReportWindow
<1>4. CASE stwr_reports_history
    BY <1>4, SendHistoryMoves DEF stwr_reports_history
<1> QED BY <1>1, <1>2, <1>3, <1>4 DEF StwrNext

\* routers/breadth.py, leadership.py.
LEMMA BreadthHandles == ASSUME Frame, BreadthNext PROVE HandledElsewhere
<1> USE DEF HandledElsewhere, ModelPath, At, Status
<1>0. /\ LatestWeek(Summary(query)) \in Nat /\ RawWeek(query) \in Nat
      /\ LatestWeek(TypeScope(query)) \in Nat
      /\ LatestWeek(Materialized("shadow", query.type, query.exchange)) \in Nat
    <2>1. Summary(query) \subseteq Rows("shadow") /\ TypeScope(query) \subseteq Rows("data")
          /\ Materialized("shadow", query.type, query.exchange) \subseteq Rows("shadow")
        BY DEF Summary, Materialized, TypeScope
    <2>2. PICK S : RawWeek(query) = LatestWeek(S) /\ S \subseteq Rows("data")
        BY DEF RawWeek
    <2> QED BY <2>1, <2>2, SelectionIsWeekly DEF Table
<1>1. CASE BreadthRange
    <2>1. query.path \in BreadthPath /\ pc = "called"
        BY <1>1 DEF BreadthRange, AtBreadth
    <2>2. \/ Respond(503) \/ ResolveWeek(0, "raw", "ranged")
          \/ ResolveWeek(query.start, "raw", "anchored")
        BY <1>1, Zenon DEF BreadthRange
    <2> QED BY <2>1, <2>2, FrameFacts, RespondMoves, ResolveWeekMoves DEF BreadthPath, Unrefused
<1>2. CASE BreadthAnchor
    <2>1. query.path \in BreadthPath /\ pc \in {"ranged", "called"}
        BY <1>2 DEF BreadthAnchor, AtBreadth
    <2>2. \/ Respond(503)
          \/ \E week \in Nat : ResolveWeek(week, "shadow", "anchored")
        <3>1. query.start \in Nat
            BY FrameFacts
        <3>2. \/ Respond(503)
              \/ ResolveWeek(IF Bare(query) THEN LatestWeek(Summary(query)) ELSE query.start,
                             "shadow", "anchored")
            BY <1>2, Zenon DEF BreadthAnchor
        <3> QED BY <1>0, <3>1, <3>2
    <2> QED BY <2>1, <2>2, RespondMoves, ResolveWeekMoves DEF BreadthPath, Unrefused
<1>3. CASE BreadthProbeFails
    BY <1>3, RespondMoves DEF BreadthProbeFails, AtBreadth, BreadthPath, Unrefused
<1>4. CASE BreadthRaw
    <2>1. query.path \in BreadthPath /\ pc = "called"
        BY <1>4 DEF BreadthRaw, AtBreadth
    <2>2. \/ Respond(404)
          \/ \E week \in Nat : ResolveWeek(week, "raw", "anchored")
        <3>1. query.start \in Nat
            BY FrameFacts
        <3>2. \/ Respond(404)
              \/ ResolveWeek(IF Bare(query) THEN RawWeek(query) ELSE query.start,
                             "raw", "anchored")
            BY <1>4, Zenon DEF BreadthRaw
        <3> QED BY <1>0, <3>1, <3>2
    <2> QED BY <2>1, <2>2, RespondMoves, ResolveWeekMoves DEF BreadthPath, Unrefused
<1>5. CASE breadth_sector_latest
    BY <1>5, SendRowsMoves DEF breadth_sector_latest
<1>6. CASE breadth_sector_history
    BY <1>6, SendHistoryMoves DEF breadth_sector_history
<1>7. CASE LeadershipWeek
    BY <1>0, <1>7, FrameFacts, RespondMoves, ResolveWeekMoves DEF LeadershipWeek, Unrefused
<1>8. CASE LeadershipOverall
    <2>1. DOMAIN answer' = DOMAIN answer /\ answer'.status = answer.status
        BY <1>8, AnswerHasStatus, Zenon DEF LeadershipOverall
    <2> QED BY <1>8, <2>1, FrameFacts DEF LeadershipOverall, Moved, Unrefused, Static, Unread
<1>9. CASE leadership_summary_latest
    <2>1. DOMAIN answer' = DOMAIN answer /\ answer'.status = 200
        BY <1>9, AnswerHasStatus, Zenon DEF leadership_summary_latest
    <2> QED BY <1>9, <2>1, FrameFacts DEF leadership_summary_latest, Moved, Unrefused, Static
<1>10. CASE RotationAnchor
    BY <1>0, <1>10, RespondMoves, ResolveWeekMoves DEF RotationAnchor, Unrefused
<1>11. CASE RotationProbeFails
    BY <1>11, RespondMoves DEF RotationProbeFails, Unrefused
<1>12. CASE RotationRaw
    BY <1>0, <1>12, ResolveWeekMoves DEF RotationRaw
<1>13. CASE leadership_rotation_history
    BY <1>13, SendHistoryMoves DEF leadership_rotation_history
<1> QED BY <1>1, <1>2, <1>3, <1>4, <1>5, <1>6, <1>7, <1>8, <1>9, <1>10, <1>11, <1>12, <1>13 DEF BreadthNext

\* What RegimeWeeks leaves for the second query: the newest weeks, and the newest of them.
RegimeWanted == IF query.path = "regime/latest" THEN 1 ELSE query.limit
RegimeFrom == IF query.path = "regime/history" THEN query.start ELSE 0

LEMMA RegimeWeeksFinds ==
    ASSUME Frame, RegimeWeeks, EligibleWeeks(RegimeFrom) # {}
    PROVE  /\ query.path \in {"regime/latest", "regime/history", "regime/forecast"}
           /\ found' = SplitProbe(NewestWeeks(EligibleWeeks(RegimeFrom), ProbeLimit(RegimeWanted)),
                                  RegimeWanted).rows
           /\ found' \in Seq(EligibleWeeks(RegimeFrom))
           /\ Len(found') # 0 /\ Len(found') <= RegimeWanted
           /\ anchor' = found'[1] /\ anchor' = LatestWeek(EligibleRows(RegimeFrom))
           /\ anchor' \in Nat /\ view' = Snapshot /\ pc' = "weeks"
<1>0. PICK wanted : wanted = RegimeWanted
    OBVIOUS
<1>1. wanted \in Nat /\ wanted # 0 /\ ProbeLimit(wanted) \in Nat /\ ProbeLimit(wanted) # 0
    BY <1>0, FrameFacts DEF RegimeWanted, ProbeLimit, RegimeWeeks
<1>2. PICK W : W = EligibleWeeks(RegimeFrom)
    OBVIOUS
<1>3. PICK weeks : weeks = NewestWeeks(W, ProbeLimit(wanted))
    OBVIOUS
<1>4. /\ weeks \in Seq(W) /\ 1 \in DOMAIN weeks
      /\ weeks[1] = LatestWeek(EligibleRows(RegimeFrom))
    BY <1>1, <1>2, <1>3, FirstEligibleIsNewest
<1>5. PICK rows : rows = SplitProbe(weeks, wanted).rows
    OBVIOUS
<1>6. /\ rows = SubSeq(weeks, 1, IF Len(weeks) < wanted THEN Len(weeks) ELSE wanted)
    BY <1>5 DEF SplitProbe
<1>7. Len(weeks) \in Nat /\ Len(weeks) # 0
    BY <1>4
<1>8. rows \in Seq(W) /\ Len(rows) # 0 /\ Len(rows) <= wanted /\ rows[1] = weeks[1]
    BY <1>1, <1>4, <1>6, <1>7
<1>9. /\ query.path \in {"regime/latest", "regime/history", "regime/forecast"}
      /\ found' = rows /\ anchor' = rows[1] /\ view' = Snapshot /\ pc' = "weeks"
    BY <1>0, <1>2, <1>3, <1>5 DEF RegimeWeeks, RegimeFrom, RegimeWanted
<1>10. LatestWeek(EligibleRows(RegimeFrom)) \in Nat
    BY EligibleWeeksAre, LatestIsNewest
<1> QED BY <1>0, <1>2, <1>3, <1>4, <1>5, <1>8, <1>9, <1>10

\* The same of the weeks a symbol or a portfolio is judged by.
LEMMA MarketWeeks ==
    ASSUME Frame, NEW weeks, weeks = NewestWeeks(EligibleWeeks(0), 5), weeks # <<>>
    PROVE  /\ weeks \in Seq(EligibleWeeks(0)) /\ Len(weeks) # 0
           /\ weeks[1] = LatestWeek(EligibleRows(0)) /\ weeks[1] \in Nat
<1>1. PICK W : W = EligibleWeeks(0)
    OBVIOUS
<1>2. IsFiniteSet(W) /\ W \subseteq Nat
    BY <1>1, EligibleWeeksAre
<1>3. weeks \in Seq(W)
    BY <1>1, <1>2, NewestWeekFirst
<1>4. W # {}
    BY <1>3
<1>5. weeks[1] = LatestWeek(EligibleRows(0))
    BY <1>1, <1>4, FirstEligibleIsNewest
<1>6. LatestWeek(EligibleRows(0)) \in Nat
    BY EligibleWeeksAre, LatestIsNewest
<1>7. Len(weeks) # 0
    BY <1>3
<1> QED BY <1>1, <1>3, <1>5, <1>6, <1>7

\* routers/market.py, decision.py.
LEMMA RegimeHandles == ASSUME Frame, RegimeNext PROVE HandledElsewhere
<1> USE DEF HandledElsewhere, ModelPath, At, Status
<1>1. CASE RegimeWeeks
    <2>0. pc = "called" /\ query.path \in {"regime/latest", "regime/history", "regime/forecast"}
        BY <1>1 DEF RegimeWeeks
    <2>1. CASE EligibleWeeks(RegimeFrom) = {}
        <3>1. Respond(503)
            BY <1>1, <2>1 DEF RegimeWeeks, RegimeFrom
        <3> QED BY <2>0, <3>1, RespondMoves DEF Unrefused
    <2>2. CASE ~(EligibleWeeks(RegimeFrom) = {})
        <3>1. DOMAIN answer' = DOMAIN answer /\ answer'.status = answer.status
            BY <1>1, <2>2, AnswerHasStatus, Zenon DEF RegimeWeeks, RegimeFrom
        <3>2. UNCHANGED <<committed, query, paid, first, source>>
            BY <1>1, <2>2, Zenon DEF RegimeWeeks, RegimeFrom, Static
        <3>3. anchor' \in Nat /\ view' = Snapshot /\ pc' = "weeks"
            BY <1>1, <2>2, RegimeWeeksFinds
        <3> QED BY <2>0, <3>1, <3>2, <3>3, FrameFacts DEF Moved, Unrefused, Unread
    <2> QED BY <2>1, <2>2
<1>2. CASE market_regime
    BY <1>2, RespondMoves, FinishMoves DEF market_regime, Unrefused
<1>3. CASE market_regime_forecast
    BY <1>3, RespondMoves, FinishMoves DEF market_regime_forecast, Unrefused
<1>4. CASE market_epoch_latest
    BY <1>4, RespondMoves, SendRowsMoves DEF market_epoch_latest, Unrefused
<1>5. CASE market_epoch_history
    <2>1. \/ Respond(503)
          \/ \E S, order, limit, bounds, oldestFirst : SendHistory(S, order, limit, bounds, oldestFirst)
        BY <1>5, Zenon DEF market_epoch_history
    <2>2. query.path = "epoch/history" /\ pc = "called"
        BY <1>5, Zenon DEF market_epoch_history
    <2>3. Moved /\ Unrefused
        BY <2>1, RespondMoves, SendHistoryMoves DEF Unrefused
    <2> QED BY <2>2, <2>3
<1>6. CASE EvaluateWeeks
    <2>1. PICK weeks : weeks = NewestWeeks(EligibleWeeks(0), 5)
        OBVIOUS
    <2>2. CASE weeks = <<>>
        BY <1>6, <2>1, <2>2, RespondMoves DEF EvaluateWeeks, Unrefused
    <2>3. CASE weeks # <<>>
        BY <1>6, <2>1, <2>3, MarketWeeks, FrameFacts
           DEF EvaluateWeeks, Static, Moved, Unrefused, Unread
    <2> QED BY <2>2, <2>3
<1>7. CASE evaluate_symbol
    <2>1. \/ Respond(404) \/ Respond(503)
          \/ \E rows, extra : Finish(rows, extra)
        BY <1>7, Zenon DEF evaluate_symbol
    <2> QED BY <1>7, <2>1, RespondMoves, FinishMoves DEF evaluate_symbol, Unrefused
<1> QED BY <1>1, <1>2, <1>3, <1>4, <1>5, <1>6, <1>7 DEF RegimeNext

\* routers/portfolio.py.
LEMMA PortfolioHandles == ASSUME Frame, PortfolioNext PROVE HandledElsewhere
<1> USE DEF HandledElsewhere, ModelPath, At, Status
<1>1. CASE PortfolioWeeks
    <2>1. PICK weeks : weeks = NewestWeeks(EligibleWeeks(0), 5)
        OBVIOUS
    <2>2. CASE weeks = <<>>
        BY <1>1, <2>1, <2>2, RespondMoves DEF PortfolioWeeks, PortfolioPath, Unrefused
    <2>3. CASE weeks # <<>>
        BY <1>1, <2>1, <2>3, MarketWeeks, FrameFacts
           DEF PortfolioWeeks, PortfolioPath, Static, Moved, Unrefused, Unread
    <2> QED BY <2>2, <2>3
<1>2. CASE construct_portfolio
    <2>1. \/ Respond(422)
          \/ \E rows, extra : /\ answer' = [answer EXCEPT !.status = 200, !.week = anchor,
                                                   !.rows = rows, !.extra = extra]
                             /\ pc' = "done" /\ view' = Omitted
                             /\ UNCHANGED <<committed, query, paid, anchor, source, first>>
        BY <1>2, Zenon DEF construct_portfolio, Static
    <2>2. query.path = "portfolio/construct" /\ pc = "weeks"
        BY <1>2, Zenon DEF construct_portfolio
    <2>3. CASE Respond(422)
        BY <2>2, <2>3, RespondMoves DEF Unrefused
    <2>4. CASE ~Respond(422)
        <3>1. DOMAIN answer' = DOMAIN answer /\ answer'.status = 200
            BY <2>1, <2>4, AnswerHasStatus, Zenon
        <3>2. pc' = "done" /\ view' = Omitted
              /\ UNCHANGED <<committed, query, paid, anchor, source, first>>
            BY <2>1, <2>4, Zenon
        <3> QED BY <2>2, <3>1, <3>2, FrameFacts DEF Moved, Unrefused
    <2> QED BY <2>3, <2>4
<1>3. CASE evaluate_portfolio
    BY <1>3, RespondMoves, FinishMoves DEF evaluate_portfolio, Unrefused
<1>4. CASE compare_portfolios
    BY <1>4, RespondMoves, FinishMoves DEF compare_portfolios, Unrefused
<1> QED BY <1>1, <1>2, <1>3, <1>4 DEF PortfolioNext

\* routers/stocktrends_portfolios.py, stocktrends_strategies.py: free, and otherwise the same.
LEMMA ModelHandles ==
    ASSUME Frame, ModelNext
    PROVE  /\ query.path \in ModelPath /\ pc # "done"
           /\ Moved \/ (/\ UNCHANGED <<committed, query, paid, first, anchor, source, answer>>
                        /\ pc' = "listed" /\ view' = Snapshot)
<1> USE DEF ModelPath, At, Status
<1>1. CASE list_stocktrends_portfolios
    BY <1>1, SendRowsMoves DEF list_stocktrends_portfolios
<1>2. CASE get_stocktrends_portfolio
    BY <1>2, RespondMoves, SendRowsMoves DEF get_stocktrends_portfolio
<1>3. CASE PortfolioLookup
    BY <1>3, RespondMoves DEF PortfolioLookup, Static
<1>4. CASE get_stocktrends_portfolio_returns
    BY <1>4, SendRowsMoves DEF get_stocktrends_portfolio_returns
<1>5. CASE get_stocktrends_portfolio_positions_history
    BY <1>5, SendRowsMoves DEF get_stocktrends_portfolio_positions_history
<1>6. CASE get_stocktrends_portfolio_summary
    BY <1>6, SummaryAnswers
<1>7. CASE list_stocktrends_strategies
    BY <1>7, SendRowsMoves DEF list_stocktrends_strategies
<1>8. CASE get_stocktrends_strategy
    BY <1>8, StrategyMoves DEF get_stocktrends_strategy
<1>9. CASE get_stocktrends_portfolio_strategy
    BY <1>9, StrategyMoves DEF get_stocktrends_portfolio_strategy
<1> QED BY <1>1, <1>2, <1>3, <1>4, <1>5, <1>6, <1>7, <1>8, <1>9 DEF ModelNext

-----------------------------------------------------------------------------
(* Every step keeps to the frame.                                          *)

\* A step of the request, whoever takes it.
LEMMA MovedKeepsFrame == ASSUME Frame, Moved PROVE Frame'
<1>1. first \subseteq Snapshot /\ Snapshot \subseteq committed /\ Loaded(Snapshot)
    BY SnapshotIsOfTheCall
<1>2. view' = Omitted \/ (first \subseteq view' /\ view' \subseteq committed /\ Loaded(view'))
    BY <1>1 DEF Frame, TypeOK, Moved
<1>3. TypeOK'
    BY <1>2 DEF Frame, TypeOK, Moved, Unread, Status
<1>4. Answerable' /\ (pc' \in Unread => view' = Omitted) /\ (pc' = "gaps" => answer'.status = 200)
    BY DEF Frame, Answerable, Moved
<1> QED BY <1>2, <1>3, <1>4 DEF Frame, Moved, Loaded

\* The steps of the handlers.
LEMMA HandlerKeepsFrame == ASSUME Frame, HandlerNext PROVE Frame'
<1>1. HandledElsewhere \/ ModelNext
    BY SymbolHandles, ListHandles, StwrHandles, BreadthHandles, RegimeHandles, PortfolioHandles
       DEF HandlerNext
<1>2. CASE Moved
    BY <1>2, MovedKeepsFrame
<1>3. CASE /\ UNCHANGED <<committed, query, paid, first, anchor, source, answer>>
           /\ pc' = "listed" /\ view' = Snapshot
    <2>1. first \subseteq Snapshot /\ Snapshot \subseteq committed /\ Loaded(Snapshot)
        BY SnapshotIsOfTheCall
    <2>2. TypeOK'
        BY <1>3, <2>1 DEF Frame, TypeOK
    <2> QED BY <1>3, <2>1, <2>2 DEF Frame, Answerable, Unread, Loaded
<1> QED BY <1>1, <1>2, <1>3, ModelHandles DEF HandledElsewhere

\* Every step.
LEMMA NextKeepsFrame == ASSUME Frame, [Next]_vars PROVE Frame'
<1> USE DEF Status
<1>1. CASE Validate
    <2>1. CASE Refused(query)
        BY <1>1, <2>1, RespondMoves, MovedKeepsFrame DEF Validate
    <2>2. CASE ~Refused(query)
        <3>1. /\ pc = "arrived" /\ pc' = "admitted"
              /\ UNCHANGED <<committed, query, view, anchor, source, answer, first>>
            BY <1>1, <2>2 DEF Validate
        <3>2. paid' \in BOOLEAN
            BY <1>1, <2>2, Zenon DEF Validate
        <3>3. view = Omitted
            BY <3>1 DEF Frame, Unread
        <3>4. TypeOK'
            BY <3>1, <3>2, <3>3 DEF Frame, TypeOK
        <3> QED BY <3>1, <3>3, <3>4 DEF Frame, Answerable, Unread
    <2> QED BY <2>1, <2>2
<1>2. CASE PaymentRefused
    BY <1>2, RespondMoves, MovedKeepsFrame DEF PaymentRefused
<1>3. CASE CallHandler
    <2>1. CASE HandlerRefuses(query)
        BY <1>3, <2>1, RespondMoves, MovedKeepsFrame DEF CallHandler
    <2>2. CASE ~HandlerRefuses(query)
        <3>1. view = Omitted
            BY <1>3 DEF CallHandler, Frame, Unread
        <3> QED BY <1>3, <2>2, <3>1 DEF CallHandler, Frame, TypeOK, Answerable, Static, Unread, Loaded
    <2> QED BY <2>1, <2>2
<1>4. CASE DatabaseFails
    BY <1>4, RespondMoves, MovedKeepsFrame DEF DatabaseFails
<1>5. CASE HandlerNext
    BY <1>5, HandlerKeepsFrame
<1>6. CASE \E c \in BatchId : Load(c)
    BY <1>6 DEF Load, Frame, TypeOK, Answerable, Loaded
<1>7. CASE UNCHANGED vars
    BY <1>7 DEF vars, Frame, TypeOK, Answerable, Loaded
<1> QED BY <1>1, <1>2, <1>3, <1>4, <1>5, <1>6, <1>7 DEF Next

LEMMA InitIsFramed == Init => Frame
<1> SUFFICES ASSUME Init PROVE Frame
    OBVIOUS
<1>1. /\ committed \subseteq BatchId /\ \A b \in committed : Batch[b].needs \subseteq committed
      /\ query \in Query /\ pc = "arrived" /\ paid = FALSE /\ view = Omitted /\ anchor = 0
      /\ source = "raw" /\ first = {}
    BY DEF Init
<1>2. answer = NoAnswer /\ answer.status = 0
    BY DEF Init, NoAnswer
<1>3. query.path \in Path
    BY <1>1, PathAssumption
<1> QED BY <1>1, <1>2, <1>3 DEF Frame, TypeOK, Answerable, Unread

LEMMA FrameAlways == Spec => []Frame
BY InitIsFramed, NextKeepsFrame, PTL DEF Spec

\* Types: the snapshots of a request lie between what was committed when its handler began and
\* what is committed now, and whoever is answered has no connection open.
THEOREM DataTypes == Spec => []TypeOK
<1>1. Frame => TypeOK
    BY DEF Frame
<1> QED BY <1>1, FrameAlways, PTL

-----------------------------------------------------------------------------
(* Nobody pays to be told that the request is wrong.                       *)

\* A handler refuses only what its validator refuses; the leadership summary even less.
LEMMA HandlerRefusesLess == ASSUME NEW q, HandlerRefuses(q) PROVE Refused(q)
<1> USE DEF SymbolPath, BreadthPath, PortfolioPath
<1>1. CASE q.path \in {"leadership/latest", "rotation/history"}
    BY <1>1 DEF HandlerRefuses, Refused, KnownExchange, LeadershipRefused, RotationRefused
<1>2. CASE q.path \notin {"leadership/latest", "rotation/history"}
    BY <1>2 DEF HandlerRefuses, Refused
<1> QED BY <1>1, <1>2

\* Who paid was not refused by the validator, and asked for something that is sold.
PayInv ==
    /\ Frame
    /\ pc = "arrived" => ~paid /\ answer.status # 400
    /\ paid => ~Refused(query) /\ query.path \notin FreePath /\ answer.status # 400

\* Whichever step a handler takes, who paid is not refused.
LEMMA HandlerPays == ASSUME PayInv, HandlerNext PROVE PayInv'
<1>0. Frame /\ Frame'
    BY HandlerKeepsFrame DEF PayInv
<1>1. \/ HandledElsewhere
      \/ query.path \in FreePath /\ pc' # "arrived" /\ UNCHANGED <<query, paid>>
    BY <1>0, SymbolHandles, ListHandles, StwrHandles, BreadthHandles, RegimeHandles,
       PortfolioHandles, ModelHandles DEF HandlerNext, FreePath, Moved
<1>2. CASE query.path \in FreePath
    BY <1>0, <1>1, <1>2 DEF PayInv, HandledElsewhere, Moved
<1>3. CASE query.path \notin FreePath
    BY <1>0, <1>1, <1>3 DEF PayInv, HandledElsewhere, Moved, Unrefused
<1> QED BY <1>2, <1>3

\* Before a handler is called, and around it.
LEMMA NextPays == ASSUME PayInv, [Next]_vars PROVE PayInv'
<1>0. Frame /\ Frame'
    BY NextKeepsFrame DEF PayInv
<1> USE DEF Status
<1>1. CASE Validate
    <2>1. CASE Refused(query)
        <3>1. Moved /\ pc' = "done"
            BY <1>0, <1>1, <2>1, RespondMoves DEF Validate
        <3>2. ~paid
            BY <1>1 DEF Validate, PayInv
        <3> QED BY <1>0, <3>1, <3>2 DEF Moved, PayInv
    <2>2. CASE ~Refused(query)
        <3>1. pc' = "admitted" /\ UNCHANGED <<query, answer>>
            BY <1>1, <2>2 DEF Validate
        <3>2. paid' => query.path \notin FreePath
            BY <1>1, <2>2, Zenon DEF Validate
        <3>3. answer.status # 400
            BY <1>1 DEF Validate, PayInv
        <3> QED BY <1>0, <2>2, <3>1, <3>2, <3>3 DEF PayInv
    <2> QED BY <2>1, <2>2
<1>2. CASE PaymentRefused
    BY <1>0, <1>2, RespondMoves DEF PaymentRefused, PayInv, Moved
<1>3. CASE CallHandler
    <2>1. CASE HandlerRefuses(query)
        BY <1>0, <1>3, <2>1, HandlerRefusesLess, RespondMoves DEF CallHandler, PayInv, Moved
    <2>2. CASE ~HandlerRefuses(query)
        BY <1>0, <1>3, <2>2 DEF CallHandler, PayInv, Static
    <2> QED BY <2>1, <2>2
<1>4. CASE DatabaseFails
    BY <1>0, <1>4, RespondMoves DEF DatabaseFails, PayInv, Moved
<1>5. CASE HandlerNext
    BY <1>5, HandlerPays
<1>6. CASE \E c \in BatchId : Load(c)
    BY <1>0, <1>6 DEF Load, PayInv
<1>7. CASE UNCHANGED vars
    BY <1>0, <1>7 DEF vars, PayInv
<1> QED BY <1>1, <1>2, <1>3, <1>4, <1>5, <1>6, <1>7 DEF Next

\* What the handler of a paid endpoint would refuse, its validator refused before payment, for
\* every request and however the tables change meanwhile (pre_payment_semantic_validator).
THEOREM PayersAreNotRefused == Spec => []PaidIsNotRefused
<1>1. Init => PayInv
    BY InitIsFramed DEF Init, PayInv, NoAnswer
<1>2. PayInv /\ [Next]_vars => PayInv'
    BY NextPays
<1>3. PayInv => PaidIsNotRefused
    BY DEF PayInv, PaidIsNotRefused
<1> QED BY <1>1, <1>2, <1>3, PTL DEF Spec

-----------------------------------------------------------------------------
(* Of a model portfolio only the past is told.                             *)

\* The portfolio that was asked for has been listed.
WasListed == \E y \in RowsAt(committed, "ports") : y.id = query.port /\ y.status = 1

\* A handler goes on with a listed portfolio.
PastInv ==
    /\ Frame
    /\ pc = "listed" => WasListed
    /\ OnlyThePastIsTold

\* A query sees rows that were committed.
LEMMA RowsCommitted == ASSUME Frame, NEW t PROVE Rows(t) \subseteq RowsAt(committed, t)
BY SnapshotIsOfTheCall, RowsAtGrows DEF Rows

\* A portfolio that is found is listed.
LEMMA AskedIsListed == ASSUME Frame, NEW x \in Asked PROVE WasListed
BY RowsCommitted DEF Asked, Listed, Ports, Written, WasListed

\* A position that is selected has been closed.
LEMMA ClosedIsPast ==
    ASSUME Frame, NEW x \in ClosedPositions
    PROVE  \E y \in RowsAt(committed, "positions") :
               y.id = x.id /\ y.sell_trigger \notin {Omitted, ""}
<1>1. x \in Rows("positions") /\ x.sell_trigger \notin {Omitted, ""}
    BY DEF ClosedPositions, Closed, Written, PortRows
<1> QED BY <1>1, RowsCommitted

\* The endpoints that must not tell the present.
TellingPath == {"model/returns", "model/summary", "model/positions", "model/detail",
                "model/provenance"}

\* A step that keeps the request and the tables and answers nothing about a portfolio.
LEMMA TellsNothing ==
    ASSUME PastInv, Frame', UNCHANGED <<committed, query>>, pc' = "listed" => WasListed,
           pc' = "done" /\ answer'.status = 200 => query.path \notin TellingPath
    PROVE  PastInv'
<1>1. (pc = "listed" => WasListed)'
    BY DEF WasListed
<1>2. OnlyThePastIsTold'
    BY DEF OnlyThePastIsTold, HoldingsAreHidden, OnlyListed, Answered, TellingPath
<1> QED BY <1>1, <1>2 DEF PastInv

\* A step that answers about a listed portfolio, and of no position that is not closed.
LEMMA TellsThePast ==
    ASSUME PastInv, Moved, WasListed,
           query.path \in {"model/summary", "model/positions"} => matched' = ClosedPositions
    PROVE  PastInv'
<1>0. Frame /\ Frame'
    BY MovedKeepsFrame DEF PastInv
<1>1. (pc = "listed" => WasListed)'
    BY DEF Moved
<1>2. OnlyListed'
    BY DEF OnlyListed, WasListed, Moved
<1>3. HoldingsAreHidden'
    BY <1>0, ClosedIsPast DEF HoldingsAreHidden, Moved
<1> QED BY <1>0, <1>1, <1>2, <1>3 DEF PastInv, OnlyThePastIsTold

\* The steps of the model portfolios.
LEMMA ModelTellsThePast == ASSUME PastInv, ModelNext PROVE PastInv'
<1> USE DEF TellingPath, At, Status
<1>0. Frame /\ Frame' /\ (pc = "listed" => WasListed)
    BY HandlerKeepsFrame DEF PastInv, HandlerNext
<1>1. CASE list_stocktrends_portfolios
    BY <1>0, <1>1, SendRowsMoves, TellsNothing DEF list_stocktrends_portfolios, Moved
<1>2. CASE get_stocktrends_portfolio
    <2>1. CASE Asked = {}
        BY <1>0, <1>2, <2>1, RespondMoves, TellsNothing DEF get_stocktrends_portfolio, Moved
    <2>2. CASE Asked # {}
        BY <1>0, <1>2, <2>2, SendRowsMoves, AskedIsListed, TellsThePast
           DEF get_stocktrends_portfolio
    <2> QED BY <2>1, <2>2
<1>3. CASE PortfolioLookup
    <2>1. CASE Asked = {}
        BY <1>0, <1>3, <2>1, RespondMoves, TellsNothing DEF PortfolioLookup, Moved
    <2>2. CASE Asked # {}
        BY <1>0, <1>3, <2>2, AskedIsListed, TellsNothing DEF PortfolioLookup, Static
    <2> QED BY <2>1, <2>2
<1>4. CASE get_stocktrends_portfolio_returns
    BY <1>0, <1>4, SendRowsMoves, TellsThePast DEF get_stocktrends_portfolio_returns
<1>5. CASE get_stocktrends_portfolio_positions_history
    <2>1. matched' = ClosedPositions
        BY <1>5, Zenon DEF get_stocktrends_portfolio_positions_history, SendRows
    <2>2. pc = "listed" /\ \E S, order, limit, week : SendRows(S, order, limit, week)
        BY <1>5, Zenon DEF get_stocktrends_portfolio_positions_history
    <2> QED BY <1>0, <2>1, <2>2, SendRowsMoves, TellsThePast
<1>6. CASE get_stocktrends_portfolio_summary
    BY <1>0, <1>6, SummaryAnswers, TellsThePast
<1>7. CASE list_stocktrends_strategies
    BY <1>0, <1>7, SendRowsMoves, TellsNothing DEF list_stocktrends_strategies, Moved
<1>8. CASE get_stocktrends_strategy
    BY <1>0, <1>8, StrategyMoves, TellsNothing DEF get_stocktrends_strategy, Moved
<1>9. CASE get_stocktrends_portfolio_strategy
    BY <1>0, <1>9, StrategyMoves, TellsThePast DEF get_stocktrends_portfolio_strategy
<1> QED BY <1>1, <1>2, <1>3, <1>4, <1>5, <1>6, <1>7, <1>8, <1>9 DEF ModelNext

\* Every step: the answer of another endpoint is no answer about a portfolio.
LEMMA NextTellsThePast == ASSUME PastInv, [Next]_vars PROVE PastInv'
<1>0. Frame /\ Frame'
    BY NextKeepsFrame DEF PastInv
<1> USE DEF Status
<1>1. CASE Validate
    <2>1. CASE Refused(query)
        BY <1>0, <1>1, <2>1, RespondMoves, TellsNothing DEF Validate, Moved
    <2>2. CASE ~Refused(query)
        BY <1>0, <1>1, <2>2, TellsNothing DEF Validate
    <2> QED BY <2>1, <2>2
<1>2. CASE PaymentRefused
    BY <1>0, <1>2, RespondMoves, TellsNothing DEF PaymentRefused, Moved
<1>3. CASE CallHandler
    <2>1. CASE HandlerRefuses(query)
        BY <1>0, <1>3, <2>1, RespondMoves, TellsNothing DEF CallHandler, Moved
    <2>2. CASE ~HandlerRefuses(query)
        BY <1>0, <1>3, <2>2, TellsNothing DEF CallHandler, Static
    <2> QED BY <2>1, <2>2
<1>4. CASE DatabaseFails
    BY <1>0, <1>4, RespondMoves, TellsNothing DEF DatabaseFails, Moved
<1>5. CASE HandlerNext
    <2>1. HandledElsewhere \/ ModelNext
        BY <1>0, <1>5, SymbolHandles, ListHandles, StwrHandles, BreadthHandles, RegimeHandles,
           PortfolioHandles DEF HandlerNext
    <2>2. CASE HandledElsewhere
        BY <1>0, <2>2, TellsNothing DEF HandledElsewhere, Moved, ModelPath, TellingPath
    <2> QED BY <2>1, <2>2, ModelTellsThePast
<1>6. CASE \E c \in BatchId : Load(c)
    <2>1. committed \subseteq committed' /\ pc # "done" /\ UNCHANGED <<query, pc, view, answer>>
        BY <1>6 DEF Load
    <2>2. WasListed => WasListed'
        BY <2>1, RowsAtGrows DEF WasListed
    <2> QED BY <1>0, <2>1, <2>2
            DEF PastInv, OnlyThePastIsTold, OnlyListed, HoldingsAreHidden, Answered
<1>7. CASE UNCHANGED vars
    BY <1>0, <1>7 DEF vars, PastInv, WasListed, OnlyThePastIsTold, OnlyListed,
                HoldingsAreHidden, Answered
<1> QED BY <1>1, <1>2, <1>3, <1>4, <1>5, <1>6, <1>7 DEF Next

\* An answer about a model portfolio is about one that was listed, and about positions that were
\* closed, whatever the portfolio program writes meanwhile.
THEOREM ThePresentIsNotTold == Spec => []OnlyThePastIsTold
<1>1. Init => PastInv
    BY InitIsFramed DEF Init, PastInv, OnlyThePastIsTold, OnlyListed, HoldingsAreHidden, Answered
<1>2. PastInv /\ [Next]_vars => PastInv'
    BY NextTellsThePast
<1>3. PastInv => OnlyThePastIsTold
    BY DEF PastInv
<1> QED BY <1>1, <1>2, <1>3, PTL DEF Spec

-----------------------------------------------------------------------------
(* The weeks that have a score (RegimeRoutes).                             *)

\* A week can be scored if one of its rows is classified.
CanBeScored(week) == Classified(WeekRows(week)) # {}
OneScoredMore(v, week) == IF Classified(WeekRows(week)) = {} THEN v ELSE Append(v, week)

\* The weeks are taken one by one.
LEMMA ScoredOneByOne ==
    ASSUME NEW W, NEW weeks \in Seq(W)
    PROVE  \E g \in [0 .. Len(weeks) -> Seq(W)] :
              /\ g[0] = <<>> /\ Scored(weeks) = g[Len(weeks)]
              /\ \A k \in 1 .. Len(weeks) : g[k] = OneScoredMore(g[k - 1], weeks[k])
<1>1. PICK m \in Nat : m = Len(weeks)
    OBVIOUS
<1>2. PICK V : V = Seq(W)
    OBVIOUS
<1> DEFINE Rec(g) == [k \in 0 .. m |-> IF k = 0 THEN <<>>
                                       ELSE IF Classified(WeekRows(weeks[k])) = {} THEN g[k - 1]
                                       ELSE Append(g[k - 1], weeks[k])]
<1>3. \A k \in 1 .. m : weeks[k] \in W
    BY <1>1
<1>4. <<>> \in V /\ \A v \in V : \A k \in 1 .. m : OneScoredMore(v, weeks[k]) \in V
    <2>1. \A v \in Seq(W) : \A w \in W : OneScoredMore(v, w) \in Seq(W)
        BY DEF OneScoredMore
    <2>2. <<>> \in Seq(W)
        OBVIOUS
    <2>3. \A v \in V : \A k \in 1 .. m : OneScoredMore(v, weeks[k]) \in V
        BY <1>2, <1>3, <2>1
    <2> QED BY <1>2, <2>2, <2>3
<1>5. PICK step : \A k \in Nat : \A v \in V :
          step[<<k, v>>] = IF k \in 1 .. m THEN OneScoredMore(v, weeks[k]) ELSE v
    <2> DEFINE fn == [kv \in Nat \X V |->
                        IF kv[1] \in 1 .. m THEN OneScoredMore(kv[2], weeks[kv[1]]) ELSE kv[2]]
    <2>1. \A k \in Nat : \A v \in V :
              fn[<<k, v>>] = IF k \in 1 .. m THEN OneScoredMore(v, weeks[k]) ELSE v
        OBVIOUS
    <2> HIDE DEF fn
    <2> QED BY <2>1
<1>6. PICK f \in [0 .. m -> V] : Follows(f, <<>>, m, step)
    <2>1. StaysIn(V, step)
        <3>1. ASSUME NEW k \in Nat, NEW v \in V PROVE step[<<k, v>>] \in V
            <4>1. CASE k \in 1 .. m
                BY <1>4, <1>5, <4>1
            <4>2. CASE k \notin 1 .. m
                BY <1>5, <4>2
            <4> QED BY <4>1, <4>2
        <3> QED BY <3>1, Zenon DEF StaysIn
    <2>2. PICK base \in V : base = <<>>
        BY <1>4
    <2>3. \E f \in [0 .. m -> V] : Follows(f, base, m, step)
        BY <2>1, Recursion
    <2> QED BY <2>2, <2>3
<1>7. f = Rec(f)
    <2>1. ASSUME NEW k \in 0 .. m
          PROVE  f[k] = IF k = 0 THEN <<>>
                        ELSE IF Classified(WeekRows(weeks[k])) = {} THEN f[k - 1]
                        ELSE Append(f[k - 1], weeks[k])
        <3>1. CASE k = 0
            BY <1>6, <3>1 DEF Follows
        <3>2. CASE k # 0
            <4>1. k \in 1 .. m /\ k \in Nat /\ f[k - 1] \in V
                BY <3>2
            <4>2. f[k] = step[<<k, f[k - 1]>>]
                BY <1>6, <4>1 DEF Follows
            <4>3. f[k] = OneScoredMore(f[k - 1], weeks[k])
                BY <1>5, <4>1, <4>2
            <4> QED BY <3>2, <4>3, Zenon DEF OneScoredMore
        <3> QED BY <3>1, <3>2
    <2>2. f = [k \in 0 .. m |-> f[k]]
        OBVIOUS
    <2> QED BY <2>1, <2>2, Zenon
<1>8. PICK g : g = (CHOOSE h : h = Rec(h))
    OBVIOUS
<1>9. g = Rec(g)
    <2> HIDE DEF Rec
    <2> QED BY <1>7, <1>8
<1>10. Scored(weeks) = g[m]
    BY <1>1, <1>8 DEF Scored
<1>11. \A k \in 0 .. m : g[k] = IF k = 0 THEN <<>>
                                ELSE IF Classified(WeekRows(weeks[k])) = {} THEN g[k - 1]
                                ELSE Append(g[k - 1], weeks[k])
    BY <1>9, Zenon
<1>12. g[0] = <<>> /\ \A k \in 1 .. m : g[k] = OneScoredMore(g[k - 1], weeks[k])
    <2>1. 0 \in 0 .. m /\ \A k \in 1 .. m : k \in 0 .. m /\ k # 0
        OBVIOUS
    <2> QED BY <1>11, <2>1, Zenon DEF OneScoredMore
<1>13. \A k \in 0 .. m : g[k] \in V
    <2> DEFINE T == {k \in Nat : k <= m => g[k] \in V}
    <2>1. 0 \in T
        BY <1>4, <1>12
    <2>2. ASSUME NEW k \in T PROVE k + 1 \in T
        <3>1. ASSUME k + 1 <= m PROVE g[k + 1] \in V
            <4>1. k + 1 \in 1 .. m /\ k <= m /\ (k + 1) - 1 = k
                BY <3>1
            <4>2. g[k + 1] = OneScoredMore(g[k], weeks[k + 1]) /\ g[k] \in V
                BY <1>12, <4>1
            <4> QED BY <1>4, <4>1, <4>2
        <3> QED BY <3>1
    <2>3. T = Nat
        <3> T \subseteq Nat
            OBVIOUS
        <3> HIDE DEF T
        <3> QED BY <2>1, <2>2, Inductive
    <2> QED BY <2>3
<1>14. g \in [0 .. m -> V]
    BY <1>9, <1>13
<1> QED BY <1>1, <1>2, <1>10, <1>12, <1>14

\* The first k weeks.
FirstOf(v, weeks, k) == Len(v) = k /\ \A i \in 1 .. k : v[i] = weeks[i]

\* Only the weeks that were asked for are scored, and all of them if they can be.
LEMMA ScoredAreWeeks ==
    ASSUME NEW W, NEW weeks \in Seq(W)
    PROVE  /\ Scored(weeks) \in Seq(W)
           /\ (\A w \in W : CanBeScored(w)) => Scored(weeks) = weeks
<1>1. PICK g \in [0 .. Len(weeks) -> Seq(W)] :
          /\ g[0] = <<>> /\ Scored(weeks) = g[Len(weeks)]
          /\ \A k \in 1 .. Len(weeks) : g[k] = OneScoredMore(g[k - 1], weeks[k])
    BY ScoredOneByOne
<1>2. PICK m \in Nat : m = Len(weeks)
    OBVIOUS
<1>3. Scored(weeks) \in Seq(W)
    BY <1>1
<1>4. ASSUME \A w \in W : CanBeScored(w) PROVE Scored(weeks) = weeks
    <2> DEFINE T == {k \in Nat : k <= m => FirstOf(g[k], weeks, k)}
    <2>1. 0 \in T
        BY <1>1 DEF FirstOf
    <2>2. ASSUME NEW k \in T PROVE k + 1 \in T
        <3>1. ASSUME k + 1 <= m
              PROVE  FirstOf(g[k + 1], weeks, k + 1)
            <4>1. k + 1 \in 1 .. m /\ k \in 0 .. m /\ (k + 1) - 1 = k
                BY <3>1
            <4>2. weeks[k + 1] \in W /\ g[k] \in Seq(W)
                BY <1>1, <1>2, <4>1
            <4>3. g[k + 1] = Append(g[k], weeks[k + 1])
                BY <1>1, <1>2, <1>4, <4>1, <4>2 DEF OneScoredMore, CanBeScored
            <4>4. PICK v \in Seq(W) : v = g[k]
                BY <4>2
            <4>5. PICK w \in W : w = weeks[k + 1]
                BY <4>2
            <4>6. Len(v) = k /\ \A i \in 1 .. k : v[i] = weeks[i]
                BY <4>1, <4>4 DEF FirstOf
            <4>7. Len(Append(v, w)) = k + 1 /\ Append(v, w)[k + 1] = w
                  /\ \A i \in 1 .. k : Append(v, w)[i] = v[i]
                BY <4>6
            <4>8. \A i \in 1 .. k + 1 : i \in 1 .. k \/ i = k + 1
                OBVIOUS
            <4> QED BY <4>3, <4>4, <4>5, <4>6, <4>7, <4>8 DEF FirstOf
        <3> QED BY <3>1
    <2>3. T = Nat
        <3> T \subseteq Nat
            OBVIOUS
        <3> HIDE DEF T
        <3> QED BY <2>1, <2>2, Inductive
    <2>4. FirstOf(g[m], weeks, m)
        <3>1. m \in T
            BY <2>3
        <3> QED BY <3>1
    <2>5. PICK v \in Seq(W) : v = g[m]
        BY <1>1, <1>2
    <2>6. v = weeks
        BY <1>2, <2>4, <2>5 DEF FirstOf
    <2> QED BY <1>1, <1>2, <2>5, <2>6
<1> QED BY <1>3, <1>4

-----------------------------------------------------------------------------
(* Which handler takes which step.                                         *)

Asking(path, step) == query.path = path /\ pc = step

LEMMA SymbolSteps ==
    ASSUME SymbolNext
    PROVE  \/ Asking("prices/latest", "called") /\ prices_latest("prices/latest")
           \/ Asking("indicators/latest", "called") /\ prices_latest("indicators/latest")
           \/ Asking("prices/history", "called") /\ prices_history("prices/history")
           \/ Asking("indicators/history", "called") /\ prices_history("indicators/history")
           \/ Asking("stim/latest", "called") /\ StimEstimate
           \/ Asking("stim/latest", "estimated") /\ stim_latest
           \/ Asking("stim/history", "called") /\ stim_history
           \/ Asking("stim/history", "gaps") /\ (StimGaps \/ StimGapsFail)
           \/ /\ query.path \in FreePath /\ pc = "called"
              /\ instrument_lookup \/ instrument_resolve
<1> USE DEF At, Asking
<1>1. prices_latest("prices/latest") => Asking("prices/latest", "called")
    BY DEF prices_latest
<1>2. prices_latest("indicators/latest") => Asking("indicators/latest", "called")
    BY DEF prices_latest
<1>3. prices_history("prices/history") => Asking("prices/history", "called")
    BY DEF prices_history
<1>4. prices_history("indicators/history") => Asking("indicators/history", "called")
    BY DEF prices_history
<1>5. StimEstimate => Asking("stim/latest", "called")
    BY DEF StimEstimate
<1>6. stim_latest => Asking("stim/latest", "estimated")
    BY DEF stim_latest
<1>7. stim_history => Asking("stim/history", "called")
    BY DEF stim_history
<1>8. StimGaps \/ StimGapsFail => Asking("stim/history", "gaps")
    BY DEF StimGaps, StimGapsFail
<1>9. instrument_lookup \/ instrument_resolve => query.path \in FreePath /\ pc = "called"
    BY DEF instrument_lookup, instrument_resolve, FreePath
<1> HIDE DEF At, Asking
<1> QED BY <1>1, <1>2, <1>3, <1>4, <1>5, <1>6, <1>7, <1>8, <1>9
        DEF SymbolNext, indicators_latest, indicators_history

LEMMA ListSteps ==
    ASSUME ListNext
    PROVE  \/ Asking("selections/latest", "called") /\ SelectionWeek("selections/latest")
           \/ Asking("published/latest", "called") /\ SelectionWeek("published/latest")
           \/ Asking("selections/latest", "anchored") /\ selections_latest
           \/ Asking("published/latest", "anchored") /\ selections_published_latest
           \/ Asking("selections/history", "called") /\ selections_history
           \/ Asking("published/history", "called") /\ selections_published_history
           \/ Asking("screener/top", "called") /\ ScreenerWeek
           \/ Asking("screener/top", "anchored") /\ screener_top
<1> USE DEF At, Asking
<1>1. SelectionWeek("selections/latest") => Asking("selections/latest", "called")
    BY DEF SelectionWeek
<1>2. SelectionWeek("published/latest") => Asking("published/latest", "called")
    BY DEF SelectionWeek
<1>3. selections_latest => Asking("selections/latest", "anchored")
    BY DEF selections_latest
<1>4. selections_published_latest => Asking("published/latest", "anchored")
    BY DEF selections_published_latest
<1>5. selections_history => Asking("selections/history", "called")
    BY DEF selections_history
<1>6. selections_published_history => Asking("published/history", "called")
    BY DEF selections_published_history
<1>7. ScreenerWeek => Asking("screener/top", "called")
    BY DEF ScreenerWeek
<1>8. screener_top => Asking("screener/top", "anchored")
    BY DEF screener_top
<1> HIDE DEF At, Asking
<1> QED BY <1>1, <1>2, <1>3, <1>4, <1>5, <1>6, <1>7, <1>8 DEF ListNext

LEMMA StwrSteps ==
    ASSUME StwrNext
    PROVE  \/ Asking("stwr/latest", "called") /\ ReportWeek
           \/ Asking("stwr/latest", "anchored") /\ stwr_reports_latest
           \/ Asking("stwr/history", "called") /\ ReportWindow
           \/ Asking("stwr/history", "anchored") /\ stwr_reports_history
<1> USE DEF At, Asking
<1>1. ReportWeek => Asking("stwr/latest", "called")
    BY DEF ReportWeek
<1>2. stwr_reports_latest => Asking("stwr/latest", "anchored")
    BY DEF stwr_reports_latest
<1>3. ReportWindow => Asking("stwr/history", "called")
    BY DEF ReportWindow
<1>4. stwr_reports_history => Asking("stwr/history", "anchored")
    BY DEF stwr_reports_history
<1> HIDE DEF At, Asking
<1> QED BY <1>1, <1>2, <1>3, <1>4 DEF StwrNext

LEMMA BreadthSteps ==
    ASSUME BreadthNext
    PROVE  \/ query.path \in BreadthPath /\ pc \in {"called", "ranged"}
              /\ (BreadthRange \/ BreadthAnchor \/ BreadthProbeFails \/ BreadthRaw)
           \/ Asking("breadth/latest", "anchored") /\ breadth_sector_latest
           \/ Asking("breadth/history", "anchored") /\ breadth_sector_history
           \/ Asking("leadership/latest", "called") /\ LeadershipWeek
           \/ Asking("leadership/latest", "anchored") /\ LeadershipOverall
           \/ Asking("leadership/latest", "overall") /\ leadership_summary_latest
           \/ Asking("rotation/history", "called")
              /\ (RotationAnchor \/ RotationProbeFails \/ RotationRaw)
           \/ Asking("rotation/history", "anchored") /\ leadership_rotation_history
<1> USE DEF At, Asking
<1>1. BreadthRange \/ BreadthAnchor \/ BreadthProbeFails \/ BreadthRaw
         => query.path \in BreadthPath /\ pc \in {"called", "ranged"}
    BY DEF BreadthRange, BreadthAnchor, BreadthProbeFails, BreadthRaw, AtBreadth
<1>2. breadth_sector_latest => Asking("breadth/latest", "anchored")
    BY DEF breadth_sector_latest
<1>3. breadth_sector_history => Asking("breadth/history", "anchored")
    BY DEF breadth_sector_history
<1>4. LeadershipWeek => Asking("leadership/latest", "called")
    BY DEF LeadershipWeek
<1>5. LeadershipOverall => Asking("leadership/latest", "anchored")
    BY DEF LeadershipOverall
<1>6. leadership_summary_latest => Asking("leadership/latest", "overall")
    BY DEF leadership_summary_latest
<1>7. RotationAnchor \/ RotationProbeFails \/ RotationRaw => Asking("rotation/history", "called")
    BY DEF RotationAnchor, RotationProbeFails, RotationRaw
<1>8. leadership_rotation_history => Asking("rotation/history", "anchored")
    BY DEF leadership_rotation_history
<1> HIDE DEF At, Asking
<1> QED BY <1>1, <1>2, <1>3, <1>4, <1>5, <1>6, <1>7, <1>8 DEF BreadthNext

MarketPath == {"regime/latest", "regime/history", "regime/forecast"}

LEMMA RegimeSteps ==
    ASSUME RegimeNext
    PROVE  \/ query.path \in MarketPath /\ pc = "called" /\ RegimeWeeks
           \/ query.path \in {"regime/latest", "regime/history"} /\ pc = "weeks" /\ market_regime
           \/ Asking("regime/forecast", "weeks") /\ market_regime_forecast
           \/ Asking("epoch/latest", "called") /\ market_epoch_latest
           \/ Asking("epoch/history", "called") /\ market_epoch_history
           \/ Asking("decision/evaluate", "called") /\ EvaluateWeeks
           \/ Asking("decision/evaluate", "weeks") /\ evaluate_symbol
<1> USE DEF At, Asking
<1>1. RegimeWeeks => query.path \in MarketPath /\ pc = "called"
    BY DEF RegimeWeeks, MarketPath
<1>2. market_regime => query.path \in {"regime/latest", "regime/history"} /\ pc = "weeks"
    BY DEF market_regime
<1>3. market_regime_forecast => Asking("regime/forecast", "weeks")
    BY DEF market_regime_forecast
<1>4. market_epoch_latest => Asking("epoch/latest", "called")
    BY DEF market_epoch_latest
<1>5. market_epoch_history => Asking("epoch/history", "called")
    BY Zenon DEF market_epoch_history
<1>6. EvaluateWeeks => Asking("decision/evaluate", "called")
    BY DEF EvaluateWeeks
<1>7. evaluate_symbol => Asking("decision/evaluate", "weeks")
    BY Zenon DEF evaluate_symbol
<1> HIDE DEF At, Asking
<1> QED BY <1>1, <1>2, <1>3, <1>4, <1>5, <1>6, <1>7 DEF RegimeNext

LEMMA PortfolioSteps ==
    ASSUME PortfolioNext
    PROVE  \/ query.path \in PortfolioPath /\ pc = "called" /\ PortfolioWeeks
           \/ Asking("portfolio/construct", "weeks") /\ construct_portfolio
           \/ Asking("portfolio/evaluate", "weeks") /\ evaluate_portfolio
           \/ Asking("portfolio/compare", "weeks") /\ compare_portfolios
<1> USE DEF At, Asking
<1>1. PortfolioWeeks => query.path \in PortfolioPath /\ pc = "called"
    BY DEF PortfolioWeeks
<1>2. construct_portfolio => Asking("portfolio/construct", "weeks")
    BY Zenon DEF construct_portfolio
<1>3. evaluate_portfolio => Asking("portfolio/evaluate", "weeks")
    BY Zenon DEF evaluate_portfolio
<1>4. compare_portfolios => Asking("portfolio/compare", "weeks")
    BY Zenon DEF compare_portfolios
<1> HIDE DEF At, Asking
<1> QED BY <1>1, <1>2, <1>3, <1>4 DEF PortfolioNext

-----------------------------------------------------------------------------
(* Where the steps of the handlers lead.                                   *)

\* The first query of a handler finds the weeks of the market ...
OpensMarket ==
    \/ query.path \in MarketPath /\ pc = "called" /\ RegimeWeeks
    \/ Asking("decision/evaluate", "called") /\ EvaluateWeeks
    \/ query.path \in PortfolioPath /\ pc = "called" /\ PortfolioWeeks

\* ... or a week, or none ...
FindsWeek ==
    \/ Asking("selections/latest", "called") /\ SelectionWeek("selections/latest")
    \/ Asking("published/latest", "called") /\ SelectionWeek("published/latest")
    \/ Asking("screener/top", "called") /\ ScreenerWeek
    \/ Asking("stwr/latest", "called") /\ ReportWeek
    \/ Asking("stwr/history", "called") /\ ReportWindow
    \/ /\ query.path \in BreadthPath /\ pc \in {"called", "ranged"}
       /\ BreadthRange \/ BreadthAnchor \/ BreadthRaw
    \/ Asking("leadership/latest", "called") /\ LeadershipWeek
    \/ Asking("rotation/history", "called") /\ (RotationAnchor \/ RotationRaw)

\* ... and the last one answers: with what is newest ...
AnswersLatest ==
    \/ Asking("prices/latest", "called") /\ prices_latest("prices/latest")
    \/ Asking("indicators/latest", "called") /\ prices_latest("indicators/latest")
    \/ Asking("stim/latest", "estimated") /\ stim_latest
    \/ Asking("selections/latest", "anchored") /\ selections_latest
    \/ Asking("published/latest", "anchored") /\ selections_published_latest
    \/ Asking("screener/top", "anchored") /\ screener_top
    \/ Asking("stwr/latest", "anchored") /\ stwr_reports_latest
    \/ Asking("breadth/latest", "anchored") /\ breadth_sector_latest
    \/ Asking("leadership/latest", "overall") /\ leadership_summary_latest
    \/ Asking("regime/latest", "weeks") /\ market_regime
    \/ Asking("regime/forecast", "weeks") /\ market_regime_forecast
    \/ Asking("epoch/latest", "called") /\ market_epoch_latest
    \/ Asking("decision/evaluate", "weeks") /\ evaluate_symbol
    \/ Asking("portfolio/construct", "weeks") /\ construct_portfolio
    \/ Asking("portfolio/evaluate", "weeks") /\ evaluate_portfolio
    \/ Asking("portfolio/compare", "weeks") /\ compare_portfolios

\* ... or with a history.
AnswersHistory ==
    \/ Asking("prices/history", "called") /\ prices_history("prices/history")
    \/ Asking("indicators/history", "called") /\ prices_history("indicators/history")
    \/ Asking("stim/history", "called") /\ stim_history
    \/ Asking("selections/history", "called") /\ selections_history
    \/ Asking("published/history", "called") /\ selections_published_history
    \/ Asking("stwr/history", "anchored") /\ stwr_reports_history
    \/ Asking("breadth/history", "anchored") /\ breadth_sector_history
    \/ Asking("rotation/history", "anchored") /\ leadership_rotation_history
    \/ Asking("regime/history", "weeks") /\ market_regime
    \/ Asking("epoch/history", "called") /\ market_epoch_history

\* A handler that gives up.
GivesUp == pc' = "done" /\ answer'.status \notin {0, 200}

\* A step of the handler of a sold endpoint.
Step ==
    \/ GivesUp
    \/ pc' = "weeks" /\ OpensMarket
    \/ pc' = "estimated" /\ Asking("stim/latest", "called") /\ StimEstimate
    \/ pc' \in {"ranged", "anchored"} /\ FindsWeek
    \/ pc' = "overall" /\ Asking("leadership/latest", "anchored") /\ LeadershipOverall
    \/ pc' = "done" /\ AnswersLatest
    \/ pc' \in {"gaps", "done"} /\ AnswersHistory
    \/ pc' = "done" /\ Asking("stim/history", "gaps") /\ (StimGaps \/ StimGapsFail)

\* A refusal, a missing row and a failure give up.
LEMMA RespondGivesUp ==
    ASSUME Frame, NEW status \in Status \ {0, 200}, Respond(status) PROVE GivesUp
BY RespondMoves DEF GivesUp

\* A step of an endpoint that is not sold.
FreeStep == query.path \in FreePath /\ pc' \in {"listed", "done"}

LEMMA SymbolLeads == ASSUME Frame, SymbolNext PROVE Step \/ FreeStep
<1> USE DEF Status
<1>1. ASSUME NEW path, prices_latest(path) PROVE pc' = "done"
    BY <1>1, Zenon DEF prices_latest, Respond, SendRows
<1>2. ASSUME NEW path, prices_history(path) PROVE pc' \in {"gaps", "done"}
    BY <1>2, Zenon DEF prices_history, SendHistory
<1>3. ASSUME StimEstimate PROVE pc' = "estimated"
    BY <1>3 DEF StimEstimate
<1>4. ASSUME stim_latest PROVE pc' = "done"
    BY <1>4 DEF stim_latest, Respond
<1>5. ASSUME stim_history PROVE pc' \in {"gaps", "done"}
    BY <1>5, Zenon DEF stim_history, SendHistory
<1>6. ASSUME StimGaps \/ StimGapsFail PROVE pc' = "done"
    BY <1>6 DEF StimGaps, StimGapsFail
<1>7. ASSUME instrument_lookup \/ instrument_resolve PROVE pc' = "done"
    BY <1>7, Zenon DEF instrument_lookup, instrument_resolve, Respond, SendRows
<1> QED BY <1>1, <1>2, <1>3, <1>4, <1>5, <1>6, <1>7, SymbolSteps
        DEF Step, AnswersLatest, AnswersHistory, FreeStep

LEMMA ListLeads == ASSUME Frame, ListNext PROVE Step
<1> USE DEF Status
<1>1. ASSUME NEW path, SelectionWeek(path) PROVE GivesUp \/ pc' = "anchored"
    BY <1>1, RespondGivesUp DEF SelectionWeek, ResolveWeek
<1>2. ASSUME ScreenerWeek PROVE GivesUp \/ pc' = "anchored"
    BY <1>2, RespondGivesUp DEF ScreenerWeek, ResolveWeekOpen
<1>3. ASSUME selections_latest \/ selections_published_latest \/ screener_top PROVE pc' = "done"
    BY <1>3, Zenon DEF selections_latest, selections_published_latest, screener_top, SendRows
<1>4. ASSUME selections_history \/ selections_published_history PROVE pc' \in {"gaps", "done"}
    BY <1>4, Zenon DEF selections_history, selections_published_history, SendHistory
<1> QED BY <1>1, <1>2, <1>3, <1>4, ListSteps DEF Step, FindsWeek, AnswersLatest, AnswersHistory

LEMMA StwrLeads == ASSUME Frame, StwrNext PROVE Step
<1> USE DEF Status
<1>1. ASSUME ReportWeek PROVE GivesUp \/ pc' = "anchored"
    BY <1>1, RespondGivesUp DEF ReportWeek, ResolveWeek
<1>2. ASSUME ReportWindow PROVE pc' = "anchored"
    BY <1>2 DEF ReportWindow, ResolveWeek
<1>3. ASSUME stwr_reports_latest PROVE pc' = "done"
    BY <1>3, Zenon DEF stwr_reports_latest, SendRows
<1>4. ASSUME stwr_reports_history PROVE pc' \in {"gaps", "done"}
    BY <1>4, Zenon DEF stwr_reports_history, SendHistory
<1> QED BY <1>1, <1>2, <1>3, <1>4, StwrSteps DEF Step, FindsWeek, AnswersLatest, AnswersHistory

LEMMA BreadthLeads == ASSUME Frame, BreadthNext PROVE Step
<1> USE DEF Status
<1>1. ASSUME BreadthRange PROVE GivesUp \/ pc' \in {"ranged", "anchored"}
    <2>1. Respond(503) \/ pc' \in {"ranged", "anchored"}
        BY <1>1, Zenon DEF BreadthRange, ResolveWeek
    <2> QED BY <2>1, RespondGivesUp
<1>2. ASSUME BreadthAnchor \/ BreadthRaw PROVE GivesUp \/ pc' = "anchored"
    BY <1>2, RespondGivesUp DEF BreadthAnchor, BreadthRaw, ResolveWeek
<1>3. ASSUME BreadthProbeFails \/ RotationProbeFails PROVE GivesUp
    BY <1>3, RespondGivesUp DEF BreadthProbeFails, RotationProbeFails
<1>4. ASSUME LeadershipWeek \/ RotationAnchor \/ RotationRaw PROVE GivesUp \/ pc' = "anchored"
    BY <1>4, RespondGivesUp DEF LeadershipWeek, RotationAnchor, RotationRaw, ResolveWeek
<1>5. ASSUME LeadershipOverall PROVE pc' = "overall"
    BY <1>5 DEF LeadershipOverall
<1>6. ASSUME leadership_summary_latest \/ breadth_sector_latest PROVE pc' = "done"
    BY <1>6, Zenon DEF leadership_summary_latest, breadth_sector_latest, SendRows
<1>7. ASSUME breadth_sector_history \/ leadership_rotation_history PROVE pc' \in {"gaps", "done"}
    BY <1>7, Zenon DEF breadth_sector_history, leadership_rotation_history, SendHistory
<1> QED BY <1>1, <1>2, <1>3, <1>4, <1>5, <1>6, <1>7, BreadthSteps
        DEF Step, FindsWeek, AnswersLatest, AnswersHistory

LEMMA RegimeLeads == ASSUME Frame, RegimeNext PROVE Step
<1> USE DEF Status
<1>1. ASSUME RegimeWeeks PROVE GivesUp \/ pc' = "weeks"
    <2>1. Respond(503) \/ pc' = "weeks"
        BY <1>1, Zenon DEF RegimeWeeks
    <2> QED BY <2>1, RespondGivesUp
<1>2. ASSUME EvaluateWeeks PROVE GivesUp \/ pc' = "weeks"
    <2>1. Respond(503) \/ pc' = "weeks"
        BY <1>2, Zenon DEF EvaluateWeeks
    <2> QED BY <2>1, RespondGivesUp
<1>3. ASSUME market_regime \/ market_regime_forecast \/ evaluate_symbol \/ market_epoch_latest
      PROVE  pc' = "done"
    BY <1>3, Zenon DEF market_regime, market_regime_forecast, evaluate_symbol,
           market_epoch_latest, Finish, Respond, SendRows
<1>4. ASSUME market_epoch_history PROVE pc' \in {"gaps", "done"}
    BY <1>4, Zenon DEF market_epoch_history, Respond, SendHistory
<1> QED BY <1>1, <1>2, <1>3, <1>4, RegimeSteps
        DEF Step, OpensMarket, AnswersLatest, AnswersHistory, Asking

LEMMA PortfolioLeads == ASSUME Frame, PortfolioNext PROVE Step
<1> USE DEF Status
<1>1. ASSUME PortfolioWeeks PROVE GivesUp \/ pc' = "weeks"
    <2>1. Respond(503) \/ pc' = "weeks"
        BY <1>1, Zenon DEF PortfolioWeeks
    <2> QED BY <2>1, RespondGivesUp
<1>2. ASSUME construct_portfolio \/ evaluate_portfolio \/ compare_portfolios PROVE pc' = "done"
    BY <1>2, Zenon DEF construct_portfolio, evaluate_portfolio, compare_portfolios, Finish, Respond
<1> QED BY <1>1, <1>2, PortfolioSteps DEF Step, OpensMarket, AnswersLatest

\* Every step of a request for something that is sold.
LEMMA HandlerLeads == ASSUME Frame, HandlerNext PROVE Step \/ FreeStep
<1>1. ASSUME ModelNext PROVE FreeStep
    <2>1. query.path \in FreePath
        BY <1>1, ModelHandles DEF FreePath
    <2>2. PortfolioLookup => pc' \in {"listed", "done"}
        BY Zenon DEF PortfolioLookup, Respond
    <2>3. list_stocktrends_portfolios \/ get_stocktrends_portfolio => pc' = "done"
        BY Zenon DEF list_stocktrends_portfolios, get_stocktrends_portfolio, SendRows, Respond
    <2>4. get_stocktrends_portfolio_returns \/ get_stocktrends_portfolio_positions_history
          \/ get_stocktrends_portfolio_summary => pc' = "done"
        BY Zenon DEF get_stocktrends_portfolio_returns, get_stocktrends_portfolio_summary,
           get_stocktrends_portfolio_positions_history, SendRows
    <2>5. list_stocktrends_strategies => pc' = "done"
        BY Zenon DEF list_stocktrends_strategies, SendRows
    <2>6. get_stocktrends_strategy \/ get_stocktrends_portfolio_strategy => pc' = "done"
        BY Zenon DEF get_stocktrends_strategy, get_stocktrends_portfolio_strategy,
           AnswerStrategy, Respond
    <2> QED BY <1>1, <2>1, <2>2, <2>3, <2>4, <2>5, <2>6 DEF ModelNext, FreeStep
<1> QED BY <1>1, SymbolLeads, ListLeads, StwrLeads, BreadthLeads, RegimeLeads, PortfolioLeads
        DEF HandlerNext

-----------------------------------------------------------------------------
(* The market of a request.                                                *)

\* The requests that ask for the market or are judged against it.
JudgedPath == MarketPath \cup {"decision/evaluate"} \cup PortfolioPath

\* Between its two queries such a request holds the newest weeks that an open connection finds.
MarketHeld ==
    /\ view # Omitted /\ query.path \in JudgedPath
    /\ found \in Seq(EligibleWeeks(RegimeFrom)) /\ Len(found) # 0
    /\ anchor = found[1] /\ anchor = LatestWeek(EligibleRows(RegimeFrom))
    /\ query.path = "regime/latest" => Len(found) = 1
MarketInv == pc = "weeks" => MarketHeld

\* What is read in an open connection stays what it is.
LEMMA MarketStays ==
    ASSUME MarketHeld, UNCHANGED <<query, view, anchor, found>> PROVE MarketHeld'
BY DEF MarketHeld, EligibleWeeks, EligibleRows, RegimeFrom, Rows, Snapshot

\* A connection that is opened, or was open, shows the handler what it saw.
LEMMA OpenedSees ==
    ASSUME Frame, view' = Snapshot
    PROVE  view' # Omitted /\ Snapshot' = Snapshot /\ \A t : Rows(t)' = Rows(t)
<1>1. Snapshot \subseteq BatchId
    BY SnapshotIsOfTheCall
<1>2. view' # Omitted
    BY <1>1, OmittedAssumption
<1>3. Snapshot' = Snapshot
    BY <1>2 DEF Snapshot
<1> QED BY <1>2, <1>3 DEF Rows

LEMMA OpenedMarket ==
    ASSUME Frame, view' = Snapshot, UNCHANGED query
    PROVE  /\ RegimeFrom' = RegimeFrom
           /\ EligibleWeeks(RegimeFrom)' = EligibleWeeks(RegimeFrom)
           /\ EligibleRows(RegimeFrom)' = EligibleRows(RegimeFrom)
<1>1. RegimeFrom' = RegimeFrom
    BY DEF RegimeFrom
<1>2. Rows("data")' = Rows("data")
    BY OpenedSees
<1> QED BY <1>1, <1>2 DEF EligibleWeeks, EligibleRows

LEMMA MarketOpens == ASSUME Frame, OpensMarket, pc' = "weeks" PROVE MarketHeld'
<1>1. CASE query.path \in MarketPath /\ pc = "called" /\ RegimeWeeks
    <2>1. EligibleWeeks(RegimeFrom) # {}
        BY <1>1 DEF RegimeWeeks, RegimeFrom, Respond
    <2>2. /\ found' \in Seq(EligibleWeeks(RegimeFrom)) /\ Len(found') # 0
          /\ Len(found') <= RegimeWanted /\ view' = Snapshot
          /\ anchor' = found'[1] /\ anchor' = LatestWeek(EligibleRows(RegimeFrom))
        BY <1>1, <2>1, RegimeWeeksFinds
    <2>3. UNCHANGED query
        BY <1>1, <2>1 DEF RegimeWeeks, RegimeFrom, Static
    <2>4. query.path = "regime/latest" => Len(found') = 1
        <3>1. PICK n \in Nat : n = Len(found')
            BY <2>2
        <3>2. n # 0 /\ n <= RegimeWanted
            BY <2>2, <3>1
        <3>3. query.path = "regime/latest" => n = 1
            BY <3>2 DEF RegimeWanted
        <3> QED BY <3>1, <3>3
    <2>5. view' # Omitted
        BY <2>2, OpenedSees
    <2> QED BY <1>1, <2>2, <2>3, <2>4, <2>5, OpenedMarket DEF MarketHeld, JudgedPath
<1>2. CASE \/ Asking("decision/evaluate", "called") /\ EvaluateWeeks
           \/ query.path \in PortfolioPath /\ pc = "called" /\ PortfolioWeeks
    <2>1. PICK weeks : weeks = NewestWeeks(EligibleWeeks(0), 5)
        OBVIOUS
    <2>2. /\ weeks # <<>> /\ found' = weeks /\ anchor' = weeks[1] /\ view' = Snapshot
          /\ UNCHANGED query
        BY <1>2, <2>1 DEF EvaluateWeeks, PortfolioWeeks, Respond, Static
    <2>3. /\ weeks \in Seq(EligibleWeeks(0)) /\ Len(weeks) # 0
          /\ weeks[1] = LatestWeek(EligibleRows(0))
        BY <2>1, <2>2, MarketWeeks
    <2>4. query.path \in JudgedPath /\ query.path # "regime/latest" /\ RegimeFrom = 0
        BY <1>2 DEF JudgedPath, MarketPath, PortfolioPath, Asking, RegimeFrom
    <2>5. view' # Omitted
        BY <2>2, OpenedSees
    <2> QED BY <2>2, <2>3, <2>4, <2>5, OpenedMarket DEF MarketHeld
<1> QED BY <1>1, <1>2 DEF OpensMarket

\* What leads to a state with a market, and what does not disturb it.
LEMMA NextKeepsMarket == ASSUME Frame, MarketInv, [Next]_vars PROVE MarketInv'
<1> SUFFICES ASSUME pc' = "weeks" PROVE MarketHeld'
    BY DEF MarketInv
<1>1. CASE HandlerNext
    <2>1. CASE Step
        BY <1>1, <2>1, MarketOpens DEF Step, GivesUp
    <2> QED BY <1>1, <2>1, HandlerLeads DEF FreeStep
<1>2. CASE \E c \in BatchId : Load(c)
    <2>1. MarketHeld /\ UNCHANGED <<query, view, anchor, found>>
        BY <1>2 DEF MarketInv, Load
    <2> QED BY <2>1, MarketStays
<1>3. CASE UNCHANGED vars
    <2>1. MarketHeld /\ UNCHANGED <<query, view, anchor, found>>
        BY <1>3 DEF MarketInv, vars
    <2> QED BY <2>1, MarketStays
<1>4. CASE Validate \/ PaymentRefused \/ CallHandler \/ DatabaseFails
    BY <1>4 DEF Validate, PaymentRefused, CallHandler, DatabaseFails, Respond
<1> QED BY <1>1, <1>2, <1>3, <1>4 DEF Next

\* A handler is called, and goes on, only with a request that its validator let through.
CalledInv == pc \notin {"arrived", "done"} => ~Refused(query)

\* The handlers leave the request as it is.
LEMMA HandlerKeepsRequest ==
    ASSUME Frame, HandlerNext PROVE UNCHANGED <<query, committed, first, paid>>
<1>1. HandledElsewhere \/ ModelNext
    BY SymbolHandles, ListHandles, StwrHandles, BreadthHandles, RegimeHandles, PortfolioHandles
       DEF HandlerNext
<1> QED BY <1>1, ModelHandles DEF HandledElsewhere, Moved

LEMMA NextKeepsCalled == ASSUME Frame, CalledInv, [Next]_vars PROVE CalledInv'
<1>1. CASE HandlerNext
    <2>1. CASE FreeStep
        <3>1. UNCHANGED query
            BY <1>1, HandlerKeepsRequest
        <3> QED BY <2>1, <3>1 DEF FreeStep, FreePath, ModelPath, SymbolPath, BreadthPath,
                                  PortfolioPath, CalledInv, Refused
    <2>2. CASE Step
        <3>1. UNCHANGED query
            BY <1>1, HandlerKeepsRequest
        <3>2. pc \notin {"arrived", "done"} \/ pc' = "done"
            BY <2>2 DEF Step, GivesUp, OpensMarket, FindsWeek, AnswersLatest, AnswersHistory, Asking
        <3>3. Refused(query)' = Refused(query)
            BY <3>1
        <3> QED BY <3>2, <3>3 DEF CalledInv
    <2> QED BY <1>1, <2>1, <2>2, HandlerLeads
<1>2. CASE \E c \in BatchId : Load(c)
    BY <1>2 DEF Load, CalledInv
<1>3. CASE UNCHANGED vars
    BY <1>3 DEF vars, CalledInv
<1>4. CASE PaymentRefused \/ DatabaseFails
    BY <1>4 DEF PaymentRefused, DatabaseFails, Respond, CalledInv
<1>5. CASE Validate
    BY <1>5, Zenon DEF Validate, Respond, CalledInv
<1>6. CASE CallHandler
    BY <1>6 DEF CallHandler, Respond, Static, CalledInv
<1> QED BY <1>1, <1>2, <1>3, <1>4, <1>5, <1>6 DEF Next

\* The request, and what it is known to hold.
Held == Frame /\ CalledInv /\ MarketInv

LEMMA NextKeepsHeld == ASSUME Held, [Next]_vars PROVE Held'
BY NextKeepsFrame, NextKeepsCalled, NextKeepsMarket DEF Held

LEMMA HeldAlways == Spec => []Held
<1>1. Init => Held
    BY InitIsFramed DEF Init, Held, CalledInv, MarketInv
<1>2. Held /\ [Next]_vars => Held'
    BY NextKeepsHeld
<1> QED BY <1>1, <1>2, PTL DEF Spec

-----------------------------------------------------------------------------
(* An answer about now is about one moment.                                *)

\* The scope of a request grows with what is committed, and is made of weekly rows.
LEMMA ScopeGrows ==
    ASSUME NEW A, NEW B, A \subseteq B, B \subseteq BatchId, query.path \in LatestPath
    PROVE  /\ LatestScope(A, query) \subseteq LatestScope(B, query)
           /\ AreWeekly(LatestScope(B, query))
           /\ \A x \in LatestScope(B, query) : x.week # 0
           /\ LatestWeek(LatestScope(A, query)) <= LatestWeek(LatestScope(B, query))
<1>1. PICK t \in Dated :
          /\ LatestScope(B, query) \subseteq RowsAt(B, t)
          /\ RowsAt(A, t) \subseteq RowsAt(B, t) => LatestScope(A, query) \subseteq LatestScope(B, query)
    <2> USE DEF LatestScope, LatestPath, Dated, OnExchange, CommonStock, OfSymbol, Classified,
                Equities, PortfolioPath
    <2>1. CASE query.path \in {"selections/latest", "published/latest"}
        BY <2>1
    <2>2. CASE query.path = "epoch/latest"
        BY <2>2
    <2>3. CASE query.path = "stim/latest"
        BY <2>3
    <2>4. CASE query.path \in {"screener/top", "stwr/latest", "leadership/latest",
                               "prices/latest", "indicators/latest"}
        BY <2>4
    <2>5. CASE query.path \in {"regime/latest", "regime/forecast", "decision/evaluate"} \cup PortfolioPath
        BY <2>5
    <2> QED BY <2>1, <2>2, <2>3, <2>4, <2>5
<1>2. LatestScope(A, query) \subseteq LatestScope(B, query)
    BY <1>1, RowsAtGrows
<1>3. t \in Table
    BY DEF Dated, Table
<1>4. AreWeekly(LatestScope(B, query)) /\ \A x \in LatestScope(B, query) : x.week # 0
    BY <1>1, <1>3, TablesAreWeekly, WeeklySubset
<1> QED BY <1>2, <1>4, LatestGrows

\* A week that was the newest of the request's scope at some moment of the call.
InCall(week) ==
    /\ week \in Nat \ {0}
    /\ LatestWeek(LatestScope(first, query)) <= week
    /\ week <= LatestWeek(LatestScope(committed, query))

LEMMA NewestIsInCall ==
    ASSUME Frame, query.path \in LatestPath, LatestScope(Snapshot, query) # {}
    PROVE  InCall(LatestWeek(LatestScope(Snapshot, query)))
<1>1. first \subseteq Snapshot /\ Snapshot \subseteq committed /\ committed \subseteq BatchId
    BY SnapshotIsOfTheCall
<1>2. PICK S : S = LatestScope(Snapshot, query)
    OBVIOUS
<1>3. AreWeekly(S) /\ \A x \in S : x.week # 0
    BY <1>1, <1>2, ScopeGrows
<1>4. LatestWeek(S) \in Nat /\ LatestWeek(S) # 0
    BY <1>2, <1>3, LatestIsNewest
<1>5. /\ LatestWeek(LatestScope(first, query)) <= LatestWeek(S)
      /\ LatestWeek(S) <= LatestWeek(LatestScope(committed, query))
    BY <1>1, <1>2, ScopeGrows
<1> QED BY <1>2, <1>4, <1>5 DEF InCall

\* It stays one.
LEMMA InCallStays ==
    ASSUME Frame, query.path \in LatestPath, NEW week, InCall(week),
           UNCHANGED <<first, query>>, committed \subseteq committed', committed' \subseteq BatchId
    PROVE  InCall(week)'
<1>1. PICK later : later = committed'
    OBVIOUS
<1>2. LatestWeek(LatestScope(committed, query)) <= LatestWeek(LatestScope(later, query))
    BY <1>1, ScopeGrows
<1>3. LatestWeek(LatestScope(committed, query)) \in Nat
    BY ScopeGrows, LatestIsNewest DEF Frame, TypeOK
<1>4. LatestWeek(LatestScope(later, query)) \in Nat
    BY <1>1, ScopeGrows, LatestIsNewest
<1>5. week <= LatestWeek(LatestScope(later, query))
    BY <1>2, <1>3, <1>4 DEF InCall
<1>6. /\ LatestScope(first, query)' = LatestScope(first, query)
      /\ LatestScope(committed, query)' = LatestScope(later, query)
    BY <1>1 DEF LatestScope, CommonStock, OfSymbol, Symbol, Exchange
<1> QED BY <1>5, <1>6 DEF InCall

\* What a request for the newest week knows of it before it answers.
AsksLatest == query.path \in LatestPath /\ query.week = 0

\* The leaders overall, all of the week that was found.
LeadersHeld ==
    /\ query.path = "leadership/latest" /\ view # Omitted
    /\ answer.week = anchor /\ matched = Leaders(query)
    /\ AsksLatest => \A i \in DOMAIN answer.rows : answer.rows[i].week = anchor

LatestInv ==
    /\ AsksLatest /\ pc \in {"anchored", "overall"} => InCall(anchor)
    /\ query.path = "stim/latest" /\ pc = "estimated" => found = Omitted \/ InCall(found.week)
    /\ pc = "overall" => LeadersHeld
    /\ LatestIsCoherent

\* The newest eligible week is the newest of the scope.
LEMMA EligibleIsScope ==
    ASSUME query.path \in LatestPath \cap JudgedPath
    PROVE  RegimeFrom = 0 /\ EligibleRows(RegimeFrom) = LatestScope(Snapshot, query)
<1>1. RegimeFrom = 0
    BY DEF RegimeFrom, LatestPath, PortfolioPath
<1>2. EligibleRows(0) = Classified(Equities(Rows("data")))
    <2>1. \A S : Between(S, 0, 0) = S
        BY DEF Between
    <2> QED BY <2>1 DEF EligibleRows
<1>3. LatestScope(Snapshot, query) = Classified(Equities(Rows("data")))
    BY DEF LatestScope, JudgedPath, MarketPath, LatestPath, PortfolioPath, Rows
<1> QED BY <1>1, <1>2, <1>3

\* The week of a market.
LEMMA MarketIsInCall ==
    ASSUME Frame, MarketHeld, query.path \in LatestPath PROVE InCall(anchor)
<1>1. query.path \in LatestPath \cap JudgedPath
    BY DEF MarketHeld
<1>2. anchor = LatestWeek(LatestScope(Snapshot, query))
    BY <1>1, EligibleIsScope DEF MarketHeld
<1>3. EligibleRows(RegimeFrom) # {}
    <2>1. EligibleWeeks(RegimeFrom) = {x.week : x \in EligibleRows(RegimeFrom)}
        BY EligibleWeeksAre
    <2>2. EligibleWeeks(RegimeFrom) # {}
        BY DEF MarketHeld
    <2> QED BY <2>1, <2>2
<1> QED BY <1>1, <1>2, <1>3, EligibleIsScope, NewestIsInCall

\* The scopes, as the handlers name them.
LEMMA ScopesAre ==
    ASSUME Held, query.path \in LatestPath, pc \notin {"arrived", "done"}
    PROVE  /\ query.path = "screener/top" => LatestScope(Snapshot, query) = Rows("data")
           /\ query.path \in {"selections/latest", "published/latest"}
                 => LatestScope(Snapshot, query) = Rows("select")
           /\ query.path = "stwr/latest" => LatestScope(Snapshot, query) = Weekly(query)
           /\ query.path = "epoch/latest" => LatestScope(Snapshot, query) = Rows("epoch")
           /\ query.path = "leadership/latest" => LatestScope(Snapshot, query) = TypeScope(query)
           /\ query.path \in {"prices/latest", "indicators/latest"}
                 => LatestScope(Snapshot, query) = CommonStock(OfSymbol(Rows("data")))
           /\ query.path = "stim/latest" => LatestScope(Snapshot, query) = OfSymbol(Rows("means"))
<1> USE DEF LatestScope, Rows, PortfolioPath
<1>1. CASE query.path = "leadership/latest"
    <2>1. query.exchange \in Exchanges \cup {Omitted} /\ query.type # "EQ"
        BY <1>1 DEF Held, CalledInv, Refused, LeadershipRefused, SymbolPath, BreadthPath, PortfolioPath
    <2>2. query.exchange # "*"
        BY <2>1, ExchangesAssumption
    <2>3. TypeScope(query) = {x \in OnExchange(Rows("data"), query.exchange) : x.type = query.type}
        BY <2>1, <2>2 DEF TypeScope, OnExchange
    <2> QED BY <1>1, <2>3
<1>2. CASE query.path = "stwr/latest"
    BY <1>2 DEF Weekly
<1>3. CASE query.path \notin {"leadership/latest", "stwr/latest"}
    BY <1>3
<1> QED BY <1>1, <1>2, <1>3

\* The week that a first query finds.
LEMMA FoundIsInCall ==
    ASSUME Held, FindsWeek, pc' = "anchored", AsksLatest
    PROVE  InCall(anchor') /\ UNCHANGED <<committed, query, first>>
<1>0. pc \notin {"arrived", "done"} /\ Frame /\ query.path \in LatestPath /\ query.week = 0
    BY DEF AsksLatest, FindsWeek, Asking, Held
<1>1. PICK S : S = LatestScope(Snapshot, query)
    OBVIOUS
<1>2. S # {} /\ anchor' = LatestWeek(S) /\ UNCHANGED <<committed, query, first>>
    <2> USE DEF Asking, Respond, ResolveWeek, ResolveWeekOpen, Static
    <2>1. CASE Asking("selections/latest", "called") /\ SelectionWeek("selections/latest")
        <3>1. S = Rows("select")
            BY <1>0, <1>1, <2>1, ScopesAre
        <3> QED BY <2>1, <3>1 DEF SelectionWeek
    <2>2. CASE Asking("published/latest", "called") /\ SelectionWeek("published/latest")
        <3>1. S = Rows("select")
            BY <1>0, <1>1, <2>2, ScopesAre
        <3> QED BY <2>2, <3>1 DEF SelectionWeek
    <2>3. CASE Asking("screener/top", "called") /\ ScreenerWeek
        <3>1. S = Rows("data")
            BY <1>0, <1>1, <2>3, ScopesAre
        <3> QED BY <1>0, <2>3, <3>1 DEF ScreenerWeek
    <2>4. CASE Asking("stwr/latest", "called") /\ ReportWeek
        <3>1. S = Weekly(query)
            BY <1>0, <1>1, <2>4, ScopesAre
        <3> QED BY <1>0, <2>4, <3>1 DEF ReportWeek
    <2>5. CASE Asking("leadership/latest", "called") /\ LeadershipWeek
        <3>1. S = TypeScope(query)
            BY <1>0, <1>1, <2>5, ScopesAre
        <3> QED BY <1>0, <2>5, <3>1 DEF LeadershipWeek
    <2> QED BY <1>0, <2>1, <2>2, <2>3, <2>4, <2>5 DEF FindsWeek, LatestPath, PortfolioPath, BreadthPath
<1> QED BY <1>0, <1>1, <1>2, NewestIsInCall

\* An answer that speaks of one week.
TellsOf(a, week) == a.week = week /\ \A i \in DOMAIN a.rows : a.rows[i].week = week

\* Such an answer, of a week of the call, was the latest.
LEMMA TellsLatest ==
    ASSUME Frame, Frame', UNCHANGED <<committed, query, first>>,
           AsksLatest => \E week : TellsOf(answer', week) /\ InCall(week)
    PROVE  LatestWasLatest'
<1> SUFFICES ASSUME (query.path \in LatestPath)', (query.week = 0)' PROVE LatestWasLatest'
    BY DEF LatestWasLatest
<1>1. AsksLatest
    BY DEF AsksLatest
<1>2. PICK week : TellsOf(answer', week) /\ InCall(week)
    BY <1>1
<1>3. committed \subseteq committed' /\ committed' \subseteq BatchId
    BY DEF Frame, TypeOK
<1>4. InCall(week)'
    BY <1>1, <1>2, <1>3, InCallStays DEF AsksLatest
<1> QED BY <1>2, <1>4 DEF LatestWasLatest, InCall, TellsOf

\* Elsewhere than for estimates and leaders nothing more is asked of it.
LEMMA TellsCoherently ==
    ASSUME Frame, Frame', UNCHANGED <<committed, query, first>>,
           query.path \notin {"stim/latest", "leadership/latest"},
           AsksLatest => \E week : TellsOf(answer', week) /\ InCall(week)
    PROVE  LatestIsCoherent'
<1>1. LatestWasLatest'
    BY TellsLatest
<1>2. StaleWasTrue' /\ LeadersAgree'
    BY DEF StaleWasTrue, LeadersAgree
<1> QED BY <1>1, <1>2 DEF LatestIsCoherent

\* The rows that are sent.
LEMMA RowsSent ==
    ASSUME Frame, NEW S, IsFiniteSet(S), NEW order, NEW limit \in Nat, NEW week,
           SendRows(S, order, limit, week)
    PROVE  /\ \E s \in FirstInOrder(S, order, limit) : answer'.rows = s
           /\ \A i \in DOMAIN answer'.rows : answer'.rows[i] \in S
           /\ answer'.week = week /\ matched' = S /\ UNCHANGED <<committed, query, first>>
<1>1. PICK s \in FirstInOrder(S, order, limit) :
          answer' = [answer EXCEPT !.status = 200, !.week = week, !.rows = s]
    BY Zenon DEF SendRows
<1>2. "rows" \in DOMAIN answer /\ "week" \in DOMAIN answer
    BY FrameFacts
<1>3. answer'.rows = s /\ answer'.week = week
    BY <1>1, <1>2, Zenon
<1>4. matched' = S /\ UNCHANGED <<committed, query, first>>
    BY Zenon DEF SendRows, Static
<1>5. \A i \in DOMAIN s : s[i] \in S
    BY FirstAreMembers
<1> QED BY <1>3, <1>4, <1>5

LEMMA SentOfAWeek ==
    ASSUME Frame, NEW S, IsFiniteSet(S), NEW order, NEW limit \in Nat, NEW week,
           SendRows(S, order, limit, week), \A x \in S : x.week = week
    PROVE  TellsOf(answer', week) /\ UNCHANGED <<committed, query, first>>
BY RowsSent DEF TellsOf

LEMMA SentNewest ==
    ASSUME Frame, NEW S, AreWeekly(S), S # {}, NEW order, NewestFirst(order),
           SendRows(S, order, 1, LatestWeek(S))
    PROVE  TellsOf(answer', LatestWeek(S)) /\ UNCHANGED <<committed, query, first>>
<1>1. IsFiniteSet(S)
    BY DEF AreWeekly
<1>2. PICK s \in FirstInOrder(S, order, 1) : answer'.rows = s
    BY <1>1, RowsSent
<1>3. s \in Seq(S) /\ Len(s) = Allowed(S, 1)
    BY <1>1, FirstAreFirst
<1>4. 1 \in DOMAIN s /\ s[1].week = LatestWeek(S)
    BY <1>2, FirstIsNewest
<1>5. Cardinality(S) \in Nat
    BY <1>1, FS_CardinalityType
<1>6. \A i \in DOMAIN s : i = 1
    BY <1>3, <1>5 DEF Allowed
<1> QED BY <1>1, <1>2, <1>4, <1>6, RowsSent DEF TellsOf

\* Rows between a week and itself are of that week.
LEMMA BetweenAWeek ==
    ASSUME NEW S, AreWeekly(S), NEW week \in Nat \ {0}
    PROVE  \A x \in Between(S, week, week) : x \in S /\ x.week = week
BY DEF Between, AreWeekly

-----------------------------------------------------------------------------
(* The reports (StwrReports).                                              *)

\* A report of some rows: rows of their weeks, in some order of columns, within some limit.
ReportOf(report, D) ==
    /\ IsFiniteSet(report.rows)
    /\ \A x \in report.rows : \E y \in D : x.week = y.week
    /\ report.limit \in Nat \ {0}
    /\ \E columns : report.order \in Seq(columns)

\* The orders of the reports are lists of columns.
Column == {Desc("rsi"), Asc("rsi"), Asc("id"), Desc("mt_cnt"), Desc("pr_change"), Asc("pr_change"),
           Desc("volume"), Desc("rvol"), Desc("rank")}

LEMMA OrdersAreColumns ==
    /\ ByRsi \in Seq(Column) /\ ByRsiUp \in Seq(Column) /\ ByAge \in Seq(Column)
    /\ ByGain \in Seq(Column) /\ ByLoss \in Seq(Column) /\ ByVolume \in Seq(Column)
    /\ <<Desc("rvol"), Desc("rsi")>> \in Seq(Column) /\ <<Desc("volume")>> \in Seq(Column)
    /\ <<Desc("rank")>> \in Seq(Column) /\ <<Desc("rsi")>> \in Seq(Column)
<1>1. /\ Desc("rsi") \in Column /\ Asc("rsi") \in Column /\ Asc("id") \in Column
      /\ Desc("mt_cnt") \in Column /\ Desc("pr_change") \in Column /\ Asc("pr_change") \in Column
      /\ Desc("volume") \in Column /\ Desc("rvol") \in Column /\ Desc("rank") \in Column
    BY DEF Column
<1>2. \A a \in Column : <<a>> \in Seq(Column)
    OBVIOUS
<1>3. \A a, b \in Column : <<a, b>> \in Seq(Column)
    OBVIOUS
<1> QED BY <1>1, <1>2, <1>3 DEF ByRsi, ByRsiUp, ByAge, ByGain, ByLoss, ByVolume

\* Where a builder selects rows, its report is one of theirs.
SelectsFrom(report, D) ==
    report.rows \subseteq D /\ report.limit \in Nat \ {0} /\ report.order \in Seq(Column)

LEMMA SelectionIsReport ==
    ASSUME NEW D, IsFiniteSet(D), NEW report, SelectsFrom(report, D) PROVE ReportOf(report, D)
BY FS_Subset DEF SelectsFrom, ReportOf

LEMMA RankedByGain ==
    ASSUME NEW D, IsFiniteSet(D), \A x \in D : "week" \in DOMAIN x, NEW k
    PROVE  ReportOf(build_hmg(D, k), D)
<1>1. PICK S : S = {y \in D : Liquid(y, k) /\ Off(y, NotListed)}
    OBVIOUS
<1>2. PICK value : \A x \in S : value[x] = x.pr_change * x.rvol
    <2> DEFINE fn == [x \in S |-> x.pr_change * x.rvol]
    <2>1. \A x \in S : fn[x] = x.pr_change * x.rvol
        OBVIOUS
    <2> HIDE DEF fn
    <2> QED BY <2>1
<1>3. PICK R : R = {[x EXCEPT !.rank = value[x]] : x \in S}
    OBVIOUS
<1>4. IsFiniteSet(S)
    BY <1>1, FS_Subset
<1>5. [x \in S |-> [x EXCEPT !.rank = value[x]]] \in Surjection(S, R)
    BY <1>3 DEF Surjection
<1>6. IsFiniteSet(R)
    BY <1>4, <1>5, FS_Surjection
<1>7. ASSUME NEW x \in R PROVE \E y \in D : x.week = y.week
    <2>1. PICK y \in S : x = [y EXCEPT !.rank = value[y]]
        BY <1>3
    <2>2. "week" \in DOMAIN y /\ y \in D
        BY <1>1
    <2>3. x.week = y.week
        BY <2>1, <2>2, Zenon
    <2> QED BY <2>2, <2>3
<1>8. build_hmg(D, k) = Report(R, <<Desc("rank")>>, 50)
    <2>1. R = {[x EXCEPT !.rank = x.pr_change * x.rvol] : x \in S}
        BY <1>2, <1>3
    <2> QED BY <1>1, <2>1 DEF build_hmg
<1> QED BY <1>6, <1>7, <1>8, OrdersAreColumns DEF ReportOf, Report

LEMMA ReportsAreOfTheirRows ==
    ASSUME NEW D, IsFiniteSet(D), \A x \in D : "week" \in DOMAIN x, NEW All, NEW k,
           NEW rpt \in REPORTS
    PROVE  ReportOf(Build(rpt, D, All, k), D)
<1> USE OrdersAreColumns DEF SelectsFrom, Report
<1>1. /\ SelectsFrom(build_pw(D, k), D) /\ SelectsFrom(build_bullcross(D, k), D)
      /\ SelectsFrom(build_bearcross(D, k), D) /\ SelectsFrom(build_bullcrosspred(D, k), D)
      /\ SelectsFrom(build_bearcrosspred(D, k), D)
    BY DEF build_pw, build_bullcross, build_bearcross, build_bullcrosspred, build_bearcrosspred
<1>2. /\ SelectsFrom(build_nweakbull(D, k), D) /\ SelectsFrom(build_nweakbear(D, k), D)
      /\ SelectsFrom(build_nreturnbull(D, k), D) /\ SelectsFrom(build_nreturnbear(D, k), D)
    BY DEF build_nweakbull, build_nweakbear, build_nreturnbull, build_nreturnbear, New
<1>3. /\ SelectsFrom(build_oldbulls(D, k), D) /\ SelectsFrom(build_oldbears(D, k), D)
    BY DEF build_oldbulls, build_oldbears, Old
<1>4. /\ SelectsFrom(build_lvg(D, k), D) /\ SelectsFrom(build_rvol(D, k), D)
      /\ SelectsFrom(build_uhv(D, k), D) /\ SelectsFrom(build_ulv(D, k), D)
    BY DEF build_lvg, build_rvol, build_uhv, build_ulv, Volume
<1>5. /\ SelectsFrom(build_topgainers(D, k), D) /\ SelectsFrom(build_toplosers(D, k), D)
      /\ SelectsFrom(build_yrhighs(D, k), D) /\ SelectsFrom(build_yrlows(D, k), D)
      /\ SelectsFrom(build_activebyvol(D, k), D)
    BY DEF build_topgainers, build_toplosers, build_yrhighs, build_yrlows, build_activebyvol,
           Screened
<1>6. SelectsFrom(build_toptrend(D, All, k), D)
    BY DEF build_toptrend
<1>7. ReportOf(build_hmg(D, k), D)
    BY RankedByGain
<1> HIDE DEF SelectsFrom, Report
<1>8. SelectsFrom(Build(rpt, D, All, k), D) \/ rpt = "hmg"
    BY <1>1, <1>2, <1>3, <1>4, <1>5, <1>6 DEF Build, REPORTS
<1>9. rpt = "hmg" => Build(rpt, D, All, k) = build_hmg(D, k)
    BY DEF Build
<1> QED BY <1>7, <1>8, <1>9, SelectionIsReport

-----------------------------------------------------------------------------
(* The answers about now.                                                  *)

\* An answer of one week of the call.
TellsOfTheCall ==
    /\ UNCHANGED <<committed, query, first>>
    /\ AsksLatest => \E week : TellsOf(answer', week) /\ InCall(week)

\* Prices, indicators, epochs: the newest row of what the request can see.
LEMMA NewestRowTells ==
    ASSUME Held, query.path \in {"prices/latest", "indicators/latest", "epoch/latest"},
           pc = "called",
           \/ prices_latest("prices/latest") \/ prices_latest("indicators/latest")
           \/ market_epoch_latest
    PROVE  GivesUp \/ TellsOfTheCall
<1>0. Frame /\ query.path \in LatestPath /\ pc \notin {"arrived", "done"}
    BY DEF Held, LatestPath
<1>1. PICK S : S = LatestScope(Snapshot, query)
    OBVIOUS
<1>2. PICK order : order \in {Newest, <<Desc("week")>>}
                   /\ (Respond(404) \/ Respond(503)
                       \/ (S # {} /\ SendRows(S, order, 1, LatestWeek(S))))
    <2>1. CASE query.path = "epoch/latest"
        <3>1. S = Rows("epoch")
            BY <1>0, <1>1, <2>1, ScopesAre
        <3>2. market_epoch_latest
            BY <2>1 DEF prices_latest, At
        <3> QED BY <3>1, <3>2 DEF market_epoch_latest
    <2>2. CASE query.path \in {"prices/latest", "indicators/latest"}
        <3>1. S = CommonStock(OfSymbol(Rows("data")))
            BY <1>0, <1>1, <2>2, ScopesAre
        <3>2. prices_latest("prices/latest") \/ prices_latest("indicators/latest")
            BY <2>2 DEF market_epoch_latest, At
        <3> QED BY <3>1, <3>2 DEF prices_latest
    <2> QED BY <2>1, <2>2
<1>3. AreWeekly(S)
    BY <1>0, <1>1, SnapshotIsOfTheCall, ScopeGrows
<1>4. NewestFirst(order)
    BY <1>2 DEF Newest, NewestFirst
<1>5. CASE Respond(404) \/ Respond(503)
    BY <1>0, <1>5, RespondGivesUp DEF Status
<1>6. CASE S # {} /\ SendRows(S, order, 1, LatestWeek(S))
    <2>1. TellsOf(answer', LatestWeek(S)) /\ UNCHANGED <<committed, query, first>>
        BY <1>0, <1>3, <1>4, <1>6, SentNewest
    <2>2. InCall(LatestWeek(S))
        BY <1>0, <1>1, <1>6, NewestIsInCall
    <2> QED BY <2>1, <2>2 DEF TellsOfTheCall
<1> QED BY <1>2, <1>5, <1>6

\* The lists and the reports: rows of the week that was found.
LEMMA ListTells ==
    ASSUME Held, LatestInv, pc = "anchored",
           \/ Asking("selections/latest", "anchored") /\ selections_latest
           \/ Asking("published/latest", "anchored") /\ selections_published_latest
           \/ Asking("screener/top", "anchored") /\ screener_top
           \/ Asking("stwr/latest", "anchored") /\ stwr_reports_latest
    PROVE  TellsOfTheCall
<1>0. Frame /\ pc \notin {"arrived", "done"} /\ query.limit \in Nat
    BY FrameFacts DEF Held
<1>1. AreWeekly(Rows("data")) /\ AreWeekly(Rows("select"))
    BY <1>0, RowsAreWeekly DEF Table
<1>2. PICK S, order, limit : SendRows(S, order, limit, anchor) /\ IsFiniteSet(S) /\ limit \in Nat
                             /\ (anchor \in Nat \ {0} => \A x \in S : x.week = anchor)
    <2> USE DEF Asking
    <2>1. CASE Asking("selections/latest", "anchored") /\ selections_latest
        <3>1. PICK T : /\ T = AtLeast(Selected(query, Omitted, query.exchange), query.minProb)
                       /\ SendRows(Between(T, anchor, anchor), ByProb, query.limit, anchor)
            BY <2>1 DEF selections_latest
        <3>2. T \subseteq Rows("select")
            BY <3>1 DEF AtLeast, Selected, OnExchange
        <3>3. AreWeekly(T) /\ AreWeekly(Between(T, anchor, anchor))
            BY <1>1, <3>2, WeeklySubset DEF Between
        <3> QED BY <1>0, <3>1, <3>3, BetweenAWeek DEF AreWeekly
    <2>2. CASE Asking("published/latest", "anchored") /\ selections_published_latest
        <3>1. PICK T : /\ T = Published(Selected(query, Omitted, query.exchange))
                       /\ SendRows(Between(T, anchor, anchor), ByProb, query.limit, anchor)
            BY <2>2 DEF selections_published_latest
        <3>2. T \subseteq Rows("select")
            BY <3>1 DEF AtLeast, Published, Selected, OnExchange
        <3>3. AreWeekly(T) /\ AreWeekly(Between(T, anchor, anchor))
            BY <1>1, <3>2, WeeklySubset DEF Between
        <3> QED BY <1>0, <3>1, <3>3, BetweenAWeek DEF AreWeekly
    <2>3. CASE Asking("screener/top", "anchored") /\ screener_top
        <3>1. PICK T, S : /\ T = OnExchange(Rows("data"), query.exchange)
                          /\ S \subseteq Between(T, anchor, anchor)
                          /\ SendRows(S, ScreenerOrder(query), query.limit, anchor)
            BY <2>3 DEF screener_top
        <3>2. T \subseteq Rows("data")
            BY <3>1 DEF OnExchange
        <3>3. AreWeekly(T) /\ AreWeekly(S)
            BY <1>1, <3>1, <3>2, WeeklySubset DEF Between
        <3> QED BY <1>0, <3>1, <3>3, BetweenAWeek DEF AreWeekly
    <2>4. CASE Asking("stwr/latest", "anchored") /\ stwr_reports_latest
        <3>1. PICK D, report :
                 /\ D = Between(Weekly(query), anchor, anchor)
                 /\ report = Build(query.rpt, D, Rows("data"), query.knobs)
                 /\ SendRows(report.rows, report.order,
                             IF query.limit = 0 THEN report.limit ELSE query.limit, anchor)
            BY <2>4 DEF stwr_reports_latest
        <3>2. Weekly(query) \subseteq Rows("data") /\ D \subseteq Weekly(query)
            BY <3>1 DEF Weekly, OnExchange, Between
        <3>3. AreWeekly(Weekly(query)) /\ AreWeekly(D)
            BY <1>1, <3>2, WeeklySubset
        <3>4. \A x \in D : "week" \in DOMAIN x
            BY <1>0, <3>2, RowsAreWeekly DEF Table
        <3>5. query.rpt \in REPORTS
            BY <1>0, <2>4 DEF Held, CalledInv, Refused, ReportRefused, SymbolPath, BreadthPath,
                              PortfolioPath
        <3>6. ReportOf(report, D)
            BY <3>1, <3>3, <3>4, <3>5, ReportsAreOfTheirRows DEF AreWeekly
        <3>7. anchor \in Nat \ {0} => \A x \in report.rows : x.week = anchor
            BY <3>1, <3>3, <3>6, BetweenAWeek DEF ReportOf
        <3> QED BY <1>0, <3>1, <3>6, <3>7 DEF ReportOf
    <2> QED BY <2>1, <2>2, <2>3, <2>4
<1>3. UNCHANGED <<committed, query, first>>
    BY <1>0, <1>2, RowsSent
<1>4. ASSUME AsksLatest PROVE TellsOf(answer', anchor) /\ InCall(anchor)
    <2>1. InCall(anchor)
        BY <1>4 DEF LatestInv
    <2>2. \A x \in S : x.week = anchor
        BY <1>2, <2>1 DEF InCall
    <2> QED BY <1>0, <1>2, <2>1, <2>2, SentOfAWeek
<1> QED BY <1>3, <1>4 DEF TellsOfTheCall

\* The answers of Finish.
LEMMA Finished ==
    ASSUME Frame, NEW rows, NEW extra, Finish(rows, extra)
    PROVE  /\ answer'.week = anchor /\ answer'.rows = rows /\ answer'.extra = extra
           /\ answer'.truncated = answer.truncated
           /\ answer'.start = answer.start /\ answer'.end = answer.end
           /\ matched' = matched /\ UNCHANGED <<committed, query, first>>
<1>1. /\ "status" \in DOMAIN answer /\ "week" \in DOMAIN answer /\ "rows" \in DOMAIN answer
      /\ "extra" \in DOMAIN answer /\ "truncated" \in DOMAIN answer
      /\ "start" \in DOMAIN answer /\ "end" \in DOMAIN answer
    BY FrameFacts
<1>2. answer' = [answer EXCEPT !.status = 200, !.week = anchor, !.rows = rows, !.extra = extra]
    BY DEF Finish
<1>3. /\ answer'.week = anchor /\ answer'.rows = rows /\ answer'.extra = extra
      /\ answer'.truncated = answer.truncated
      /\ answer'.start = answer.start /\ answer'.end = answer.end
    BY <1>1, <1>2, Zenon
<1> QED BY <1>3 DEF Finish, Static

\* The candidates of construct_portfolio: only one with an estimate is ranked by one.
LEMMA CandidatesHavePercentiles ==
    ASSUME NEW S, NEW estimates, NEW s
    PROVE  \E percentile :
              /\ \A x \in S : percentile[x] # -1 => x \in Covered(S, estimates)
              /\ Candidates(S, estimates, s) =
                    {[judged |-> Judge(x, s), score |-> Judge(x, s).score, id |-> x.id,
                      week |-> x.week, percentile |-> percentile[x]] : x \in S}
<1> DEFINE covered == SetToSeq(Covered(S, estimates))
           values == SortSeq([i \in DOMAIN covered |-> ValueOf(covered[i], estimates)],
                             LAMBDA a, b : a < b)
           fn == [x \in S |-> IF x \in Covered(S, estimates)
                              THEN Percentile(ValueOf(x, estimates), values) ELSE -1]
<1>1. Candidates(S, estimates, s) =
          {[judged |-> Judge(x, s), score |-> Judge(x, s).score, id |-> x.id, week |-> x.week,
            percentile |-> fn[x]] : x \in S}
    BY DEF Candidates
<1>2. \A x \in S : fn[x] # -1 => x \in Covered(S, estimates)
    <2> HIDE DEF values
    <2> QED OBVIOUS
<1> HIDE DEF fn
<1> QED BY <1>1, <1>2

\* The rows that it sends are of the portfolio's week.
LEMMA CandidatesAreOfTheirRows ==
    ASSUME NEW S, IsFiniteSet(S), NEW estimates, NEW s
    PROVE  /\ IsFiniteSet(Candidates(S, estimates, s))
           /\ \A c \in Candidates(S, estimates, s) :
                 \E x \in S : c.week = x.week /\ c.judged = Judge(x, s) /\ c.score = Judge(x, s).score
                              /\ c.id = x.id
<1>1. PICK percentile :
          Candidates(S, estimates, s) =
              {[judged |-> Judge(x, s), score |-> Judge(x, s).score, id |-> x.id, week |-> x.week,
                percentile |-> percentile[x]] : x \in S}
    BY CandidatesHavePercentiles
<1>2. PICK R : R = Candidates(S, estimates, s)
    OBVIOUS
<1>3. [x \in S |-> [judged |-> Judge(x, s), score |-> Judge(x, s).score, id |-> x.id,
                    week |-> x.week, percentile |-> percentile[x]]] \in Surjection(S, R)
    BY <1>1, <1>2 DEF Surjection
<1>4. IsFiniteSet(R)
    BY <1>3, FS_Surjection
<1>5. \A c \in R : \E x \in S : c.week = x.week /\ c.judged = Judge(x, s)
                               /\ c.score = Judge(x, s).score /\ c.id = x.id
    BY <1>1, <1>2
<1> QED BY <1>2, <1>4, <1>5

\* What construct_portfolio chooses from, and sends.
Constructs(S, estimates, s, rows) ==
    /\ S = OfBias(InPortfolioScope(CommonStocks(anchor)), query.bias, classify_regime(s)) /\ S # {}
    /\ estimates = Estimates(anchor) /\ s = compute_scores_by_week(found)[1]
    /\ rows \in FirstInOrder(Candidates(S, estimates, s), RankOrder, query.limit)
    /\ answer'.week = anchor /\ answer'.rows = rows
    /\ matched' = Candidates(S, estimates, s)

LEMMA ConstructAnswers ==
    ASSUME Frame, construct_portfolio, ~Respond(422)
    PROVE  \E S, estimates, s, rows :
              Constructs(S, estimates, s, rows) /\ UNCHANGED <<committed, query, first>>
<1>1. PICK s, S, estimates : /\ s = compute_scores_by_week(found)[1] /\ estimates = Estimates(anchor)
                             /\ S = OfBias(InPortfolioScope(CommonStocks(anchor)), query.bias,
                                           classify_regime(s))
    OBVIOUS
<1>2. PICK ranked : ranked = Candidates(S, estimates, s)
    OBVIOUS
<1>3. /\ S # {}
      /\ \E rows, extra :
            /\ rows \in FirstInOrder(ranked, RankOrder, query.limit)
            /\ answer' = [answer EXCEPT !.status = 200, !.week = anchor, !.rows = rows,
                                        !.extra = extra]
            /\ matched' = ranked /\ UNCHANGED <<committed, query, first>>
    BY <1>1, <1>2, Zenon DEF construct_portfolio, Static
<1>4. PICK rows, extra :
            /\ rows \in FirstInOrder(ranked, RankOrder, query.limit)
            /\ answer' = [answer EXCEPT !.status = 200, !.week = anchor, !.rows = rows,
                                        !.extra = extra]
            /\ matched' = ranked /\ UNCHANGED <<committed, query, first>>
    BY <1>3, Zenon
<1>5. "rows" \in DOMAIN answer /\ "week" \in DOMAIN answer
    BY FrameFacts
<1>6. answer'.rows = rows /\ answer'.week = anchor
    BY <1>4, <1>5, Zenon
<1> QED BY <1>1, <1>2, <1>3, <1>4, <1>6 DEF Constructs

LEMMA StocksOfTheWeek ==
    ASSUME Frame, NEW bias, NEW regime, NEW S,
           S = OfBias(InPortfolioScope(CommonStocks(anchor)), bias, regime)
    PROVE  S \subseteq Rows("data") /\ IsFiniteSet(S) /\ \A x \in S : x.week = anchor
<1>1. S \subseteq CommonStocks(anchor)
    BY DEF OfBias, InPortfolioScope, Classified, Side
<1>2. S \subseteq Rows("data") /\ \A x \in S : x.week = anchor
    BY <1>1 DEF CommonStocks
<1>3. "data" \in Table
    BY DEF Table
<1> QED BY <1>2, <1>3, SelectionIsWeekly DEF AreWeekly

\* The market, and what is judged against it: the week of the market.
LEMMA MarketTells ==
    ASSUME Held, pc = "weeks",
           \/ Asking("regime/latest", "weeks") /\ market_regime
           \/ Asking("regime/forecast", "weeks") /\ market_regime_forecast
           \/ Asking("decision/evaluate", "weeks") /\ evaluate_symbol
           \/ Asking("portfolio/construct", "weeks") /\ construct_portfolio
           \/ Asking("portfolio/evaluate", "weeks") /\ evaluate_portfolio
           \/ Asking("portfolio/compare", "weeks") /\ compare_portfolios
    PROVE  GivesUp \/ TellsOfTheCall
<1>0. Frame /\ MarketHeld /\ query.path \in LatestPath /\ query.limit \in Nat
    BY FrameFacts DEF Held, MarketInv, Asking, LatestPath, PortfolioPath
<1>1. InCall(anchor)
    BY <1>0, MarketIsInCall
<1>2. ASSUME \E status \in {404, 422, 503} : Respond(status) PROVE GivesUp
    BY <1>0, <1>2, RespondGivesUp DEF Status
<1>3. ASSUME NEW rows, NEW extra, Finish(rows, extra), \A i \in DOMAIN rows : rows[i].week = anchor
      PROVE  TellsOfTheCall
    <2>1. answer'.week = anchor /\ answer'.rows = rows /\ UNCHANGED <<committed, query, first>>
        BY <1>0, <1>3, Finished
    <2> QED BY <1>1, <1>3, <2>1 DEF TellsOfTheCall, TellsOf
<1>4. CASE Asking("regime/latest", "weeks") /\ market_regime
    <2>1. PICK rows : /\ rows = [i \in DOMAIN Scored(found) |-> Snapshot1(Scored(found)[i])]
                      /\ Respond(503) \/ Finish(rows, Omitted)
        BY <1>4 DEF market_regime
    <2>2. found \in Seq({anchor})
        <3>0. PICK W : W = EligibleWeeks(RegimeFrom)
            OBVIOUS
        <3>1. PICK v \in Seq(W) : v = found
            BY <1>0, <3>0 DEF MarketHeld
        <3>2. Len(v) = 1 /\ v[1] = anchor
            BY <1>0, <1>4, <3>1 DEF MarketHeld, Asking
        <3>3. v = <<anchor>>
            BY <3>1, <3>2
        <3> QED BY <3>1, <3>3
    <2>3. PICK weeks \in Seq({anchor}) : weeks = Scored(found)
        BY <2>2, ScoredAreWeeks
    <2>4. \A i \in DOMAIN rows : rows[i].week = anchor
        <3>1. \A i \in DOMAIN weeks : weeks[i] = anchor
            BY <2>3
        <3>2. Snapshot1(anchor).week = anchor
            BY DEF Snapshot1
        <3> QED BY <2>1, <2>3, <3>1, <3>2
    <2> QED BY <1>2, <1>3, <2>1, <2>4
<1>5. CASE Asking("regime/forecast", "weeks") /\ market_regime_forecast
    <2>1. Respond(503) \/ \E extra : Finish(<<>>, extra)
        BY <1>5, Zenon DEF market_regime_forecast
    <2>2. \A i \in DOMAIN <<>> : <<>>[i].week = anchor
        OBVIOUS
    <2> QED BY <1>2, <1>3, <2>1, <2>2
<1>6. CASE Asking("decision/evaluate", "weeks") /\ evaluate_symbol
    <2>1. \/ Respond(404) \/ Respond(503)
          \/ \E x \in SymbolWeek(anchor) : \E extra : Finish(<<x>>, extra)
        BY <1>6, Zenon DEF evaluate_symbol
    <2>2. ASSUME NEW x \in SymbolWeek(anchor), NEW extra, Finish(<<x>>, extra) PROVE TellsOfTheCall
        <3>1. x.week = anchor
            BY DEF SymbolWeek
        <3>2. \A i \in DOMAIN <<x>> : <<x>>[i].week = anchor
            BY <3>1
        <3> QED BY <1>3, <2>2, <3>2
    <2>3. CASE Respond(404) \/ Respond(503)
        BY <1>2, <2>3
    <2>4. CASE \E x \in SymbolWeek(anchor) : \E extra : Finish(<<x>>, extra)
        <3>1. PICK x, extra : x \in SymbolWeek(anchor) /\ Finish(<<x>>, extra)
            BY <2>4, Zenon
        <3>2. TellsOfTheCall
            BY <2>2, <3>1
        <3> QED BY <3>2
    <2> QED BY <2>1, <2>3, <2>4
<1>7. CASE Asking("portfolio/construct", "weeks") /\ construct_portfolio
    <2>1. CASE Respond(422)
        BY <1>2, <2>1
    <2>2. CASE ~Respond(422)
        <3>1. PICK S, estimates, s, rows :
                 Constructs(S, estimates, s, rows) /\ UNCHANGED <<committed, query, first>>
            BY <1>0, <1>7, <2>2, ConstructAnswers
        <3>2. /\ answer'.week = anchor /\ answer'.rows = rows
              /\ rows \in FirstInOrder(Candidates(S, estimates, s), RankOrder, query.limit)
            BY <3>1 DEF Constructs
        <3>3. IsFiniteSet(Candidates(S, estimates, s))
              /\ \A c \in Candidates(S, estimates, s) : c.week = anchor
            <4>1. IsFiniteSet(S) /\ \A x \in S : x.week = anchor
                BY <1>0, <3>1, StocksOfTheWeek DEF Constructs
            <4> QED BY <4>1, CandidatesAreOfTheirRows
        <3>4. \A i \in DOMAIN rows : rows[i].week = anchor
            BY <1>0, <3>2, <3>3, FirstAreMembers
        <3> QED BY <1>1, <3>1, <3>2, <3>4 DEF TellsOfTheCall, TellsOf
    <2> QED BY <2>1, <2>2
<1>8. CASE Asking("portfolio/evaluate", "weeks") /\ evaluate_portfolio
    <2>1. Respond(422) \/ \E extra : Finish(<<>>, extra)
        BY <1>8, Zenon DEF evaluate_portfolio
    <2>2. \A i \in DOMAIN <<>> : <<>>[i].week = anchor
        OBVIOUS
    <2> QED BY <1>2, <1>3, <2>1, <2>2
<1>9. CASE Asking("portfolio/compare", "weeks") /\ compare_portfolios
    <2>1. Respond(422) \/ \E extra : Finish(<<>>, extra)
        BY <1>9, Zenon DEF compare_portfolios
    <2>2. \A i \in DOMAIN <<>> : <<>>[i].week = anchor
        OBVIOUS
    <2> QED BY <1>2, <1>3, <2>1, <2>2
<1> QED BY <1>4, <1>5, <1>6, <1>7, <1>8, <1>9

\* The leaders overall are those of the connection that stays open.
LEMMA LeadersLead ==
    ASSUME Held, LatestInv, Asking("leadership/latest", "anchored"), LeadershipOverall
    PROVE  LeadersHeld' /\ UNCHANGED <<committed, query, first, anchor>>
<1>0. Frame /\ query.limit \in Nat
    BY FrameFacts DEF Held
<1>1. PICK S : S = Leaders(query)
    OBVIOUS
<1>2. PICK s \in FirstInOrder(S, LeaderOrder, query.limit) :
          answer' = [answer EXCEPT !.week = anchor, !.rows = s]
    BY <1>1, Zenon DEF LeadershipOverall
<1>3. matched' = S /\ view' = Snapshot /\ UNCHANGED <<committed, query, first, anchor>>
    BY <1>1 DEF LeadershipOverall, Static
<1>4. answer'.week = anchor /\ answer'.rows = s
    BY <1>0, <1>2, FrameFacts, Zenon
<1>5. view' # Omitted /\ Rows("data")' = Rows("data")
    BY <1>0, <1>3, OpenedSees
<1>6. Leaders(query)' = S
    BY <1>1, <1>3, <1>5 DEF Leaders, TypeScope
<1>7. TypeScope(query) \subseteq Rows("data") /\ "data" \in Table
    BY DEF TypeScope, Table
<1>8. AreWeekly(TypeScope(query))
    BY <1>0, <1>7, SelectionIsWeekly
<1>9. AreWeekly(S)
    BY <1>1, <1>8, WeeklySubset DEF Leaders, Between
<1>10. ASSUME AsksLatest PROVE \A i \in DOMAIN s : s[i].week = anchor
    <2>1. anchor \in Nat \ {0}
        BY <1>10 DEF LatestInv, InCall, Asking
    <2>2. \A x \in S : x.week = anchor
        BY <1>1, <1>8, <2>1, BetweenAWeek DEF Leaders
    <2> QED BY <1>0, <1>9, <2>2, FirstAreMembers DEF AreWeekly
<1>11. AsksLatest' => AsksLatest
    BY <1>3 DEF AsksLatest
<1> QED BY <1>3, <1>4, <1>5, <1>6, <1>10, <1>11 DEF LeadersHeld, Asking

LEMMA LeadersStay ==
    ASSUME LeadersHeld, UNCHANGED <<query, view, anchor, answer, matched>> PROVE LeadersHeld'
BY DEF LeadersHeld, Leaders, TypeScope, Rows, Snapshot, AsksLatest

\* The lists by sector and group come from the same connection.
LEMMA LeadersTell ==
    ASSUME Held, Held', LatestInv, Asking("leadership/latest", "overall"),
           leadership_summary_latest
    PROVE  LatestIsCoherent'
<1>0. Frame /\ Frame' /\ LeadersHeld
    BY DEF Held, LatestInv, Asking
<1>1. UNCHANGED <<committed, query, first, matched>>
    BY DEF leadership_summary_latest, Static
<1>2. PICK sectors \in SUBSET Leaders(query), groups \in SUBSET Leaders(query) :
          answer' = [answer EXCEPT !.status = 200,
                                   !.extra = [sectors |-> sectors, groups |-> groups]]
    <2> DEFINE top(level) == {x \in Leaders(query) :
                                 Cardinality(Ahead(Leaders(query), x, level)) < query.limitBucket}
    <2>1. answer' = [answer EXCEPT !.status = 200,
                        !.extra = [sectors |-> top("sector"), groups |-> top("industry_group")]]
        BY DEF leadership_summary_latest
    <2>2. top("sector") \in SUBSET Leaders(query) /\ top("industry_group") \in SUBSET Leaders(query)
        OBVIOUS
    <2>3. PICK sectors, groups : sectors = top("sector") /\ groups = top("industry_group")
        OBVIOUS
    <2> HIDE DEF top
    <2> QED BY <2>1, <2>2, <2>3, Zenon
<1>3. /\ answer'.week = answer.week /\ answer'.rows = answer.rows
      /\ answer'.extra = [sectors |-> sectors, groups |-> groups]
    <2>1. "week" \in DOMAIN answer /\ "rows" \in DOMAIN answer /\ "extra" \in DOMAIN answer
        BY <1>0, FrameFacts
    <2> QED BY <1>2, <2>1, Zenon
<1>4. LatestWasLatest'
    <2>1. ASSUME AsksLatest PROVE TellsOf(answer', anchor) /\ InCall(anchor)
        BY <1>0, <1>3, <2>1 DEF TellsOf, LeadersHeld, LatestInv, Asking
    <2> QED BY <1>0, <1>1, <2>1, TellsLatest
<1>5. LeadersAgree'
    <2>1. answer'.extra.sectors = sectors /\ answer'.extra.groups = groups
        BY <1>3
    <2>2. matched' = Leaders(query)
        BY <1>0, <1>1 DEF LeadersHeld
    <2> QED BY <1>2, <2>1, <2>2 DEF LeadersAgree
<1>6. StaleWasTrue'
    BY <1>1 DEF StaleWasTrue, Asking
<1> QED BY <1>4, <1>5, <1>6 DEF LatestIsCoherent

\* The estimate of the newest week, and the data's week at a later moment.
LEMMA EstimateIsInCall ==
    ASSUME Held, Asking("stim/latest", "called"), StimEstimate
    PROVE  /\ found' = Omitted \/ InCall(found'.week)
           /\ UNCHANGED <<committed, query, first>>
<1>0. Frame /\ query.path = "stim/latest" /\ query.path \in LatestPath
      /\ pc \notin {"arrived", "done"}
    BY DEF Held, Asking, LatestPath
<1>1. PICK S : S = OfSymbol(Rows("means"))
    OBVIOUS
<1>2. S = LatestScope(Snapshot, query)
    BY <1>0, <1>1, ScopesAre
<1>3. UNCHANGED <<committed, query, first>>
    BY DEF StimEstimate, Static
<1>4. found' = Omitted \/ (S # {} /\ found'.week = LatestWeek(S))
    BY <1>1 DEF StimEstimate
<1> QED BY <1>0, <1>2, <1>3, <1>4, NewestIsInCall

LEMMA StimTells ==
    ASSUME Held, Held', LatestInv, Asking("stim/latest", "estimated"), stim_latest
    PROVE  GivesUp \/ LatestIsCoherent'
<1>0. Frame /\ Frame' /\ view = Omitted /\ Snapshot = committed
    BY DEF Held, Frame, Asking, Unread, Snapshot
<1>1. CASE found = Omitted
    <2>1. Respond(404)
        BY <1>1 DEF stim_latest
    <2> QED BY <1>0, <2>1, RespondGivesUp DEF Status
<1>2. CASE found # Omitted
    <2>1. InCall(found.week)
        BY <1>2 DEF LatestInv, Asking
    <2>2. PICK dataWeek : dataWeek = LatestWeek(OfSymbol(Rows("data")))
        OBVIOUS
    <2>3. /\ answer' = [answer EXCEPT !.status = 200, !.week = found.week, !.rows = <<found>>,
                            !.extra = [dataWeek |-> dataWeek, isStale |-> found.week < dataWeek]]
          /\ UNCHANGED <<committed, query, first>>
        BY <1>2, <2>2 DEF stim_latest, DataWeek, Static
    <2>4. /\ answer'.week = found.week /\ answer'.rows = <<found>>
          /\ answer'.extra = [dataWeek |-> dataWeek, isStale |-> found.week < dataWeek]
        <3>1. "week" \in DOMAIN answer /\ "rows" \in DOMAIN answer /\ "extra" \in DOMAIN answer
            BY <1>0, FrameFacts
        <3> QED BY <2>3, <3>1, Zenon
    <2>5. TellsOf(answer', found.week)
        BY <2>4 DEF TellsOf
    <2>6. LatestWasLatest'
        BY <1>0, <2>1, <2>3, <2>5, TellsLatest
    <2>7. StimDataWeek(first) <= dataWeek /\ StimDataWeek(first) \in Nat /\ dataWeek \in Nat
        <3>1. OfSymbol(RowsAt(first, "data")) \subseteq OfSymbol(RowsAt(committed, "data"))
            BY RowsAtGrows, <1>0 DEF OfSymbol, Frame, TypeOK
        <3>2. AreWeekly(OfSymbol(RowsAt(committed, "data")))
            BY <1>0, TablesAreWeekly, WeeklySubset DEF OfSymbol, Table, Frame, TypeOK
        <3>3. AreWeekly(OfSymbol(RowsAt(first, "data")))
            BY <3>1, <3>2, WeeklySubset
        <3> QED BY <1>0, <2>2, <3>1, <3>2, <3>3, LatestGrows, LatestIsNewest DEF StimDataWeek, Rows
    <2>8. StimDataWeek(first)' = StimDataWeek(first) /\ StimDataWeek(committed)' = dataWeek
        BY <1>0, <2>2, <2>3 DEF StimDataWeek, OfSymbol, Symbol, Exchange, Rows
    <2>9. (found.week < dataWeek) <=> answer'.extra.isStale
        <3>1. answer'.extra.isStale = (found.week < dataWeek)
            BY <2>4
        <3> QED BY <3>1, Zenon
    <2>10. found.week \in Nat
        BY <2>1 DEF InCall
    <2>11. StaleWasTrue'
        <3>1. StimDataWeek(first) > found.week => found.week < dataWeek
            BY <2>7, <2>10
        <3>2. /\ (StimDataWeek(first) > answer.week)' => answer'.extra.isStale
              /\ answer'.extra.isStale => (answer.week < StimDataWeek(committed))'
            BY <2>4, <2>8, <2>9, <3>1, Zenon
        <3> QED BY <3>2, Zenon DEF StaleWasTrue
    <2>12. LeadersAgree'
        BY <2>3 DEF LeadersAgree, Asking
    <2> QED BY <2>6, <2>11, <2>12 DEF LatestIsCoherent
<1> QED BY <1>1, <1>2

\* Every answer about now.
LEMMA LatestTells ==
    ASSUME Held, Held', LatestInv, AnswersLatest PROVE GivesUp \/ LatestIsCoherent'
<1>0. Frame /\ Frame'
    BY DEF Held
<1>1. ASSUME TellsOfTheCall, query.path \notin {"stim/latest", "leadership/latest"}
      PROVE  LatestIsCoherent'
    BY <1>0, <1>1, TellsCoherently DEF TellsOfTheCall
<1>2. CASE \/ Asking("prices/latest", "called") /\ prices_latest("prices/latest")
           \/ Asking("indicators/latest", "called") /\ prices_latest("indicators/latest")
           \/ Asking("epoch/latest", "called") /\ market_epoch_latest
    BY <1>1, <1>2, NewestRowTells DEF Asking
<1>3. CASE \/ Asking("selections/latest", "anchored") /\ selections_latest
           \/ Asking("published/latest", "anchored") /\ selections_published_latest
           \/ Asking("screener/top", "anchored") /\ screener_top
           \/ Asking("stwr/latest", "anchored") /\ stwr_reports_latest
    <2>1. TellsOfTheCall
        BY <1>3, ListTells DEF Asking
    <2> QED BY <1>1, <1>3, <2>1 DEF Asking
<1>4. CASE \/ Asking("regime/latest", "weeks") /\ market_regime
           \/ Asking("regime/forecast", "weeks") /\ market_regime_forecast
           \/ Asking("decision/evaluate", "weeks") /\ evaluate_symbol
           \/ Asking("portfolio/construct", "weeks") /\ construct_portfolio
           \/ Asking("portfolio/evaluate", "weeks") /\ evaluate_portfolio
           \/ Asking("portfolio/compare", "weeks") /\ compare_portfolios
    <2>1. GivesUp \/ TellsOfTheCall
        BY <1>4, MarketTells DEF Asking
    <2> QED BY <1>1, <1>4, <2>1 DEF Asking
<1>5. CASE Asking("breadth/latest", "anchored") /\ breadth_sector_latest
    <2>1. UNCHANGED <<committed, query, first>>
        BY <1>5, Zenon DEF breadth_sector_latest, SendRows, Static
    <2>2. query.path \notin LatestPath \cup {"stim/latest", "leadership/latest"}
        BY <1>5 DEF Asking, LatestPath, PortfolioPath
    <2> QED BY <1>0, <2>1, <2>2, TellsCoherently DEF AsksLatest
<1>6. CASE Asking("leadership/latest", "overall") /\ leadership_summary_latest
    BY <1>6, LeadersTell
<1>7. CASE Asking("stim/latest", "estimated") /\ stim_latest
    BY <1>7, StimTells
<1> QED BY <1>2, <1>3, <1>4, <1>5, <1>6, <1>7 DEF AnswersLatest

\* Before it answers, and where it gives up, a request has told nothing.
LEMMA UnansweredIsCoherent == ASSUME ~Answered' PROVE LatestIsCoherent'
BY DEF LatestIsCoherent, LatestWasLatest, StaleWasTrue, LeadersAgree

LEMMA NextKeepsLatest == ASSUME Held, Held', LatestInv, [Next]_vars PROVE LatestInv'
<1>0. Frame /\ Frame' /\ committed' \subseteq BatchId
    BY DEF Held, Frame, TypeOK
<1>1. CASE HandlerNext
    <2>0. UNCHANGED <<query, committed, first>>
        BY <1>0, <1>1, HandlerKeepsRequest
    <2>1. ASSUME FreeStep \/ (Step /\ query.path \notin LatestPath \cup {"breadth/latest"})
          PROVE  LatestIsCoherent'
        <3>1. query.path \notin LatestPath
            BY <2>1 DEF FreeStep, FreePath, ModelPath, LatestPath, PortfolioPath
        <3> QED BY <1>0, <2>0, <3>1, TellsCoherently DEF AsksLatest, LatestPath
    <2>2. CASE FreeStep
        BY <2>1, <2>2 DEF LatestInv, FreeStep
    <2>3. CASE Step
        <3>1. CASE GivesUp
            BY <3>1, UnansweredIsCoherent DEF LatestInv, GivesUp, Answered
        <3>2. CASE pc' = "weeks" /\ OpensMarket
            BY <3>2, UnansweredIsCoherent DEF LatestInv, Answered
        <3>3. CASE pc' = "estimated" /\ Asking("stim/latest", "called") /\ StimEstimate
            <4>1. PICK x : x = found'
                OBVIOUS
            <4>2. x = Omitted \/ InCall(x.week)
                BY <3>3, <4>1, EstimateIsInCall
            <4>3. x = Omitted \/ InCall(x.week)'
                BY <1>0, <2>0, <3>3, <4>2, InCallStays DEF Asking, LatestPath
            <4> QED BY <3>3, <4>1, <4>3, UnansweredIsCoherent DEF LatestInv, Answered, InCall
        <3>4. CASE pc' \in {"ranged", "anchored"} /\ FindsWeek
            <4>1. PICK week : week = anchor'
                OBVIOUS
            <4>2. AsksLatest /\ pc' = "anchored" => InCall(week)
                BY <3>4, <4>1, FoundIsInCall
            <4>3. AsksLatest /\ pc' = "anchored" => InCall(week)'
                BY <1>0, <2>0, <4>2, InCallStays DEF AsksLatest
            <4>4. AsksLatest' => AsksLatest
                BY <2>0 DEF AsksLatest
            <4> QED BY <3>4, <4>1, <4>3, <4>4, UnansweredIsCoherent DEF LatestInv, Answered, InCall
        <3>5. CASE pc' = "overall" /\ Asking("leadership/latest", "anchored") /\ LeadershipOverall
            <4>1. LeadersHeld' /\ anchor' = anchor
                BY <3>5, LeadersLead
            <4>2. PICK week : week = anchor
                OBVIOUS
            <4>3. AsksLatest => InCall(week)'
                BY <1>0, <2>0, <3>5, <4>2, InCallStays DEF AsksLatest, LatestInv, Asking
            <4>4. AsksLatest' => AsksLatest
                BY <2>0 DEF AsksLatest
            <4> QED BY <3>5, <4>1, <4>2, <4>3, <4>4, UnansweredIsCoherent
                    DEF LatestInv, Answered, InCall
        <3>6. CASE pc' = "done" /\ AnswersLatest
            <4>1. GivesUp \/ LatestIsCoherent'
                BY <3>6, LatestTells
            <4>2. GivesUp => LatestIsCoherent'
                BY UnansweredIsCoherent DEF GivesUp, Answered
            <4> QED BY <3>6, <4>1, <4>2 DEF LatestInv
        <3>7. CASE \/ pc' \in {"gaps", "done"} /\ AnswersHistory
                   \/ pc' = "done" /\ Asking("stim/history", "gaps") /\ (StimGaps \/ StimGapsFail)
            <4>1. query.path \notin LatestPath \cup {"breadth/latest"}
                BY <3>7 DEF AnswersHistory, Asking, LatestPath, PortfolioPath
            <4> QED BY <2>1, <2>3, <3>7, <4>1 DEF LatestInv
        <3> QED BY <2>3, <3>1, <3>2, <3>3, <3>4, <3>5, <3>6, <3>7 DEF Step
    <2> QED BY <1>0, <1>1, <2>2, <2>3, HandlerLeads
<1>2. ASSUME committed \subseteq committed', LatestIsCoherent',
             UNCHANGED <<query, pc, view, anchor, found, answer, first, matched>>
      PROVE  LatestInv'
    <2>1. PICK week, x : week = anchor /\ x = found
        OBVIOUS
    <2>2. AsksLatest /\ pc \in {"anchored", "overall"} => InCall(week)'
        BY <1>0, <1>2, <2>1, InCallStays DEF AsksLatest, LatestInv
    <2>3. query.path = "stim/latest" /\ pc = "estimated" => x = Omitted \/ InCall(x.week)'
        BY <1>0, <1>2, <2>1, InCallStays DEF LatestPath, LatestInv
    <2>4. pc = "overall" => LeadersHeld'
        BY <1>2, LeadersStay DEF LatestInv
    <2> QED BY <1>2, <2>1, <2>2, <2>3, <2>4 DEF LatestInv, AsksLatest, InCall
<1>3. CASE \E b \in BatchId : Load(b)
    BY <1>2, <1>3, UnansweredIsCoherent DEF Load, Answered
<1>6. CASE UNCHANGED vars
    <2>1. LatestIsCoherent
        BY DEF LatestInv
    <2>2. UNCHANGED <<committed, query, pc, answer, first, matched>>
        BY <1>6 DEF vars
    <2>3. /\ LatestScope(first, query)' = LatestScope(first, query)
          /\ LatestScope(committed, query)' = LatestScope(committed, query)
        BY <2>2 DEF LatestScope, CommonStock, OfSymbol, Symbol, Exchange
    <2>4. LatestWasLatest'
        BY <2>1, <2>2, <2>3 DEF LatestIsCoherent, LatestWasLatest, Answered
    <2>5. /\ StimDataWeek(first)' = StimDataWeek(first)
          /\ StimDataWeek(committed)' = StimDataWeek(committed)
        BY <2>2 DEF StimDataWeek, OfSymbol, Symbol, Exchange
    <2>6. StaleWasTrue'
        BY <2>1, <2>2, <2>5, Zenon DEF LatestIsCoherent, StaleWasTrue, Answered
    <2>7. LeadersAgree'
        BY <2>1, <2>2 DEF LatestIsCoherent, LeadersAgree, Answered
    <2> QED BY <1>2, <1>6, <2>4, <2>6, <2>7 DEF vars, LatestIsCoherent
<1>4. CASE PaymentRefused \/ DatabaseFails
    BY <1>4, <1>0, RespondGivesUp, UnansweredIsCoherent
       DEF PaymentRefused, DatabaseFails, GivesUp, Answered, LatestInv, Status
<1>5. CASE Validate \/ CallHandler
    <2>1. Respond(400) \/ pc' \in {"admitted", "called"}
        BY <1>5, Zenon DEF Validate, CallHandler
    <2>2. Respond(400) => GivesUp
        BY <1>0, RespondGivesUp DEF Status
    <2> QED BY <2>1, <2>2, UnansweredIsCoherent DEF GivesUp, Answered, LatestInv
<1> QED BY <1>1, <1>3, <1>4, <1>5, <1>6 DEF Next

\* An answer about now is about one moment: its rows are of one week, which was the newest of the
\* endpoint's own scope at some moment of the call; an estimate is called stale when it was; the
\* three lists of leaders agree (routers/prices.py to routers/portfolio.py).
THEOREM NowIsOneMoment == Spec => []LatestIsCoherent
<1>1. Init => LatestInv
    BY DEF Init, LatestInv, LatestIsCoherent, LatestWasLatest, StaleWasTrue, LeadersAgree, Answered
<1>2. Held /\ Held' /\ LatestInv /\ [Next]_vars => LatestInv'
    BY NextKeepsLatest
<1>3. LatestInv => LatestIsCoherent
    BY DEF LatestInv
<1> QED BY <1>1, <1>2, <1>3, HeldAlways, PTL DEF Spec

-----------------------------------------------------------------------------
(* A history is whole.                                                     *)

\* The parts of HistoryIsWhole, of an answer where S matched.
Truncates(a, S) == a.truncated <=> Len(a.rows) < Cardinality(S)
KeepsNewest(a, S) ==
    \A x \in S : \A i \in DOMAIN a.rows :
        x.week > a.rows[i].week => \E j \in DOMAIN a.rows : a.rows[j].week = x.week
CallersBounds(a) ==
    IF ~Bare(query) THEN a.start = query.start /\ a.end = query.end
    ELSE a.start = (IF a.end = 0 THEN 0 ELSE a.end - (Window - 1))
WithinBounds(a, x) == a.start <= x.week /\ (a.end # 0 => x.week <= a.end)
KeepsBuckets(a, S) ==
    LET buckets == GroupByWeek(a.rows) IN
    \A i \in DOMAIN buckets :
        /\ \A j \in DOMAIN buckets : buckets[i].week = buckets[j].week => i = j
        /\ i < Len(buckets) \/ ~a.truncated =>
              buckets[i].count = Cardinality({x \in S : x.week = buckets[i].week})
Whole(a, S) ==
    /\ Truncates(a, S) /\ CallersBounds(a) /\ \A i \in DOMAIN a.rows : WithinBounds(a, a.rows[i])
    /\ IF query.path \in WindowedPath THEN KeepsBuckets(a, S) ELSE KeepsNewest(a, S)

\* What a history is sent from.
LEMMA HistorySent ==
    ASSUME Frame, NEW S, IsFiniteSet(S), NEW order, NEW limit \in Nat, NEW bounds,
           NEW oldestFirst, SendHistory(S, order, limit, bounds, oldestFirst)
    PROVE  /\ \E rows, truncated :
                 /\ IsHistory(rows, truncated, S, order) /\ answer'.truncated = truncated
                 /\ answer'.rows = IF oldestFirst THEN Reverse(rows) ELSE rows
           /\ answer'.start = bounds.start /\ answer'.end = bounds.end
           /\ matched' = S
<1>1. PICK s \in FirstInOrder(S, order, ProbeLimit(limit)) :
          answer' = [answer EXCEPT !.status = 200,
                        !.rows = IF oldestFirst THEN Reverse(SplitProbe(s, limit).rows)
                                 ELSE SplitProbe(s, limit).rows,
                        !.truncated = SplitProbe(s, limit).truncated,
                        !.start = bounds.start, !.end = bounds.end]
    BY Zenon DEF SendHistory
<1>2. PICK rows, truncated : rows = SplitProbe(s, limit).rows
                             /\ truncated = SplitProbe(s, limit).truncated
    OBVIOUS
<1>3. IsHistory(rows, truncated, S, order)
    BY <1>2, ProbeIsHistory
<1>4. "rows" \in DOMAIN answer /\ "truncated" \in DOMAIN answer /\ "start" \in DOMAIN answer
      /\ "end" \in DOMAIN answer
    BY FrameFacts
<1>5. PICK sent : sent = IF oldestFirst THEN Reverse(rows) ELSE rows
    OBVIOUS
<1>6. answer' = [answer EXCEPT !.status = 200, !.rows = sent, !.truncated = truncated,
                               !.start = bounds.start, !.end = bounds.end]
    BY <1>1, <1>2, <1>5, Zenon
<1>7. /\ answer'.truncated = truncated /\ answer'.rows = sent
      /\ answer'.start = bounds.start /\ answer'.end = bounds.end
    BY <1>4, <1>6, Zenon
<1>8. matched' = S
    BY Zenon DEF SendHistory
<1> QED BY <1>3, <1>5, <1>7, <1>8

\* The same rows the other way round.
LEMMA ReversedRows ==
    ASSUME NEW S, NEW s \in Seq(S)
    PROVE  /\ Reverse(s) \in Seq(S) /\ Len(Reverse(s)) = Len(s) /\ DOMAIN Reverse(s) = DOMAIN s
           /\ \A i \in DOMAIN s : \E j \in DOMAIN s : Reverse(s)[j] = s[i]
           /\ \A i \in DOMAIN s : \E j \in DOMAIN s : Reverse(s)[i] = s[j]
<1>1. PICK n \in Nat : n = Len(s) /\ DOMAIN s = 1 .. n
    OBVIOUS
<1>2. \A i \in 1 .. n : (n - i) + 1 \in 1 .. n /\ (n - ((n - i) + 1)) + 1 = i
    BY <1>1
<1>3. PICK r : r = Reverse(s)
    OBVIOUS
<1>4. r = [i \in 1 .. n |-> s[(n - i) + 1]]
    BY <1>1, <1>3 DEF Reverse
<1>5. \A i \in 1 .. n : r[i] = s[(n - i) + 1] /\ r[i] \in S
    BY <1>1, <1>2, <1>4
<1>6. r \in Seq(S) /\ Len(r) = n /\ DOMAIN r = 1 .. n
    BY <1>1, <1>4, <1>5
<1>7. \A i \in 1 .. n : \E j \in 1 .. n : r[j] = s[i]
    BY <1>2, <1>5
<1>8. \A i \in 1 .. n : \E j \in 1 .. n : r[i] = s[j]
    BY <1>2, <1>5
<1> QED BY <1>1, <1>3, <1>6, <1>7, <1>8

LEMMA HistoryIsOfItsRows ==
    ASSUME Frame, NEW S, IsFiniteSet(S), NEW order, NEW limit \in Nat, NEW bounds,
           NEW oldestFirst, SendHistory(S, order, limit, bounds, oldestFirst)
    PROVE  /\ Truncates(answer', S) /\ \A i \in DOMAIN answer'.rows : answer'.rows[i] \in S
           /\ AreWeekly(S) /\ NewestFirst(order) => KeepsNewest(answer', S)
<1>1. PICK rows, truncated :
          /\ IsHistory(rows, truncated, S, order) /\ answer'.truncated = truncated
          /\ answer'.rows = IF oldestFirst THEN Reverse(rows) ELSE rows
    BY HistorySent
<1>2. PICK sent : sent = answer'.rows
    OBVIOUS
<1>3. rows \in Seq(S)
    BY <1>1 DEF IsHistory
<1>4. /\ sent \in Seq(S) /\ Len(sent) = Len(rows) /\ DOMAIN sent = DOMAIN rows
      /\ \A i \in DOMAIN rows : \E j \in DOMAIN rows : sent[j] = rows[i]
      /\ \A i \in DOMAIN rows : \E j \in DOMAIN rows : sent[i] = rows[j]
    <2>1. CASE oldestFirst
        <3>1. PICK r : r = Reverse(rows)
            OBVIOUS
        <3>2. /\ r \in Seq(S) /\ Len(r) = Len(rows) /\ DOMAIN r = DOMAIN rows
              /\ \A i \in DOMAIN rows : \E j \in DOMAIN rows : r[j] = rows[i]
              /\ \A i \in DOMAIN rows : \E j \in DOMAIN rows : r[i] = rows[j]
            BY <1>3, <3>1, ReversedRows
        <3>3. sent = r
            BY <1>1, <1>2, <2>1, <3>1
        <3> QED BY <3>2, <3>3
    <2>2. CASE ~oldestFirst
        <3>1. sent = rows
            BY <1>1, <1>2, <2>2
        <3> QED BY <1>3, <3>1
    <2> QED BY <2>1, <2>2
<1>5. Truncates(answer', S)
    BY <1>1, <1>2, <1>4 DEF Truncates, IsHistory
<1>6. \A i \in DOMAIN sent : sent[i] \in S
    BY <1>4
<1>7. ASSUME AreWeekly(S), NewestFirst(order) PROVE KeepsNewest(answer', S)
    <2>1. \A x \in S : \A i \in DOMAIN rows :
              x.week > rows[i].week => \E j \in DOMAIN rows : rows[j].week = x.week
        BY <1>1, <1>7, OlderAreLost
    <2>2. ASSUME NEW x \in S, NEW i \in DOMAIN sent, x.week > sent[i].week
          PROVE  \E j \in DOMAIN sent : sent[j].week = x.week
        <3>1. PICK k \in DOMAIN rows : sent[i] = rows[k]
            BY <1>4
        <3>2. PICK l \in DOMAIN rows : rows[l].week = x.week
            BY <2>1, <2>2, <3>1
        <3> QED BY <1>4, <3>2
    <2> QED BY <1>2, <2>2 DEF KeepsNewest
<1> QED BY <1>2, <1>5, <1>6, <1>7

\* The rows of a week that were sent are those that matched, if none of them is missing.
LEMMA WholeWeeks ==
    ASSUME NEW S, IsFiniteSet(S), NEW rows \in Seq(S), NEW w,
           \A i, j \in DOMAIN rows : rows[i] = rows[j] => i = j,
           \A x \in S : x.week = w => \E i \in DOMAIN rows : rows[i] = x
    PROVE  Cardinality(OfWeek(rows, Len(rows), w)) = Cardinality({x \in S : x.week = w})
<1>1. PICK n \in Nat : n = Len(rows) /\ DOMAIN rows = 1 .. n
    OBVIOUS
<1>2. PICK A, B : A = OfWeek(rows, n, w) /\ B = {x \in S : x.week = w}
    OBVIOUS
<1>3. IsFiniteSet(A) /\ \A i \in A : i \in DOMAIN rows /\ rows[i] \in B
    <2>1. IsFiniteSet(A)
        BY <1>1, <1>2, OfWeekGrows
    <2>2. \A i \in A : i \in DOMAIN rows /\ rows[i] \in B
        BY <1>1, <1>2 DEF OfWeek
    <2> QED BY <2>1, <2>2
<1>4. \A x \in B : \E i \in A : rows[i] = x
    BY <1>1, <1>2 DEF OfWeek
<1>5. [i \in A |-> rows[i]] \in Bijection(A, B)
    <2>1. [i \in A |-> rows[i]] \in [A -> B]
        BY <1>3
    <2>2. \A x \in B : \E i \in A : [k \in A |-> rows[k]][i] = x
        BY <1>4
    <2>3. \A i, j \in A : [k \in A |-> rows[k]][i] = [k \in A |-> rows[k]][j] => i = j
        BY <1>3
    <2> QED BY <2>1, <2>2, <2>3 DEF Bijection, Injection, Surjection, IsInjective
<1>6. ExistsBijection(A, B)
    BY <1>5 DEF ExistsBijection
<1> QED BY <1>1, <1>2, <1>3, <1>6, FS_Bijection

\* Oldest first, only the last week that is sent can lack rows.
LEMMA BucketsAreWhole ==
    ASSUME Frame, NEW S, AreWeekly(S), NEW order, OldestFirst(order), NEW limit \in Nat,
           NEW bounds, SendHistory(S, order, limit, bounds, FALSE)
    PROVE  KeepsBuckets(answer', S)
<1>1. PICK rows, truncated :
          /\ IsHistory(rows, truncated, S, order) /\ answer'.truncated = truncated
          /\ answer'.rows = rows
    BY HistorySent DEF AreWeekly
<1>2. /\ rows \in Seq(S) /\ \A i, j \in DOMAIN rows : rows[i] = rows[j] => i = j
      /\ ~truncated => \A z \in S : \E i \in DOMAIN rows : rows[i] = z
      /\ DOMAIN rows = 1 .. Len(rows) /\ Len(rows) \in Nat
    BY <1>1 DEF IsHistory
<1>3. /\ \A i, j \in DOMAIN rows : i <= j => rows[i].week <= rows[j].week
      /\ \A x \in S : \A i \in DOMAIN rows :
            x.week < rows[i].week => \E j \in DOMAIN rows : rows[j] = x
    BY <1>1, NewerAreLost
<1>4. PICK buckets : buckets = GroupByWeek(rows)
    OBVIOUS
<1>5. /\ buckets \in Seq(Bucket)
      /\ \A i, j \in DOMAIN buckets : i < j => buckets[i].week < buckets[j].week
      /\ \A i \in DOMAIN buckets :
            buckets[i].count = Cardinality(OfWeek(rows, Len(rows), buckets[i].week))
      /\ buckets # <<>> => rows # <<>> /\ buckets[Len(buckets)].week = rows[Len(rows)].week
    BY <1>2, <1>3, <1>4, BucketsCount
<1>6. DOMAIN buckets = 1 .. Len(buckets) /\ Len(buckets) \in Nat
      /\ \A i \in DOMAIN buckets : buckets[i].week \in Nat
    <2>1. \A b \in Bucket : b.week \in Nat
        BY DEF Bucket
    <2> QED BY <1>5, <2>1
<1>7. ASSUME NEW i \in DOMAIN buckets, NEW j \in DOMAIN buckets,
             buckets[i].week = buckets[j].week
      PROVE  i = j
    <2>1. ~(i < j) /\ ~(j < i)
        BY <1>5, <1>6, <1>7
    <2> QED BY <1>6, <2>1
<1>8. ASSUME NEW i \in DOMAIN buckets, i < Len(buckets) \/ ~truncated
      PROVE  buckets[i].count = Cardinality({x \in S : x.week = buckets[i].week})
    <2>1. PICK w : w = buckets[i].week
        OBVIOUS
    <2>2. ASSUME NEW x \in S, x.week = w PROVE \E k \in DOMAIN rows : rows[k] = x
        <3>1. CASE ~truncated
            BY <1>2, <3>1
        <3>2. CASE i < Len(buckets)
            <4>1. Len(buckets) \in DOMAIN buckets /\ buckets # <<>>
                BY <1>6, <3>2
            <4>2. w < rows[Len(rows)].week /\ Len(rows) \in DOMAIN rows
                BY <1>2, <1>5, <2>1, <3>2, <4>1
            <4> QED BY <1>3, <2>2, <4>2
        <3> QED BY <1>8, <3>1, <3>2
    <2>3. Cardinality(OfWeek(rows, Len(rows), w)) = Cardinality({x \in S : x.week = w})
        BY <1>2, <2>2, WholeWeeks DEF AreWeekly
    <2> QED BY <1>5, <2>1, <2>3
<1> QED BY <1>1, <1>4, <1>7, <1>8 DEF KeepsBuckets

\* The bounds of the endpoints are those of the caller, or the window's.
LEMMA BoundsOfTheRequest ==
    ASSUME Frame, NEW latest \in Nat,
           NEW bounds \in {CallerBounds, HistoryWindow(query.start, query.end, latest)}
    PROVE  CallersBounds(bounds) /\ bounds.start \in Int /\ bounds.end \in Nat
<1>1. query.start \in Nat /\ query.end \in Nat /\ Window \in Nat
    BY FrameFacts, TablesAssumption
<1> QED BY <1>1 DEF CallersBounds, CallerBounds, HistoryWindow, Bare

LEMMA BetweenIsWithin ==
    ASSUME NEW T, AreWeekly(T), NEW bounds, bounds.start \in Int, bounds.end \in Nat,
           NEW S, S \subseteq Between(T, bounds.start, bounds.end)
    PROVE  AreWeekly(S) /\ \A x \in S : WithinBounds(bounds, x)
<1>1. S \subseteq T
    BY DEF Between
<1>2. \A x \in S : x.week \in Nat
    BY <1>1 DEF AreWeekly
<1> QED BY <1>1, <1>2, WeeklySubset DEF Between, WithinBounds

\* Of rows within its bounds, in an order that suits the endpoint, a whole history is sent.
LEMMA WholeIsSent ==
    ASSUME Frame, NEW S, AreWeekly(S), NEW order, NEW bounds, NEW oldestFirst,
           SendHistory(S, order, query.limit, bounds, oldestFirst),
           CallersBounds(bounds), \A x \in S : WithinBounds(bounds, x),
           IF query.path \in WindowedPath THEN OldestFirst(order) /\ oldestFirst = FALSE
           ELSE NewestFirst(order)
    PROVE  Whole(answer', matched')
<1>1. query.limit \in Nat /\ IsFiniteSet(S)
    BY FrameFacts DEF AreWeekly
<1>2. answer'.start = bounds.start /\ answer'.end = bounds.end /\ matched' = S
    BY <1>1, HistorySent
<1>3. Truncates(answer', S) /\ (\A i \in DOMAIN answer'.rows : answer'.rows[i] \in S)
      /\ (NewestFirst(order) => KeepsNewest(answer', S))
    BY <1>1, HistoryIsOfItsRows
<1>4. query.path \in WindowedPath => KeepsBuckets(answer', S)
    <2>1. oldestFirst = FALSE /\ OldestFirst(order) =>
              SendHistory(S, order, query.limit, bounds, FALSE)
        OBVIOUS
    <2> QED BY <1>1, <2>1, BucketsAreWhole
<1>5. CallersBounds(answer')
    BY <1>2 DEF CallersBounds
<1>6. \A i \in DOMAIN answer'.rows : WithinBounds(answer', answer'.rows[i])
    BY <1>2, <1>3 DEF WithinBounds
<1> QED BY <1>2, <1>3, <1>4, <1>5, <1>6 DEF Whole

\* Prices, indicators, estimates, selections, epochs: the newest rows come first.
LEMMA NewestHistories ==
    ASSUME Frame, pc' \in {"gaps", "done"},
           \/ Asking("prices/history", "called") /\ prices_history("prices/history")
           \/ Asking("indicators/history", "called") /\ prices_history("indicators/history")
           \/ Asking("stim/history", "called") /\ stim_history
           \/ Asking("selections/history", "called") /\ selections_history
           \/ Asking("published/history", "called") /\ selections_published_history
           \/ Asking("epoch/history", "called") /\ market_epoch_history
    PROVE  GivesUp \/ Whole(answer', matched')
<1>1. ASSUME NEW t \in Table, NEW T, T \subseteq Rows(t), NEW order, NewestFirst(order),
             NEW oldestFirst,
             SendHistory(Between(T, query.start, query.end), order, query.limit, CallerBounds,
                         oldestFirst)
      PROVE  Whole(answer', matched')
    <2>1. PICK S : S = Between(T, query.start, query.end)
        OBVIOUS
    <2>2. AreWeekly(T)
        BY <1>1, SelectionIsWeekly
    <2>3. CallersBounds(CallerBounds) /\ CallerBounds.start \in Int /\ CallerBounds.end \in Nat
        <3>1. 0 \in Nat
            OBVIOUS
        <3> QED BY <3>1, BoundsOfTheRequest
    <2>4. AreWeekly(S) /\ \A x \in S : WithinBounds(CallerBounds, x)
        <3>1. S \subseteq Between(T, CallerBounds.start, CallerBounds.end)
            BY <2>1 DEF CallerBounds
        <3> QED BY <2>2, <2>3, <3>1, BetweenIsWithin
    <2>5. query.path \notin WindowedPath
        BY DEF Asking, WindowedPath
    <2> QED BY <1>1, <2>1, <2>3, <2>4, <2>5, WholeIsSent
<1>2. {"data", "means", "select", "epoch"} \subseteq Table
    BY DEF Table
<1>3. NewestFirst(Newest) /\ NewestFirst(NewestByProb) /\ NewestFirst(<<Desc("week")>>)
    BY DEF NewestFirst, Newest, NewestByProb
<1>4. CASE prices_history("prices/history") \/ prices_history("indicators/history")
    <2>1. SendHistory(Between(CommonStock(OfSymbol(Rows("data"))), query.start, query.end),
                      Newest, query.limit, CallerBounds, TRUE)
        BY <1>4 DEF prices_history
    <2>2. CommonStock(OfSymbol(Rows("data"))) \subseteq Rows("data")
        BY DEF CommonStock, OfSymbol
    <2> QED BY <1>1, <1>2, <1>3, <2>1, <2>2
<1>5. CASE stim_history
    <2>1. SendHistory(Between(OfSymbol(Rows("means")), query.start, query.end),
                      Newest, query.limit, CallerBounds, TRUE)
        BY <1>5 DEF stim_history
    <2>2. OfSymbol(Rows("means")) \subseteq Rows("means")
        BY DEF OfSymbol
    <2> QED BY <1>1, <1>2, <1>3, <2>1, <2>2
<1>6. CASE selections_history
    <2>1. PICK T : T = AtLeast(Selected(query, FilterSymbol(query), FilterExchange(query)),
                               query.minProb)
        OBVIOUS
    <2>2. SendHistory(Between(T, query.start, query.end), NewestByProb, query.limit,
                      CallerBounds, OneInstrument(query))
        BY <1>6, <2>1 DEF selections_history
    <2>3. T \subseteq Rows("select")
        BY <2>1 DEF AtLeast, Selected, OnExchange
    <2> QED BY <1>1, <1>2, <1>3, <2>2, <2>3
<1>7. CASE selections_published_history
    <2>1. PICK T : T = Published(Selected(query, FilterSymbol(query), FilterExchange(query)))
        OBVIOUS
    <2>2. SendHistory(Between(T, query.start, query.end), NewestByProb, query.limit,
                      CallerBounds, OneInstrument(query))
        BY <1>7, <2>1 DEF selections_published_history
    <2>3. T \subseteq Rows("select")
        BY <2>1 DEF AtLeast, Published, Selected, OnExchange
    <2> QED BY <1>1, <1>2, <1>3, <2>2, <2>3
<1>8. CASE market_epoch_history
    <2>1. \/ Respond(503)
          \/ SendHistory(Between(Rows("epoch"), query.start, query.end), <<Desc("week")>>,
                         query.limit, CallerBounds, FALSE)
        BY <1>8, Zenon DEF market_epoch_history
    <2>2. CASE Respond(503)
        BY <2>2, RespondGivesUp DEF Status
    <2>3. CASE ~Respond(503)
        <3>1. PICK order : order = <<Desc("week")>>
            OBVIOUS
        <3>2. SendHistory(Between(Rows("epoch"), query.start, query.end), order,
                          query.limit, CallerBounds, FALSE)
            BY <2>1, <2>3, <3>1
        <3> QED BY <1>1, <1>2, <1>3, <3>1, <3>2
    <2> QED BY <2>2, <2>3
<1> QED BY <1>4, <1>5, <1>6, <1>7, <1>8

\* Rows made from rows within some bounds, of the same weeks.
MadeFrom(S, T) == IsFiniteSet(S) /\ \A r \in S : "week" \in DOMAIN r /\ \E x \in T : r.week = x.week

LEMMA MadeIsWithin ==
    ASSUME NEW T, AreWeekly(T), NEW bounds, bounds.start \in Int, bounds.end \in Nat,
           NEW S, IsFiniteSet(S),
           \A r \in S : \E x \in Between(T, bounds.start, bounds.end) : r.week = x.week
    PROVE  AreWeekly(S) /\ \A x \in S : WithinBounds(bounds, x)
<1>1. PICK B : B = Between(T, bounds.start, bounds.end)
    OBVIOUS
<1>2. AreWeekly(B) /\ \A x \in B : WithinBounds(bounds, x)
    BY <1>1, BetweenIsWithin
<1>3. \A r \in S : \E x \in B : r.week = x.week
    BY <1>1
<1> QED BY <1>2, <1>3 DEF AreWeekly, WithinBounds

\* A report over a window.
LEMMA ReportHistory ==
    ASSUME Held, Asking("stwr/history", "anchored"), stwr_reports_history
    PROVE  Whole(answer', matched')
<1>0. Frame /\ anchor \in Nat /\ query.path \in WindowedPath
    BY FrameFacts DEF Held, Asking, WindowedPath
<1>1. PICK bounds : bounds = HistoryWindow(query.start, query.end, anchor)
    OBVIOUS
<1>2. PICK D, report :
          /\ D = Between(Weekly(query), bounds.start, bounds.end)
          /\ report = Build(query.rpt, D, Rows("data"), query.knobs)
    OBVIOUS
<1>3. SendHistory(report.rows, _week_primary_order(report.order), query.limit, bounds, FALSE)
    BY <1>1, <1>2 DEF stwr_reports_history
<1>4. CallersBounds(bounds) /\ bounds.start \in Int /\ bounds.end \in Nat
    BY <1>0, <1>1, BoundsOfTheRequest
<1>5. Weekly(query) \subseteq Rows("data") /\ D \subseteq Weekly(query) /\ "data" \in Table
    BY <1>2 DEF Weekly, OnExchange, Between, Table
<1>6. AreWeekly(Weekly(query)) /\ AreWeekly(D) /\ \A x \in D : "week" \in DOMAIN x
    BY <1>0, <1>5, SelectionIsWeekly, RowsAreWeekly, WeeklySubset
<1>7. query.rpt \in REPORTS
    BY DEF Held, CalledInv, Refused, ReportRefused, SymbolPath, BreadthPath, PortfolioPath, Asking
<1>8. ReportOf(report, D)
    BY <1>2, <1>6, <1>7, ReportsAreOfTheirRows DEF AreWeekly
<1>9. AreWeekly(report.rows) /\ \A x \in report.rows : WithinBounds(bounds, x)
    BY <1>2, <1>4, <1>6, <1>8, MadeIsWithin DEF ReportOf
<1>10. OldestFirst(_week_primary_order(report.order))
    <2>0. PICK columns : report.order \in Seq(columns)
        BY <1>8 DEF ReportOf
    <2>1. PICK order \in Seq(columns) : order = report.order
        BY <2>0
    <2>2. PICK whole : whole = <<Asc("week")>> \o order
        OBVIOUS
    <2>3. 1 \in DOMAIN whole /\ whole[1] = Asc("week")
        <3>1. PICK C : C = columns \cup {Asc("week")}
            OBVIOUS
        <3>2. <<Asc("week")>> \in Seq(C) /\ order \in Seq(C)
            BY <3>1
        <3>3. PICK head \in Seq(C) : head = <<Asc("week")>>
            BY <3>2
        <3>4. Len(head) = 1 /\ head[1] = Asc("week")
            BY <3>3
        <3>5. PICK n \in Nat : n = Len(order)
            BY <3>2
        <3>6. whole = head \o order
            BY <2>2, <3>3
        <3>7. Len(head \o order) = 1 + n /\ (head \o order)[1] = head[1]
            <4>1. Len(head \o order) = Len(head) + Len(order)
                BY <3>2
            <4>2. \A i \in 1 .. Len(head) + Len(order) :
                      (head \o order)[i] = IF i <= Len(head) THEN head[i] ELSE order[i - Len(head)]
                BY <3>2
            <4>3. 1 \in 1 .. Len(head) + Len(order)
                BY <3>4, <3>5
            <4> QED BY <3>4, <3>5, <4>1, <4>2, <4>3
        <3>8. head \o order \in Seq(C)
            BY <3>2
        <3>9. 1 \in DOMAIN (head \o order)
            BY <3>5, <3>7, <3>8
        <3> QED BY <3>4, <3>6, <3>7, <3>9
    <2> QED BY <2>1, <2>2, <2>3 DEF OldestFirst, _week_primary_order
<1> QED BY <1>0, <1>3, <1>4, <1>9, <1>10, WholeIsSent

\* The rows of the sector summary are of the weeks they are listed under.
LEMMA StoredIsMade ==
    ASSUME Frame, NEW T, T \subseteq Rows("shadow")
    PROVE  MadeFrom({Stored(x) : x \in T}, T)
<1>1. IsFiniteSet(T)
    BY SelectionIsWeekly DEF Table, AreWeekly
<1>2. PICK S : S = {Stored(x) : x \in T}
    OBVIOUS
<1>3. [x \in T |-> Stored(x)] \in Surjection(T, S)
    BY <1>2 DEF Surjection
<1>4. IsFiniteSet(S)
    BY <1>1, <1>3, FS_Surjection
<1>5. Rows("shadow") \subseteq RowsAt(BatchId, "shadow")
    BY SnapshotIsOfTheCall, RowsAtGrows DEF Rows
<1>6. \A x \in T : "week" \in DOMAIN x.row /\ x.row.week = x.week
    BY <1>5, RowsAssumption
<1> QED BY <1>2, <1>4, <1>6 DEF MadeFrom, Stored

\* So are those that are aggregated from the weekly rows.
LEMMA AggregatesAreMade ==
    ASSUME NEW T, IsFiniteSet(T), NEW level PROVE MadeFrom(_breadth_sql(T, level), T)
<1>1. PICK G : G = {<<x.week, x[level]>> : x \in T}
    OBVIOUS
<1>2. [x \in T |-> <<x.week, x[level]>>] \in Surjection(T, G)
    BY <1>1 DEF Surjection
<1>3. IsFiniteSet(G)
    BY <1>2, FS_Surjection
<1>4. PICK S : S = _breadth_sql(T, level)
    OBVIOUS
<1>5. PICK row : S = {row[g] : g \in G} /\ \A g \in G : row[g].week = g[1] /\ "week" \in DOMAIN row[g]
    <2> DEFINE fn == [g \in G |-> Breadth(g[1], g[2], {x \in T : x.week = g[1] /\ x[level] = g[2]})]
    <2>1. \A g \in G : fn[g] = Breadth(g[1], g[2], {x \in T : x.week = g[1] /\ x[level] = g[2]})
        OBVIOUS
    <2>2. S = {fn[g] : g \in G}
        BY <1>1, <1>4, <2>1, Zenon DEF _breadth_sql
    <2>3. \A w, key, U : Breadth(w, key, U).week = w /\ "week" \in DOMAIN Breadth(w, key, U)
        BY DEF Breadth
    <2> HIDE DEF fn
    <2>4. \A g \in G : fn[g].week = g[1] /\ "week" \in DOMAIN fn[g]
        <3> TAKE g \in G
        <3>1. PICK U : fn[g] = Breadth(g[1], g[2], U)
            BY <2>1
        <3> QED BY <2>3, <3>1
    <2>5. PICK row : row = fn
        OBVIOUS
    <2>6. S = {row[g] : g \in G} /\ \A g \in G : row[g].week = g[1] /\ "week" \in DOMAIN row[g]
        BY <2>2, <2>4, <2>5
    <2> QED BY <2>6
<1>6. [g \in G |-> row[g]] \in Surjection(G, S)
    BY <1>5 DEF Surjection
<1>7. IsFiniteSet(S)
    BY <1>3, <1>6, FS_Surjection
<1>8. \A g \in G : \E x \in T : g[1] = x.week
    BY <1>1
<1> QED BY <1>4, <1>5, <1>7, <1>8 DEF MadeFrom

\* Scores and ranks change no week.
LEMMA RankedIsMade ==
    ASSUME NEW T, NEW S, MadeFrom(S, T), NEW topK PROVE MadeFrom(Ranked(S, topK), T)
<1>1. PICK scored : scored = {[x EXCEPT !.score = Score(x)] : x \in S}
    OBVIOUS
<1>2. MadeFrom(scored, T)
    <2>1. [x \in S |-> [x EXCEPT !.score = Score(x)]] \in Surjection(S, scored)
        BY <1>1 DEF Surjection
    <2>2. IsFiniteSet(scored)
        BY <2>1, FS_Surjection DEF MadeFrom
    <2>3. ASSUME NEW r \in scored PROVE "week" \in DOMAIN r /\ \E x \in T : r.week = x.week
        <3>1. PICK y \in S : r = [y EXCEPT !.score = Score(y)]
            BY <1>1
        <3>2. PICK z : z = Score(y)
            OBVIOUS
        <3>3. "week" \in DOMAIN y /\ \E x \in T : y.week = x.week
            BY DEF MadeFrom
        <3>4. r.week = y.week /\ DOMAIN r = DOMAIN y
            BY <3>1, <3>2, <3>3, Zenon
        <3> QED BY <3>3, <3>4
    <2> QED BY <2>2, <2>3 DEF MadeFrom
<1>3. PICK taken : /\ taken \subseteq scored
                   /\ Ranked(S, topK) = {[x EXCEPT !.rank = RankInWeek(scored, x)] : x \in taken}
    <2>1. PICK best : best = {y \in scored : topK = Omitted \/ RankInWeek(scored, y) <= topK}
        OBVIOUS
    <2>2. Ranked(S, topK) = {[x EXCEPT !.rank = RankInWeek(scored, x)] : x \in best}
        BY <1>1, <2>1, Zenon DEF Ranked
    <2> QED BY <2>1, <2>2
<1>4. PICK R : R = Ranked(S, topK)
    OBVIOUS
<1>5. [x \in taken |-> [x EXCEPT !.rank = RankInWeek(scored, x)]] \in Surjection(taken, R)
    BY <1>3, <1>4 DEF Surjection
<1>6. IsFiniteSet(R)
    BY <1>2, <1>3, <1>5, FS_Subset, FS_Surjection DEF MadeFrom
<1>7. ASSUME NEW r \in R PROVE "week" \in DOMAIN r /\ \E x \in T : r.week = x.week
    <2>1. PICK y \in taken : r = [y EXCEPT !.rank = RankInWeek(scored, y)]
        BY <1>3, <1>4
    <2>2. PICK z : z = RankInWeek(scored, y)
        OBVIOUS
    <2>3. "week" \in DOMAIN y /\ \E x \in T : y.week = x.week
        BY <1>2, <1>3 DEF MadeFrom
    <2>4. r.week = y.week /\ DOMAIN r = DOMAIN y
        BY <2>1, <2>2, <2>3, Zenon
    <2> QED BY <2>3, <2>4
<1> QED BY <1>4, <1>6, <1>7 DEF MadeFrom

\* Breadth and rotation, from either source.
LEMMA BreadthHistory ==
    ASSUME Frame,
           \/ Asking("breadth/history", "anchored") /\ breadth_sector_history
           \/ Asking("rotation/history", "anchored") /\ leadership_rotation_history
    PROVE  Whole(answer', matched')
<1>0. anchor \in Nat /\ query.path \in WindowedPath
    BY FrameFacts DEF Asking, WindowedPath
<1>1. PICK bounds : bounds = HistoryWindow(query.start, query.end, anchor)
    OBVIOUS
<1>2. CallersBounds(bounds) /\ bounds.start \in Int /\ bounds.end \in Nat
    BY <1>0, <1>1, BoundsOfTheRequest
<1>3. ASSUME NEW t \in Table, NEW T, T \subseteq Rows(t), NEW S, NEW order, OldestFirst(order),
             MadeFrom(S, Between(T, bounds.start, bounds.end)),
             SendHistory(S, order, query.limit, bounds, FALSE)
      PROVE  Whole(answer', matched')
    <2>1. AreWeekly(T)
        BY <1>3, SelectionIsWeekly
    <2>2. AreWeekly(S) /\ \A x \in S : WithinBounds(bounds, x)
        BY <1>2, <1>3, <2>1, MadeIsWithin DEF MadeFrom
    <2> QED BY <1>0, <1>2, <1>3, <2>2, WholeIsSent
<1>4. {"data", "shadow"} \subseteq Table
    BY DEF Table
<1>5. ASSUME NEW T, T \subseteq Rows("shadow")
      PROVE  MadeFrom({Stored(x) : x \in Between(T, bounds.start, bounds.end)},
                      Between(T, bounds.start, bounds.end))
    BY <1>5, StoredIsMade DEF Between
<1>6. ASSUME NEW T, T \subseteq Rows("data"), NEW U, U \subseteq Between(T, bounds.start, bounds.end),
             NEW level
      PROVE  MadeFrom(_breadth_sql(U, level), Between(T, bounds.start, bounds.end))
    <2>1. U \subseteq Rows("data")
        BY <1>6 DEF Between
    <2>2. IsFiniteSet(U)
        BY <1>4, <2>1, SelectionIsWeekly DEF AreWeekly
    <2>3. MadeFrom(_breadth_sql(U, level), U)
        BY <2>2, AggregatesAreMade
    <2> QED BY <1>6, <2>3 DEF MadeFrom
<1>7. CASE Asking("breadth/history", "anchored") /\ breadth_sector_history
    <2>1. PICK order : order = <<Asc("week"), Desc("bull"), Desc("rsi")>>
        OBVIOUS
    <2>2. OldestFirst(order)
        BY <2>1 DEF OldestFirst
    <2>3. SendHistory(BreadthRows(bounds.start, bounds.end), order, query.limit, bounds, FALSE)
        BY <1>1, <1>7, <2>1 DEF breadth_sector_history
    <2>4. CASE source = "shadow"
        <3>1. PICK T, S : /\ T = Summary(query)
                          /\ S = {Stored(x) : x \in Between(T, bounds.start, bounds.end)}
            OBVIOUS
        <3>2. S = BreadthRows(bounds.start, bounds.end)
            BY <2>4, <3>1 DEF BreadthRows
        <3>3. T \subseteq Rows("shadow")
            BY <3>1 DEF Summary, Materialized
        <3>4. MadeFrom(S, Between(T, bounds.start, bounds.end))
            BY <1>5, <3>1, <3>3
        <3> QED BY <1>3, <1>4, <2>2, <2>3, <3>2, <3>3, <3>4
    <2>5. CASE source # "shadow"
        <3>1. PICK T, S : /\ T = RawScope(query)
                          /\ S = _breadth_sql(Between(T, bounds.start, bounds.end), query.level)
            OBVIOUS
        <3>2. S = BreadthRows(bounds.start, bounds.end)
            BY <2>5, <3>1 DEF BreadthRows
        <3>3. T \subseteq Rows("data")
            BY <3>1 DEF RawScope
        <3>4. MadeFrom(S, Between(T, bounds.start, bounds.end))
            BY <1>6, <3>1, <3>3
        <3> QED BY <1>3, <1>4, <2>2, <2>3, <3>2, <3>3, <3>4
    <2> QED BY <2>4, <2>5
<1>8. CASE Asking("rotation/history", "anchored") /\ leadership_rotation_history
    <2>1. PICK order : order = <<Asc("week"), Asc("rank")>>
        OBVIOUS
    <2>2. OldestFirst(order)
        BY <2>1 DEF OldestFirst
    <2>3. PICK shadow, raw, rows :
             /\ shadow = Between(Materialized("shadow", query.type, query.exchange),
                                 bounds.start, bounds.end)
             /\ raw = {x \in Between(TypeScope(query), bounds.start, bounds.end) : x.sector # Omitted}
             /\ rows = IF source = "shadow" THEN {Stored(x) : x \in shadow}
                       ELSE _breadth_sql(raw, "sector")
        OBVIOUS
    <2>4. PICK S : S = Ranked({x \in rows : x.observed >= query.minConstituents}, query.topK)
        OBVIOUS
    <2>5. SendHistory(S, order, query.limit, bounds, FALSE)
        BY <1>1, <1>8, <2>1, <2>3, <2>4, Zenon DEF leadership_rotation_history
    <2>6. ASSUME NEW T, MadeFrom(rows, T) PROVE MadeFrom(S, T)
        <3>1. PICK kept : kept = {x \in rows : x.observed >= query.minConstituents}
            OBVIOUS
        <3>2. MadeFrom(kept, T)
            BY <2>6, <3>1, FS_Subset DEF MadeFrom
        <3> QED BY <2>4, <3>1, <3>2, RankedIsMade
    <2>7. CASE source = "shadow"
        <3>1. PICK T : T = Materialized("shadow", query.type, query.exchange)
            OBVIOUS
        <3>2. T \subseteq Rows("shadow")
            BY <3>1 DEF Materialized
        <3>3. MadeFrom(S, Between(T, bounds.start, bounds.end))
            BY <1>5, <2>3, <2>6, <2>7, <3>1, <3>2
        <3> QED BY <1>3, <1>4, <2>2, <2>5, <3>2, <3>3
    <2>8. CASE source # "shadow"
        <3>1. TypeScope(query) \subseteq Rows("data")
            BY DEF TypeScope
        <3>2. raw \subseteq Between(TypeScope(query), bounds.start, bounds.end)
            BY <2>3
        <3>3. MadeFrom(S, Between(TypeScope(query), bounds.start, bounds.end))
            BY <1>6, <2>3, <2>6, <2>8, <3>1, <3>2
        <3> QED BY <1>3, <1>4, <2>2, <2>5, <3>1, <3>3
    <2> QED BY <2>7, <2>8
<1> QED BY <1>7, <1>8

\* A week is eligible because one of its rows is classified, so it can be scored.
LEMMA EligibleCanBeScored ==
    ASSUME NEW start, NEW w \in EligibleWeeks(start) PROVE CanBeScored(w)
<1>1. PICK x \in Classified(Equities(Rows("data"))) : x.week = w
    BY DEF EligibleWeeks, Between
<1>2. x \in Classified(WeekRows(w))
    BY <1>1 DEF Classified, WeekRows
<1> QED BY <1>2 DEF CanBeScored

\* What the first query of the regime's history leaves for the second: the weeks that will be
\* sent are the newest, and the answer says already if there are more.
RegimeHeld ==
    /\ answer.truncated <=> Len(found) < Cardinality(matched)
    /\ \A x \in matched : \A i \in DOMAIN found :
          x.week > found[i] => \E j \in DOMAIN found : found[j] = x.week
    /\ answer.start = query.start /\ answer.end = 0

LEMMA RegimeOpens ==
    ASSUME Frame, answer.end = 0, query.path = "regime/history", RegimeWeeks, pc' = "weeks"
    PROVE  RegimeHeld'
<1>1. PICK W : W = EligibleWeeks(query.start)
    OBVIOUS
<1>2. PICK limit \in Nat : limit = query.limit
    BY FrameFacts
<1>3. PICK order : order = <<Desc("week")>>
    OBVIOUS
<1>4. PICK weeks : weeks = NewestWeeks(W, ProbeLimit(limit))
    OBVIOUS
<1>5. PICK split : split = SplitProbe(weeks, limit)
    OBVIOUS
<1>6. /\ found' = split.rows /\ matched' = AsRows(W) /\ query' = query
      /\ answer' = [answer EXCEPT !.truncated = query.path = "regime/history" /\ split.truncated,
                                  !.start = query.start]
    BY <1>1, <1>2, <1>4, <1>5 DEF RegimeWeeks, AsRows, Static, Respond
<1>7. IsFiniteSet(W) /\ W \subseteq Nat /\ ProbeLimit(limit) \in Nat
    BY <1>1, EligibleWeeksAre DEF ProbeLimit
<1>8. PICK S : S = AsRows(W)
    OBVIOUS
<1>9. AreWeekly(S)
    BY <1>7, <1>8, WeeksAsRows
<1>10. PICK s \in FirstInOrder(S, order, ProbeLimit(limit)) : HasWeeksOf(weeks, s)
    BY <1>3, <1>4, <1>7, <1>8, NewestAreChosen
<1>11. s \in Seq(S)
    BY <1>7, <1>9, FirstAreFirst DEF AreWeekly
<1>12. PICK n \in Nat : n = Len(s)
    BY <1>11
<1>13. weeks = [i \in 1 .. n |-> s[i].week] /\ \A i \in 1 .. n : s[i] \in S /\ s[i].week \in Nat
    BY <1>9, <1>10, <1>11, <1>12 DEF HasWeeksOf, AreWeekly
<1>14. weeks \in Seq(Nat) /\ Len(weeks) = n
    BY <1>13
<1>15. PICK rows, truncated : /\ rows = SplitProbe(s, limit).rows
                              /\ truncated = SplitProbe(s, limit).truncated
    OBVIOUS
<1>16. IsHistory(rows, truncated, S, order)
    BY <1>9, <1>15, ProbeIsHistory DEF AreWeekly
<1>17. /\ rows = SubSeq(s, 1, IF n < limit THEN n ELSE limit) /\ (truncated <=> n > limit)
    BY <1>12, <1>15 DEF SplitProbe
<1>18. /\ split.rows = SubSeq(weeks, 1, IF n < limit THEN n ELSE limit)
       /\ split.truncated <=> n > limit
    BY <1>5, <1>14 DEF SplitProbe
<1>19. PICK k \in Nat : k = (IF n < limit THEN n ELSE limit) /\ k <= n
    OBVIOUS
<1>20. Len(rows) = k /\ DOMAIN rows = 1 .. k /\ \A i \in 1 .. k : rows[i] = s[i]
    BY <1>11, <1>12, <1>17, <1>19
<1>21. PICK sent : sent = split.rows
    OBVIOUS
<1>22. Len(sent) = k /\ DOMAIN sent = 1 .. k /\ \A i \in 1 .. k : sent[i] = weeks[i]
    BY <1>14, <1>18, <1>19, <1>21
<1>23. \A i \in 1 .. k : sent[i] = rows[i].week
    BY <1>13, <1>19, <1>20, <1>22
<1>24. \A x \in S : \A i \in DOMAIN rows :
           x.week > rows[i].week => \E j \in DOMAIN rows : rows[j].week = x.week
    BY <1>3, <1>9, <1>16, OlderAreLost DEF NewestFirst
<1>25. \A x \in S : \A i \in DOMAIN sent :
           x.week > sent[i] => \E j \in DOMAIN sent : sent[j] = x.week
    BY <1>20, <1>22, <1>23, <1>24
<1>26. split.truncated <=> Len(sent) < Cardinality(S)
    BY <1>16, <1>17, <1>18, <1>20, <1>22 DEF IsHistory
<1>27. /\ answer'.truncated = (query.path = "regime/history" /\ split.truncated)
       /\ answer'.start = query.start /\ answer'.end = answer.end
    <2>1. "truncated" \in DOMAIN answer /\ "start" \in DOMAIN answer /\ "end" \in DOMAIN answer
        BY FrameFacts
    <2> QED BY <1>6, <2>1, Zenon
<1>28. answer'.truncated <=> split.truncated
    BY <1>27, Zenon
<1> QED BY <1>6, <1>8, <1>21, <1>25, <1>26, <1>27, <1>28 DEF RegimeHeld

\* The regime's history: every week that was found has a snapshot.
LEMMA RegimeHistory ==
    ASSUME Held, RegimeHeld, Asking("regime/history", "weeks"), market_regime
    PROVE  Whole(answer', matched')
<1>0. Frame /\ MarketHeld /\ query.path = "regime/history" /\ query.start \in Nat /\ query.end = 0
    BY FrameFacts, QueryAssumption DEF Held, MarketInv, Asking
<1>1. PICK W : W = EligibleWeeks(query.start)
    OBVIOUS
<1>2. PICK weeks \in Seq(W) : weeks = found
    BY <1>0, <1>1 DEF MarketHeld, RegimeFrom
<1>3. Scored(weeks) = weeks
    BY <1>1, EligibleCanBeScored, ScoredAreWeeks
<1>4. PICK rows : rows = [i \in DOMAIN weeks |-> Snapshot1(weeks[i])]
    OBVIOUS
<1>5. Finish(rows, Omitted)
    BY <1>0, <1>2, <1>3, <1>4 DEF market_regime
<1>6. /\ answer'.rows = rows /\ answer'.truncated = answer.truncated
      /\ answer'.start = answer.start /\ answer'.end = answer.end /\ matched' = matched
    BY <1>0, <1>5, Finished
<1>7. \A w : Snapshot1(w).week = w
    BY DEF Snapshot1
<1>8. /\ Len(rows) = Len(weeks) /\ DOMAIN rows = DOMAIN weeks
      /\ \A i \in DOMAIN weeks : rows[i].week = weeks[i]
    BY <1>4, <1>7
<1>9. \A w \in W : w \in Nat /\ (query.start # 0 => query.start <= w)
    <2>1. W \subseteq Nat
        BY <1>0, <1>1, EligibleWeeksAre
    <2>2. \A w \in W : query.start # 0 => query.start <= w
        BY <1>1 DEF EligibleWeeks, Between
    <2> QED BY <2>1, <2>2
<1>10. Truncates(answer', matched')
    BY <1>2, <1>6, <1>8 DEF Truncates, RegimeHeld
<1>11. KeepsNewest(answer', matched')
    BY <1>2, <1>6, <1>8 DEF KeepsNewest, RegimeHeld
<1>12. CallersBounds(answer')
    BY <1>0, <1>6 DEF CallersBounds, RegimeHeld, Bare
<1>13. \A i \in DOMAIN answer'.rows : WithinBounds(answer', answer'.rows[i])
    BY <1>0, <1>6, <1>8, <1>9 DEF WithinBounds, RegimeHeld
<1>14. query.path \notin WindowedPath
    BY <1>0 DEF WindowedPath
<1> QED BY <1>10, <1>11, <1>12, <1>13, <1>14 DEF Whole

\* A handler starts from no answer, and a history that is sent is whole, also while its gaps are
\* looked for.
HistoryInv ==
    /\ pc \in {"arrived", "admitted", "called"} => answer.end = 0
    /\ pc = "weeks" /\ query.path = "regime/history" => RegimeHeld
    /\ (pc = "gaps" \/ Answered) /\ query.path \in HistoryPath => Whole(answer, matched)

\* What else is told with a history changes nothing of it.
LEMMA WholeStays ==
    ASSUME Whole(answer, matched), UNCHANGED <<query, matched>>,
           answer'.rows = answer.rows, answer'.truncated = answer.truncated,
           answer'.start = answer.start, answer'.end = answer.end
    PROVE  Whole(answer, matched)'
BY DEF Whole, Truncates, CallersBounds, WithinBounds, KeepsBuckets, KeepsNewest, Bare

\* Every history is answered whole.
LEMMA HistoriesAnswered ==
    ASSUME Held, HistoryInv, AnswersHistory, pc' \in {"gaps", "done"}
    PROVE  GivesUp \/ Whole(answer', matched')
<1>1. Frame
    BY DEF Held
<1>2. CASE Asking("regime/history", "weeks") /\ market_regime
    BY <1>2, RegimeHistory DEF HistoryInv, Asking
<1>3. CASE Asking("stwr/history", "anchored") /\ stwr_reports_history
    BY <1>3, ReportHistory
<1>4. CASE \/ Asking("breadth/history", "anchored") /\ breadth_sector_history
           \/ Asking("rotation/history", "anchored") /\ leadership_rotation_history
    BY <1>1, <1>4, BreadthHistory
<1>5. CASE \/ Asking("prices/history", "called") /\ prices_history("prices/history")
           \/ Asking("indicators/history", "called") /\ prices_history("indicators/history")
           \/ Asking("stim/history", "called") /\ stim_history
           \/ Asking("selections/history", "called") /\ selections_history
           \/ Asking("published/history", "called") /\ selections_published_history
           \/ Asking("epoch/history", "called") /\ market_epoch_history
    BY <1>1, <1>5, NewestHistories
<1> QED BY <1>2, <1>3, <1>4, <1>5 DEF AnswersHistory

LEMMA NextKeepsHistory ==
    ASSUME Held, HistoryInv, [Next]_vars PROVE HistoryInv'
<1>0. Frame
    BY DEF Held
<1>1. ASSUME UNCHANGED <<query, pc, found, answer, matched>> PROVE HistoryInv'
    <2>1. RegimeHeld => RegimeHeld'
        BY <1>1 DEF RegimeHeld
    <2>2. Whole(answer, matched) => Whole(answer, matched)'
        BY <1>1, WholeStays
    <2> QED BY <1>1, <2>1, <2>2 DEF HistoryInv, Answered
<1>2. CASE HandlerNext
    <2>1. UNCHANGED query
        BY <1>0, <1>2, HandlerKeepsRequest
    <2>2. CASE FreeStep
        BY <2>1, <2>2 DEF FreeStep, HistoryInv, HistoryPath, FreePath, ModelPath
    <2>3. CASE Step
        <3>1. CASE GivesUp
            BY <3>1 DEF GivesUp, HistoryInv, Answered
        <3>2. CASE pc' = "weeks" /\ OpensMarket
            <4>1. query.path = "regime/history" => RegimeWeeks /\ pc = "called"
                BY <3>2 DEF OpensMarket, Asking, PortfolioPath
            <4>2. query.path = "regime/history" => RegimeHeld'
                BY <1>0, <3>2, <4>1, RegimeOpens DEF HistoryInv
            <4> QED BY <2>1, <3>2, <4>2 DEF HistoryInv, Answered
        <3>3. CASE \/ pc' = "estimated" /\ Asking("stim/latest", "called") /\ StimEstimate
                   \/ pc' \in {"ranged", "anchored"} /\ FindsWeek
                   \/ pc' = "overall" /\ Asking("leadership/latest", "anchored") /\ LeadershipOverall
            BY <3>3 DEF HistoryInv, Answered
        <3>4. CASE pc' = "done" /\ AnswersLatest
            <4>1. query.path \notin HistoryPath
                BY <3>4 DEF AnswersLatest, Asking, HistoryPath
            <4> QED BY <2>1, <3>4, <4>1 DEF HistoryInv
        <3>5. CASE pc' \in {"gaps", "done"} /\ AnswersHistory
            <4>1. GivesUp \/ Whole(answer', matched')
                BY <3>5, HistoriesAnswered
            <4>2. Whole(answer', matched') => Whole(answer, matched)'
                BY <2>1 DEF Whole, Truncates, CallersBounds, WithinBounds, KeepsBuckets,
                            KeepsNewest, Bare
            <4> QED BY <3>1, <3>5, <4>1, <4>2 DEF HistoryInv
        <3>6. CASE pc' = "done" /\ Asking("stim/history", "gaps") /\ (StimGaps \/ StimGapsFail)
            <4>1. PICK extra : answer' = [answer EXCEPT !.extra = extra]
                BY <3>6, Zenon DEF StimGaps, StimGapsFail
            <4>2. UNCHANGED matched /\ pc = "gaps" /\ query.path \in HistoryPath
                BY <3>6 DEF StimGaps, StimGapsFail, Asking, HistoryPath
            <4>3. /\ answer'.rows = answer.rows /\ answer'.truncated = answer.truncated
                  /\ answer'.start = answer.start /\ answer'.end = answer.end
                <5>1. "rows" \in DOMAIN answer /\ "truncated" \in DOMAIN answer
                      /\ "start" \in DOMAIN answer /\ "end" \in DOMAIN answer
                    BY <1>0, FrameFacts
                <5> QED BY <4>1, <5>1, Zenon
            <4>4. Whole(answer, matched)'
                BY <2>1, <4>2, <4>3, WholeStays DEF HistoryInv
            <4> QED BY <3>6, <4>4 DEF HistoryInv
        <3> QED BY <2>3, <3>1, <3>2, <3>3, <3>4, <3>5, <3>6 DEF Step
    <2> QED BY <1>0, <1>2, <2>2, <2>3, HandlerLeads
<1>3. CASE (\E b \in BatchId : Load(b)) \/ UNCHANGED vars
    BY <1>1, <1>3 DEF Load, vars
<1>4. CASE PaymentRefused \/ DatabaseFails
    BY <1>4, <1>0, RespondGivesUp
       DEF PaymentRefused, DatabaseFails, GivesUp, Answered, HistoryInv, Status
<1>5. CASE Validate \/ CallHandler
    <2>1. Respond(400) \/ (pc' \in {"admitted", "called"} /\ pc \in {"arrived", "admitted"}
                           /\ UNCHANGED answer)
        BY <1>5, Zenon DEF Validate, CallHandler
    <2>2. Respond(400) => GivesUp
        BY <1>0, RespondGivesUp DEF Status
    <2> QED BY <2>1, <2>2 DEF GivesUp, Answered, HistoryInv
<1> QED BY <1>2, <1>3, <1>4, <1>5 DEF Next

\* A history is what was asked for, or says what it lacks: `truncated` is true exactly when rows
\* that matched are missing, the newest are kept, the bounds are the caller's or the default
\* window's, and no bucket but the last can be short (utils/history_bounds.py and the routers).
THEOREM HistoriesAreWhole == Spec => []HistoryIsWhole
<1>1. Init => HistoryInv
    BY DEF Init, HistoryInv, NoAnswer, Answered
<1>2. Held /\ HistoryInv /\ [Next]_vars => HistoryInv'
    BY NextKeepsHistory
<1>3. HistoryInv => HistoryIsWhole
    <2>1. SUFFICES ASSUME Answered, query.path \in HistoryPath, Whole(answer, matched)
                   PROVE  HistoryIsWhole
        BY DEF HistoryInv, HistoryIsWhole, TruncationIsSeen, NewestAreKept, BoundsAreTheCallers,
               BucketsAreWeeks, WindowedPath, HistoryPath
    <2>2. TruncationIsSeen
        BY <2>1 DEF TruncationIsSeen, Whole, Truncates
    <2>3. NewestAreKept
        BY <2>1 DEF NewestAreKept, Whole, KeepsNewest
    <2>4. BoundsAreTheCallers
        BY <2>1 DEF BoundsAreTheCallers, Whole, CallersBounds, WithinBounds
    <2>5. BucketsAreWeeks
        BY <2>1 DEF BucketsAreWeeks, Whole, KeepsBuckets
    <2> QED BY <2>2, <2>3, <2>4, <2>5 DEF HistoryIsWhole
<1> QED BY <1>1, <1>2, <1>3, HeldAlways, PTL DEF Spec

-----------------------------------------------------------------------------
(* Sums over sets.                                                         *)

\* The member that is taken next, and what MapThenSumSet adds up: one member after another.
NextOf(s) == CHOOSE x \in s : TRUE
SumsUp(g, F, v) == g = [s \in SUBSET F |-> IF s = {} THEN 0 ELSE v[NextOf(s)] + g[s \ {NextOf(s)}]]

LEMMA OneLess ==
    ASSUME NEW F, IsFiniteSet(F), NEW s \in SUBSET F, s # {}
    PROVE  /\ NextOf(s) \in s /\ s \ {NextOf(s)} \in SUBSET F
           /\ Cardinality(s) \in Nat /\ Cardinality(s \ {NextOf(s)}) = Cardinality(s) - 1
<1>1. NextOf(s) \in s
    BY DEF NextOf
<1>2. IsFiniteSet(s)
    BY FS_Subset
<1> QED BY <1>1, <1>2, FS_RemoveElement, FS_CardinalityType

\* What holds of no member, and of some when it holds of one less, holds of any.
LEMMA OneByOne ==
    ASSUME NEW F, IsFiniteSet(F), NEW P, {} \in P,
           \A s \in SUBSET F : s # {} /\ s \ {NextOf(s)} \in P => s \in P
    PROVE  F \in P
<1> DEFINE T == {k \in Nat : \A s \in SUBSET F : Cardinality(s) = k => s \in P}
<1>1. \A s \in SUBSET F : Cardinality(s) \in Nat /\ (Cardinality(s) = 0 <=> s = {})
    BY FS_Subset, FS_CardinalityType, FS_EmptySet
<1>2. 0 \in T
    BY <1>1
<1>3. ASSUME NEW k \in T PROVE k + 1 \in T
    <2>1. ASSUME NEW s \in SUBSET F, Cardinality(s) = k + 1 PROVE s \in P
        <3>1. s # {}
            BY <1>1, <2>1
        <3>2. PICK rest \in SUBSET F : rest = s \ {NextOf(s)} /\ Cardinality(rest) = Cardinality(s) - 1
            BY <3>1, OneLess
        <3>3. Cardinality(rest) = k
            BY <2>1, <3>2
        <3> QED BY <3>1, <3>2, <3>3
    <2> QED BY <2>1
<1>4. T = Nat
    <2> T \subseteq Nat
        OBVIOUS
    <2> HIDE DEF T
    <2> QED BY <1>2, <1>3, Inductive
<1>5. Cardinality(F) \in T
    BY <1>1, <1>4
<1> QED BY <1>5

\* There is such a sum.
LEMMA SumExists ==
    ASSUME NEW F, IsFiniteSet(F), NEW v \in [F -> Int]
    PROVE  \E g \in [SUBSET F -> Int] : SumsUp(g, F, v)
<1> DEFINE More(g) == [s \in SUBSET F |->
                         IF s = {} THEN 0 ELSE v[NextOf(s)] + g[s \ {NextOf(s)}]]
           UpTo(g, k) == \A s \in SUBSET F : Cardinality(s) <= k => g[s] = More(g)[s]
           T == {k \in Nat : \E g \in [SUBSET F -> Int] : UpTo(g, k)}
<1>1. \A s \in SUBSET F : Cardinality(s) \in Nat /\ (Cardinality(s) = 0 <=> s = {})
                          /\ Cardinality(s) <= Cardinality(F)
    BY FS_Subset, FS_CardinalityType, FS_EmptySet
<1>2. ASSUME NEW g \in [SUBSET F -> Int] PROVE More(g) \in [SUBSET F -> Int]
    <2>1. ASSUME NEW s \in SUBSET F, s # {} PROVE v[NextOf(s)] + g[s \ {NextOf(s)}] \in Int
        <3>1. NextOf(s) \in F /\ s \ {NextOf(s)} \in SUBSET F
            BY <2>1, OneLess
        <3> QED BY <3>1
    <2> QED BY <2>1
<1>3. 0 \in T
    <2> DEFINE zero == [s \in SUBSET F |-> 0]
    <2>1. zero \in [SUBSET F -> Int] /\ \A s \in SUBSET F : zero[s] = 0
        OBVIOUS
    <2> HIDE DEF zero
    <2>2. PICK g \in [SUBSET F -> Int] : \A s \in SUBSET F : g[s] = 0
        BY <2>1
    <2>3. UpTo(g, 0)
        BY <1>1, <2>2
    <2> QED BY <2>3
<1>4. ASSUME NEW k \in T PROVE k + 1 \in T
    <2>1. PICK g \in [SUBSET F -> Int] : UpTo(g, k)
        OBVIOUS
    <2>2. PICK h \in [SUBSET F -> Int] : h = More(g)
        BY <1>2
    <2>3. ASSUME NEW s \in SUBSET F, Cardinality(s) <= k + 1 PROVE h[s] = More(h)[s]
        <3>1. CASE s = {}
            BY <2>2, <3>1
        <3>2. CASE s # {}
            <4>1. PICK rest \in SUBSET F : rest = s \ {NextOf(s)}
                                           /\ Cardinality(rest) = Cardinality(s) - 1
                BY <3>2, OneLess
            <4>2. Cardinality(rest) <= k
                BY <1>1, <2>3, <4>1
            <4>3. g[rest] = h[rest]
                BY <2>1, <2>2, <4>2
            <4> QED BY <2>2, <3>2, <4>1, <4>3
        <3> QED BY <3>1, <3>2
    <2>4. UpTo(h, k + 1)
        BY <2>3
    <2> HIDE DEF UpTo
    <2> QED BY <2>4
<1>5. T = Nat
    <2> T \subseteq Nat
        OBVIOUS
    <2> HIDE DEF T
    <2> QED BY <1>3, <1>4, Inductive
<1>6. Cardinality(F) \in T
    BY <1>1, <1>5
<1>7. PICK g \in [SUBSET F -> Int] : UpTo(g, Cardinality(F))
    BY <1>6
<1>8. \A s \in SUBSET F : g[s] = More(g)[s]
    BY <1>1, <1>7
<1>9. g = More(g)
    BY <1>2, <1>8
<1> QED BY <1>9 DEF SumsUp

\* A sum of numbers is one, as are its parts.
AddsUp(g, F, v) ==
    /\ g \in [SUBSET F -> Int] /\ g[{}] = 0
    /\ \A s \in SUBSET F : s # {} => g[s] = v[NextOf(s)] + g[s \ {NextOf(s)}]

LEMMA SumsAreInts ==
    ASSUME NEW F, IsFiniteSet(F), NEW v \in [F -> Int], NEW g, SumsUp(g, F, v)
    PROVE  AddsUp(g, F, v)
<1>1. /\ DOMAIN g = SUBSET F /\ g[{}] = 0
      /\ \A s \in SUBSET F : s # {} => g[s] = v[NextOf(s)] + g[s \ {NextOf(s)}]
    BY Zenon DEF SumsUp
<1>2. ASSUME NEW S \in SUBSET F PROVE g[S] \in Int
    <2> DEFINE P == {s \in SUBSET F : g[s] \in Int}
    <2>1. {} \in P
        BY <1>1
    <2>2. ASSUME NEW s \in SUBSET S, s # {}, s \ {NextOf(s)} \in P PROVE s \in P
        <3>1. NextOf(s) \in F
            BY <2>2 DEF NextOf
        <3> QED BY <1>1, <2>2, <3>1
    <2>3. IsFiniteSet(S)
        BY FS_Subset
    <2> HIDE DEF P
    <2>4. S \in P
        BY <2>1, <2>2, <2>3, OneByOne
    <2> QED BY <2>4 DEF P
<1>3. g \in [SUBSET F -> Int]
    <2>1. g = [s \in SUBSET F |-> g[s]]
        <3>1. PICK e : e = [s \in SUBSET F |-> IF s = {} THEN 0 ELSE v[NextOf(s)] + g[s \ {NextOf(s)}]]
            OBVIOUS
        <3>2. e = [s \in SUBSET F |-> e[s]]
            BY <3>1
        <3>3. g = e
            BY <3>1 DEF SumsUp
        <3> QED BY <3>2, <3>3
    <2> QED BY <1>2, <2>1
<1> QED BY <1>1, <1>3 DEF AddsUp

\* A sum lies between two multiples of another if each of its terms does.
LEMMA SumBetween ==
    ASSUME NEW F, IsFiniteSet(F), NEW v \in [F -> Int], NEW w \in [F -> Int], NEW g, NEW h,
           SumsUp(g, F, v), SumsUp(h, F, w), NEW lo \in Int
    PROVE  /\ (\A p \in F : lo * w[p] <= v[p]) => lo * h[F] <= g[F]
           /\ (\A p \in F : v[p] <= lo * w[p]) => g[F] <= lo * h[F]
<1>0. AddsUp(g, F, v) /\ AddsUp(h, F, w)
    BY SumsAreInts
<1>1. /\ g \in [SUBSET F -> Int] /\ g[{}] = 0
      /\ \A s \in SUBSET F : s # {} => g[s] = v[NextOf(s)] + g[s \ {NextOf(s)}]
    BY <1>0 DEF AddsUp
<1>2. /\ h \in [SUBSET F -> Int] /\ h[{}] = 0
      /\ \A s \in SUBSET F : s # {} => h[s] = w[NextOf(s)] + h[s \ {NextOf(s)}]
    BY <1>0 DEF AddsUp
<1>3. ASSUME NEW s \in SUBSET F, s # {}
      PROVE  \E a, b, c, d \in Int :
                 /\ a = v[NextOf(s)] /\ b = w[NextOf(s)]
                 /\ c = g[s \ {NextOf(s)}] /\ d = h[s \ {NextOf(s)}]
                 /\ g[s] = a + c /\ h[s] = b + d
                 /\ lo * h[s] = lo * b + lo * d /\ lo * b \in Int /\ lo * d \in Int
                 /\ NextOf(s) \in F
    <2>1. NextOf(s) \in F /\ s \ {NextOf(s)} \in SUBSET F
        BY <1>3, OneLess
    <2>2. PICK a \in Int : a = v[NextOf(s)]
        BY <2>1
    <2>3. PICK b \in Int : b = w[NextOf(s)]
        BY <2>1
    <2>4. PICK c \in Int : c = g[s \ {NextOf(s)}]
        BY <1>1, <2>1
    <2>5. PICK d \in Int : d = h[s \ {NextOf(s)}]
        BY <1>2, <2>1
    <2>6. g[s] = a + c /\ h[s] = b + d
        BY <1>1, <1>2, <1>3, <2>2, <2>3, <2>4, <2>5
    <2>7. lo * (b + d) = lo * b + lo * d /\ lo * b \in Int /\ lo * d \in Int
        OBVIOUS
    <2> QED BY <2>1, <2>2, <2>3, <2>4, <2>5, <2>6, <2>7
<1>4. lo * 0 = 0
    OBVIOUS
<1>5. ASSUME \A p \in F : lo * w[p] <= v[p] PROVE lo * h[F] <= g[F]
    <2> DEFINE P == {s \in SUBSET F : lo * h[s] <= g[s]}
    <2>1. {} \in P
        BY <1>1, <1>2, <1>4
    <2>2. ASSUME NEW s \in SUBSET F, s # {}, s \ {NextOf(s)} \in P PROVE s \in P
        <3>1. PICK a, b, c, d \in Int :
                 /\ a = v[NextOf(s)] /\ b = w[NextOf(s)]
                 /\ c = g[s \ {NextOf(s)}] /\ d = h[s \ {NextOf(s)}]
                 /\ g[s] = a + c /\ h[s] = b + d
                 /\ lo * h[s] = lo * b + lo * d /\ lo * b \in Int /\ lo * d \in Int
                 /\ NextOf(s) \in F
            BY <1>3, <2>2
        <3>2. lo * b <= a /\ lo * d <= c
            BY <1>5, <2>2, <3>1
        <3> QED BY <3>1, <3>2
    <2> HIDE DEF P
    <2>3. F \in P
        BY <2>1, <2>2, OneByOne
    <2> QED BY <2>3 DEF P
<1>6. ASSUME \A p \in F : v[p] <= lo * w[p] PROVE g[F] <= lo * h[F]
    <2> DEFINE P == {s \in SUBSET F : g[s] <= lo * h[s]}
    <2>1. {} \in P
        BY <1>1, <1>2, <1>4
    <2>2. ASSUME NEW s \in SUBSET F, s # {}, s \ {NextOf(s)} \in P PROVE s \in P
        <3>1. PICK a, b, c, d \in Int :
                 /\ a = v[NextOf(s)] /\ b = w[NextOf(s)]
                 /\ c = g[s \ {NextOf(s)}] /\ d = h[s \ {NextOf(s)}]
                 /\ g[s] = a + c /\ h[s] = b + d
                 /\ lo * h[s] = lo * b + lo * d /\ lo * b \in Int /\ lo * d \in Int
                 /\ NextOf(s) \in F
            BY <1>3, <2>2
        <3>2. a <= lo * b /\ c <= lo * d
            BY <1>6, <2>2, <3>1
        <3> QED BY <3>1, <3>2
    <2> HIDE DEF P
    <2>3. F \in P
        BY <2>1, <2>2, OneByOne
    <2> QED BY <2>3 DEF P
<1> QED BY <1>5, <1>6

\* A sum of positive numbers is positive, unless it is of none.
LEMMA SumIsPositive ==
    ASSUME NEW F, IsFiniteSet(F), NEW w \in [F -> Nat \ {0}], NEW h, SumsUp(h, F, w)
    PROVE  h[F] \in Nat /\ (F # {} => h[F] # 0)
<1>1. w \in [F -> Int]
    OBVIOUS
<1>2. /\ h \in [SUBSET F -> Int] /\ h[{}] = 0
      /\ \A s \in SUBSET F : s # {} => h[s] = w[NextOf(s)] + h[s \ {NextOf(s)}]
    BY <1>1, SumsAreInts DEF AddsUp
<1> DEFINE P == {s \in SUBSET F : h[s] \in Nat /\ (s # {} => h[s] # 0)}
<1>3. {} \in P
    BY <1>2
<1>4. ASSUME NEW s \in SUBSET F, s # {}, s \ {NextOf(s)} \in P PROVE s \in P
    <2>1. NextOf(s) \in F
        BY <1>4, OneLess
    <2>2. w[NextOf(s)] \in Nat \ {0} /\ h[s \ {NextOf(s)}] \in Nat
        BY <1>4, <2>1
    <2>3. h[s] = w[NextOf(s)] + h[s \ {NextOf(s)}]
        BY <1>2, <1>4
    <2>4. h[s] \in Nat /\ h[s] # 0
        BY <2>2, <2>3
    <2> QED BY <2>4
<1> HIDE DEF P
<1>5. F \in P
    BY <1>3, <1>4, OneByOne
<1> QED BY <1>5 DEF P

-----------------------------------------------------------------------------
(* Portfolios are judged by their positions (PortfolioRoutes).             *)

\* The weight of the positions, and a weighted sum over them, are such sums.
LEMMA FoundWeightSums ==
    ASSUME NEW F, IsFiniteSet(F), \A p \in F : p.weight \in Int
    PROVE  \E h : SumsUp(h, F, [p \in F |-> p.weight]) /\ FoundWeight(F) = h[F]
<1> DEFINE OfIt(g) == g = [s \in SUBSET F |-> IF s = {} THEN 0
                              ELSE (CHOOSE x \in s : TRUE).weight + g[s \ {CHOOSE x \in s : TRUE}]]
<1>1. PICK w \in [F -> Int] : w = [p \in F |-> p.weight]
    OBVIOUS
<1>2. ASSUME NEW g PROVE SumsUp(g, F, w) <=> OfIt(g)
    <2>1. \A s \in SUBSET F : s # {} => w[NextOf(s)] = (CHOOSE x \in s : TRUE).weight
        BY <1>1 DEF NextOf
    <2>2. [s \in SUBSET F |-> IF s = {} THEN 0 ELSE w[NextOf(s)] + g[s \ {NextOf(s)}]]
          = [s \in SUBSET F |-> IF s = {} THEN 0
                ELSE (CHOOSE x \in s : TRUE).weight + g[s \ {CHOOSE x \in s : TRUE}]]
        BY <2>1 DEF NextOf
    <2> QED BY <2>2 DEF SumsUp
<1>3. \E g : OfIt(g)
    <2>1. PICK g : SumsUp(g, F, w)
        BY SumExists
    <2>2. OfIt(g)
        BY <1>2, <2>1
    <2> HIDE DEF OfIt
    <2> QED BY <2>2
<1>4. PICK h : h = CHOOSE g : OfIt(g)
    OBVIOUS
<1>5. FoundWeight(F) = h[F]
    BY <1>4 DEF FoundWeight, MapThenSumSet, MapThenFoldSet
<1>6. OfIt(h)
    <2> HIDE DEF OfIt
    <2> QED BY <1>3, <1>4
<1> QED BY <1>1, <1>2, <1>5, <1>6

LEMMA WeightedSums ==
    ASSUME NEW F, IsFiniteSet(F), NEW value, \A p \in F : p.weight \in Int /\ value[p] \in Int
    PROVE  \E g : SumsUp(g, F, [p \in F |-> p.weight * value[p]]) /\ WeightedSum(F, value) = g[F]
<1> DEFINE OfIt(g) == g = [s \in SUBSET F |-> IF s = {} THEN 0
                              ELSE (CHOOSE x \in s : TRUE).weight * value[CHOOSE x \in s : TRUE]
                                   + g[s \ {CHOOSE x \in s : TRUE}]]
<1>1. PICK w \in [F -> Int] : w = [p \in F |-> p.weight * value[p]]
    <2>1. \A p \in F : p.weight * value[p] \in Int
        OBVIOUS
    <2> QED BY <2>1
<1>2. ASSUME NEW g PROVE SumsUp(g, F, w) <=> OfIt(g)
    <2>1. \A s \in SUBSET F : s # {} =>
              w[NextOf(s)] = (CHOOSE x \in s : TRUE).weight * value[CHOOSE x \in s : TRUE]
        BY <1>1 DEF NextOf
    <2>2. [s \in SUBSET F |-> IF s = {} THEN 0 ELSE w[NextOf(s)] + g[s \ {NextOf(s)}]]
          = [s \in SUBSET F |-> IF s = {} THEN 0
                ELSE (CHOOSE x \in s : TRUE).weight * value[CHOOSE x \in s : TRUE]
                     + g[s \ {CHOOSE x \in s : TRUE}]]
        BY <2>1 DEF NextOf
    <2> QED BY <2>2 DEF SumsUp
<1>3. \E g : OfIt(g)
    <2>1. PICK g : SumsUp(g, F, w)
        BY SumExists
    <2>2. OfIt(g)
        BY <1>2, <2>1
    <2> HIDE DEF OfIt
    <2> QED BY <2>2
<1>4. PICK h : h = CHOOSE g : OfIt(g)
    OBVIOUS
<1>5. WeightedSum(F, value) = h[F]
    BY <1>4 DEF WeightedSum, MapThenSumSet, MapThenFoldSet
<1>6. OfIt(h)
    <2> HIDE DEF OfIt
    <2> QED BY <1>3, <1>4
<1> QED BY <1>1, <1>2, <1>5, <1>6

\* What the least and the greatest of them weighed as much would add up to.
LEMMA WeightedBetween ==
    ASSUME NEW F, IsFiniteSet(F), NEW value,
           \A p \in F : p.weight \in Nat \ {0} /\ value[p] \in Int
    PROVE  /\ FoundWeight(F) \in Nat /\ (F # {} => FoundWeight(F) # 0)
           /\ WeightedSum(F, value) \in Int
           /\ \A lo \in Int :
                 /\ (\A p \in F : lo <= value[p]) => lo * FoundWeight(F) <= WeightedSum(F, value)
                 /\ (\A p \in F : value[p] <= lo) => WeightedSum(F, value) <= lo * FoundWeight(F)
<1>1. PICK w \in [F -> Nat \ {0}] : w = [p \in F |-> p.weight]
    OBVIOUS
<1>2. PICK v \in [F -> Int] : v = [p \in F |-> p.weight * value[p]]
    <2>1. \A p \in F : p.weight * value[p] \in Int
        OBVIOUS
    <2> QED BY <2>1
<1>3. PICK h : SumsUp(h, F, w) /\ FoundWeight(F) = h[F]
    BY <1>1, FoundWeightSums
<1>4. PICK g : SumsUp(g, F, v) /\ WeightedSum(F, value) = g[F]
    BY <1>2, WeightedSums
<1>5. w \in [F -> Int]
    OBVIOUS
<1>6. h[F] \in Nat /\ (F # {} => h[F] # 0)
    BY <1>3, SumIsPositive
<1>7. g[F] \in Int
    <2>1. AddsUp(g, F, v)
        BY <1>4, SumsAreInts
    <2> QED BY <2>1 DEF AddsUp
<1>8. ASSUME NEW lo \in Int, \A p \in F : lo <= value[p] PROVE lo * h[F] <= g[F]
    <2>1. ASSUME NEW p \in F PROVE lo * w[p] <= v[p]
        <3>1. PICK a \in Nat \ {0}, b \in Int : a = p.weight /\ b = value[p] /\ lo <= b
            BY <1>8
        <3>2. lo * a <= a * b
            BY <3>1
        <3>3. w[p] = a /\ v[p] = a * b
            BY <1>1, <1>2, <3>1
        <3> QED BY <3>2, <3>3
    <2> QED BY <1>3, <1>4, <1>5, <2>1, SumBetween
<1>9. ASSUME NEW lo \in Int, \A p \in F : value[p] <= lo PROVE g[F] <= lo * h[F]
    <2>1. ASSUME NEW p \in F PROVE v[p] <= lo * w[p]
        <3>1. PICK a \in Nat \ {0}, b \in Int : a = p.weight /\ b = value[p] /\ b <= lo
            BY <1>9
        <3>2. a * b <= lo * a
            BY <3>1
        <3>3. w[p] = a /\ v[p] = a * b
            BY <1>1, <1>2, <3>1
        <3> QED BY <3>2, <3>3
    <2> QED BY <1>3, <1>4, <1>5, <2>1, SumBetween
<1> QED BY <1>3, <1>4, <1>6, <1>7, <1>8, <1>9

\* Division by a positive number, to the nearest.
LEMMA Divided ==
    ASSUME NEW a \in Int, NEW b \in Nat \ {0}
    PROVE  a \div b \in Int /\ b * (a \div b) <= a /\ a < b * (a \div b) + b
OBVIOUS

LEMMA RoundedBetween ==
    ASSUME NEW n \in Int, NEW d \in Nat \ {0}
    PROVE  /\ Rounded(n, d) \in Int
           /\ \A lo \in Int : /\ lo * d <= n => lo <= Rounded(n, d)
                              /\ n <= lo * d => Rounded(n, d) <= lo
<1>1. PICK q : q = Rounded(n, d)
    OBVIOUS
<1>2. q \in Int /\ (2 * d) * q <= 2 * n + d /\ 2 * n + d < (2 * d) * q + 2 * d
    <2>1. 2 * d \in Nat \ {0} /\ 2 * n + d \in Int
        OBVIOUS
    <2> QED BY <1>1, <2>1, Divided DEF Rounded
<1>3. ASSUME NEW lo \in Int, lo * d <= n, q < lo PROVE FALSE
    <2>1. (q + 1) * d <= lo * d
        BY <1>2, <1>3
    <2>2. (q + 1) * d = q * d + d /\ (2 * d) * q = 2 * (q * d) /\ q * d \in Int /\ lo * d \in Int
        BY <1>2
    <2> QED BY <1>2, <1>3, <2>1, <2>2
<1>4. ASSUME NEW lo \in Int, n <= lo * d, lo < q PROVE FALSE
    <2>1. (lo + 1) * d <= q * d
        BY <1>2, <1>4
    <2>2. (lo + 1) * d = lo * d + d /\ (2 * d) * q = 2 * (q * d) /\ q * d \in Int /\ lo * d \in Int
        BY <1>2
    <2> QED BY <1>2, <1>4, <2>1, <2>2
<1>5. \A lo \in Int : (lo * d <= n => lo <= q) /\ (n <= lo * d => q <= lo)
    BY <1>2, <1>3, <1>4
<1> QED BY <1>1, <1>2, <1>5

\* A score of the regime, and what is judged against it.
Fraction == [n : Int, d : Nat \ {0}]
IsScore(s) == s \in Fraction

LEMMA JudgedScore ==
    ASSUME NEW x, NEW s, IsScore(s) PROVE Judge(x, s).score \in Nat
<1>1. PICK n \in Int, d \in Nat \ {0} : n = s.n /\ d = s.d
    BY DEF IsScore, Fraction
<1>2. PICK bias, aligned : bias = symbol_bias(x.trend) /\ aligned = alignment(bias, classify_regime(s))
    OBVIOUS
<1>3. RegimePart(s) \in Nat
    <2>1. Magnitude(s) \in Nat
        BY <1>1 DEF Magnitude
    <2> QED BY <1>1, <2>1 DEF RegimePart
<1>4. PICK parts \in Nat :
          parts = AlignmentPart(aligned) + AgePart(x.trend_cnt) + RsiPart(bias, x.rsi)
    <2>1. AlignmentPart(aligned) \in Nat
        BY DEF AlignmentPart
    <2>2. AgePart(x.trend_cnt) \in Nat
        BY DEF AgePart
    <2>3. RsiPart(bias, x.rsi) \in Nat
        BY DEF RsiPart
    <2> QED BY <2>1, <2>2, <2>3
<1>5. parts * d \in Nat /\ 100 * d \in Nat
    BY <1>1
<1>6. PICK raw : raw = RawScore(aligned, bias, x.trend_cnt, x.rsi, s)
    OBVIOUS
<1>7. raw \in Nat
    BY <1>1, <1>3, <1>4, <1>5, <1>6 DEF RawScore
<1>8. PICK score \in Nat : score = decision_score(aligned, bias, x.trend_cnt, x.rsi, s)
    BY <1>1, <1>5, <1>6, <1>7 DEF decision_score
<1>9. Rounded(100 * score, d) \in Nat
    <2>1. 100 * score \in Int /\ 0 * d <= 100 * score /\ 0 \in Int
        BY <1>1
    <2> QED BY <1>1, <2>1, RoundedBetween
<1>10. Judge(x, s).score = Rounded(100 * score, d)
    BY <1>1, <1>2, <1>8 DEF Judge
<1> QED BY <1>9, <1>10

\* The weeks of the market all have a score.
LEMMA MarketScores ==
    ASSUME Frame, MarketHeld
    PROVE  /\ 1 \in DOMAIN found /\ DOMAIN compute_scores_by_week(found) = DOMAIN found
           /\ Len(compute_scores_by_week(found)) = Len(found)
           /\ \A i \in DOMAIN found :
                 IsScore(compute_scores_by_week(found)[i])
<1>1. PICK W : W = EligibleWeeks(RegimeFrom)
    OBVIOUS
<1>2. PICK weeks \in Seq(W) : weeks = found /\ Len(weeks) # 0
    BY <1>1 DEF MarketHeld
<1>3. Scored(weeks) = weeks
    BY <1>1, EligibleCanBeScored, ScoredAreWeeks
<1>4. PICK scores : scores = compute_scores_by_week(weeks)
    OBVIOUS
<1>5. scores = [i \in DOMAIN weeks |-> compute_regime_score(WeekRows(weeks[i]))]
    BY <1>3, <1>4 DEF compute_scores_by_week
<1>6. ASSUME NEW w \in W PROVE IsScore(compute_regime_score(WeekRows(w)))
    <2>1. PICK S : S = WeekRows(w)
        OBVIOUS
    <2>2. Classified(S) # {}
        BY <1>1, <1>6, <2>1, EligibleCanBeScored DEF CanBeScored
    <2>3. S \subseteq Rows("data") /\ "data" \in Table
        BY <2>1 DEF WeekRows, Equities, Table
    <2>4. IsFiniteSet(S)
        BY <2>3, SelectionIsWeekly DEF AreWeekly
    <2>5. IsFiniteSet(Side(S, "bullish")) /\ IsFiniteSet(Side(S, "bearish"))
          /\ IsFiniteSet(Classified(S))
        BY <2>4, FS_Subset DEF Side, Classified
    <2>6. Cardinality(Side(S, "bullish")) \in Nat /\ Cardinality(Side(S, "bearish")) \in Nat
          /\ Cardinality(Classified(S)) \in Nat /\ Cardinality(Classified(S)) # 0
        BY <2>2, <2>5, FS_CardinalityType, FS_EmptySet
    <2> QED BY <2>1, <2>6 DEF compute_regime_score, IsScore, Fraction
<1>7. \A i \in DOMAIN weeks : IsScore(scores[i])
    BY <1>2, <1>5, <1>6
<1>8. 1 \in DOMAIN weeks /\ DOMAIN scores = DOMAIN weeks /\ Len(scores) = Len(weeks)
    BY <1>2, <1>5
<1> QED BY <1>2, <1>4, <1>7, <1>8

\* The positions that are found are of the week, have their weights and their judgements.
ArePositions(F, week) ==
    /\ IsFiniteSet(F)
    /\ \A p \in F : /\ p.weight \in Nat \ {0}
                    /\ \E x \in CommonStocks(week) : \E s :
                          IsScore(s) /\ x.week = week /\ p.judged = Judge(x, s)

LEMMA EvaluatedAre ==
    ASSUME Frame, NEW ps \in {query.left, query.right}, ~PositionsRefused(ps), NEW week,
           NEW s, IsScore(s)
    PROVE  ArePositions(Evaluated(ps, week, s), week)
<1>1. IsFiniteSet(DOMAIN ps) /\ \A i \in DOMAIN ps : ps[i].weight \in Nat \ {0}
    <2>1. query \in Query
        BY FrameFacts
    <2>2. IsFiniteSet(DOMAIN ps) /\ \A i \in DOMAIN ps : ps[i].weight \in Int
        BY <2>1, PositionsAssumption
    <2>3. \A i \in DOMAIN ps : ~(ps[i].weight <= 0)
        BY DEF PositionsRefused
    <2> QED BY <2>2, <2>3
<1>2. PICK D, R : D = DOMAIN ps /\ R = CommonStocks(week)
    OBVIOUS
<1>3. IsFiniteSet(R) /\ \A x \in R : x.week = week
    <2>1. R \subseteq Rows("data") /\ "data" \in Table
        BY <1>2 DEF CommonStocks, Table
    <2> QED BY <1>2, <2>1, SelectionIsWeekly DEF AreWeekly, CommonStocks
<1>4. PICK F : F = Evaluated(ps, week, s)
    OBVIOUS
<1>5. PICK I : I = {[weight |-> ps[q[1]].weight, judged |-> Judge(q[2], s)] : q \in D \X R}
    OBVIOUS
<1>6. IsFiniteSet(I)
    <2>1. IsFiniteSet(D \X R)
        BY <1>1, <1>2, <1>3, FS_Product
    <2>2. [q \in D \X R |-> [weight |-> ps[q[1]].weight, judged |-> Judge(q[2], s)]]
              \in Surjection(D \X R, I)
        BY <1>5 DEF Surjection
    <2> QED BY <2>1, <2>2, FS_Surjection
<1>7. \A p \in F : \E i \in D : \E x \in R : p = [weight |-> ps[i].weight, judged |-> Judge(x, s)]
    BY <1>2, <1>4 DEF Evaluated
<1>8. F \subseteq I
    <2>1. ASSUME NEW p \in F PROVE p \in I
        <3>1. PICK i \in D, x \in R : p = [weight |-> ps[i].weight, judged |-> Judge(x, s)]
            BY <1>7
        <3>2. <<i, x>> \in D \X R /\ <<i, x>>[1] = i /\ <<i, x>>[2] = x
            OBVIOUS
        <3> QED BY <1>5, <3>1, <3>2
    <2> QED BY <2>1
<1>9. IsFiniteSet(F)
    BY <1>6, <1>8, FS_Subset
<1>10. ASSUME NEW p \in F
       PROVE  /\ p.weight \in Nat \ {0}
              /\ \E x \in R : \E t : IsScore(t) /\ x.week = week /\ p.judged = Judge(x, t)
    <2>1. PICK i \in D, x \in R : p = [weight |-> ps[i].weight, judged |-> Judge(x, s)]
        BY <1>7
    <2>2. PICK j : j = Judge(x, s)
        OBVIOUS
    <2>3. p.weight = ps[i].weight /\ p.judged = j
        BY <2>1, <2>2
    <2> QED BY <1>1, <1>2, <1>3, <2>2, <2>3
<1> QED BY <1>2, <1>4, <1>9, <1>10 DEF ArePositions

LEMMA PositionsFound ==
    ASSUME NEW F, NEW week, ArePositions(F, week)
    PROVE  \A p \in F : p.weight \in Nat \ {0} /\ p.judged.week = week /\ p.judged.score \in Nat
<1> SUFFICES ASSUME NEW p \in F
             PROVE  p.weight \in Nat \ {0} /\ p.judged.week = week /\ p.judged.score \in Nat
    OBVIOUS
<1>1. PICK x, s : IsScore(s) /\ x.week = week /\ p.judged = Judge(x, s)
    BY DEF ArePositions
<1>2. Judge(x, s).score \in Nat
    BY <1>1, JudgedScore
<1>3. Judge(x, s).week = x.week
    BY DEF Judge
<1> QED BY <1>1, <1>2, <1>3 DEF ArePositions

\* The least of some natural numbers.
LEMMA LeastOfSome ==
    ASSUME NEW S, S \subseteq Nat, S # {} PROVE Min(S) \in S /\ \A y \in S : Min(S) <= y
<1>1. PICK n \in S : \A m \in S : n <= m
    BY LeastNatural
<1> QED BY <1>1 DEF Min

\* PortfolioIsItsPositions, of one summary.
JudgedByPositions(side, week) ==
    /\ \A j \in FoundIn(side) : j.week = week
    /\ Min({j.score : j \in FoundIn(side)}) <= side.score
    /\ side.score <= Max({j.score : j \in FoundIn(side)})
    /\ side.bias # "mixed" => \E j \in FoundIn(side) : j.bias = side.bias
    /\ side.confidence = "high" => \E j \in FoundIn(side) : j.confidence = "high"

LEMMA SummaryIsFair ==
    ASSUME NEW F, NEW week, ArePositions(F, week), F # {}, NEW ps, NEW side,
           side = _build_portfolio_summary(ps, F)
    PROVE  JudgedByPositions(side, week) /\ side.score \in Int
<1>1. IsFiniteSet(F)
    BY DEF ArePositions
<1>2. \A p \in F : p.weight \in Nat \ {0} /\ p.judged.week = week /\ p.judged.score \in Nat
    BY PositionsFound
<1>3. /\ side.found = F
      /\ side.score = Rounded(WeightedSum(F, [p \in F |-> p.judged.score]), FoundWeight(F))
      /\ side.bias = _agg_portfolio_bias(F) /\ side.confidence = _agg_portfolio_confidence(F)
    BY DEF _build_portfolio_summary
<1>4. PICK J, scores : J = {p.judged : p \in F} /\ scores = {j.score : j \in J}
    OBVIOUS
<1>5. FoundIn(side) = J
    BY <1>3, <1>4 DEF FoundIn
<1>6. IsFiniteSet(scores) /\ scores # {} /\ scores \subseteq Nat
      /\ \A p \in F : p.judged \in J /\ p.judged.score \in scores
    <2>1. [p \in F |-> p.judged.score] \in Surjection(F, scores)
        BY <1>4 DEF Surjection
    <2>2. IsFiniteSet(scores)
        BY <1>1, <2>1, FS_Surjection
    <2> QED BY <1>2, <1>4, <2>2
<1>7. PICK d \in Nat \ {0} : d = FoundWeight(F)
    <2>1. PICK value : value = [p \in F |-> 0]
        OBVIOUS
    <2>2. \A p \in F : p.weight \in Nat \ {0} /\ value[p] \in Int
        BY <1>2, <2>1
    <2> QED BY <1>1, <2>2, WeightedBetween
<1>8. /\ Min(scores) <= side.score /\ side.score <= Max(scores) /\ side.score \in Int
    <2>1. PICK value : value = [p \in F |-> p.judged.score]
        OBVIOUS
    <2>2. \A p \in F : p.weight \in Nat \ {0} /\ value[p] \in Int /\ value[p] \in scores
        BY <1>2, <1>6, <2>1
    <2>3. PICK n \in Int : n = WeightedSum(F, value)
        BY <1>1, <2>2, WeightedBetween
    <2>4. PICK least \in Nat : least = Min(scores) /\ \A y \in scores : least <= y
        BY <1>6, LeastOfSome
    <2>5. PICK greatest \in Nat : greatest = Max(scores) /\ \A y \in scores : y <= greatest
        <3>1. scores \subseteq Int
            BY <1>6
        <3> QED BY <1>6, <3>1, GreatestOfFinite
    <2>6. \A p \in F : least <= value[p] /\ value[p] <= greatest
        BY <2>2, <2>4, <2>5
    <2>7. least * d <= n /\ n <= greatest * d
        BY <1>1, <1>7, <2>2, <2>3, <2>6, WeightedBetween
    <2>8. PICK score \in Int : score = Rounded(n, d) /\ least <= score /\ score <= greatest
        <3>1. PICK score : score = Rounded(n, d)
            OBVIOUS
        <3>2. score \in Int /\ \A lo \in Int : /\ lo * d <= n => lo <= score
                                               /\ n <= lo * d => score <= lo
            BY <3>1, RoundedBetween
        <3> QED BY <2>7, <3>1, <3>2
    <2> QED BY <1>3, <1>7, <2>1, <2>3, <2>4, <2>5, <2>8
<1>9. ASSUME NEW way \in {"bullish", "bearish"}
      PROVE  /\ SidedScore(F, way) \in Nat
             /\ SidedScore(F, way) # 0 => \E p \in F : p.judged.bias = way
    <2>1. PICK S : S = {p \in F : p.judged.bias = way}
        OBVIOUS
    <2>2. PICK value : value = [p \in S |-> p.judged.score]
        OBVIOUS
    <2>3. IsFiniteSet(S) /\ \A p \in S : p.weight \in Nat \ {0} /\ value[p] \in Int /\ 0 <= value[p]
        BY <1>1, <1>2, <2>1, <2>2, FS_Subset
    <2>4. PICK n \in Int, e \in Nat : n = WeightedSum(S, value) /\ e = FoundWeight(S)
        BY <2>3, WeightedBetween
    <2>5. 0 * e <= n
        BY <2>3, <2>4, WeightedBetween
    <2>6. ASSUME S = {} PROVE n <= 0 * e
        <3>1. \A p \in S : value[p] <= 0
            BY <2>6
        <3> QED BY <2>3, <2>4, <3>1, WeightedBetween
    <2>7. SidedScore(F, way) = n
        BY <2>1, <2>2, <2>4 DEF SidedScore
    <2>8. 0 * e = 0
        OBVIOUS
    <2> QED BY <2>1, <2>5, <2>6, <2>7, <2>8
<1>10. side.bias # "mixed" => \E j \in J : j.bias = side.bias
    <2>1. PICK bull \in Nat : bull = SidedScore(F, "bullish")
                              /\ (bull # 0 => \E p \in F : p.judged.bias = "bullish")
        BY <1>9
    <2>2. PICK bear \in Nat : bear = SidedScore(F, "bearish")
                              /\ (bear # 0 => \E p \in F : p.judged.bias = "bearish")
        BY <1>9
    <2>3. side.bias = IF bull - bear >= 500 * d THEN "bullish"
                      ELSE IF bull - bear <= -500 * d THEN "bearish" ELSE "mixed"
        BY <1>3, <1>7, <2>1, <2>2 DEF _agg_portfolio_bias
    <2>4. /\ side.bias = "bullish" => bull # 0
          /\ side.bias = "bearish" => bear # 0
          /\ side.bias \in {"bullish", "bearish", "mixed"}
        BY <1>7, <2>3
    <2>5. ASSUME NEW p \in F PROVE p.judged \in J
        BY <1>6
    <2> QED BY <2>1, <2>2, <2>4, <2>5
<1>11. side.confidence = "high" => \E j \in J : j.confidence = "high"
    <2>1. SUFFICES ASSUME \A p \in F : p.judged.confidence # "high"
                   PROVE  side.confidence # "high"
        BY <1>4
    <2>2. PICK value : value = [p \in F |-> ConfidenceHundredths(p.judged.confidence)]
        OBVIOUS
    <2>3. \A p \in F : p.weight \in Nat \ {0} /\ value[p] \in Int /\ value[p] <= 50
        BY <1>2, <2>1, <2>2 DEF ConfidenceHundredths
    <2>4. PICK n \in Int : n = WeightedSum(F, value)
        BY <1>1, <2>3, WeightedBetween
    <2>5. n <= 50 * d
        BY <1>1, <1>7, <2>3, <2>4, WeightedBetween
    <2>6. side.confidence = IF n >= 75 * d THEN "high" ELSE IF n >= 40 * d THEN "moderate" ELSE "low"
        BY <1>3, <1>7, <2>2, <2>4 DEF _agg_portfolio_confidence
    <2>7. ~(n >= 75 * d)
        BY <2>5
    <2> QED BY <2>6, <2>7
<1>12. \A j \in J : j.week = week
    BY <1>2, <1>4
<1> QED BY <1>4, <1>5, <1>8, <1>10, <1>11, <1>12 DEF JudgedByPositions

\* A comparison comes out the same, whichever is named first.
LEMMA ComparedFairly ==
    ASSUME NEW l, NEW r, l.score \in Int, r.score \in Int
    PROVE  /\ _compare_summary(r, l).winner = Swapped(_compare_summary(l, r).winner)
           /\ _compare_summary(l, r).winner = "left" => _compare_summary(l, r).delta > -10
           /\ _compare_summary(l, r).winner = "right" => _compare_summary(l, r).delta < 10
<1>1. PICK delta \in Int : delta = l.score - r.score /\ r.score - l.score = -delta
    OBVIOUS
<1>2. PICK a, b \in {0, 1, 2} : a = ALIGN_RANK(l.alignment) /\ b = ALIGN_RANK(r.alignment)
    BY DEF ALIGN_RANK
<1>3. PICK there, back : there = Advantage(a, b) /\ back = Advantage(b, a)
    OBVIOUS
<1>4. there \in {"left", "right", "tie"} /\ back = Swapped(there)
    BY <1>2, <1>3 DEF Advantage, Swapped
<1>5. /\ Winner(-delta, back) = Swapped(Winner(delta, there))
      /\ Winner(delta, there) = "left" => delta > -10
      /\ Winner(delta, there) = "right" => delta < 10
    BY <1>1, <1>4 DEF Winner, Swapped
<1>6. /\ _compare_summary(l, r).winner = Winner(delta, there)
      /\ _compare_summary(l, r).delta = delta
      /\ _compare_summary(r, l).winner = Winner(-delta, back)
    BY <1>1, <1>2, <1>3 DEF _compare_summary
<1> QED BY <1>5, <1>6

\* construct_portfolio: who is left out is no better than who is taken.
LEMMA ConstructsFairly ==
    ASSUME Held, Asking("portfolio/construct", "weeks"), construct_portfolio, ~Respond(422)
    PROVE  BestAreTaken'
<1>0. Frame /\ MarketHeld /\ query.limit \in Nat
    BY FrameFacts DEF Held, MarketInv, Asking
<1>1. PICK S, estimates, s, rows : Constructs(S, estimates, s, rows)
    BY <1>0, ConstructAnswers
<1>2. IsScore(s)
    BY <1>0, <1>1, MarketScores DEF Constructs
<1>3. IsFiniteSet(S)
    BY <1>0, <1>1, StocksOfTheWeek DEF Constructs
<1>4. PICK R : R = Candidates(S, estimates, s)
    OBVIOUS
<1>5. IsFiniteSet(R) /\ \A c \in R : \E x \in S : c.score = Judge(x, s).score
    BY <1>3, <1>4, CandidatesAreOfTheirRows
<1>6. \A c \in R : c.score \in Nat
    BY <1>2, <1>5, JudgedScore
<1>7. rows \in FirstInOrder(R, RankOrder, query.limit) /\ answer'.rows = rows /\ matched' = R
    BY <1>1, <1>4 DEF Constructs
<1>8. PICK order : order = RankOrder
    OBVIOUS
<1>9. /\ rows \in Seq(R)
      /\ \A i \in DOMAIN rows : \A z \in R :
            (\A j \in 1 .. i - 1 : rows[j] # z) => ~Precedes(order, z, rows[i])
    BY <1>0, <1>5, <1>7, <1>8, FirstAreFirst
<1>10. order[1][1] = "score" /\ order[1][2] = -1 /\ 1 \in DOMAIN order
    BY <1>8 DEF RankOrder, Desc, Asc
<1>11. ASSUME NEW x \in R, \A i \in DOMAIN rows : rows[i] # x, NEW i \in DOMAIN rows
       PROVE  x.score <= rows[i].score
    <2>1. i \in Nat /\ DOMAIN rows = 1 .. Len(rows) /\ Len(rows) \in Nat /\ rows[i] \in R
        BY <1>9
    <2>2. ~Precedes(order, x, rows[i])
        BY <1>9, <1>11, <2>1
    <2>3. PICK a \in Nat, b \in Nat : a = x.score /\ b = rows[i].score
        BY <1>6, <2>1
    <2>4. ~((-1) * a < (-1) * b)
        <3>1. order[1][2] * x[order[1][1]] = (-1) * a /\ order[1][2] * rows[i][order[1][1]] = (-1) * b
            BY <1>10, <2>3
        <3>2. \A j \in 1 .. 1 - 1 : x[order[j][1]] = rows[i][order[j][1]]
            OBVIOUS
        <3> QED BY <1>10, <2>2, <3>1, <3>2 DEF Precedes
    <2> QED BY <2>3, <2>4
<1> QED BY <1>7, <1>11 DEF BestAreTaken

\* evaluate_portfolio and compare_portfolios.
LEMMA PositionsAreValid ==
    ASSUME Held, NEW s, IsScore(s),
           NEW ps, \/ Asking("portfolio/evaluate", "weeks") /\ ps = query.left
                   \/ Asking("portfolio/compare", "weeks") /\ ps \in {query.left, query.right}
    PROVE  ArePositions(Evaluated(ps, anchor, s), anchor)
<1>1. ~Refused(query)
    BY DEF Held, CalledInv, Asking
<1>2. ~PortfolioRefused(query)
    BY <1>1 DEF Refused, Asking, SymbolPath, BreadthPath, PortfolioPath
<1>3. ~PositionsRefused(ps)
    BY <1>2 DEF PortfolioRefused, Asking
<1> QED BY <1>3, EvaluatedAre DEF Held

LEMMA EvaluatesFairly ==
    ASSUME Held, Asking("portfolio/evaluate", "weeks"), evaluate_portfolio, ~Respond(422)
    PROVE  PortfolioIsItsPositions'
<1>0. Frame /\ MarketHeld /\ query.path = "portfolio/evaluate"
    BY DEF Held, MarketInv, Asking
<1>1. PICK scores, s, F, side : /\ scores = compute_scores_by_week(found) /\ s = scores[1]
                                /\ F = Evaluated(query.left, anchor, s)
                                /\ side = _build_portfolio_summary(query.left, F)
    OBVIOUS
<1>2. F # {} /\ Finish(<<>>, [market |-> ForecastOf(scores), left |-> side])
    BY <1>1 DEF evaluate_portfolio
<1>3. ArePositions(F, anchor)
    BY <1>0, <1>1, MarketScores, PositionsAreValid
<1>4. JudgedByPositions(side, anchor)
    BY <1>1, <1>2, <1>3, SummaryIsFair
<1>5. PICK extra : extra = [market |-> ForecastOf(scores), left |-> side]
    OBVIOUS
<1>6. answer'.week = anchor /\ answer'.extra = extra /\ query' = query
    BY <1>0, <1>2, <1>5, Finished
<1>7. extra.left = side
    BY <1>5
<1>8. Sides' = {side}
    BY <1>0, <1>6, <1>7 DEF Sides
<1> QED BY <1>4, <1>6, <1>8 DEF PortfolioIsItsPositions, JudgedByPositions, FoundIn

LEMMA ComparesFairly ==
    ASSUME Held, Asking("portfolio/compare", "weeks"), compare_portfolios, ~Respond(422)
    PROVE  PortfolioIsItsPositions' /\ ComparisonIsFair'
<1>0. Frame /\ MarketHeld /\ query.path = "portfolio/compare"
    BY DEF Held, MarketInv, Asking
<1>1. PICK scores, s : scores = compute_scores_by_week(found) /\ s = scores[1]
    OBVIOUS
<1>2. PICK L, R : /\ L = Evaluated(query.left, anchor, s)
                  /\ R = Evaluated(query.right, anchor, s)
    OBVIOUS
<1>3. PICK left, right : /\ left = _build_portfolio_summary(query.left, L)
                         /\ right = _build_portfolio_summary(query.right, R)
    OBVIOUS
<1>4. PICK comparison : comparison = _compare_summary(left, right)
    OBVIOUS
<1>5. PICK extra : extra = [market |-> ForecastOf(scores), left |-> left, right |-> right,
                            comparison |-> comparison]
    OBVIOUS
<1>6. L # {} /\ R # {} /\ Finish(<<>>, extra)
    BY <1>1, <1>2, <1>3, <1>4, <1>5 DEF compare_portfolios
<1>7. ArePositions(L, anchor) /\ ArePositions(R, anchor)
    <2>1. IsScore(s)
        BY <1>0, <1>1, MarketScores
    <2> QED BY <1>2, <2>1, PositionsAreValid
<1>8. JudgedByPositions(left, anchor) /\ left.score \in Int
    BY <1>3, <1>6, <1>7, SummaryIsFair
<1>9. JudgedByPositions(right, anchor) /\ right.score \in Int
    BY <1>3, <1>6, <1>7, SummaryIsFair
<1>10. answer'.week = anchor /\ answer'.extra = extra /\ query' = query
    BY <1>0, <1>6, Finished
<1>11. extra.left = left /\ extra.right = right /\ extra.comparison = comparison
    BY <1>5
<1>12. PortfolioIsItsPositions'
    <2>1. Sides' = {left, right}
        BY <1>0, <1>10, <1>11 DEF Sides
    <2> QED BY <1>8, <1>9, <1>10, <2>1 DEF PortfolioIsItsPositions, JudgedByPositions, FoundIn
<1>13. ComparisonIsFair'
    <2>1. PICK back : back = _compare_summary(right, left)
        OBVIOUS
    <2>2. /\ back.winner = Swapped(comparison.winner)
          /\ comparison.winner = "left" => comparison.delta > -10
          /\ comparison.winner = "right" => comparison.delta < 10
        BY <1>4, <1>8, <1>9, <2>1, ComparedFairly
    <2>3. _compare_summary(answer'.extra.right, answer'.extra.left) = back
        BY <1>10, <1>11, <2>1
    <2>4. answer'.extra.comparison = comparison
        BY <1>10, <1>11
    <2> QED BY <2>2, <2>3, <2>4 DEF ComparisonIsFair
<1> QED BY <1>12, <1>13

LEMMA NextKeepsFair ==
    ASSUME Held, PortfoliosAreFair, [Next]_vars PROVE PortfoliosAreFair'
<1>0. Frame
    BY DEF Held
<1>1. ASSUME UNCHANGED <<query, pc, answer, matched>> PROVE PortfoliosAreFair'
    <2>1. PortfolioIsItsPositions'
        <3>1. Sides' = Sides
            BY <1>1 DEF Sides
        <3> QED BY <1>1, <3>1 DEF PortfoliosAreFair, PortfolioIsItsPositions, Answered
    <2>2. ComparisonIsFair'
        BY <1>1 DEF PortfoliosAreFair, ComparisonIsFair, Answered
    <2>3. BestAreTaken'
        BY <1>1 DEF PortfoliosAreFair, BestAreTaken, Answered
    <2> QED BY <2>1, <2>2, <2>3 DEF PortfoliosAreFair
<1>2. ASSUME ~Answered' \/ query'.path \notin PortfolioPath PROVE PortfoliosAreFair'
    BY <1>2 DEF PortfoliosAreFair, PortfolioIsItsPositions, ComparisonIsFair, BestAreTaken,
                PortfolioPath
<1>3. CASE HandlerNext
    <2>1. UNCHANGED query
        BY <1>0, <1>3, HandlerKeepsRequest
    <2>2. CASE FreeStep
        BY <1>2, <2>1, <2>2 DEF FreeStep, FreePath, ModelPath, PortfolioPath
    <2>3. CASE Step
        <3>1. CASE pc' # "done" \/ GivesUp
            BY <1>2, <3>1 DEF GivesUp, Answered
        <3>2. CASE AnswersHistory \/ Asking("stim/history", "gaps")
            <4>1. query.path \notin PortfolioPath
                BY <3>2 DEF AnswersHistory, Asking, PortfolioPath
            <4> QED BY <1>2, <2>1, <4>1
        <3>3. CASE ~GivesUp /\ pc' = "done" /\ AnswersLatest
            <4>1. ~Respond(422)
                BY <1>0, <3>3, RespondGivesUp DEF Status
            <4>2. CASE Asking("portfolio/construct", "weeks") /\ construct_portfolio
                <5>1. BestAreTaken'
                    BY <4>1, <4>2, ConstructsFairly
                <5> QED BY <2>1, <4>2, <5>1
                        DEF Asking, PortfoliosAreFair, PortfolioIsItsPositions, ComparisonIsFair
            <4>3. CASE Asking("portfolio/evaluate", "weeks") /\ evaluate_portfolio
                <5>1. PortfolioIsItsPositions'
                    BY <4>1, <4>3, EvaluatesFairly
                <5> QED BY <2>1, <4>3, <5>1
                        DEF Asking, PortfoliosAreFair, BestAreTaken, ComparisonIsFair
            <4>4. CASE Asking("portfolio/compare", "weeks") /\ compare_portfolios
                <5>1. PortfolioIsItsPositions' /\ ComparisonIsFair'
                    BY <4>1, <4>4, ComparesFairly
                <5> QED BY <2>1, <4>4, <5>1 DEF Asking, PortfoliosAreFair, BestAreTaken
            <4>5. CASE query.path \notin PortfolioPath
                BY <1>2, <2>1, <4>5
            <4> QED BY <3>3, <4>2, <4>3, <4>4, <4>5 DEF AnswersLatest, Asking, PortfolioPath
        <3> QED BY <2>3, <3>1, <3>2, <3>3 DEF Step
    <2> QED BY <1>0, <1>3, <2>2, <2>3, HandlerLeads
<1>4. CASE (\E b \in BatchId : Load(b)) \/ UNCHANGED vars
    BY <1>1, <1>4 DEF Load, vars
<1>5. CASE PaymentRefused \/ DatabaseFails
    BY <1>5, <1>0, <1>2, RespondGivesUp
       DEF PaymentRefused, DatabaseFails, GivesUp, Answered, Status
<1>6. CASE Validate \/ CallHandler
    <2>1. Respond(400) \/ pc' \in {"admitted", "called"}
        BY <1>6, Zenon DEF Validate, CallHandler
    <2>2. Respond(400) => GivesUp
        BY <1>0, RespondGivesUp DEF Status
    <2> QED BY <1>2, <2>1, <2>2 DEF GivesUp, Answered
<1> QED BY <1>3, <1>4, <1>5, <1>6 DEF Next

\* Portfolios are judged by their positions and compared by their merits: a score lies between
\* those of the worst and the best position, a side that is taken is that of a position, who wins
\* does not depend on who is named first, and a candidate that is left out of a portfolio is no
\* better than one that is taken (routers/portfolio.py).
THEOREM PortfoliosAreJudgedFairly == Spec => []PortfoliosAreFair
<1>1. Init => PortfoliosAreFair
    BY DEF Init, PortfoliosAreFair, PortfolioIsItsPositions, ComparisonIsFair, BestAreTaken, Answered
<1>2. Held /\ PortfoliosAreFair /\ [Next]_vars => PortfoliosAreFair'
    BY NextKeepsFair
<1> QED BY <1>1, <1>2, HeldAlways, PTL DEF Spec

-----------------------------------------------------------------------------
(* Judgements are of their weeks (RegimeRoutes, PortfolioRoutes).          *)

\* Fractions are equal when they are so crosswise.
Equal(a, b) == a.n * b.d = b.n * a.d

LEMMA Difference ==
    ASSUME NEW s, NEW t, IsScore(s), IsScore(t)
    PROVE  Minus(s, t) = [n |-> s.n * t.d + (-t.n) * s.d, d |-> s.d * t.d] /\ IsScore(Minus(s, t))
<1>1. PICK a \in Int, b \in Nat \ {0}, e \in Int, f \in Nat \ {0} :
          s = [n |-> a, d |-> b] /\ t = [n |-> e, d |-> f]
    BY DEF IsScore, Fraction
<1>2. [t EXCEPT !.n = -@] = [n |-> -e, d |-> f]
    BY <1>1
<1>3. Minus(s, t) = [n |-> a * f + (-e) * b, d |-> b * f]
    BY <1>1, <1>2 DEF Minus, Plus
<1>4. a * f + (-e) * b \in Int /\ b * f \in Nat \ {0}
    BY <1>1
<1> QED BY <1>1, <1>3, <1>4 DEF IsScore, Fraction

LEMMA Total ==
    ASSUME NEW s, NEW t, IsScore(s), IsScore(t)
    PROVE  Plus(s, t) = [n |-> s.n * t.d + t.n * s.d, d |-> s.d * t.d] /\ IsScore(Plus(s, t))
<1>1. PICK a \in Int, b \in Nat \ {0}, e \in Int, f \in Nat \ {0} :
          s = [n |-> a, d |-> b] /\ t = [n |-> e, d |-> f]
    BY DEF IsScore, Fraction
<1>2. a * f + e * b \in Int /\ b * f \in Nat \ {0}
    BY <1>1
<1> QED BY <1>1, <1>2 DEF IsScore, Fraction, Plus

\* From the oldest week but one to the oldest: x is what had been added up, s the newest score.
LEMMA OneChangeMore ==
    ASSUME NEW x, NEW s, NEW t, NEW u, IsScore(x), IsScore(s), IsScore(t), IsScore(u),
           Equal(x, Minus(s, t))
    PROVE  Equal(Plus(x, Minus(t, u)), Minus(s, u))
<1>1. PICK p \in Int, q \in Nat \ {0} : x = [n |-> p, d |-> q]
    BY DEF IsScore, Fraction
<1>2. PICK a \in Int, b \in Nat \ {0}, e \in Int, f \in Nat \ {0} :
          s = [n |-> a, d |-> b] /\ t = [n |-> e, d |-> f]
    BY DEF IsScore, Fraction
<1>3. PICK g \in Int, h \in Nat \ {0} : u = [n |-> g, d |-> h]
    BY DEF IsScore, Fraction
<1>4. /\ Minus(s, t) = [n |-> a * f + (-e) * b, d |-> b * f]
      /\ Minus(t, u) = [n |-> e * h + (-g) * f, d |-> f * h]
      /\ Minus(s, u) = [n |-> a * h + (-g) * b, d |-> b * h]
    BY <1>2, <1>3, Difference
<1>5. p * (b * f) = (a * f + (-e) * b) * q
    BY <1>1, <1>4 DEF Equal
<1>6. PICK y : y = Minus(t, u)
    OBVIOUS
<1>7. Plus(x, y) = [n |-> p * (f * h) + (e * h + (-g) * f) * q, d |-> q * (f * h)]
    BY <1>1, <1>4, <1>6 DEF Plus
<1>8. (p * (f * h) + (e * h + (-g) * f) * q) * (b * h) = (a * h + (-g) * b) * (q * (f * h))
    <2>1. (p * (b * f)) * (h * h) = ((a * f + (-e) * b) * q) * (h * h)
        BY <1>5
    <2> QED BY <1>1, <1>2, <1>3, <2>1
<1> QED BY <1>4, <1>6, <1>7, <1>8 DEF Equal

LEMMA Parts ==
    /\ [n |-> 0, d |-> 1] \in Fraction
    /\ \A s : IsScore(s) => \E a \in Int, b \in Nat \ {0} : s = [n |-> a, d |-> b]
BY DEF IsScore, Fraction

\* The changes are added up one by one.
LEMMA ChangesAddUp ==
    ASSUME NEW scores \in Seq(Fraction), Len(scores) # 0
    PROVE  \E g \in [0 .. Len(scores) - 1 -> Fraction] :
              /\ g[0] = [n |-> 0, d |-> 1]
              /\ \A k \in 1 .. Len(scores) - 1 :
                    g[k] = Plus(g[k - 1], Minus(scores[k], scores[k + 1]))
              /\ AverageDelta(scores) =
                    IF Len(scores) - 1 = 0 THEN g[0]
                    ELSE [g[Len(scores) - 1] EXCEPT !.d = @ * (Len(scores) - 1)]
<1>1. PICK m \in Nat : m = Len(scores) - 1 /\ Len(scores) = m + 1
    OBVIOUS
<1>2. \A k \in 1 .. m + 1 : scores[k] \in Fraction
    BY <1>1
<1>3. PICK base \in Fraction : base = [n |-> 0, d |-> 1]
    BY Parts
<1> DEFINE Rec(g) == [k \in 0 .. m |-> IF k = 0 THEN base
                                       ELSE Plus(g[k - 1], Minus(scores[k], scores[k + 1]))]
<1>4. ASSUME NEW k \in 1 .. m, NEW v \in Fraction
      PROVE  Plus(v, Minus(scores[k], scores[k + 1])) \in Fraction
    <2>1. IsScore(v) /\ IsScore(scores[k]) /\ IsScore(scores[k + 1])
        BY <1>2 DEF IsScore
    <2>2. PICK y : y = Minus(scores[k], scores[k + 1]) /\ IsScore(y)
        BY <2>1, Difference
    <2>3. IsScore(Plus(v, y))
        BY <2>1, <2>2, Total
    <2> QED BY <1>2, <2>2, <2>3 DEF IsScore
<1>5. PICK step : \A k \in Nat : \A v \in Fraction :
          step[<<k, v>>] = IF k \in 1 .. m THEN Plus(v, Minus(scores[k], scores[k + 1])) ELSE v
    <2> DEFINE fn == [kv \in Nat \X Fraction |->
                        IF kv[1] \in 1 .. m
                        THEN Plus(kv[2], Minus(scores[kv[1]], scores[kv[1] + 1])) ELSE kv[2]]
    <2>1. \A k \in Nat : \A v \in Fraction :
              fn[<<k, v>>] = IF k \in 1 .. m THEN Plus(v, Minus(scores[k], scores[k + 1])) ELSE v
        OBVIOUS
    <2> HIDE DEF fn
    <2> QED BY <2>1
<1>6. PICK f \in [0 .. m -> Fraction] : Follows(f, base, m, step)
    <2>1. StaysIn(Fraction, step)
        <3>1. ASSUME NEW k \in Nat, NEW v \in Fraction PROVE step[<<k, v>>] \in Fraction
            <4>1. CASE k \in 1 .. m
                BY <1>4, <1>5, <4>1
            <4>2. CASE k \notin 1 .. m
                BY <1>5, <4>2
            <4> QED BY <4>1, <4>2
        <3> QED BY <3>1, Zenon DEF StaysIn
    <2> QED BY <2>1, Recursion
<1>7. f = Rec(f)
    <2>1. ASSUME NEW k \in 0 .. m
          PROVE  f[k] = IF k = 0 THEN base ELSE Plus(f[k - 1], Minus(scores[k], scores[k + 1]))
        <3>1. CASE k = 0
            BY <1>6, <3>1 DEF Follows
        <3>2. CASE k # 0
            <4>1. k \in 1 .. m /\ k \in Nat /\ f[k - 1] \in Fraction
                BY <3>2
            <4>2. f[k] = step[<<k, f[k - 1]>>]
                BY <1>6, <4>1 DEF Follows
            <4>3. f[k] = Plus(f[k - 1], Minus(scores[k], scores[k + 1]))
                BY <1>5, <4>1, <4>2
            <4> QED BY <3>2, <4>3, Zenon
        <3> QED BY <3>1, <3>2
    <2>2. f = [k \in 0 .. m |-> f[k]]
        OBVIOUS
    <2> QED BY <2>1, <2>2, Zenon
<1>8. PICK g : g = (CHOOSE h : h = Rec(h))
    OBVIOUS
<1>9. g = Rec(g)
    <2> HIDE DEF Rec
    <2> QED BY <1>7, <1>8
<1>10. AverageDelta(scores) = IF m = 0 THEN g[0] ELSE [g[m] EXCEPT !.d = @ * m]
    BY <1>1, <1>3, <1>8 DEF AverageDelta
<1>11. g[0] = base /\ \A k \in 1 .. m : g[k] = Plus(g[k - 1], Minus(scores[k], scores[k + 1]))
    <2>1. 0 \in 0 .. m /\ \A k \in 1 .. m : k \in 0 .. m /\ k # 0
        OBVIOUS
    <2>2. \A k \in 0 .. m :
              g[k] = IF k = 0 THEN base ELSE Plus(g[k - 1], Minus(scores[k], scores[k + 1]))
        BY <1>9, Zenon
    <2> QED BY <2>1, <2>2, Zenon
<1>12. \A k \in 0 .. m : g[k] \in Fraction
    <2> DEFINE T == {k \in Nat : k <= m => g[k] \in Fraction}
    <2>1. 0 \in T
        BY <1>3, <1>11
    <2>2. ASSUME NEW k \in T PROVE k + 1 \in T
        <3>1. ASSUME k + 1 <= m PROVE g[k + 1] \in Fraction
            <4>1. k + 1 \in 1 .. m /\ k <= m /\ (k + 1) - 1 = k
                BY <3>1
            <4>2. PICK j \in 1 .. m, v \in Fraction : j = k + 1 /\ v = g[k]
                BY <4>1
            <4>3. g[j] = Plus(v, Minus(scores[j], scores[j + 1]))
                BY <1>11, <4>1, <4>2
            <4> QED BY <1>4, <4>2, <4>3
        <3> QED BY <3>1
    <2>3. T = Nat
        <3> T \subseteq Nat
            OBVIOUS
        <3> HIDE DEF T
        <3> QED BY <2>1, <2>2, Inductive
    <2> QED
        <3>1. ASSUME NEW k \in 0 .. m PROVE g[k] \in Fraction
            <4>1. k \in T
                BY <2>3
            <4> QED BY <4>1
        <3> QED BY <3>1
<1>13. g \in [0 .. m -> Fraction]
    BY <1>9, <1>12
<1> QED BY <1>1, <1>2, <1>3, <1>10, <1>11, <1>13

\* The average change times the number of changes is that from the oldest week to the newest.
SpansTheWeeks(delta, scores) ==
    LET span == Minus(scores[1], scores[Len(scores)])
    IN  delta.n * span.d * (IF Len(scores) = 1 THEN 1 ELSE Len(scores) - 1) = span.n * delta.d

LEMMA AverageSpans ==
    ASSUME NEW scores \in Seq(Fraction), Len(scores) # 0
    PROVE  SpansTheWeeks(AverageDelta(scores), scores)
<1>1. PICK m \in Nat : m = Len(scores) - 1 /\ Len(scores) = m + 1
    OBVIOUS
<1>2. \A k \in 1 .. m + 1 : scores[k] \in Fraction
    BY <1>1
<1>3. PICK g \in [0 .. m -> Fraction] :
          /\ g[0] = [n |-> 0, d |-> 1]
          /\ \A k \in 1 .. m : g[k] = Plus(g[k - 1], Minus(scores[k], scores[k + 1]))
          /\ AverageDelta(scores) = IF m = 0 THEN g[0] ELSE [g[m] EXCEPT !.d = @ * m]
    BY <1>1, <1>2, ChangesAddUp
<1>4. \A k \in 1 .. m + 1 : IsScore(scores[k])
    BY <1>2 DEF IsScore
<1> DEFINE T == {k \in Nat : k <= m => Equal(g[k], Minus(scores[1], scores[k + 1]))}
<1>5. 0 \in T
    <2>1. PICK a \in Int, b \in Nat \ {0} : scores[1] = [n |-> a, d |-> b] /\ IsScore(scores[1])
        <3>1. IsScore(scores[1])
            BY <1>1, <1>4
        <3> QED BY <3>1, Parts
    <2>2. Minus(scores[1], scores[1]) = [n |-> a * b + (-a) * b, d |-> b * b]
        BY <2>1, Difference
    <2>3. a * b + (-a) * b = 0
        BY <2>1
    <2>4. Equal([n |-> 0, d |-> 1], Minus(scores[1], scores[1]))
        BY <2>1, <2>2, <2>3 DEF Equal
    <2> QED BY <1>3, <2>4
<1>6. ASSUME NEW k \in T PROVE k + 1 \in T
    <2>1. ASSUME k + 1 <= m PROVE Equal(g[k + 1], Minus(scores[1], scores[k + 1 + 1]))
        <3>1. k \in 0 .. m /\ k + 1 \in 1 .. m /\ (k + 1) - 1 = k /\ k <= m
            BY <2>1
        <3>2. PICK s, t, u : /\ s = scores[1] /\ t = scores[k + 1] /\ u = scores[k + 1 + 1]
                             /\ IsScore(s) /\ IsScore(t) /\ IsScore(u)
            BY <1>4, <3>1
        <3>3. PICK x : x = g[k] /\ IsScore(x) /\ Equal(x, Minus(s, t))
            BY <1>2, <1>3, <3>1, <3>2 DEF IsScore
        <3>4. g[k + 1] = Plus(x, Minus(t, u))
            BY <1>3, <3>1, <3>2, <3>3
        <3> QED BY <3>2, <3>3, <3>4, OneChangeMore
    <2> QED BY <2>1
<1>7. T = Nat
    <2> T \subseteq Nat
        OBVIOUS
    <2> HIDE DEF T
    <2> QED BY <1>5, <1>6, Inductive
<1>8. Equal(g[m], Minus(scores[1], scores[m + 1]))
    <2>1. m \in T
        BY <1>7
    <2> QED BY <2>1
<1>9. PICK p \in Int, q \in Nat \ {0} : g[m] = [n |-> p, d |-> q]
    BY <1>3 DEF Fraction
<1>10. PICK a \in Int, b \in Nat \ {0} : Minus(scores[1], scores[m + 1]) = [n |-> a, d |-> b]
    <2>1. IsScore(Minus(scores[1], scores[m + 1]))
        BY <1>4, Difference
    <2> QED BY <2>1 DEF IsScore, Fraction
<1>11. p * b = a * q
    BY <1>8, <1>9, <1>10 DEF Equal
<1>12. PICK delta : delta = AverageDelta(scores)
    OBVIOUS
<1>13. PICK span : span = Minus(scores[1], scores[Len(scores)]) /\ span.n = a /\ span.d = b
    BY <1>1, <1>10
<1>14. CASE m = 0
    <2>1. delta = [n |-> p, d |-> q]
        BY <1>3, <1>9, <1>12, <1>14
    <2>2. p * b * 1 = a * q
        BY <1>9, <1>10, <1>11
    <2>3. Len(scores) = m + 1 /\ Len(scores) = 1
        BY <1>1, <1>14
    <2>4. delta.n = p /\ delta.d = q
        BY <2>1
    <2> QED BY <1>12, <1>13, <2>2, <2>3, <2>4 DEF SpansTheWeeks
<1>15. CASE m # 0
    <2>1. delta = [n |-> p, d |-> q * m]
        <3>1. delta = [g[m] EXCEPT !.d = @ * m]
            BY <1>3, <1>12, <1>15
        <3> QED BY <1>9, <3>1
    <2>2. p * b * m = a * (q * m)
        <3>1. (p * b) * m = (a * q) * m
            BY <1>11
        <3> QED BY <1>9, <1>10, <3>1
    <2>3. Len(scores) = m + 1 /\ Len(scores) # 1
        BY <1>1, <1>15
    <2>4. delta.n = p /\ delta.d = q * m /\ Len(scores) - 1 = m
        BY <1>1, <2>1
    <2> QED BY <1>12, <1>13, <2>2, <2>3, <2>4 DEF SpansTheWeeks
<1> QED BY <1>14, <1>15

\* What is said of a row x in a market whose newest score is s (services/decision_service.py).
Judgement(extra, x, scores) ==
    LET bias == symbol_bias(x.trend)
        aligned == alignment(bias, classify_regime(scores[1]))
    IN  /\ extra.bias = compute_bias(bias, aligned) /\ extra.alignment = aligned
        /\ extra.confidence = decision_confidence(aligned, bias, x.trend_cnt, x.rsi, scores[1])
        /\ extra.score = decision_score(aligned, bias, x.trend_cnt, x.rsi, scores[1])
        /\ extra.market = ForecastOf(scores)

\* High confidence is that of an aged trend along a strong market, and such a trend scores high.
LEMMA ConfidenceIsEarned ==
    ASSUME NEW aligned, NEW bias, NEW cnt, NEW rsi, NEW s, IsScore(s),
           decision_confidence(aligned, bias, cnt, rsi, s) = "high"
    PROVE  decision_score(aligned, bias, cnt, rsi, s) >= 73 * s.d
<1>1. PICK n \in Int, d \in Nat \ {0} : s = [n |-> n, d |-> d]
    BY Parts
<1>2. /\ bias # "neutral" /\ aligned = "aligned" /\ cnt >= 4
      /\ StrongAt(s, 30) /\ RsiConfirms(bias, rsi)
    BY DEF decision_confidence
<1>3. PICK m \in Nat : m = Magnitude(s)
    BY <1>1 DEF Magnitude
<1>4. 100 * m >= 30 * d
    BY <1>1, <1>2, <1>3 DEF StrongAt
<1>5. PICK regime \in Nat : regime = RegimePart(s) /\ 15 * d <= regime
    BY <1>1, <1>3, <1>4 DEF RegimePart
<1>6. PICK age \in {10, 15} : age = AgePart(cnt)
    BY <1>2 DEF AgePart
<1>7. PICK strength \in {8, 15} : strength = RsiPart(bias, rsi)
    BY <1>2 DEF RsiPart, RsiConfirms
<1>8. AlignmentPart(aligned) = 40
    BY <1>2 DEF AlignmentPart
<1>9. PICK raw : raw = RawScore(aligned, bias, cnt, rsi, s)
    OBVIOUS
<1>10. raw = (40 + age + strength) * d + regime
    BY <1>1, <1>5, <1>6, <1>7, <1>8, <1>9 DEF RawScore
<1>11. raw \in Nat /\ raw >= 73 * d
    BY <1>1, <1>5, <1>6, <1>7, <1>10
<1>12. decision_score(aligned, bias, cnt, rsi, s) = IF raw <= 100 * d THEN raw ELSE 100 * d
    BY <1>1, <1>2, <1>9 DEF decision_score
<1> QED BY <1>1, <1>11, <1>12

\* evaluate_symbol.
LEMMA SymbolIsJudged ==
    ASSUME Held, Asking("decision/evaluate", "weeks"), evaluate_symbol,
           ~Respond(404), ~Respond(503)
    PROVE  JudgedInTheMarketsWeek'
<1>0. Frame /\ MarketHeld
    BY DEF Held, MarketInv, Asking
<1>1. PICK scores : scores = compute_scores_by_week(found)
    OBVIOUS
<1>2. PICK s : s = scores[1] /\ IsScore(s)
    BY <1>0, <1>1, MarketScores
<1>3. ASSUME NEW x \in SymbolWeek(anchor), NEW extra, Judgement(extra, x, scores),
             Finish(<<x>>, extra)
      PROVE  JudgedInTheMarketsWeek'
    <2>1. answer'.week = anchor /\ answer'.rows = <<x>> /\ answer'.extra = extra
        BY <1>0, <1>3, Finished
    <2>2. answer'.rows[1].week = answer'.week
        BY <2>1 DEF SymbolWeek
    <2>3. PICK bias, aligned :
              /\ bias = symbol_bias(x.trend) /\ aligned = alignment(bias, classify_regime(s))
              /\ extra.bias = compute_bias(bias, aligned) /\ extra.alignment = aligned
              /\ extra.confidence = decision_confidence(aligned, bias, x.trend_cnt, x.rsi, s)
              /\ extra.score = decision_score(aligned, bias, x.trend_cnt, x.rsi, s)
        BY <1>2, <1>3 DEF Judgement
    <2>4. aligned = "aligned" => extra.bias \in {"strong_bullish", "strong_bearish"}
        BY <2>3 DEF alignment, compute_bias
    <2>5. extra.confidence = "high" => extra.score >= 73 * s.d
        <3>1. PICK cnt, rsi : cnt = x.trend_cnt /\ rsi = x.rsi
            OBVIOUS
        <3>2. ASSUME decision_confidence(aligned, bias, cnt, rsi, s) = "high"
              PROVE  decision_score(aligned, bias, cnt, rsi, s) >= 73 * s.d
            BY <1>2, <3>2, ConfidenceIsEarned
        <3> QED BY <2>3, <3>1, <3>2
    <2>6. extra.market.score = s
        BY <1>2, <1>3 DEF Judgement, ForecastOf
    <2> QED BY <2>1, <2>2, <2>3, <2>4, <2>5, <2>6 DEF JudgedInTheMarketsWeek
<1> DEFINE Told(x) ==
        LET bias == symbol_bias(x.trend)
            aligned == alignment(bias, classify_regime(scores[1]))
        IN  [bias |-> compute_bias(bias, aligned), alignment |-> aligned,
             confidence |-> decision_confidence(aligned, bias, x.trend_cnt, x.rsi, scores[1]),
             score |-> decision_score(aligned, bias, x.trend_cnt, x.rsi, scores[1]),
             market |-> ForecastOf(scores), notes |-> _signal_notes(x)]
<1>4. \E x \in SymbolWeek(anchor) : Finish(<<x>>, Told(x))
    BY <1>1, Zenon DEF evaluate_symbol
<1>5. \A x : Judgement(Told(x), x, scores)
    BY DEF Judgement
<1> HIDE DEF Told
<1> QED BY <1>3, <1>4, <1>5

\* market_regime_forecast.
LEMMA ForecastSpans ==
    ASSUME Held, Asking("regime/forecast", "weeks"), market_regime_forecast, ~Respond(503)
    PROVE  ForecastSpansTheWeeks'
<1>0. Frame /\ MarketHeld
    BY DEF Held, MarketInv, Asking
<1>1. PICK scores : scores = compute_scores_by_week(found)
    OBVIOUS
<1>2. scores \in Seq(Fraction) /\ Len(scores) # 0
    <2>1. PICK weeks \in Seq(EligibleWeeks(RegimeFrom)) : weeks = found /\ Len(weeks) # 0
        BY <1>0 DEF MarketHeld
    <2>2. PICK m \in Nat : m = Len(weeks) /\ DOMAIN weeks = 1 .. m
        BY <2>1
    <2>3. /\ DOMAIN scores = 1 .. m /\ Len(scores) = m
          /\ \A i \in 1 .. m : scores[i] \in Fraction
        BY <1>0, <1>1, <2>1, <2>2, MarketScores DEF IsScore
    <2>4. scores = [i \in 1 .. m |-> scores[i]]
        <3>1. PICK S : S = Scored(found)
            OBVIOUS
        <3>2. scores = [i \in DOMAIN S |-> compute_regime_score(WeekRows(S[i]))]
            BY <1>1, <3>1 DEF compute_scores_by_week
        <3> QED BY <2>3, <3>2
    <2> QED BY <2>1, <2>2, <2>3, <2>4
<1>3. PICK extra : extra = ForecastOf(scores)
    OBVIOUS
<1>4. Finish(<<>>, extra)
    BY <1>1, <1>3, Zenon DEF market_regime_forecast
<1>5. answer'.extra = extra
    BY <1>0, <1>4, Finished
<1>6. extra.scores = scores /\ extra.forecast.delta = AverageDelta(scores)
    BY <1>3 DEF ForecastOf, compute_forecast_signals
<1>7. SpansTheWeeks(AverageDelta(scores), scores)
    BY <1>2, AverageSpans
<1> QED BY <1>5, <1>6, <1>7 DEF ForecastSpansTheWeeks, SpansTheWeeks

\* No estimate that a connection sees is newer than the newest week it finds.
LEMMA EstimatesAreNotNewer ==
    ASSUME Frame, NEW r \in Rows("means") PROVE r.week <= LatestWeek(EligibleRows(0))
<1>1. Loaded(Snapshot)
    BY SnapshotIsOfTheCall
<1>2. PICK b \in Snapshot : "means" \in DOMAIN Batch[b].rows /\ r \in Batch[b].rows["means"]
    BY DEF Rows, RowsAt
<1>3. b \in BatchId /\ Batch[b].needs \subseteq Snapshot
    BY <1>1, <1>2 DEF Loaded
<1>4. PICK c \in Batch[b].needs :
          /\ "data" \in DOMAIN Batch[c].rows
          /\ \E x \in Classified(Equities(Batch[c].rows["data"])) : r.week <= x.week
    BY <1>2, <1>3, EstimatesAssumption
<1>5. PICK x \in Classified(Equities(Batch[c].rows["data"])) : r.week <= x.week
    BY <1>4
<1>6. x \in Rows("data")
    BY <1>3, <1>4, <1>5 DEF Rows, RowsAt, Classified, Equities
<1>7. x \in EligibleRows(0)
    BY <1>5, <1>6 DEF EligibleRows, Between, Classified, Equities
<1>8. PICK S : S = EligibleRows(0) /\ AreWeekly(S)
    BY EligibleWeeksAre
<1>9. x.week <= LatestWeek(S) /\ LatestWeek(S) \in Nat /\ x.week \in Nat
    BY <1>7, <1>8, LatestIsNewest DEF AreWeekly
<1>10. r.week \in Nat
    BY RowsAreWeekly DEF AreWeekly, Table
<1> QED BY <1>5, <1>8, <1>9, <1>10

\* The estimates that break ties are of the portfolio's week.
LEMMA EstimatesAreCurrent ==
    ASSUME Frame, MarketHeld, query.path = "portfolio/construct", NEW r \in Estimates(anchor)
    PROVE  r \in Rows("means") /\ r.week = anchor
<1>1. PICK means : means = InPortfolioScope(Rows("means"))
    OBVIOUS
<1>2. /\ StimIsCurrent(means, anchor) /\ r \in means /\ r.week = LatestWeek(means)
    BY <1>1 DEF Estimates
<1>3. r \in Rows("means")
    BY <1>1, <1>2 DEF InPortfolioScope
<1>4. anchor = LatestWeek(EligibleRows(0))
    BY DEF MarketHeld, RegimeFrom
<1>5. r.week <= anchor /\ anchor <= r.week
    BY <1>2, <1>3, <1>4, EstimatesAreNotNewer DEF StimIsCurrent
<1>6. r.week \in Nat /\ anchor \in Nat
    BY <1>3, RowsAreWeekly, FrameFacts DEF AreWeekly, Table
<1> QED BY <1>3, <1>5, <1>6

\* A candidate that is ranked by an estimate has one.
LEMMA RankedByEstimates ==
    ASSUME NEW S, NEW estimates, NEW s, NEW c \in Candidates(S, estimates, s), c.percentile # -1
    PROVE  \E r \in estimates : r.symbol = c.judged.symbol /\ r.exchange = c.judged.exchange
<1>1. PICK percentile :
          /\ \A x \in S : percentile[x] # -1 => x \in Covered(S, estimates)
          /\ Candidates(S, estimates, s) =
                {[judged |-> Judge(x, s), score |-> Judge(x, s).score, id |-> x.id,
                  week |-> x.week, percentile |-> percentile[x]] : x \in S}
    BY CandidatesHavePercentiles
<1>2. PICK x \in S :
          c = [judged |-> Judge(x, s), score |-> Judge(x, s).score, id |-> x.id, week |-> x.week,
               percentile |-> percentile[x]]
    BY <1>1
<1>3. x \in Covered(S, estimates) /\ c.judged = Judge(x, s)
    BY <1>1, <1>2
<1>4. PICK r \in estimates : r.symbol = x.symbol /\ r.exchange = x.exchange
    BY <1>3 DEF Covered, EstimatesOf
<1>5. Judge(x, s).symbol = x.symbol /\ Judge(x, s).exchange = x.exchange
    BY DEF Judge
<1> QED BY <1>3, <1>4, <1>5

\* construct_portfolio.
LEMMA TiesAreBroken ==
    ASSUME Held, Asking("portfolio/construct", "weeks"), construct_portfolio, ~Respond(422)
    PROVE  TiebreakIsCurrent'
<1>0. Frame /\ MarketHeld /\ query.path = "portfolio/construct"
    BY DEF Held, MarketInv, Asking
<1>1. PICK S, estimates, s, rows :
          Constructs(S, estimates, s, rows) /\ UNCHANGED <<committed, query, first>>
    BY <1>0, ConstructAnswers
<1>2. /\ estimates = Estimates(anchor) /\ answer'.week = anchor
      /\ matched' = Candidates(S, estimates, s)
    BY <1>1 DEF Constructs
<1>3. ASSUME NEW c \in Candidates(S, estimates, s), c.percentile # -1
      PROVE  \E r \in RowsAt(committed, "means") :
                r.week = anchor /\ r.symbol = c.judged.symbol /\ r.exchange = c.judged.exchange
    <2>1. PICK r \in estimates : r.symbol = c.judged.symbol /\ r.exchange = c.judged.exchange
        BY <1>3, RankedByEstimates
    <2>2. r \in Rows("means") /\ r.week = anchor
        BY <1>0, <1>2, <2>1, EstimatesAreCurrent
    <2>3. r \in RowsAt(committed, "means")
        BY <1>0, <2>2, RowsCommitted
    <2> QED BY <2>1, <2>2, <2>3
<1>4. committed' = committed
    BY <1>1
<1> QED BY <1>2, <1>3, <1>4 DEF TiebreakIsCurrent

TellingOfWeeks == {"decision/evaluate", "portfolio/construct", "regime/forecast"}

LEMMA NextKeepsJudgements ==
    ASSUME Held, JudgementsAreOfTheirWeeks, [Next]_vars PROVE JudgementsAreOfTheirWeeks'
<1>0. Frame
    BY DEF Held
<1>1. ASSUME UNCHANGED <<committed, query, pc, answer, matched>> PROVE JudgementsAreOfTheirWeeks'
    <2>1. JudgedInTheMarketsWeek' /\ ForecastSpansTheWeeks'
        BY <1>1 DEF JudgementsAreOfTheirWeeks, JudgedInTheMarketsWeek, ForecastSpansTheWeeks, Answered
    <2>2. TiebreakIsCurrent'
        BY <1>1 DEF JudgementsAreOfTheirWeeks, TiebreakIsCurrent, Answered
    <2> QED BY <2>1, <2>2 DEF JudgementsAreOfTheirWeeks
<1>2. ASSUME ~Answered' \/ query'.path \notin TellingOfWeeks PROVE JudgementsAreOfTheirWeeks'
    BY <1>2 DEF JudgementsAreOfTheirWeeks, JudgedInTheMarketsWeek, ForecastSpansTheWeeks,
                TiebreakIsCurrent, TellingOfWeeks
<1>3. CASE HandlerNext
    <2>1. UNCHANGED query
        BY <1>0, <1>3, HandlerKeepsRequest
    <2>2. CASE FreeStep
        BY <1>2, <2>1, <2>2 DEF FreeStep, FreePath, ModelPath, TellingOfWeeks
    <2>3. CASE Step
        <3>1. CASE pc' # "done" \/ GivesUp
            BY <1>2, <3>1 DEF GivesUp, Answered
        <3>2. CASE AnswersHistory \/ Asking("stim/history", "gaps")
            <4>1. query.path \notin TellingOfWeeks
                BY <3>2 DEF AnswersHistory, Asking, TellingOfWeeks
            <4> QED BY <1>2, <2>1, <4>1
        <3>3. CASE ~GivesUp /\ pc' = "done" /\ AnswersLatest
            <4>1. ~Respond(404) /\ ~Respond(422) /\ ~Respond(503)
                BY <1>0, <3>3, RespondGivesUp DEF Status
            <4>2. CASE Asking("portfolio/construct", "weeks") /\ construct_portfolio
                <5>1. TiebreakIsCurrent'
                    BY <4>1, <4>2, TiesAreBroken
                <5> QED BY <2>1, <4>2, <5>1
                        DEF Asking, JudgementsAreOfTheirWeeks, JudgedInTheMarketsWeek,
                            ForecastSpansTheWeeks
            <4>3. CASE Asking("decision/evaluate", "weeks") /\ evaluate_symbol
                <5>1. JudgedInTheMarketsWeek'
                    BY <4>1, <4>3, SymbolIsJudged
                <5> QED BY <2>1, <4>3, <5>1
                        DEF Asking, JudgementsAreOfTheirWeeks, TiebreakIsCurrent,
                            ForecastSpansTheWeeks
            <4>4. CASE Asking("regime/forecast", "weeks") /\ market_regime_forecast
                <5>1. ForecastSpansTheWeeks'
                    BY <4>1, <4>4, ForecastSpans
                <5> QED BY <2>1, <4>4, <5>1
                        DEF Asking, JudgementsAreOfTheirWeeks, TiebreakIsCurrent,
                            JudgedInTheMarketsWeek
            <4>5. CASE query.path \notin TellingOfWeeks
                BY <1>2, <2>1, <4>5
            <4> QED BY <3>3, <4>2, <4>3, <4>4, <4>5 DEF AnswersLatest, Asking, TellingOfWeeks
        <3> QED BY <2>3, <3>1, <3>2, <3>3 DEF Step
    <2> QED BY <1>0, <1>3, <2>2, <2>3, HandlerLeads
<1>4. CASE UNCHANGED vars
    BY <1>1, <1>4 DEF vars
<1>5. CASE \E b \in BatchId : Load(b)
    BY <1>2, <1>5 DEF Load, Answered
<1>6. CASE PaymentRefused \/ DatabaseFails
    BY <1>6, <1>0, <1>2, RespondGivesUp
       DEF PaymentRefused, DatabaseFails, GivesUp, Answered, Status
<1>7. CASE Validate \/ CallHandler
    <2>1. Respond(400) \/ pc' \in {"admitted", "called"}
        BY <1>7, Zenon DEF Validate, CallHandler
    <2>2. Respond(400) => GivesUp
        BY <1>0, RespondGivesUp DEF Status
    <2> QED BY <1>2, <2>1, <2>2 DEF GivesUp, Answered
<1> QED BY <1>3, <1>4, <1>5, <1>6, <1>7 DEF Next

\* The weeks that a judgement rests on are those it speaks of: a symbol is judged in the week of
\* the newest market, with high confidence only where the score is high too; ties of a portfolio
\* are broken by estimates of its own week; a forecast spans its weeks (routers/decision.py,
\* market.py, portfolio.py).
THEOREM JudgementsAreCurrent == Spec => []JudgementsAreOfTheirWeeks
<1>1. Init => JudgementsAreOfTheirWeeks
    BY DEF Init, JudgementsAreOfTheirWeeks, JudgedInTheMarketsWeek, ForecastSpansTheWeeks,
           TiebreakIsCurrent, Answered
<1>2. Held /\ JudgementsAreOfTheirWeeks /\ [Next]_vars => JudgementsAreOfTheirWeeks'
    BY NextKeepsJudgements
<1> QED BY <1>1, <1>2, HeldAlways, PTL DEF Spec

-----------------------------------------------------------------------------
(* What is derived from the weekly rows (ListRoutes, BreadthRoutes).       *)

\* A week that is whole stays whole.
LEMMA StillWhole ==
    ASSUME NEW c, NEW d, c \subseteq d, d \subseteq BatchId, NEW t, NEW week, WholeAt(c, t, week)
    PROVE  {y \in RowsAt(d, t) : y.week = week} = {y \in RowsAt(BatchId, t) : y.week = week}
<1>1. RowsAt(c, t) \subseteq RowsAt(d, t) /\ RowsAt(d, t) \subseteq RowsAt(BatchId, t)
    BY RowsAtGrows
<1> QED BY <1>1 DEF WholeAt

\* The tables a selection is published from.
ListTable == {"select", "data", "means"}

\* A week that has selections is whole in every table they are made of.
LEMMA SelectedWeekIsWhole ==
    ASSUME Frame, NEW x \in Rows("select"), NEW t \in ListTable
    PROVE  {y \in Rows(t) : y.week = x.week} = {y \in RowsAt(BatchId, t) : y.week = x.week}
<1>1. Snapshot \subseteq BatchId /\ Loaded(Snapshot)
    BY SnapshotIsOfTheCall
<1>2. PICK b \in Snapshot : "select" \in DOMAIN Batch[b].rows /\ x \in Batch[b].rows["select"]
    BY DEF Rows, RowsAt
<1>3. {b} \cup Batch[b].needs \subseteq Snapshot
    BY <1>1, <1>2 DEF Loaded
<1>4. WholeAt({b} \cup Batch[b].needs, t, x.week)
    BY <1>1, <1>2, SelectionsAssumption DEF ListTable
<1> QED BY <1>1, <1>3, <1>4, StillWhole DEF Rows

\* The published list of a week, when every batch is in.
Publishable(week) ==
    {x \in OnExchange(RowsAt(BatchId, "select"), query.exchange) :
        /\ x.week = week /\ x.prob13wk >= 55
        /\ query.csOnly => \E y \in Matches(RowsAt(BatchId, "data"), x) : y.type = "CS"
        /\ \E r \in Matches(RowsAt(BatchId, "means"), x) :
              r.x4wk1 > 0 /\ r.x13wk1 > 219 /\ r.x40wk1 > 645}

LEMMA PublishedIsPublishable ==
    ASSUME Frame, NEW week \in Nat \ {0}, \E x \in Rows("select") : x.week = week
    PROVE  Between(Published(Selected(query, Omitted, query.exchange)), week, week)
               = Publishable(week)
<1>1. \A t \in ListTable :
          {y \in Rows(t) : y.week = week} = {y \in RowsAt(BatchId, t) : y.week = week}
    BY SelectedWeekIsWhole
<1>2. \A x : x.week = week =>
          /\ x \in Rows("select") <=> x \in RowsAt(BatchId, "select")
          /\ Matches(Rows("data"), x) = Matches(RowsAt(BatchId, "data"), x)
          /\ Matches(Rows("means"), x) = Matches(RowsAt(BatchId, "means"), x)
    BY <1>1 DEF ListTable, Matches
<1>3. \A x \in Rows("select") : week <= x.week /\ x.week <= week <=> x.week = week
    BY RowsAreWeekly DEF AreWeekly, Table
<1>4. ASSUME NEW x
      PROVE  x \in Between(Published(Selected(query, Omitted, query.exchange)), week, week)
                 <=> x \in Publishable(week)
    <2> DEFINE Meant(r) == r.x4wk1 > 0 /\ r.x13wk1 > 219 /\ r.x40wk1 > 645
    <2>1. x \in Between(Published(Selected(query, Omitted, query.exchange)), week, week)
              <=> /\ x \in Rows("select") /\ x.week = week /\ x.prob13wk >= 55
                  /\ query.exchange = Omitted \/ x.exchange = query.exchange
                  /\ query.csOnly => \E y \in Matches(Rows("data"), x) : y.type = "CS"
                  /\ \E r \in Matches(Rows("means"), x) : Meant(r)
        BY <1>3 DEF Between, Published, Selected, OnExchange
    <2>2. x \in Publishable(week)
              <=> /\ x \in RowsAt(BatchId, "select") /\ x.week = week /\ x.prob13wk >= 55
                  /\ query.exchange = Omitted \/ x.exchange = query.exchange
                  /\ query.csOnly => \E y \in Matches(RowsAt(BatchId, "data"), x) : y.type = "CS"
                  /\ \E r \in Matches(RowsAt(BatchId, "means"), x) : Meant(r)
        BY DEF Publishable, OnExchange
    <2> HIDE DEF Meant
    <2> QED BY <1>2, <2>1, <2>2
<1> QED BY <1>4

\* The rows of y's week and bucket among S.
Together(S, level, y) == {x \in S : x.week = y.week /\ x[level] = y[level]}

\* GROUP BY: each row stands for the bucket of one of those it is aggregated from.
LEMMA GroupedBuckets ==
    ASSUME NEW S, NEW level
    PROVE  \A r : r \in _breadth_sql(S, level) <=>
               \E y \in S : r = Breadth(y.week, y[level], Together(S, level, y))
<1>1. PICK G : G = {<<x.week, x[level]>> : x \in S}
    OBVIOUS
<1>2. PICK T : T = _breadth_sql(S, level)
    OBVIOUS
<1>3. PICK row : /\ T = {row[g] : g \in G}
                 /\ \A g \in G : row[g] = Breadth(g[1], g[2], {x \in S : x.week = g[1] /\ x[level] = g[2]})
    <2> DEFINE fn == [g \in G |-> Breadth(g[1], g[2], {x \in S : x.week = g[1] /\ x[level] = g[2]})]
    <2>1. \A g \in G : fn[g] = Breadth(g[1], g[2], {x \in S : x.week = g[1] /\ x[level] = g[2]})
        OBVIOUS
    <2>2. T = {fn[g] : g \in G}
        BY <1>1, <1>2, <2>1, Zenon DEF _breadth_sql
    <2> HIDE DEF fn
    <2> QED BY <2>1, <2>2
<1>4. ASSUME NEW y \in S
      PROVE  /\ <<y.week, y[level]>> \in G
             /\ row[<<y.week, y[level]>>] = Breadth(y.week, y[level], Together(S, level, y))
    <2>1. PICK g : g = <<y.week, y[level]>>
        OBVIOUS
    <2>2. g \in G /\ g[1] = y.week /\ g[2] = y[level]
        BY <1>1, <2>1
    <2>3. {x \in S : x.week = g[1] /\ x[level] = g[2]} = Together(S, level, y)
        BY <2>2 DEF Together
    <2>4. row[g] = Breadth(g[1], g[2], {x \in S : x.week = g[1] /\ x[level] = g[2]})
        BY <1>3, <2>2
    <2>5. row[g] = Breadth(y.week, y[level], Together(S, level, y))
        BY <2>2, <2>3, <2>4
    <2> QED BY <2>1, <2>2, <2>5
<1>5. ASSUME NEW g \in G PROVE \E y \in S : row[g] = Breadth(y.week, y[level], Together(S, level, y))
    BY <1>1, <1>4
<1>6. ASSUME NEW r \in T PROVE \E y \in S : r = Breadth(y.week, y[level], Together(S, level, y))
    BY <1>3, <1>5
<1>7. ASSUME NEW y \in S PROVE Breadth(y.week, y[level], Together(S, level, y)) \in T
    BY <1>3, <1>4
<1> QED BY <1>2, <1>6, <1>7, Zenon

\* A row aggregated from the rows of its week is the same, whatever there is of other weeks.
LEMMA AggregateOfAWeek ==
    ASSUME NEW S, NEW T, NEW level, NEW week,
           {x \in S : x.week = week} = {x \in T : x.week = week},
           NEW r \in _breadth_sql(S, level), r.week = week
    PROVE  r \in _breadth_sql(T, level)
<1>1. PICK y \in S : r = Breadth(y.week, y[level], Together(S, level, y))
    BY GroupedBuckets
<1>2. y.week = week
    BY <1>1 DEF Breadth
<1>3. y \in T
    BY <1>1, <1>2
<1>4. Together(S, level, y) = Together(T, level, y)
    BY <1>2 DEF Together
<1> QED BY <1>1, <1>3, <1>4, GroupedBuckets

\* What _where_clause admits.
InRawScope(q, x) ==
    /\ q.exchange \notin {"*", Omitted} => x.exchange = q.exchange
    /\ Population(q) = "cs" => x.type = "CS"
    /\ Population(q) = "equities" => x.type \in {"CS", "UN"}
    /\ (q.exchange = "*" \/ (q.exchange = Omitted /\ Population(q) # "all")) => x.exchange \in Canonical
    /\ q.minPrice # Omitted => x.price >= q.minPrice
    /\ ~q.unknown => x.sector # Omitted

\* The exchange a summary is stored under.
StoredExchange(q) == IF q.exchange = Omitted THEN "*" ELSE q.exchange

\* A request that the summary can answer has the summary's scope.
LEMMA ScopeIsTheSummarys ==
    ASSUME NEW q \in Query, _use_sector_summary(q), NEW S
    PROVE  {x \in S : InRawScope(q, x)} = SummaryScope(S, SummaryType(q), StoredExchange(q))
<1>1. /\ q.level = "sector" /\ Population(q) # "all" /\ ~q.unknown /\ q.minPrice = Omitted
      /\ q.exchange \in Canonical \cup {"*", Omitted}
    BY DEF _use_sector_summary
<1>2. Population(q) \in {"equities", "cs"}
    BY <1>1, QueryAssumption DEF Population, Legacy
<1>3. SummaryType(q) = (IF Population(q) = "equities" THEN "EQ" ELSE "CS")
    BY DEF SummaryType
<1>4. q.exchange # Omitted => (StoredExchange(q) = "*" <=> q.exchange = "*")
    BY DEF StoredExchange
<1>5. \A x : InRawScope(q, x) <=>
          /\ x.sector # Omitted
          /\ IF SummaryType(q) = "EQ" THEN x.type \in {"CS", "UN"} ELSE x.type = SummaryType(q)
          /\ IF StoredExchange(q) = "*" THEN x.exchange \in Canonical ELSE x.exchange = StoredExchange(q)
    BY <1>1, <1>2, <1>3 DEF InRawScope, StoredExchange
<1> QED BY <1>5 DEF SummaryScope

\* A row of the summary is what the weekly rows of its week give.
LEMMA SummaryRowIsExact ==
    ASSUME Frame, _use_sector_summary(query), NEW x \in Summary(query)
    PROVE  Stored(x) \in _breadth_sql({y \in RowsAt(committed, "data") : InRawScope(query, y)}, query.level)
<1>1. Snapshot \subseteq committed /\ committed \subseteq BatchId /\ Loaded(Snapshot) /\ query \in Query
    BY SnapshotIsOfTheCall, FrameFacts
<1>2. x \in Rows("shadow") /\ x.type = SummaryType(query) /\ x.exchange = StoredExchange(query)
    BY DEF Summary, Materialized, StoredExchange
<1>3. PICK b \in Snapshot : "shadow" \in DOMAIN Batch[b].rows /\ x \in Batch[b].rows["shadow"]
    BY <1>2 DEF Rows, RowsAt
<1>4. PICK c : c = Batch[b].needs
    OBVIOUS
<1>5. c \subseteq committed
    BY <1>1, <1>3, <1>4 DEF Loaded
<1>6. /\ WholeAt(c, "data", x.week)
      /\ x.row \in _breadth_sql(SummaryScope(RowsAt(c, "data"), x.type, x.exchange), "sector")
    BY <1>1, <1>3, <1>4, SummaryAssumption
<1>7. x.row.week = x.week
    BY <1>1, <1>3, RowsAssumption DEF RowsAt
<1>8. {y \in RowsAt(c, "data") : y.week = x.week} = {y \in RowsAt(committed, "data") : y.week = x.week}
    BY <1>1, <1>5, <1>6, StillWhole
<1>9. PICK S : S = SummaryScope(RowsAt(c, "data"), SummaryType(query), StoredExchange(query))
    OBVIOUS
<1>10. PICK T : T = SummaryScope(RowsAt(committed, "data"), SummaryType(query), StoredExchange(query))
    OBVIOUS
<1>11. {y \in S : y.week = x.week} = {y \in T : y.week = x.week}
    BY <1>8, <1>9, <1>10 DEF SummaryScope
<1>12. x.row \in _breadth_sql(T, "sector")
    BY <1>2, <1>6, <1>7, <1>9, <1>11, AggregateOfAWeek
<1>13. query.level = "sector"
    BY DEF _use_sector_summary
<1> QED BY <1>1, <1>10, <1>12, <1>13, ScopeIsTheSummarys DEF Stored

\* The summary answers whom it can answer: all of those that give no dates, and no one else.
FromSummary ==
    /\ source = "shadow" => _use_sector_summary(query)
    /\ _use_sector_summary(query) /\ Bare(query) => source = "shadow"

\* What a handler knows of its source, and of its week, before it reads the rows.
DerivedInv ==
    /\ query.path \in BreadthPath /\ pc = "ranged" => _use_sector_summary(query) /\ ~Bare(query)
    /\ query.path \in BreadthPath /\ pc = "anchored" => FromSummary
    /\ Asking("published/latest", "anchored") => \E x \in Rows("select") : x.week = anchor
    /\ DerivedIsExact

\* BreadthRange, BreadthAnchor and BreadthRaw.
LEMMA SourceIsChosen ==
    ASSUME DerivedInv, query.path \in BreadthPath, BreadthRange \/ BreadthAnchor \/ BreadthRaw
    PROVE  /\ pc' = "ranged" => _use_sector_summary(query) /\ ~Bare(query)
           /\ pc' = "anchored" => /\ source' = "shadow" => _use_sector_summary(query)
                                  /\ _use_sector_summary(query) /\ Bare(query) => source' = "shadow"
<1> USE DEF ResolveWeek, Respond
<1>1. CASE BreadthRange
    <2>1. _use_sector_summary(query) /\ ~Bare(query)
        BY <1>1 DEF BreadthRange
    <2> QED BY <2>1
<1>2. CASE BreadthAnchor
    <2>1. _use_sector_summary(query)
        BY <1>2 DEF BreadthAnchor, AtBreadth, DerivedInv
    <2>2. pc' = "done" \/ (pc' = "anchored" /\ source' = "shadow")
        BY <1>2, Zenon DEF BreadthAnchor
    <2> QED BY <2>1, <2>2
<1>3. CASE BreadthRaw
    <2>1. ~_use_sector_summary(query)
        BY <1>3 DEF BreadthRaw
    <2>2. pc' = "done" \/ (pc' = "anchored" /\ source' = "raw")
        BY <1>3, Zenon DEF BreadthRaw
    <2> QED BY <2>1, <2>2
<1> QED BY <1>1, <1>2, <1>3

\* The week of the published list is that of a selection.
LEMMA SelectionIsFound ==
    ASSUME Frame, pc = "called", SelectionWeek("published/latest"), pc' = "anchored"
    PROVE  (\E x \in Rows("select") : x.week = anchor)'
<1>1. ~Respond(404)
    BY DEF Respond
<1>2. Rows("select") # {} /\ anchor' = LatestWeek(Rows("select")) /\ UNCHANGED <<committed, view>>
    BY <1>1 DEF SelectionWeek, ResolveWeek, Static
<1>3. AreWeekly(Rows("select"))
    BY RowsAreWeekly DEF Table
<1>4. \E x \in Rows("select") : x.week = anchor'
    BY <1>2, <1>3, LatestIsNewest
<1>5. Rows("select")' = Rows("select")
    BY <1>2 DEF Rows, Snapshot, RowsAt
<1> QED BY <1>4, <1>5

\* selections_published_latest.
LEMMA PublishedExactly ==
    ASSUME Frame, DerivedInv, Asking("published/latest", "anchored"), selections_published_latest
    PROVE  PublishedIsWhole'
<1>1. \E x \in Rows("select") : x.week = anchor
    BY DEF DerivedInv
<1>2. anchor \in Nat \ {0}
    BY <1>1, RowsAreWeekly, FrameFacts DEF Table, Dated
<1>3. PICK S : S = Between(Published(Selected(query, Omitted, query.exchange)), anchor, anchor)
    OBVIOUS
<1>4. S = Publishable(anchor)
    BY <1>1, <1>2, <1>3, PublishedIsPublishable
<1>5. SendRows(S, ByProb, query.limit, anchor)
    BY <1>3 DEF selections_published_latest
<1>6. IsFiniteSet(S)
    <2>1. S \subseteq Rows("select")
        BY <1>3 DEF Between, Published, Selected, OnExchange
    <2> QED BY <2>1, SelectionIsWeekly DEF AreWeekly, Table
<1>7. answer'.week = anchor /\ matched' = S /\ query' = query
    BY <1>5, <1>6, FrameFacts, RowsSent
<1>8. Publishable(answer'.week) = S
    BY <1>4, <1>7
<1>9. Publishable(answer.week)' = Publishable(answer'.week)
    BY <1>7 DEF Publishable
<1>10. PublishedIsWhole' <=> ((Answered /\ query.path = "published/latest")' =>
           Cardinality(matched') = Cardinality(Publishable(answer.week)'))
    BY DEF PublishedIsWhole, Publishable
<1> QED BY <1>7, <1>8, <1>9, <1>10

\* The rows of breadth_sector_latest and breadth_sector_history.
LEMMA SummarisedExactly ==
    ASSUME Frame, FromSummary, NEW start, NEW end, UNCHANGED <<committed, query, source>>,
           view' = Omitted, matched' = BreadthRows(start, end)
    PROVE  SummaryIsExact' /\ CanonicalFromSummary'
<1>1. CanonicalFromSummary'
    BY DEF CanonicalFromSummary, FromSummary
<1>2. PICK T : T = {y \in RowsAt(committed, "data") : InRawScope(query, y)}
    OBVIOUS
<1>3. RawScope(query)' = T
    <2>1. Rows("data")' = RowsAt(committed, "data")
        BY DEF Rows, Snapshot, RowsAt
    <2>2. RawScope(query)' = {y \in Rows("data")' : InRawScope(query', y)}
        BY DEF RawScope, InRawScope
    <2> QED BY <1>2, <2>1, <2>2
<1>4. ASSUME source = "shadow" PROVE matched' \subseteq _breadth_sql(T, query.level)
    <2>1. \A x \in Summary(query) : Stored(x) \in _breadth_sql(T, query.level)
        BY <1>2, <1>4, SummaryRowIsExact DEF FromSummary
    <2>2. matched' = {Stored(x) : x \in Between(Summary(query), start, end)}
        BY <1>4 DEF BreadthRows
    <2>3. Between(Summary(query), start, end) \subseteq Summary(query)
        BY DEF Between
    <2> QED BY <2>1, <2>2, <2>3
<1>5. SummaryIsExact' <=> ((Answered /\ query.path \in BreadthPath /\ source = "shadow")' =>
                              matched' \subseteq _breadth_sql(RawScope(query)', query.level'))
    BY DEF SummaryIsExact
<1> QED BY <1>1, <1>3, <1>4, <1>5

\* A step that answers nothing derived, and leaves what is known before an answer.
LEMMA AnswersNothingDerived ==
    ASSUME ~Answered' \/ query'.path \notin BreadthPath \cup {"published/latest"}
    PROVE  DerivedIsExact'
BY DEF DerivedIsExact, PublishedIsWhole, SummaryIsExact, CanonicalFromSummary

\* A handler that is not one of these, or that does not go on to read, knows nothing derived.
LEMMA KnowsNothingDerived ==
    ASSUME DerivedIsExact', pc' \notin {"ranged", "anchored"}
                            \/ query'.path \notin BreadthPath \cup {"published/latest"}
    PROVE  DerivedInv'
BY DEF DerivedInv, Asking

LEMMA HandlerKeepsDerived == ASSUME Frame, DerivedInv, HandlerNext PROVE DerivedInv'
<1>0. query' = query /\ committed' = committed
    BY HandlerKeepsRequest
<1>1. PICK D : D = BreadthPath \cup {"published/latest"}
    OBVIOUS
<1>2. ASSUME query.path \notin D PROVE DerivedInv'
    BY <1>0, <1>1, <1>2, AnswersNothingDerived, KnowsNothingDerived
<1>3. CASE FreeStep
    BY <1>1, <1>2, <1>3 DEF FreeStep, FreePath, ModelPath, BreadthPath
<1>4. CASE Step /\ query.path \in D
    <2> USE <1>0, <1>1, <1>4
    <2>1. CASE GivesUp
        BY <2>1, AnswersNothingDerived, KnowsNothingDerived DEF GivesUp, Answered
    <2>2. CASE pc' \in {"ranged", "anchored"} /\ FindsWeek
        <3>1. ~Answered'
            BY <2>2 DEF Answered
        <3>2. CASE query.path \in BreadthPath
            <4>1. BreadthRange \/ BreadthAnchor \/ BreadthRaw
                BY <2>2, <3>2 DEF FindsWeek, Asking, BreadthPath
            <4>2. /\ pc' = "ranged" => _use_sector_summary(query) /\ ~Bare(query)
                  /\ pc' = "anchored" =>
                        /\ source' = "shadow" => _use_sector_summary(query)
                        /\ _use_sector_summary(query) /\ Bare(query) => source' = "shadow"
                BY <3>2, <4>1, SourceIsChosen
            <4>3. DerivedIsExact'
                BY <3>1, AnswersNothingDerived
            <4> QED BY <3>2, <4>2, <4>3 DEF DerivedInv, FromSummary, Asking, BreadthPath
        <3>3. CASE query.path = "published/latest"
            <4>1. pc = "called" /\ SelectionWeek("published/latest")
                BY <2>2, <3>3 DEF FindsWeek, Asking, BreadthPath
            <4>2. pc' = "anchored"
                BY <2>2, <4>1, Zenon DEF SelectionWeek, Respond, ResolveWeek
            <4>3. (\E x \in Rows("select") : x.week = anchor)'
                BY <4>1, <4>2, SelectionIsFound
            <4>4. DerivedIsExact'
                BY <3>1, AnswersNothingDerived
            <4> QED BY <3>3, <4>3, <4>4 DEF DerivedInv, BreadthPath
        <3> QED BY <3>2, <3>3
    <2>3. CASE pc' = "done" /\ Asking("published/latest", "anchored") /\ selections_published_latest
        <3>1. PublishedIsWhole'
            BY <2>3, PublishedExactly
        <3>2. DerivedIsExact'
            BY <2>3, <3>1 DEF DerivedIsExact, SummaryIsExact, CanonicalFromSummary, Asking, BreadthPath
        <3> QED BY <2>3, <3>2, KnowsNothingDerived
    <2>4. CASE pc' \in {"gaps", "done"} /\ query.path \in BreadthPath /\ pc = "anchored"
               /\ (breadth_sector_latest \/ breadth_sector_history)
        <3>1. \E start, end : matched' = BreadthRows(start, end) /\ UNCHANGED source /\ view' = Omitted
            <4>1. CASE breadth_sector_latest
                BY <4>1, Zenon DEF breadth_sector_latest, SendRows
            <4>2. CASE breadth_sector_history
                BY <4>2, Zenon DEF breadth_sector_history, SendHistory
            <4> QED BY <2>4, <4>1, <4>2
        <3>2. FromSummary
            BY <2>4 DEF DerivedInv
        <3>3. SummaryIsExact' /\ CanonicalFromSummary'
            BY <3>1, <3>2, SummarisedExactly
        <3>4. DerivedIsExact'
            BY <2>4, <3>3 DEF DerivedIsExact, PublishedIsWhole, BreadthPath
        <3> QED BY <2>4, <3>4, KnowsNothingDerived
    <2>5. CASE pc' = "done" /\ AnswersLatest
        BY <2>3, <2>4, <2>5 DEF AnswersLatest, Asking, BreadthPath
    <2>6. CASE pc' \in {"gaps", "done"} /\ AnswersHistory
        BY <2>4, <2>6 DEF AnswersHistory, Asking, BreadthPath
    <2>7. query.path \notin MarketPath \cup PortfolioPath
              \cup {"decision/evaluate", "stim/latest", "stim/history", "leadership/latest"}
        BY DEF MarketPath, PortfolioPath, BreadthPath
    <2> QED BY <2>1, <2>2, <2>5, <2>6, <2>7 DEF Step, OpensMarket, Asking
<1> QED BY <1>2, <1>3, <1>4, HandlerLeads

LEMMA NextKeepsDerived == ASSUME Frame, DerivedInv, [Next]_vars PROVE DerivedInv'
<1>1. CASE HandlerNext
    BY <1>1, HandlerKeepsDerived
<1>2. CASE UNCHANGED vars
    <2>1. DerivedIsExact'
        BY <1>2 DEF vars, DerivedInv, DerivedIsExact, PublishedIsWhole, SummaryIsExact,
                    CanonicalFromSummary, Answered, RawScope, Rows, Snapshot
    <2> QED BY <1>2, <2>1 DEF vars, DerivedInv, FromSummary, Asking, Rows, Snapshot
<1>3. CASE \E b \in BatchId : Load(b)
    <2>1. ~Answered' /\ UNCHANGED <<query, pc, anchor, source, view>> /\ committed \subseteq committed'
        BY <1>3 DEF Load, Answered
    <2>2. Rows("select") \subseteq Rows("select")'
        <3>1. PICK later : later = committed'
            OBVIOUS
        <3>2. RowsAt(committed, "select") \subseteq RowsAt(later, "select")
            BY <2>1, <3>1, RowsAtGrows
        <3>3. Rows("select")' = RowsAt(IF view = Omitted THEN later ELSE view, "select")
            BY <2>1, <3>1 DEF Rows, Snapshot, RowsAt
        <3> QED BY <3>2, <3>3 DEF Rows, Snapshot
    <2>3. DerivedIsExact'
        BY <2>1, AnswersNothingDerived
    <2> QED BY <2>1, <2>2, <2>3 DEF DerivedInv, FromSummary, Asking
<1>4. CASE PaymentRefused \/ DatabaseFails
    <2>1. ~Answered' /\ pc' = "done"
        BY <1>4, RespondGivesUp DEF PaymentRefused, DatabaseFails, GivesUp, Answered, Status
    <2> QED BY <2>1, AnswersNothingDerived, KnowsNothingDerived
<1>5. CASE Validate \/ CallHandler
    <2>1. Respond(400) \/ pc' \in {"admitted", "called"}
        BY <1>5, Zenon DEF Validate, CallHandler
    <2>2. Respond(400) => GivesUp
        BY RespondGivesUp DEF Status
    <2>3. ~Answered' /\ pc' \notin {"ranged", "anchored"}
        BY <2>1, <2>2 DEF GivesUp, Answered
    <2> QED BY <2>3, AnswersNothingDerived, KnowsNothingDerived
<1> QED BY <1>1, <1>2, <1>3, <1>4, <1>5 DEF Next

\* What is published in place of the weekly rows says what they say: the latest selections are
\* whole, a summary row is what its week's rows aggregate to, and a request for a canonical
\* exchange without dates is always answered from the summary (routers/selections_published.py,
\* breadth.py).
THEOREM DerivedAgrees == Spec => []DerivedIsExact
<1>1. Init => DerivedInv
    BY DEF Init, DerivedInv, DerivedIsExact, PublishedIsWhole, SummaryIsExact,
           CanonicalFromSummary, Answered, Asking
<1>2. Frame /\ DerivedInv /\ [Next]_vars => DerivedInv'
    BY NextKeepsDerived
<1>3. DerivedInv => DerivedIsExact
    BY DEF DerivedInv
<1> QED BY <1>1, <1>2, <1>3, FrameAlways, PTL DEF Spec
=============================================================================
