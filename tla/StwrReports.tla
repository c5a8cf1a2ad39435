----------------------------- MODULE StwrReports -----------------------------
(***************************************************************************)
(* The STWR screening reports (routers/stwr.py): what each report selects   *)
(* from the weekly data and in which order, and the two endpoints that send *)
(* one.  k holds the knobs of the query string.                             *)
(***************************************************************************)
EXTENDS WeeklyTables

Off(x, types) == x.type \notin types
NotListed == {"WT", "RT", "DB", "IR"}
NotCommon == NotListed \cup {"PR", "UN"}

Liquid(x, k) == x.volume * k.vol_scale >= k.min_vol
Large(x, k) == x.shares_os * x.price >= k.min_cap
Priced(x, k) == x.price >= k.min_price

\* 13 times the short average of next week if the price holds, the week that
\* drops out of it counted w times.
Carried(x, w) == x.shortavg * 13 + w * (x.price - x.price13)

ByRsi == <<Desc("rsi"), Asc("id")>>
ByRsiUp == <<Asc("rsi"), Asc("id")>>
ByAge == <<Desc("mt_cnt"), Asc("id")>>
ByGain == <<Desc("pr_change"), Desc("rsi")>>
ByLoss == <<Asc("pr_change"), Asc("rsi")>>
ByVolume == <<Desc("volume"), Desc("rsi")>>

Report(rows, order, limit) == [rows |-> rows, order |-> order, limit |-> limit]

-----------------------------------------------------------------------------
(* The builders: D is the exchange's rows in the weeks asked for.           *)

build_pw(D, k) ==
    Report({x \in D : /\ Priced(x, k) /\ Liquid(x, k)
                      /\ x.rsi >= k.min_rsi /\ x.rsi_updn = "+"
                      /\ x.trend \in {"v^", "v+"}
                      /\ x.vol_tag \notin {"!", "!!"}
                      /\ x.volume * k.vol_scale >= 500000 \/ x.vol_tag \in {"*", "**"}
                      /\ Off(x, NotCommon)
                      /\ x.symbol \notin {"TIP", "HIP"}
                      /\ x.trend = "v+" => Carried(x, 3) > x.longavg * 13},
           ByRsi, 500)

build_bullcross(D, k) == Report({x \in D : x.trend = "v^" /\ Off(x, NotListed)}, ByRsi, 1000)
build_bearcross(D, k) == Report({x \in D : x.trend = "^v" /\ Off(x, NotListed)}, ByRsiUp, 1000)

build_bullcrosspred(D, k) ==
    Report({x \in D : x.trend = "v+" /\ Carried(x, 1) > x.longavg * 13 /\ Off(x, NotListed)},
           ByRsi, 1000)
build_bearcrosspred(D, k) ==
    Report({x \in D : x.trend = "^-" /\ Carried(x, 1) < x.longavg * 13 /\ Off(x, NotListed)},
           ByRsiUp, 1000)

\* The four reports of a trend in its first week.
New(D, k, trend) ==
    {x \in D : /\ x.trend = trend /\ x.trend_cnt = 1 /\ x.mt_cnt >= k.min_mt_cnt
               /\ Large(x, k) /\ Priced(x, k) /\ Off(x, NotListed)}
build_nweakbull(D, k) == Report(New(D, k, "^-"), ByRsiUp, 1000)
build_nweakbear(D, k) == Report(New(D, k, "v+"), ByRsi, 1000)
build_nreturnbull(D, k) == Report(New(D, k, "^+"), ByRsi, 1000)
build_nreturnbear(D, k) == Report(New(D, k, "v-"), ByRsiUp, 1000)

Old(D, k, trends) ==
    {x \in D : /\ x.trend \in trends /\ x.trend_cnt >= 1 /\ x.mt_cnt >= k.min_mt_cnt
               /\ Priced(x, k) /\ Large(x, k) /\ Off(x, NotListed)}
build_oldbulls(D, k) == Report(Old(D, k, {"^+", "^-"}), ByAge, 50)
build_oldbears(D, k) == Report(Old(D, k, {"v+", "v-"}), ByAge, 50)

build_lvg(D, k) ==
    Report({x \in D : /\ x.vol_tag \in {"!", "!!"} /\ x.rsi_updn = "+" /\ Large(x, k)
                      /\ x.pr_change >= k.lvg_min_pr_chg /\ Off(x, NotListed)}, ByGain, 50)
build_rvol(D, k) ==
    Report({x \in D : /\ Liquid(x, k) /\ Large(x, k) /\ x.rvol >= k.rvol_min_turnover
                      /\ Off(x, NotCommon \cup {"TF"})}, <<Desc("rvol"), Desc("rsi")>>, 50)

Volume(D, k, tags) == {x \in D : Liquid(x, k) /\ x.vol_tag \in tags /\ Off(x, NotListed)}
build_uhv(D, k) == Report(Volume(D, k, {"*", "**"}), ByVolume, 1000)
build_ulv(D, k) == Report(Volume(D, k, {"!", "!!"}), ByVolume, 1000)

\* Every row that is priced, traded and large enough.
Screened(D, k) ==
    {x \in D : Priced(x, k) /\ Liquid(x, k) /\ Large(x, k) /\ Off(x, NotListed)}
build_topgainers(D, k) == Report({x \in Screened(D, k) : x.pr_change > 0}, ByGain, 50)
build_toplosers(D, k) == Report({x \in Screened(D, k) : x.pr_change < 0}, ByLoss, 50)
build_yrhighs(D, k) == Report({x \in Screened(D, k) : x.yr_hi = x.pr_week_hi}, ByGain, 1000)
build_yrlows(D, k) == Report({x \in Screened(D, k) : x.yr_lo = x.pr_week_lo}, ByLoss, 1000)
build_activebyvol(D, k) == Report(Screened(D, k), <<Desc("volume")>>, 50)

build_hmg(D, k) ==
    Report({[x EXCEPT !.rank = x.pr_change * x.rvol] :
               x \in {y \in D : Liquid(y, k) /\ Off(y, NotListed)}}, <<Desc("rank")>>, 50)

\* The two joins are to the rows of exactly 4 and 13 weeks before, in All.
build_toptrend(D, All, k) ==
    Report({x \in D :
               /\ x.type \in {"CS", "TF", "UN"}
               /\ x.price >= k.tt_min_price /\ x.rsi >= k.min_rsi /\ Liquid(x, k)
               /\ x.trend \in {"^+", "^-", "v+", "v^"}
               /\ (x.pr_week_hi - x.pr_week_lo) * 100 > k.tt_min_range_pct * x.pr_week_lo
               /\ \E p4, p13 \in All :
                    /\ p4.id = x.id /\ p4.week = x.week - 4
                    /\ p13.id = x.id /\ p13.week = x.week - 13
                    /\ (x.price - p4.price) * 100 >= k.tt_min_4wk_chg * p4.price
                    /\ (x.shortavg - p13.shortavg) * 100 >= k.tt_min_13wk_ma_chg * p13.shortavg},
           <<Desc("rsi")>>, 50)

REPORTS == {"pw", "bullcross", "bullcrosspred", "bearcross", "bearcrosspred", "nweakbull",
            "nweakbear", "nreturnbull", "nreturnbear", "toptrend", "oldbulls", "oldbears",
            "hmg", "lvg", "rvol", "uhv", "ulv", "topgainers", "toplosers", "yrhighs",
            "yrlows", "activebyvol"}

Build(rpt, D, All, k) ==
    CASE rpt = "pw" -> build_pw(D, k)
      [] rpt = "bullcross" -> build_bullcross(D, k)
      [] rpt = "bullcrosspred" -> build_bullcrosspred(D, k)
      [] rpt = "bearcross" -> build_bearcross(D, k)
      [] rpt = "bearcrosspred" -> build_bearcrosspred(D, k)
      [] rpt = "nweakbull" -> build_nweakbull(D, k)
      [] rpt = "nweakbear" -> build_nweakbear(D, k)
      [] rpt = "nreturnbull" -> build_nreturnbull(D, k)
      [] rpt = "nreturnbear" -> build_nreturnbear(D, k)
      [] rpt = "toptrend" -> build_toptrend(D, All, k)
      [] rpt = "oldbulls" -> build_oldbulls(D, k)
      [] rpt = "oldbears" -> build_oldbears(D, k)
      [] rpt = "hmg" -> build_hmg(D, k)
      [] rpt = "lvg" -> build_lvg(D, k)
      [] rpt = "rvol" -> build_rvol(D, k)
      [] rpt = "uhv" -> build_uhv(D, k)
      [] rpt = "ulv" -> build_ulv(D, k)
      [] rpt = "topgainers" -> build_topgainers(D, k)
      [] rpt = "toplosers" -> build_toplosers(D, k)
      [] rpt = "yrhighs" -> build_yrhighs(D, k)
      [] rpt = "yrlows" -> build_yrlows(D, k)
      [] rpt = "activebyvol" -> build_activebyvol(D, k)

-----------------------------------------------------------------------------
(* The endpoints.                                                          *)

\* resolve_report_request, before payment and again in the handler.
ReportRefused(q) == q.rpt \notin REPORTS \/ q.exchange \notin Exchanges

Weekly(q) == OnExchange(Rows("data"), q.exchange)

\* stwr_reports_latest up to its query, in a connection of its own.
ReportWeek ==
    /\ At("stwr/latest", "called")
    /\ IF query.week # 0 THEN ResolveWeek(query.week, "raw", "anchored")
       ELSE IF Weekly(query) = {} THEN Respond(404)
       ELSE ResolveWeek(LatestWeek(Weekly(query)), "raw", "anchored")

stwr_reports_latest ==
    /\ At("stwr/latest", "anchored")
    /\ LET report == Build(query.rpt, Between(Weekly(query), anchor, anchor),
                           Rows("data"), query.knobs)
       IN  SendRows(report.rows, report.order,
                    IF query.limit = 0 THEN report.limit ELSE query.limit, anchor)

\* The window's anchor is looked up only for a request without bounds.
ReportWindow ==
    /\ At("stwr/history", "called")
    /\ ResolveWeek(IF Bare(query) THEN LatestWeek(Weekly(query)) ELSE 0, "raw", "anchored")

_week_primary_order(order) == <<Asc("week")>> \o order

stwr_reports_history ==
    /\ At("stwr/history", "anchored")
    /\ LET bounds == HistoryWindow(query.start, query.end, anchor)
           report == Build(query.rpt, Between(Weekly(query), bounds.start, bounds.end),
                           Rows("data"), query.knobs)
       IN  SendHistory(report.rows, _week_primary_order(report.order), query.limit,
                       bounds, FALSE)

StwrNext == ReportWeek \/ stwr_reports_latest \/ ReportWindow \/ stwr_reports_history
=============================================================================
