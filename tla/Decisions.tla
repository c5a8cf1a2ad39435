------------------------------ MODULE Decisions ------------------------------
(***************************************************************************)
(* How a symbol is judged against the market (services/regime_service.py,   *)
(* decision_service.py).  A regime score is a fraction: bullish less        *)
(* bearish rows over the classified rows.                                   *)
(***************************************************************************)
EXTENDS Integers

Label == {"bullish", "bearish", "mixed"}
Bias == {"bullish", "bearish", "neutral"}
Alignment == {"aligned", "divergent", "neutral"}
Level == {"high", "moderate", "low"}

\* The fractions from -1 to 1.
RegimeScore == {s \in [n: Int, d: Nat] : s.d > 0 /\ -s.d <= s.n /\ s.n <= s.d}
Magnitude(s) == IF s.n < 0 THEN -s.n ELSE s.n

\* s is at least p hundredths.
AtLeastPct(s, p) == 100 * s.n >= p * s.d
AtMostPct(s, p) == 100 * s.n <= p * s.d
StrongAt(s, p) == 100 * Magnitude(s) >= p * s.d

classify_regime(s) ==
    IF AtLeastPct(s, 10) THEN "bullish" ELSE IF AtMostPct(s, -10) THEN "bearish" ELSE "mixed"

classify_confidence(s) ==
    IF StrongAt(s, 30) THEN "high" ELSE IF StrongAt(s, 10) THEN "moderate" ELSE "low"

recent_direction(delta) ==
    IF AtLeastPct(delta, 2) THEN "improving"
    ELSE IF AtMostPct(delta, -2) THEN "deteriorating" ELSE "stable"

\* consistent of n weeks carry the newest week's label.
forecast_confidence(consistent, n, s, delta) ==
    IF 100 * consistent >= 80 * n /\ StrongAt(s, 20) /\ StrongAt(delta, 2) THEN "high"
    ELSE IF 100 * consistent >= 60 * n THEN "moderate" ELSE "low"

-----------------------------------------------------------------------------
symbol_bias(trend) ==
    IF trend \in {"^+", "^-", "v^"} THEN "bullish"
    ELSE IF trend \in {"^v", "v+", "v-"} THEN "bearish" ELSE "neutral"

alignment(bias, regime) ==
    IF bias = "neutral" THEN "neutral"
    ELSE IF bias = regime THEN "aligned"
    ELSE IF regime = "mixed" THEN "neutral" ELSE "divergent"

compute_bias(bias, aligned) ==
    IF bias = "neutral" THEN "neutral"
    ELSE IF aligned = "aligned" THEN IF bias = "bullish" THEN "strong_bullish" ELSE "strong_bearish"
    ELSE IF aligned = "neutral" THEN bias
    ELSE IF bias = "bullish" THEN "cautious_bullish" ELSE "cautious_bearish"

RsiConfirms(bias, rsi) == IF bias = "bullish" THEN rsi >= 100 ELSE rsi < 100

decision_confidence(aligned, bias, trend_cnt, rsi, s) ==
    IF bias = "neutral" THEN "low"
    ELSE IF aligned = "aligned" /\ trend_cnt >= 4 /\ StrongAt(s, 30) /\ RsiConfirms(bias, rsi)
         THEN "high"
    ELSE IF aligned = "divergent" /\ ~StrongAt(s, 10) THEN "low" ELSE "moderate"

AlignmentPart(aligned) == CASE aligned = "aligned" -> 40 [] aligned = "neutral" -> 20 [] OTHER -> 0
AgePart(trend_cnt) ==
    IF trend_cnt >= 8 THEN 15 ELSE IF trend_cnt >= 4 THEN 10 ELSE IF trend_cnt >= 2 THEN 5 ELSE 0
RsiPart(bias, rsi) ==
    IF bias = "bullish" THEN IF rsi >= 110 THEN 15 ELSE IF rsi >= 100 THEN 8 ELSE 0
    ELSE IF rsi < 90 THEN 15 ELSE IF rsi < 100 THEN 8 ELSE 0

\* Half the magnitude, at most thirty, in hundredths of s.d.
RegimePart(s) == IF 50 * Magnitude(s) <= 30 * s.d THEN 50 * Magnitude(s) ELSE 30 * s.d

\* In hundredths of s.d, before the cap of min(1.0, score).
RawScore(aligned, bias, trend_cnt, rsi, s) ==
    (AlignmentPart(aligned) + AgePart(trend_cnt) + RsiPart(bias, rsi)) * s.d + RegimePart(s)

decision_score(aligned, bias, trend_cnt, rsi, s) ==
    LET raw == RawScore(aligned, bias, trend_cnt, rsi, s)
    IN  IF bias = "neutral" THEN 0 ELSE IF raw <= 100 * s.d THEN raw ELSE 100 * s.d
=============================================================================
