---------------------------- MODULE ZoneDetector ----------------------------
(***************************************************************************)
(* detect_demand_zones (engine/zone_detector.py) over a history that grows *)
(* from scan to scan.  The detector keeps nothing: what it says of a zone  *)
(* at one scan it works out anew at the next, from a history whose last    *)
(* candle has changed and whose oldest may be gone.                        *)
(*                                                                         *)
(* A zone is identified by the position of its anchor, the swing low its   *)
(* base begins with.  Mean true ranges and volumes are kept as fractions   *)
(* [num, den].                                                             *)
(***************************************************************************)
EXTENDS CandleHistory, Structure, Freshness, Functions

CONSTANTS
    AtrPeriod,              \* period of _atr, 14 in the code
    BaseRange,              \* base_range_atr_multiple in tenths, 12 in the code
    MaxBase,                \* max_base_candles, 3 in the code
    DispLookahead,          \* displacement_lookahead, 6 in the code
    VolumeWindow,           \* volume_baseline_window, 20 in the code
    MinCandles              \* a shorter history is not looked at, 30 in the code

ASSUME DetectorAssumption ==
    /\ AtrPeriod \in Nat \ {0} /\ VolumeWindow \in Nat \ {0}
    /\ BaseRange \in Nat /\ MinCandles \in Nat
    /\ MaxBase \in Nat \ {0} /\ MaxBase <= Lookback
    /\ DispLookahead \in Nat \ {0}

-----------------------------------------------------------------------------
(* _atr *)

\* The first candle has no previous close.
TrueRange(h, i) ==
    Max({h[i].high - h[i].low} \cup
        (IF i = 1 THEN {}
         ELSE {Distance(h[i].high, h[i - 1].close),
               Distance(h[i].low, h[i - 1].close)}))

\* Faulty: the mean of the whole history so far seen.
AtrOverAll(h, i) ==
    [num |-> SumFunction([k \in DOMAIN h |-> TrueRange(h, k)]), den |-> Len(h)]

\* rolling(period, min_periods=1).mean()
Atr(h, i) ==
    LET first == Max({1, i - AtrPeriod + 1})
        n     == i - first + 1
    IN  [num |-> SumFunction([k \in 1..n |-> TrueRange(h, first + k - 1)]),
         den |-> n]

-----------------------------------------------------------------------------
(* Base, displacement, range *)

Quiet(h, i) ==
    LET atr == Atr(h, i)
    IN  (h[i].high - h[i].low) * 10 * atr.den <= BaseRange * atr.num

\* Whether the base anchored at a goes on with candle j.
Joins(h, a, j) ==
    /\ Quiet(h, j)
    /\ h[j].close <= h[j - 1].high
    /\ h[j].low * 1000 >= h[a].low * 995

BaseEnd(h, a) ==
    Max({e \in a..Min({a + MaxBase - 1, Len(h)}) :
            \A j \in (a + 1)..e : Joins(h, a, j)})

\* _find_base_candidates: quiet swing lows whose base a bullish candle follows.
Anchors(h) ==
    {a \in SwingLows(h) :
        /\ a < Len(h)
        /\ Quiet(h, a)
        /\ LET next == BaseEnd(h, a) + 1
           IN  next <= Len(h) /\ Bullish(h[next])}

\* _find_displacement: the bullish candles in a row from there on
DispEnd(h, a) ==
    LET start == BaseEnd(h, a) + 1
    IN  Max({d \in start..Min({start + DispLookahead - 1, Len(h)}) :
                \A j \in start..d : Bullish(h[j])})

ZoneLow(h, a) == Min({h[j].low : j \in a..BaseEnd(h, a)})

ZoneHigh(h, a) == Max({h[j].high : j \in a..BaseEnd(h, a)})

-----------------------------------------------------------------------------
(* What is reported of a zone *)

\* _departure_metrics: how far the displacement went above the zone, and the
\* true range it is measured by
Departure(h, a) ==
    LET start == BaseEnd(h, a) + 1
    IN  [rise |-> Max({h[j].high : j \in start..DispEnd(h, a)}) - ZoneHigh(h, a),
         atr |-> Atr(h, start)]

\* The volume of n candles from the first on.
Volume(h, first, n) == SumFunction([k \in 1..n |-> h[first + k - 1].volume])

\* Faulty: the volume of the candles right before the current one.
VolumeExpansionLatest(h, a) ==
    LET start == BaseEnd(h, a) + 1
        n     == DispEnd(h, a) - start + 1
        first == Max({1, Len(h) - VolumeWindow})
        m     == Len(h) - first + 1
    IN  [num |-> Volume(h, start, n) * m, den |-> Volume(h, first, m) * n]

\* volume_expansion_ratio: mean volume of the displacement over that of the
\* candles before it, the base's among them
VolumeExpansion(h, a) ==
    LET start == BaseEnd(h, a) + 1
        n     == DispEnd(h, a) - start + 1
        first == Max({1, start - VolumeWindow})
        m     == start - first
    IN  IF Volume(h, first, m) = 0 THEN [num |-> 1, den |-> 1]
        ELSE [num |-> Volume(h, start, n) * m, den |-> Volume(h, first, m) * n]

\* Faulty: the first candle after the displacement is not looked at.
LiesAfterLate(h, a) ==
    LET d == DispEnd(h, a) + 1
    IN  [k \in 1..(Len(h) - d) |->
            Lie(h[d + k], ZoneLow(h, a), ZoneHigh(h, a))]

\* The candles freshness is judged by: those after the displacement.
LiesAfter(h, a) ==
    LET d == DispEnd(h, a)
    IN  [k \in 1..(Len(h) - d) |->
            Lie(h[d + k], ZoneLow(h, a), ZoneHigh(h, a))]

\* ZoneEvidence, what does not depend on candles after the displacement ...
Evidence(h, a) ==
    [departure |-> Departure(h, a),
     volume    |-> VolumeExpansion(h, a),
     sweep     |-> LiquiditySweep(h, a),
     fib       |-> FibConfluence(h, ZoneLow(h, a), ZoneHigh(h, a), a)]

\* ... and what may still come true.
Confirmations(h, a) ==
    (IF BreakOfStructure(h, DispEnd(h, a)) THEN {"break of structure"} ELSE {})
    \cup (IF EqualLows(h, a) THEN {"equal lows"} ELSE {})

StatusOf(h, a) ==
    IF ZoneLow(h, a) <= Last(h).close /\ Last(h).close <= ZoneHigh(h, a)
    THEN "ENTERED" ELSE "WAITING"

\* detect_demand_zones, with require_price_above_zone set or not
Detected(h, requireAbove) ==
    IF Len(h) < MinCandles THEN {}
    ELSE {a \in Anchors(h) : requireAbove => Last(h).close > ZoneHigh(h, a)}

-----------------------------------------------------------------------------
(* Properties *)

\* Two zones of one timeframe are made of different candles, and a zone's low
\* is the low of its anchor: neither a base running into the next swing low
\* nor the half percent a base candle may dip below its anchor can change
\* that, because a swing low is the only lowest candle of its window.
BasesApart ==
    \A a \in Anchors(df) :
        /\ ZoneLow(df, a) = df[a].low
        /\ \A b \in Anchors(df) : a < b => BaseEnd(df, a) < b

\* The candles visits begin with: in reach of the zone, before it broke, and
\* the first of all or after a candle away from the zone.
VisitsBegin(lies) ==
    {i \in DOMAIN lies :
        /\ Touching(lies[i])
        /\ i > 1 => lies[i - 1] = "away"
        /\ \A j \in DOMAIN lies : Broken(lies[j]) => i < j}

\* freshness.py:52-62: the test count is the number of visits, however many
\* candles each lasts; a visit ends with the first candle whose low stays above
\* the zone, and the candles before the first close below the invalidation
\* price are counted, none after.  This is what the code does, not what its
\* docstring says: by freshness.py:6-7 and 37 a visit ends with a close above
\* the zone, so that two candles that dip into the zone one after the other and
\* close above it are two tests, where the code and this property count one.
CountsVisits ==
    \A a \in Anchors(df) :
        LET lies == LiesAfter(df, a)
        IN  Tests(lies) = Cardinality(VisitsBegin(lies))

\* zone_detector.py:181 and 219: a zone price is back in is never called fresh,
\* which is what keeps it from an alert's grade on one timeframe.  Freshness
\* and status are worked out from different candles, and agree only once the
\* displacement is over: a zone whose displacement closes inside its own range
\* is entered and fresh.  With require_price_above_zone none is ever entered.
EnteredIsTested ==
    \A a \in Detected(df, FALSE) :
        StatusOf(df, a) = "ENTERED" /\ DispEnd(df, a) < Len(df)
        => Class(LiesAfter(df, a)) # "fresh"

\* Swing points are decided by closed candles: whether a candle with a closed
\* window is one, no later scan sees otherwise, whatever the open candle does.
SwingsStand ==
    [][LET closed == Closed(df)
       IN  \A i \in Windowed(closed) :
              i - Shift > Lookback =>
                  /\ i \in SwingLows(closed) <=> i - Shift \in SwingLows(df')
                  /\ i \in SwingHighs(closed) <=> i - Shift \in SwingHighs(df')
      ]_historyVars

\* Whether a candle's window and true ranges are still all there after a step.
StaysWhole(a) == Shift = 1 => a > Max({Lookback, AtrPeriod}) + 1

\* A zone that closed candles show keeps its price range at the next scan,
\* whatever its open candle does, as long as the candles the range depends on
\* are in the answer; and the scan reports it unless the answer is too short or
\* the current price is not above it (zone_detector.py:137 and 170).  Whether it
\* scores enough to be stored, and which row it updates, is decided elsewhere.
ZonesStand ==
    [][\A a \in Anchors(Closed(df)) :
          StaysWhole(a) =>
              LET b    == a - Shift
                  high == ZoneHigh(Closed(df), a)
              IN  /\ ZoneLow(df', b) = ZoneLow(Closed(df), a)
                  /\ ZoneHigh(df', b) = high
                  /\ \A requireAbove \in BOOLEAN :
                         b \in Detected(df', requireAbove) <=>
                             /\ Len(df') >= MinCandles
                             /\ requireAbove => Last(df').close > high]_historyVars

\* The zones whose displacement is over.
Settled(h) == {a \in Anchors(h) : DispEnd(h, a) < Len(h)}

\* Whether what the evidence of a zone is measured against outlasts a step:
\* the candles before its anchor that means and equal lows look back on, and
\* the swing points before its base and before its displacement's end.
ReferencesStay(h, a) ==
    Shift = 1 =>
        /\ \A n \in {Lookback, AtrPeriod, VolumeWindow, EqualWindow + Lookback} :
               a > n + 1
        /\ \A S \in {LowsBefore(h, a), HighsBefore(h, DispEnd(h, a))} :
               S # {} => Max(S) > Lookback + 1

\* Once its displacement is over, a zone's departure, volume, sweep and
\* retracement are found the same by the next scan, and equal lows are found
\* again, also when a new candle pushes the oldest out of a full answer, as
\* long as what they are measured against is not among what falls out.  A break
\* of structure stays from the moment every swing high before the
\* displacement's end is known; before, a high that becomes a swing high later
\* can undo it.
EvidenceStands ==
    [][LET h == Closed(df)
       IN  \A a \in Settled(h) :
              ReferencesStay(h, a) =>
                  LET b == a - Shift
                  IN  /\ Evidence(df', b) = Evidence(h, a)
                      /\ Confirmations(h, a) \ Confirmations(df', b) \subseteq
                             IF DispEnd(h, a) - 1 + Lookback <= Len(h)
                             THEN {} ELSE {"break of structure"}]_historyVars

Rank(class) ==
    CASE class = "fresh" -> 0 [] class = "tested_once" -> 1
      [] class = "multiple_tests" -> 2 [] class = "invalidated" -> 3

\* Over the candles that have closed a later scan never finds a zone fresher
\* than an earlier one did, and a broken zone keeps its count.
ClosedVerdictStands ==
    [][\A a \in Settled(Closed(df)) :
          StaysWhole(a) =>
              LET before == LiesAfter(Closed(df), a)
                  after  == LiesAfter(Closed(df'), a - Shift)
              IN  /\ Rank(Class(after)) >= Rank(Class(before))
                  /\ Tests(after) >= Tests(before)
                  /\ Class(before) = "invalidated"
                        => Tests(after) = Tests(before)]_historyVars

=============================================================================
