--------------------------- MODULE MarketCondition ---------------------------
(***************************************************************************)
(* classify_btc_condition (engine/market_condition.py): the label every    *)
(* alert carries, from the daily candles of BTC.                           *)
(***************************************************************************)
EXTENDS CandleHistory, SwingPoints, Folds

CONSTANTS
    MaPeriod,           \* ma_period, 20 in the code
    LookbackPoints,     \* lookback_points, 4 in the code
    MinMargin           \* candles beyond the average and two windows, 5

ASSUME ConditionAssumption ==
    MaPeriod \in Nat \ {0} /\ LookbackPoints \in Nat \ {0} /\ MinMargin \in Nat

-----------------------------------------------------------------------------

\* The latest LookbackPoints positions of S.
Latest(S) == {i \in S : Cardinality({j \in S : j > i}) < LookbackPoints}

\* Faulty: the direction of the swing lows alone.
DirectionOfLows(h) ==
    LET lows == Latest(SwingLows(h))
    IN  IF Cardinality(lows) < 2 THEN "mixed"
        ELSE IF h[Min(lows)].low < h[Max(lows)].low THEN "up"
        ELSE IF h[Min(lows)].low > h[Max(lows)].low THEN "down"
        ELSE "mixed"

\* _recent_structure_direction: the latest swing highs and the latest swing
\* lows each net higher, or each net lower.
Direction(h) ==
    LET highs == Latest(SwingHighs(h))
        lows  == Latest(SwingLows(h))
        Net(Moves(_, _)) ==
            /\ Moves(h[Min(highs)].high, h[Max(highs)].high)
            /\ Moves(h[Min(lows)].low, h[Max(lows)].low)
    IN  IF Cardinality(highs) < 2 \/ Cardinality(lows) < 2 THEN "mixed"
        ELSE IF Net(<) THEN "up"
        ELSE IF Net(>) THEN "down" ELSE "mixed"

\* The last close above the mean of the last MaPeriod closes
AboveAverage(h) ==
    LET latest == SubSeq(h, Len(h) - MaPeriod + 1, Len(h))
        Plus(total, c) == total + c.close
    IN  Last(h).close * MaPeriod > FoldLeft(Plus, 0, latest)

BtcCondition(h) ==
    IF Len(h) < MaPeriod + 2 * Lookback + MinMargin THEN "Neutral"
    ELSE IF AboveAverage(h) /\ Direction(h) = "up" THEN "Strong"
    ELSE IF ~ AboveAverage(h) /\ Direction(h) = "down" THEN "Weak"
    ELSE "Neutral"

-----------------------------------------------------------------------------
(* Properties *)

\* A swing point is only undone by the open candle, and one-sidedly: while one
\* candle stays open BTC's structure turns from up to down, or back, and with
\* it the label of an alert from Strong to Weak, only if the candle makes both
\* a new high and a new low.
TurnsTakeBothSides ==
    [][/\ opened' = opened
       /\ \/ Last(df').high = Last(df).high
          \/ Last(df').low = Last(df).low
       => /\ {Direction(df), Direction(df')} # {"up", "down"}
          /\ {BtcCondition(df), BtcCondition(df')} # {"Strong", "Weak"}
      ]_historyVars

=============================================================================
