----------------------------- MODULE SwingPoints -----------------------------
(***************************************************************************)
(* find_swing_points (engine/swing_points.py): the local lows and highs    *)
(* everything else in the engine is built on.  A position is an index of   *)
(* the candle sequence h, counted from 1.                                  *)
(***************************************************************************)
EXTENDS Integers, Sequences, FiniteSetsExt

CONSTANT Lookback    \* candles looked at on either side, 3 in the code

ASSUME LookbackAssumption == Lookback \in Nat

-----------------------------------------------------------------------------

\* Faulty: a candle counts before the last candle of its window is there.
WindowedEarly(h) == (Lookback + 1)..(Len(h) - Lookback + 1)

\* The candles with a full window around them.
Windowed(h) == (Lookback + 1)..(Len(h) - Lookback)

\* The other candles of the window around i.
Beside(h, i) == (((i - Lookback)..(i + Lookback)) \cap DOMAIN h) \ {i}

\* Faulty: a candle that ties for the lowest low counts as well.
SwingLowsTied(h) ==
    {i \in Windowed(h) : \A j \in Beside(h, i) : h[i].low <= h[j].low}

\* The candle with the only lowest low of its window ...
SwingLows(h) ==
    {i \in Windowed(h) : \A j \in Beside(h, i) : h[i].low < h[j].low}

\* ... or the only highest high; one candle may be both.
SwingHighs(h) ==
    {i \in Windowed(h) : \A j \in Beside(h, i) : h[i].high > h[j].high}

LowsBefore(h, k) == {i \in SwingLows(h) : i < k}

HighsBefore(h, k) == {i \in SwingHighs(h) : i < k}

\* most_recent_swing_low, most_recent_swing_high: their price
LatestLow(h, k) == h[Max(LowsBefore(h, k))].low

LatestHigh(h, k) == h[Max(HighsBefore(h, k))].high

=============================================================================
