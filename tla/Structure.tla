------------------------------ MODULE Structure ------------------------------
(***************************************************************************)
(* What is read off the swing points around a zone: break of structure,    *)
(* liquidity sweep, equal lows (engine/structure.py) and the retracement a *)
(* zone lies at (engine/fibonacci.py).  Percentages are in 1/100 of a      *)
(* percent.  h is the candle sequence, b the first candle of the zone's    *)
(* base, e the last one of its displacement.                               *)
(***************************************************************************)
EXTENDS SwingPoints

CONSTANTS
    BosLookahead,       \* bos_lookahead, 10 in the code
    SweepTolerance,     \* liquidity_sweep_tolerance_pct, 0.15% in the code
    EqualTolerance,     \* equal_lows_tolerance_pct, 0.25% in the code
    EqualWindow,        \* equal_lows_window, 20 in the code
    FibTolerance,       \* fib_tolerance_pct, 3% in the code
    FibLevels           \* fib_levels in percent: <<50, 66>> in the code

ASSUME StructureAssumption ==
    /\ BosLookahead \in Nat \ {0} /\ EqualWindow \in Nat
    /\ SweepTolerance \in 0..10000
    /\ EqualTolerance \in Nat /\ FibTolerance \in Nat
    /\ FibLevels \in Seq(0..100)

-----------------------------------------------------------------------------

Distance(x, y) == IF x < y THEN y - x ELSE x - y

\* The latest swing high before the end of the displacement, and a close above
\* it from there on.  The high may lie inside the base or the displacement.
BreakOfStructure(h, e) ==
    /\ HighsBefore(h, e) # {}
    /\ \E k \in e..Min({Len(h), e + BosLookahead - 1}) :
           h[k].close > LatestHigh(h, e)

\* The first candle of the base dips below the swing low before it and closes
\* above it.
LiquiditySweep(h, b) ==
    /\ LowsBefore(h, b) # {}
    /\ h[b].low * 10000 < LatestLow(h, b) * (10000 - SweepTolerance)
    /\ h[b].close > LatestLow(h, b)

\* Two swing lows near the base, on either side of it.
EqualLows(h, b) ==
    LET near == {i \in SwingLows(h) : Distance(i, b) <= EqualWindow}
    IN  \E i, j \in near :
            /\ i < j
            /\ Distance(h[i].low, h[j].low) * 10000
                   <= EqualTolerance * Min({h[i].low, h[j].low})

\* Two hundred times the price retraced to after `level` percent of a leg from
\* low to high.
FibPrice(low, high, level) == 200 * high - 2 * (high - low) * level

NoFib == 0

\* The first level within reach of the middle of the zone, of the leg from the
\* latest swing low before the base to the latest swing high after that low.
FibConfluence(h, zoneLow, zoneHigh, b) ==
    LET lows  == LowsBefore(h, b)
        highs == {i \in HighsBefore(h, b) : lows # {} /\ i > Max(lows)}
        At(level) ==
            LET fib == FibPrice(h[Max(lows)].low, h[Max(highs)].high, level)
            IN  Distance(100 * (zoneLow + zoneHigh), fib) * 10000
                    <= FibTolerance * fib
        matching == {n \in DOMAIN FibLevels : At(FibLevels[n])}
    IN  IF \/ highs = {}
           \/ h[Max(highs)].high <= h[Max(lows)].low
           \/ matching = {}
        THEN NoFib ELSE FibLevels[Min(matching)]

=============================================================================
