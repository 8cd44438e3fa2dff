---------------------------- MODULE CandleHistory ----------------------------
(***************************************************************************)
(* What a scan gets from BinanceClient.get_klines (data/binance.py) for one *)
(* symbol and timeframe, and how it changes from one scan to the next: the *)
(* last candle is the one still open, trades go on in it until the next    *)
(* one opens, and past `Limit` candles the oldest drops out of the answer. *)
(***************************************************************************)
EXTENDS Naturals, Sequences, SequencesExt

CONSTANTS
    Candles,      \* the candles the market may produce
    Pasts,        \* the histories the first scan may get
    Limit,        \* SCANNER_CANDLE_LIMIT, 300 in the code
    MaxOpened     \* bound: candles opened after the first scan

\* Prices in ticks.
Candle == [open : Nat, high : Nat, low : Nat, close : Nat, volume : Nat]

\* What the exchange calls the low and the high of a candle: its other prices
\* lie between them.
Traded(c) == /\ c.low <= c.open  /\ c.open <= c.high
             /\ c.low <= c.close /\ c.close <= c.high

ASSUME HistoryAssumption ==
    /\ Candles \subseteq Candle
    /\ Pasts \subseteq Seq(Candle) \ {<< >>}
    /\ Limit \in Nat \ {0}
    /\ \A past \in Pasts : Len(past) <= Limit
    /\ MaxOpened \in Nat

ASSUME TradedAssumption ==
    /\ \A c \in Candles : Traded(c)
    /\ \A past \in Pasts : \A i \in DOMAIN past : Traded(past[i])

VARIABLES
    df,        \* the candles, oldest first, the last one still open
    opened     \* candles opened so far

historyVars == <<df, opened>>

-----------------------------------------------------------------------------

Bullish(c) == c.close > c.open

\* The candles that can no longer change.
Closed(h) == Front(h)

\* An open candle after further trades: high and volume only grow, the low
\* only falls, the close goes anywhere in between.
After(c) ==
    {d \in Candles : /\ d.open = c.open
                     /\ d.high >= c.high /\ d.low <= c.low
                     /\ d.volume >= c.volume}

\* The answer keeps the latest Limit candles.
Kept(h) == IF Len(h) > Limit THEN Tail(h) ELSE h

Init == df \in Pasts /\ opened = 0

OpenCandle ==
    /\ opened < MaxOpened
    /\ opened' = opened + 1
    /\ \E c \in Candles : df' = Kept(Append(df, c))

Trade ==
    /\ \E c \in After(Last(df)) \ {Last(df)} : df' = [df EXCEPT ![Len(df)] = c]
    /\ UNCHANGED opened

Next == OpenCandle \/ Trade

Spec == Init /\ [][Next]_historyVars

\* How many places a candle moves to the front in a step.
Shift == IF opened' # opened /\ Len(df) = Limit THEN 1 ELSE 0

=============================================================================
