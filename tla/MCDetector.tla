----------------------------- MODULE MCDetector -----------------------------
(***************************************************************************)
(* Instances of ZoneDetector and MarketCondition for TLC: two candles on   *)
(* either side make a swing point, a base has up to two candles, and the   *)
(* candles are those a base, a departure and a way back are made of.       *)
(***************************************************************************)
EXTENDS ZoneDetector, MarketCondition

C(open, high, low, close, volume) ==
    [open |-> open, high |-> high, low |-> low, close |-> close,
     volume |-> volume]

\* A candle just opened.
Fresh(price) == C(price, price, price, price, 0)

MCCandles == {
    C(1012, 1020,  999, 1011, 1),    \* quiet, at the low
    C(1012, 1040, 1001, 1015, 1),    \* quiet by what came before, bullish
    C(1012, 1075, 1001, 1070, 3),    \* leaves the zone
    C(1070, 1100, 1065, 1095, 3),    \* goes on
    C(1070, 1072, 1015, 1060, 1),    \* wick into the zone
    C(1070, 1072, 1005, 1012, 1),    \* back inside
    C(1070, 1072,  980,  985, 2),    \* through the zone
    C(1070, 1100, 1005, 1010, 2)}    \* both ways

\* A low at 1003, a rise from it, and down again to where a second may form.
Bottom == << C(1060, 1065, 1040, 1045, 1), C(1045, 1046, 1028, 1030, 1),
             C(1030, 1031, 1003, 1012, 1), C(1012, 1062, 1010, 1060, 3),
             C(1060, 1061, 1028, 1030, 1), Fresh(1012) >>

\* A leg from 1000 to 1125, half of it retraced to a base, and a departure.
\* The low the leg begins with is the oldest a full answer still shows after
\* its oldest candle has gone.
Departed == << C(1048, 1052, 1044, 1050, 1),
               C(1050, 1055, 1040, 1050, 1), C(1050, 1060, 1035, 1040, 1),
               C(1040, 1045, 1000, 1040, 1), C(1040, 1085, 1040, 1080, 2),
               C(1080, 1125, 1075, 1110, 2), C(1110, 1112, 1070, 1075, 1),
               C(1075, 1080, 1060, 1062, 1), C(1062, 1065, 1055, 1063, 1),
               C(1063, 1130, 1062, 1128, 3), Fresh(1070) >>

\* Three candles that are swing high and low at once, the last one above the
\* one before, which is below the first.
Inside == C(1050, 1055, 1045, 1050, 1)
Zigzag == << Inside, Inside, C(1050, 1090, 1040, 1050, 1), Inside, Inside,
             C(1050, 1070, 1010, 1050, 1), Inside, Inside,
             C(1050, 1085, 1030, 1050, 1), Inside, Fresh(1070) >>

MCPasts == {Bottom, Departed, Zigzag}

MCFibLevels == <<50, 66>>

=============================================================================
