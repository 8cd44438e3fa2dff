------------------------------ MODULE Freshness ------------------------------
(***************************************************************************)
(* classify_freshness (engine/freshness.py): how often price has come back *)
(* to a zone since it left, and whether the zone broke.  Every scan        *)
(* classifies the candles after the displacement from scratch.             *)
(*                                                                         *)
(* Of a candle the walk looks at where it lies: "away" (low above the      *)
(* zone), "wick" (low in reach of the zone, close above it), "inside"      *)
(* (close at or below the zone's top, not below the invalidation price),   *)
(* "broken" (close below the invalidation price).                          *)
(***************************************************************************)
EXTENDS Naturals, Sequences, SequencesExt

CONSTANT InvalidationBuffer    \* invalidation_buffer_pct, 1% in the code

ASSUME BufferAssumption == InvalidationBuffer \in 0..100

-----------------------------------------------------------------------------

\* Where candle c lies relative to the zone.
Lie(c, zoneLow, zoneHigh) ==
    IF c.close * 100 < zoneLow * (100 - InvalidationBuffer) THEN "broken"
    ELSE IF c.low > zoneHigh THEN "away"
    ELSE IF c.close > zoneHigh THEN "wick"
    ELSE "inside"

Touching(lie) == lie # "away"

Broken(lie) == lie = "broken"

Start == [tests |-> 0, inTest |-> FALSE]

\* Faulty: every candle in reach of the zone counts.
StepEveryTouch(s, lie) ==
    [tests |-> s.tests + (IF Touching(lie) THEN 1 ELSE 0),
     inTest |-> Touching(lie)]

\* One round of the loop: a touch outside a test starts one, a candle that
\* does not touch ends it.
Step(s, lie) ==
    [tests |-> s.tests + (IF Touching(lie) /\ ~ s.inTest THEN 1 ELSE 0),
     inTest |-> Touching(lie)]

\* The candles the loop walks: those before the first that broke the zone.
Counted(lies) ==
    IF \E i \in DOMAIN lies : Broken(lies[i])
    THEN SubSeq(lies, 1, SelectInSeq(lies, Broken) - 1)
    ELSE lies

\* The loop's variables after each of its rounds.
Walk(lies) ==
    LET s[k \in 0..Len(lies)] == IF k = 0 THEN Start ELSE Step(s[k - 1], lies[k])
    IN  s

Tests(lies) == Walk(Counted(lies))[Len(Counted(lies))].tests

\* Faulty: a broken zone is only reported while it is broken.
ClassOnlyLast(lies) ==
    IF lies # << >> /\ Broken(Last(lies)) THEN "invalidated"
    ELSE CASE Tests(lies) = 0 -> "fresh"
           [] Tests(lies) = 1 -> "tested_once"
           [] OTHER           -> "multiple_tests"

Class(lies) ==
    IF \E i \in DOMAIN lies : Broken(lies[i]) THEN "invalidated"
    ELSE CASE Tests(lies) = 0 -> "fresh"
           [] Tests(lies) = 1 -> "tested_once"
           [] OTHER           -> "multiple_tests"

=============================================================================
