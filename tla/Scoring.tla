------------------------------- MODULE Scoring -------------------------------
(***************************************************************************)
(* Scores and grades of one symbol's zones (engine/scoring.py), scan after *)
(* scan, while the market forms zones, comes back to them and moves on.    *)
(*                                                                         *)
(* Points are whole numbers: evidence lies on the grid on which the code's *)
(* two sliding scales are whole too, a departure in fifths of an ATR (15   *)
(* points at 3 ATR) and a volume ratio in steps of 0.15 above 1 (10 points *)
(* at 2.5).  A total is exact in sixtieths, a score is rounded to tenths.  *)
(***************************************************************************)
EXTENDS Integers, Sequences, SequencesExt

CONSTANTS
    Bases,         \* price ranges and the evidence a scan may find of them
    MaxDeparture,  \* no zone was left further than this, in fifths of an ATR
    Prices,        \* closes and lows of candles
    RequirePriceAboveZone,    \* DetectionConfig.require_price_above_zone
    Rooms          \* bound: how many zones at a time, timeframe by timeframe

ASSUME ScoringAssumption ==
    /\ Bases \subseteq
           [low : Nat, high : Nat, departure : Int, expansion : Nat,
            bos : BOOLEAN, sweep : BOOLEAN, fib : BOOLEAN]
    /\ MaxDeparture \in Nat
    /\ \A b \in Bases : b.departure <= MaxDeparture
    /\ Prices \subseteq Nat
    /\ RequirePriceAboveZone \in BOOLEAN
    /\ Rooms \subseteq [{"3D", "1D", "4H"} -> Nat]

VARIABLES
    zones,        \* per timeframe, the zones its candles show, oldest first
    price         \* the close of the candle still open

vars == <<zones, price>>

Timeframes == {"3D", "1D", "4H"}

Freshness == {"fresh", "tested_once", "multiple_tests", "invalidated"}

\* What the candles show of a zone.
\*   closed:  the verdict over the closed candles after its displacement
\*   inTest:  the last of them is part of a visit, so far the only one
\*   touched: the open candle has been in reach of the zone
\*   run:     no closed candle has ended the displacement
\*   leaving: the open candle belongs to the displacement
Zone == [base : Bases, closed : Freshness, inTest : BOOLEAN,
         touched : BOOLEAN, run : BOOLEAN, leaving : BOOLEAN]

\* The verdict of the scan, the open candle included: a close more than one
\* per cent below the zone breaks it, a touch after none starts a test.
Fresh(z) ==
    IF z.leaving THEN "fresh"
    ELSE IF z.closed = "invalidated" \/ 100 * price < 99 * z.base.low
         THEN "invalidated"
    ELSE IF ~ z.touched \/ z.inTest THEN z.closed
    ELSE IF z.closed = "fresh" THEN "tested_once" ELSE "multiple_tests"

-----------------------------------------------------------------------------
(* Quality: one zone on its own, up to 60 points *)

\* Faulty: the last branch gives full marks.
FreshPointsByDefault(f) ==
    CASE f = "multiple_tests" -> 0 [] f = "tested_once" -> 6 [] OTHER -> 15

\* Faulty: a zone tested once is as good as a fresh one.
FreshPointsUpToOneTest(f) ==
    IF f \in {"fresh", "tested_once"} THEN 15 ELSE 0

FreshPoints(f) ==
    CASE f = "fresh" -> 15 [] f = "tested_once" -> 6 [] OTHER -> 0

\* No floor: a displacement that stays below the base's top costs points.
DeparturePoints(d) == IF d < 15 THEN d ELSE 15

\* An expansion of less than half the baseline (10/3 steps) counts nothing.
VolumePoints(v) == IF 3 * v < 10 THEN 0 ELSE IF v < 10 THEN v ELSE 10

PointsIf(points, flag) == IF flag THEN points ELSE 0

Quality(z) ==
    FreshPoints(Fresh(z)) + DeparturePoints(z.base.departure)
    + VolumePoints(z.base.expansion) + PointsIf(10, z.base.bos)
    + PointsIf(5, z.base.sweep) + PointsIf(5, z.base.fib)

-----------------------------------------------------------------------------
(* Confluence: the zones of the other timeframes, up to 40 points *)

Weight(tf) == IF tf = "4H" THEN 10 ELSE 15

\* The zones the detector hands over in this scan.
Seen(tf) ==
    {i \in DOMAIN zones[tf] : RequirePriceAboveZone => price > zones[tf][i].base.high}

\* Only z's own range is widened, by five per cent at either end.
Overlaps(z, c) ==
    /\ 100 * c.base.high >= 95 * z.base.low
    /\ 100 * c.base.low <= 105 * z.base.high

Confluent(z, tf) == {i \in Seen(tf) : Overlaps(z, zones[tf][i])}

\* The strongest departure counts, the first found of several.
Ahead(tf, i, j) ==
    LET di == zones[tf][i].base.departure
        dj == zones[tf][j].base.departure
    IN  di > dj \/ (di = dj /\ i <= j)

Leading(z, tf) ==
    {i \in Confluent(z, tf) : \A j \in Confluent(z, tf) : Ahead(tf, i, j)}

Best(z, tf) == CHOOSE i \in Leading(z, tf) : TRUE

\* Of every zone of a timeframe.
Qualities(tf) == [i \in DOMAIN zones[tf] |-> Quality(zones[tf][i])]

\* Faulty: a timeframe without a zone of its own goes by the zone's quality.
ShareAnyway(own, z, tf) ==
    Weight(tf) * Quality(IF own = tf \/ Confluent(z, tf) = {} THEN z
                         ELSE zones[tf][Best(z, tf)])

\* What timeframe tf contributes to a zone of timeframe own, in sixtieths.
Share(own, z, tf) ==
    IF own = tf THEN Weight(tf) * Quality(z)
    ELSE IF Confluent(z, tf) = {} THEN 0
    ELSE Weight(tf) * Qualities(tf)[Best(z, tf)]

Total(tf, z) ==
    60 * Quality(z) + Share(tf, z, "3D") + Share(tf, z, "1D")
    + Share(tf, z, "4H")

\* In tenths.  A total is a multiple of five sixtieths, so none lies on the
\* edge where rounding would decide a grade.
Score(tf, z) ==
    LET rounded == (Total(tf, z) + 3) \div 6
    IN  IF rounded < 1000 THEN rounded ELSE 1000

Grade(score) ==
    IF score >= 900 THEN "A+" ELSE IF score >= 800 THEN "A"
    ELSE IF score >= 700 THEN "B" ELSE "C"

ConfluentTimeframes(tf, z) ==
    {tf} \cup {o \in Timeframes \ {tf} : Confluent(z, o) # {}}

\* What score_all_opportunities returns of a timeframe: every zone that is
\* not below exclude_below_score, whatever was returned of another timeframe.
\* The order of the list is left out.
Opportunities(tf) == {i \in Seen(tf) : Score(tf, zones[tf][i]) >= 700}

-----------------------------------------------------------------------------
(* The market *)

Init ==
    /\ zones = [tf \in Timeframes |-> << >>]
    /\ price \in Prices

\* How what is found of a zone fits together: while no closed candle has ended
\* the displacement there is none to be judged by, a visit is a test, and a
\* candle that is in the zone now has been in reach of it.
Fits(z) ==
    /\ z.leaving => z.run
    /\ z.run => z.closed = "fresh" /\ ~ z.inTest
    /\ z.inTest => z.closed = "tested_once"
    /\ price <= z.base.high => z.touched

\* A zone becomes visible: its anchor's window is complete, by which time price
\* may have come back to it, or an earlier scan did not fetch its timeframe.
Form(tf) ==
    /\ \E room \in Rooms :
           /\ Len(zones[tf]) < room[tf]
           /\ \A o \in Timeframes : Len(zones[o]) <= room[o]
    /\ \E z \in Zone :
           /\ Fits(z)
           /\ zones' = [zones EXCEPT ![tf] = Append(@, z)]
    /\ UNCHANGED price

\* Trades go on in the open candles, down to low on the way.  On the timeframes
\* in rising the open candle is bullish, and is part of every displacement that
\* is still running.
Trade ==
    \E close \in Prices, low \in Prices,
       rising \in SUBSET {tf \in Timeframes :
                             \E i \in DOMAIN zones[tf] : zones[tf][i].run} :
        /\ low <= close
        /\ price' = close
        /\ zones' = [tf \in Timeframes |-> [i \in DOMAIN zones[tf] |->
                        [zones[tf][i] EXCEPT
                            !.touched = @ \/ low <= zones[tf][i].base.high,
                            !.leaving = zones[tf][i].run /\ tf \in rising]]]

\* Faulty: the displacement is never taken to end.
OpenedInDisplacement(z, runsOn) ==
    [base |-> z.base, closed |-> Fresh(z),
     inTest |-> z.touched /\ ~ z.leaving /\ Fresh(z) = "tested_once",
     touched |-> price <= z.base.high, run |-> z.run, leaving |-> FALSE]

\* The zone z once its open candle has closed and another opened at the same
\* price, not bullish yet.  The walk stops at the candle that broke the zone.
Opened(z, runsOn) ==
    [base |-> z.base, closed |-> Fresh(z),
     inTest |-> z.touched /\ ~ z.leaving /\ Fresh(z) = "tested_once",
     touched |-> price <= z.base.high, run |-> runsOn, leaving |-> FALSE]

\* The next candle of a timeframe opens.  A displacement the last one belongs
\* to may run on, unless it has reached displacement_lookahead.
OpenCandle(tf) ==
    /\ \E running \in SUBSET {i \in DOMAIN zones[tf] : zones[tf][i].leaving} :
           zones' = [zones EXCEPT ![tf] =
                        [i \in DOMAIN @ |-> Opened(@[i], i \in running)]]
    /\ UNCHANGED price

\* What is found of a known price range changes.  A break of structure may be
\* confirmed in the candles after the displacement, or undone by a later swing
\* high; departure and volume follow the displacement while it runs; a swing
\* low the range swept, or retraced from, falls out of the window.
Reassess(tf) ==
    /\ \E i \in DOMAIN zones[tf], b \in Bases :
           /\ b.low = zones[tf][i].base.low /\ b.high = zones[tf][i].base.high
           /\ zones' = [zones EXCEPT ![tf][i].base = b]
    /\ UNCHANGED price

\* A zone's candles fall out of the window, its only displacement candle turns
\* bearish, or the open candle at the end of its anchor's window undercuts it.
Forget(tf) ==
    /\ \E i \in DOMAIN zones[tf] : zones' = [zones EXCEPT ![tf] = RemoveAt(@, i)]
    /\ UNCHANGED price

Next ==
    \/ Trade
    \/ \E tf \in Timeframes :
           Form(tf) \/ OpenCandle(tf) \/ Reassess(tf) \/ Forget(tf)

Spec == Init /\ [][Next]_vars

-----------------------------------------------------------------------------
(* Properties *)

\* What a scan finds of a zone's displacement, its visits and its freshness
\* fits together, whatever the order of trades and candles.
TypeOK ==
    /\ zones \in [Timeframes -> Seq(Zone)]
    /\ price \in Prices
    /\ \A tf \in Timeframes : \A i \in DOMAIN zones[tf] : Fits(zones[tf][i])

GradeOf(tf, i) == Grade(Score(tf, zones[tf][i]))

TimeframesOf(tf, i) == ConfluentTimeframes(tf, zones[tf][i])

\* No single timeframe carries an alert grade (scoring.py:14-16): an A takes
\* an overlapping zone on another timeframe, an A+ both of 3D and 1D.
GradesNeedConfluence ==
    \A tf \in Timeframes : \A i \in Opportunities(tf) :
        /\ GradeOf(tf, i) \in {"A", "A+"} => TimeframesOf(tf, i) # {tf}
        /\ GradeOf(tf, i) = "A+" => {"3D", "1D"} \subseteq TimeframesOf(tf, i)

\* The alerts of zones_needing_alert (service.py:121-128) are for zones price
\* is inside, with grade A or A+.  Price inside means a test, unless the zone
\* is still being left; after a test only the agreement of all three
\* timeframes makes an A, and nothing makes an A+.
EntriesNeedAllTimeframes ==
    \A tf \in Timeframes : \A i \in Opportunities(tf) :
        LET z == zones[tf][i] IN
        z.base.low <= price /\ price <= z.base.high /\ ~ z.leaving =>
            /\ GradeOf(tf, i) # "A+"
            /\ GradeOf(tf, i) = "A" => TimeframesOf(tf, i) = Timeframes

\* freshness.py:39: a broken zone is "no longer a valid demand zone", but it is
\* scored like one tested twice and stored as WAITING or ENTERED.  It is never
\* graded A+, and A only where fresher zones of all timeframes overlap it.
BrokenNeedAllTimeframes ==
    \A tf \in Timeframes : \A i \in Opportunities(tf) :
        Fresh(zones[tf][i]) = "invalidated" =>
            /\ GradeOf(tf, i) # "A+"
            /\ GradeOf(tf, i) = "A" => TimeframesOf(tf, i) = Timeframes

Age(f) == CASE f = "fresh" -> 0 [] f = "tested_once" -> 1 [] OTHER -> 2

\* Whether a scan finds a zone fresher, or better proven, than the last did.
Better(tf, i) ==
    LET was == zones[tf][i].base
        is  == zones'[tf][i].base
    IN  \/ Age(Fresh(zones[tf][i]))' < Age(Fresh(zones[tf][i]))
        \/ is.departure > was.departure
        \/ is.expansion > was.expansion
        \/ is.bos /\ ~ was.bos
        \/ is.sweep /\ ~ was.sweep
        \/ is.fib /\ ~ was.fib

\* scoring.py:75-131, a score is made of the neighbours' qualities too.  While
\* the zones of a symbol stay the same, the score of one rises only if it is
\* found better itself, or the zone that speaks for another timeframe is, or
\* another zone takes over there.  Tests and breaks never add points, neither
\* to the zone nor, through the overlap, to its neighbours.
RisesAreEarned ==
    [][(\A tf \in Timeframes : DOMAIN zones'[tf] = DOMAIN zones[tf]) =>
           \A tf \in Timeframes : \A i \in Seen(tf) \cap Seen(tf)' :
               Score(tf, zones[tf][i])' > Score(tf, zones[tf][i]) =>
                   \/ Better(tf, i)
                   \/ \E o \in Timeframes \ {tf} :
                          \/ Leading(zones[tf][i], o)' # Leading(zones[tf][i], o)
                          \/ \E j \in Leading(zones[tf][i], o) : Better(o, j)]_vars

=============================================================================
