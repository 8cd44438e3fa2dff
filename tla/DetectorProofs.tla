--------------------------- MODULE DetectorProofs ---------------------------
(***************************************************************************)
(* For any candles, history length and parameters: zones of one timeframe  *)
(* share no candle; what closed candles show (swing points, zones, their   *)
(* evidence and their freshness) stands in every later scan; the loop of   *)
(* classify_freshness counts visits; and BTC's structure does not turn     *)
(* around within a candle that moves one way only.                         *)
(*                                                                         *)
(* That two histories agree on a zone is shown by the candles it is worked *)
(* out from: they are the same, one place further to the front or not      *)
(* (GoesOn).  Sums over them are then equal because their summands are,    *)
(* without a word on what they add up to.  What a loop does to the first n *)
(* candles is shown for the least n where it would fail (HasLeast).        *)
(***************************************************************************)
EXTENDS ZoneDetector, MarketCondition, SequenceTheorems, FiniteSetTheorems,
        WellFoundedInduction, TLAPS

-----------------------------------------------------------------------------
(* Least and greatest elements *)

\* Naturals have a least element.
LEMMA HasLeast ==
    ASSUME NEW T \in SUBSET Nat, T # {}
    PROVE  Min(T) \in T /\ \A y \in T : Min(T) <= y
<1>1. PICK x \in T : \A y \in T : ~ (<<y, x>> \in OpToRel(<, Nat))
  BY WFMin, NatLessThanWellFounded
<1>2. \A y \in T : ~ (y < x)
  BY <1>1 DEF OpToRel
<1>3. \A y \in T : x <= y
  BY <1>2
<1> QED BY <1>3 DEF Min

\* Naturals up to a bound have a greatest one.
LEMMA HasGreatest ==
    ASSUME NEW n \in Nat, NEW T \in SUBSET (0..n), T # {}
    PROVE  Max(T) \in T /\ \A y \in T : Max(T) >= y
<1> DEFINE U == {n - x : x \in T}
<1>1. U \in SUBSET Nat /\ U # {}
  <2>1. \A x \in T : n - x \in Nat
    OBVIOUS
  <2>2. \A x \in T : n - x \in U
    OBVIOUS
  <2> QED BY <2>1, <2>2
<1>2. Min(U) \in U /\ \A y \in U : Min(U) <= y
  <2> HIDE DEF U
  <2> QED BY <1>1, HasLeast
<1>3. PICK x \in T : Min(U) = n - x
  BY <1>2
<1>4. \A y \in T : x >= y
  BY <1>2, <1>3
<1> QED BY <1>4 DEF Max

\* The larger of two numbers.
LEMMA MaxOfTwo ==
    ASSUME NEW x \in Int, NEW y \in Int
    PROVE  Max({x, y}) = IF x >= y THEN x ELSE y
BY DEF Max

\* The smaller of two numbers.
LEMMA MinOfTwo ==
    ASSUME NEW x \in Int, NEW y \in Int
    PROVE  Min({x, y}) = IF x <= y THEN x ELSE y
BY DEF Min

\* An element no other exceeds is the greatest.
LEMMA GreatestIs ==
    ASSUME NEW T \in SUBSET Int, NEW x \in T, \A y \in T : y <= x
    PROVE  Max(T) = x
<1>1. \A y \in T : x >= y
  OBVIOUS
<1>2. ASSUME NEW z \in T, \A y \in T : z >= y
      PROVE  z = x
  BY <1>1, <1>2
<1> QED BY <1>1, <1>2 DEF Max

-----------------------------------------------------------------------------
(* Swing points *)

\* Prices are naturals.
LEMMA Prices ==
    ASSUME NEW c \in Candle
    PROVE  c.low \in Nat /\ c.high \in Nat
BY DEF Candle

\* The candle of a swing low is lower than every other of its window.
LEMMA LowestOfWindow ==
    ASSUME NEW h \in Seq(Candle), NEW i \in SwingLows(h), NEW j \in 1..Len(h),
           j # i, i - Lookback <= j, j <= i + Lookback
    PROVE  h[i].low < h[j].low
<1>1. j \in Beside(h, i)
  BY LookbackAssumption DEF Beside, SwingLows, Windowed
<1> QED BY <1>1 DEF SwingLows

\* Histories that agree on a window agree on the swing point in it.
LEMMA SameWindow ==
    ASSUME NEW g \in Seq(Candle), NEW h \in Seq(Candle), NEW s \in Nat,
           NEW i \in Windowed(g), i - s \in Windowed(h),
           \A k \in 1..Len(g) : k - s >= 1 /\ k - s <= Len(h) => h[k - s] = g[k]
    PROVE  /\ i \in SwingLows(g) <=> i - s \in SwingLows(h)
           /\ i \in SwingHighs(g) <=> i - s \in SwingHighs(h)
<1>1. i \in Int /\ Lookback \in Nat /\ Len(g) \in Nat /\ Len(h) \in Nat
  BY LookbackAssumption DEF Windowed
<1>2. /\ Lookback + 1 <= i /\ i + Lookback <= Len(g)
      /\ Lookback + 1 <= i - s /\ (i - s) + Lookback <= Len(h)
  BY <1>1 DEF Windowed
<1>3. ASSUME NEW j \in Beside(g, i)
      PROVE  j - s \in Beside(h, i - s) /\ h[j - s] = g[j]
  <2>1. j \in Int /\ j >= i - Lookback /\ j <= i + Lookback /\ j # i
        /\ j \in 1..Len(g)
    BY <1>1, <1>3 DEF Beside
  <2>2. j - s >= 1 /\ j - s <= Len(h)
    BY <1>1, <1>2, <2>1
  <2> QED BY <1>1, <2>1, <2>2 DEF Beside
<1>4. ASSUME NEW j \in Beside(h, i - s)
      PROVE  j + s \in Beside(g, i) /\ h[j] = g[j + s]
  <2>1. j \in Int /\ j >= (i - s) - Lookback /\ j <= (i - s) + Lookback
        /\ j # i - s /\ j \in 1..Len(h)
    BY <1>1, <1>4 DEF Beside
  <2>2. j + s \in 1..Len(g) /\ (j + s) - s = j
    BY <1>1, <1>2, <2>1
  <2>3. h[(j + s) - s] = g[j + s]
    BY <2>1, <2>2
  <2> QED BY <1>1, <2>1, <2>2, <2>3 DEF Beside
<1>5. h[i - s] = g[i]
  BY <1>1, <1>2
<1>6. i \in SwingLows(g) <=> i - s \in SwingLows(h)
  BY <1>3, <1>4, <1>5 DEF SwingLows
<1>7. i \in SwingHighs(g) <=> i - s \in SwingHighs(h)
  BY <1>3, <1>4, <1>5 DEF SwingHighs
<1> QED BY <1>6, <1>7

-----------------------------------------------------------------------------
(* The history *)

HistoryInv == df \in Seq(Candle) /\ Len(df) \in 1..Limit /\ opened \in Nat

\* What a step leaves of the history: all closed candles that are kept.
LEMMA HistoryStep ==
    ASSUME HistoryInv, [Next]_historyVars
    PROVE  /\ HistoryInv'
           /\ Shift \in {0, 1}
           /\ Len(df') >= Len(df) - Shift
           /\ \A k \in 1..(Len(df) - 1) :
                 k - Shift >= 1 /\ k - Shift <= Len(df') => df'[k - Shift] = df[k]
<1> USE HistoryAssumption DEF HistoryInv
<1>1. CASE OpenCandle
  <2>1. PICK c \in Candles : df' = Kept(Append(df, c))
    BY <1>1 DEF OpenCandle
  <2>2. c \in Candle /\ opened' = opened + 1
    BY <1>1 DEF OpenCandle
  <2> DEFINE h == Append(df, c)
  <2>3. /\ h \in Seq(Candle) /\ Len(h) = Len(df) + 1
        /\ \A k \in 1..Len(df) : h[k] = df[k]
    BY <2>2, AppendProperties
  <2> HIDE DEF h
  <2>4. CASE Len(df) = Limit
    <3>1. df' = Tail(h) /\ Shift = 1
      BY <2>1, <2>2, <2>3, <2>4 DEF Kept, Shift, h
    <3>2. h # << >>
      BY <2>3, EmptySeq
    <3>3. /\ df' \in Seq(Candle) /\ Len(df') = Len(df)
          /\ \A k \in 1..Len(df') : df'[k] = h[k + 1]
      BY <2>3, <3>1, <3>2, HeadTailProperties
    <3> QED BY <2>2, <2>3, <3>1, <3>3
  <2>5. CASE Len(df) # Limit
    <3>1. df' = h /\ Shift = 0
      BY <2>1, <2>3, <2>5 DEF Kept, Shift, h
    <3> QED BY <2>2, <2>3, <2>5, <3>1
  <2> QED BY <2>4, <2>5
<1>2. CASE Trade
  <2>1. PICK c \in Candles : df' = [df EXCEPT ![Len(df)] = c]
    BY <1>2 DEF Trade, After
  <2>2. c \in Candle /\ opened' = opened /\ Shift = 0
    BY <1>2 DEF Trade, Shift
  <2>3. /\ df' \in Seq(Candle) /\ Len(df') = Len(df)
        /\ \A k \in 1..Len(df) : df'[k] = IF k = Len(df) THEN c ELSE df[k]
    BY <2>1, <2>2, ExceptSeq
  <2> QED BY <2>2, <2>3
<1>3. CASE UNCHANGED historyVars
  BY <1>3 DEF historyVars, Shift
<1> QED BY <1>1, <1>2, <1>3 DEF Next

\* A scan always gets candles, and never more than Limit.
LEMMA HistoryInvHolds == Spec => []HistoryInv
<1>1. Init => HistoryInv
  BY HistoryAssumption, EmptySeq DEF Init, HistoryInv
<1>2. HistoryInv /\ [Next]_historyVars => HistoryInv'
  BY HistoryStep
<1> QED BY <1>1, <1>2, PTL DEF Spec

-----------------------------------------------------------------------------
(* Bases *)

\* A base has at most MaxBase candles and stays within the history.
LEMMA BaseEndBounds ==
    ASSUME NEW h \in Seq(Candle), NEW a \in 1..Len(h)
    PROVE  BaseEnd(h, a) \in a..Len(h) /\ BaseEnd(h, a) <= a + MaxBase - 1
<1> DEFINE last == Min({a + MaxBase - 1, Len(h)})
           ends == {e \in a..last : \A j \in (a + 1)..e : Joins(h, a, j)}
<1>1. MaxBase \in Nat \ {0} /\ Len(h) \in Nat
  BY DetectorAssumption
<1>2. last \in {a + MaxBase - 1, Len(h)} /\ last <= a + MaxBase - 1
      /\ last <= Len(h)
  <2>1. {a + MaxBase - 1, Len(h)} \in SUBSET Nat
    BY <1>1
  <2> QED BY <2>1, HasLeast
<1> HIDE DEF last
<1>3. last \in Nat /\ a <= last
  BY <1>1, <1>2
<1>4. ends \in SUBSET (0..last) /\ a \in ends
  BY <1>3
<1>5. BaseEnd(h, a) = Max(ends)
  BY DEF BaseEnd, last
<1>6. ends \subseteq a..last
  OBVIOUS
<1> HIDE DEF ends
<1>7. BaseEnd(h, a) \in ends
  BY <1>3, <1>4, <1>5, HasGreatest
<1>8. BaseEnd(h, a) \in a..last
  BY <1>6, <1>7
<1> QED BY <1>1, <1>2, <1>3, <1>8

\* A base within the window of its anchor holds no other swing low.
LEMMA AnchorsApart ==
    ASSUME HistoryInv
    PROVE  BasesApart
<1> USE DEF HistoryInv
<1>1. /\ Lookback \in Nat /\ MaxBase \in Nat \ {0} /\ MaxBase <= Lookback
      /\ Len(df) \in Nat
  BY LookbackAssumption, DetectorAssumption
<1>2. \A a \in Anchors(df) : a \in SwingLows(df) /\ a \in 1..Len(df)
  BY <1>1 DEF Anchors, SwingLows, Windowed
<1>3. ASSUME NEW a \in Anchors(df)
      PROVE  ZoneLow(df, a) = df[a].low
  <2> DEFINE end == BaseEnd(df, a)
             lows == {df[j].low : j \in a..end}
  <2>1. a \in SwingLows(df) /\ a \in 1..Len(df)
    BY <1>2
  <2>2. end \in a..Len(df) /\ end <= a + MaxBase - 1
    BY <2>1, BaseEndBounds
  <2> HIDE DEF end
  <2>3. \A j \in a..end : df[j] \in Candle
    BY <1>1, <2>1, <2>2, ElementOfSeq
  <2>4. \A j \in a..end : df[a].low <= df[j].low
    <3>4. df[a].low \in Nat
      BY <2>1, ElementOfSeq, Prices
    <3> SUFFICES ASSUME NEW j \in a..end, j # a PROVE df[a].low <= df[j].low
      BY <3>4
    <3>1. j \in 1..Len(df) /\ a - Lookback <= j /\ j <= a + Lookback
      BY <1>1, <2>1, <2>2
    <3>2. df[a].low < df[j].low
      BY <2>1, <3>1, LowestOfWindow
    <3>3. df[a].low \in Nat /\ df[j].low \in Nat
      BY <2>1, <3>1, ElementOfSeq, Prices
    <3> QED BY <3>2, <3>3
  <2>5. lows \in SUBSET Nat /\ df[a].low \in lows
    <3>1. \A j \in a..end : df[j].low \in Nat
      BY <2>3, Prices
    <3>2. a \in a..end
      BY <2>1, <2>2
    <3> QED BY <3>1, <3>2
  <2>6. Min(lows) \in lows /\ \A y \in lows : Min(lows) <= y
    <3> HIDE DEF lows
    <3> QED BY <2>5, HasLeast
  <2>7. Min(lows) = df[a].low
    <3>1. PICK j \in a..end : Min(lows) = df[j].low
      BY <2>6
    <3>2. Min(lows) \in Nat /\ df[a].low \in Nat
      BY <2>5, <2>6
    <3>3. Min(lows) <= df[a].low /\ df[a].low <= Min(lows)
      BY <2>4, <2>5, <2>6, <3>1
    <3> HIDE DEF lows
    <3> QED BY <3>2, <3>3
  <2> QED BY <2>7 DEF ZoneLow, end
<1>4. ASSUME NEW a \in Anchors(df), NEW b \in Anchors(df), a < b
      PROVE  BaseEnd(df, a) < b
  <2>1. /\ a \in SwingLows(df) /\ a \in 1..Len(df)
        /\ b \in SwingLows(df) /\ b \in 1..Len(df)
    BY <1>2
  <2>2. BaseEnd(df, a) \in a..Len(df) /\ BaseEnd(df, a) <= a + MaxBase - 1
    BY <2>1, BaseEndBounds
  <2>3. SUFFICES ASSUME b <= BaseEnd(df, a) PROVE FALSE
    BY <2>1, <2>2
  <2>4. df[a].low < df[b].low /\ df[b].low < df[a].low
    <3>1. /\ a - Lookback <= b /\ b <= a + Lookback
          /\ b - Lookback <= a /\ a <= b + Lookback
      BY <1>1, <1>4, <2>1, <2>2, <2>3
    <3> QED BY <1>4, <2>1, <3>1, LowestOfWindow
  <2>5. df[a].low \in Nat /\ df[b].low \in Nat
    BY <2>1, ElementOfSeq, Prices
  <2> QED BY <2>4, <2>5
<1> QED BY <1>3, <1>4 DEF BasesApart

-----------------------------------------------------------------------------
(* Histories that go on *)

\* g is h with candles added to its end and s dropped from its front.
GoesOn(h, g, s) ==
    /\ h \in Seq(Candle) /\ g \in Seq(Candle)
    /\ s \in {0, 1} /\ Len(h) - s <= Len(g)
    /\ \A k \in 1..Len(h) : k > s => g[k - s] = h[k]

\* What a zone anchored at a is worked out from is not dropped.
Whole(a, s) == s = 1 => a > Max({Lookback, AtrPeriod}) + 1

\* When the oldest candle drops out, a zone needs that much before its anchor.
LEMMA WholeMeans ==
    ASSUME NEW a \in Int, Whole(a, 1)
    PROVE  a > Lookback + 1 /\ a > AtrPeriod + 1
BY LookbackAssumption, DetectorAssumption, MaxOfTwo DEF Whole

\* A true range needs its candle and the one before it.
LEMMA SameTrueRange ==
    ASSUME NEW h, NEW g, NEW s, GoesOn(h, g, s), NEW j \in 1..Len(h),
           s = 1 => j > 2
    PROVE  TrueRange(g, j - s) = TrueRange(h, j)
<1>1. Len(h) \in Nat /\ s \in {0, 1}
  BY DEF GoesOn
<1>2. g[j - s] = h[j] /\ (j # 1 => g[(j - s) - 1] = h[j - 1])
  <2>1. j > s /\ j \in 1..Len(h)
    BY <1>1
  <2>2. g[j - s] = h[j]
    BY <2>1 DEF GoesOn
  <2>3. CASE j # 1
    <3>1. j - 1 > s /\ j - 1 \in 1..Len(h) /\ (j - 1) - s = (j - s) - 1
      BY <1>1, <2>3
    <3>2. g[(j - 1) - s] = h[j - 1]
      BY <3>1 DEF GoesOn
    <3> QED BY <2>2, <3>1, <3>2
  <2> QED BY <2>2, <2>3
<1>3. j - s = 1 <=> j = 1
  BY <1>1
<1>4. CASE j = 1
  <2>1. TrueRange(g, j - s) = Max({g[j - s].high - g[j - s].low} \cup {})
    BY <1>3, <1>4 DEF TrueRange
  <2>2. TrueRange(h, j) = Max({h[j].high - h[j].low} \cup {})
    BY <1>4 DEF TrueRange
  <2> QED BY <1>2, <2>1, <2>2
<1>5. CASE j # 1
  <2>1. TrueRange(g, j - s) =
          Max({g[j - s].high - g[j - s].low} \cup
              {Distance(g[j - s].high, g[(j - s) - 1].close),
               Distance(g[j - s].low, g[(j - s) - 1].close)})
    BY <1>3, <1>5 DEF TrueRange
  <2>2. TrueRange(h, j) =
          Max({h[j].high - h[j].low} \cup
              {Distance(h[j].high, h[j - 1].close),
               Distance(h[j].low, h[j - 1].close)})
    BY <1>5 DEF TrueRange
  <2> QED BY <1>2, <1>5, <2>1, <2>2
<1> QED BY <1>4, <1>5

\* The mean true range at a candle of the zone or after it: the same candles
\* are averaged.
LEMMA SameAtr ==
    ASSUME NEW h, NEW g, NEW s, GoesOn(h, g, s), NEW i \in 1..Len(h),
           s = 1 => i > AtrPeriod + 1
    PROVE  Atr(g, i - s) = Atr(h, i)
<1> DEFINE P  == AtrPeriod
           fh == Max({1, i - P + 1})
           fg == Max({1, (i - s) - P + 1})
           n  == i - fh + 1
<1>1. /\ Len(h) \in Nat /\ s \in {0, 1} /\ P \in Nat \ {0}
  BY DetectorAssumption DEF GoesOn
<1>2. /\ fh = IF 1 >= i - P + 1 THEN 1 ELSE i - P + 1
      /\ fg = IF 1 >= (i - s) - P + 1 THEN 1 ELSE (i - s) - P + 1
  <2>1. i - P + 1 \in Int /\ (i - s) - P + 1 \in Int
    BY <1>1
  <2> QED BY <2>1, MaxOfTwo
<1> HIDE DEF fh, fg
<1>3. /\ fg = fh - s /\ fh \in 1..i /\ (s = 1 => fh > 2)
  <2> HIDE DEF P
  <2>1. i \in Nat /\ (s = 1 => i > P + 1)
    BY DEF P
  <2> QED BY <1>1, <1>2, <2>1
<1>4. (i - s) - fg + 1 = n /\ n \in Nat
  BY <1>1, <1>3
<1>5. ASSUME NEW k \in 1..n
      PROVE  TrueRange(g, fg + k - 1) = TrueRange(h, fh + k - 1)
  <2>1. /\ fh + k - 1 \in 1..Len(h) /\ (s = 1 => fh + k - 1 > 2)
        /\ (fh + k - 1) - s = fg + k - 1
    BY <1>1, <1>3, <1>4
  <2>2. TrueRange(g, (fh + k - 1) - s) = TrueRange(h, fh + k - 1)
    BY <2>1, SameTrueRange
  <2> QED BY <2>1, <2>2
<1>6. [k \in 1..n |-> TrueRange(g, fg + k - 1)]
        = [k \in 1..n |-> TrueRange(h, fh + k - 1)]
  BY <1>5
<1>7. Atr(h, i) = [num |-> SumFunction([k \in 1..n |-> TrueRange(h, fh + k - 1)]),
                   den |-> n]
  BY DEF Atr, fh
<1>8. Atr(g, i - s) = [num |-> SumFunction([k \in 1..n |-> TrueRange(g, fg + k - 1)]),
                       den |-> n]
  <2>1. Atr(g, i - s) =
          [num |-> SumFunction([k \in 1..((i - s) - fg + 1) |->
                                  TrueRange(g, fg + k - 1)]),
           den |-> (i - s) - fg + 1]
    BY DEF Atr, fg
  <2> HIDE DEF n
  <2> QED BY <1>4, <2>1
<1> HIDE DEF n
<1> QED BY <1>6, <1>7, <1>8

\* Whether a candle is quiet.
LEMMA SameQuiet ==
    ASSUME NEW h, NEW g, NEW s, GoesOn(h, g, s), NEW i \in 1..Len(h),
           s = 1 => i > AtrPeriod + 1
    PROVE  Quiet(g, i - s) <=> Quiet(h, i)
<1>1. g[i - s] = h[i]
  BY DetectorAssumption DEF GoesOn
<1>2. Atr(g, i - s) = Atr(h, i)
  BY SameAtr
<1> QED BY <1>1, <1>2 DEF Quiet

\* Whether a candle goes on with a base.
LEMMA SameJoins ==
    ASSUME NEW h, NEW g, NEW s, GoesOn(h, g, s), NEW a \in 1..Len(h),
           Whole(a, s), NEW j \in (a + 1)..Len(h)
    PROVE  Joins(g, a - s, j - s) <=> Joins(h, a, j)
<1>1. /\ Len(h) \in Nat /\ s \in {0, 1}
      /\ s = 1 => a > AtrPeriod + 1
  BY WholeMeans DEF GoesOn
<1>2. AtrPeriod \in Nat
  BY DetectorAssumption
<1>3. /\ j \in 1..Len(h) /\ j > s /\ a > s
      /\ j - 1 \in 1..Len(h) /\ j - 1 > s /\ (j - 1) - s = (j - s) - 1
      /\ s = 1 => j > AtrPeriod + 1
  BY <1>1, <1>2
<1>4. g[j - s] = h[j] /\ g[(j - s) - 1] = h[j - 1] /\ g[a - s] = h[a]
  <2>1. g[j - s] = h[j] /\ g[(j - 1) - s] = h[j - 1] /\ g[a - s] = h[a]
    BY <1>3 DEF GoesOn
  <2> QED BY <1>3, <2>1
<1>5. Quiet(g, j - s) <=> Quiet(h, j)
  BY <1>3, SameQuiet
<1> QED BY <1>4, <1>5 DEF Joins

\* Where a base may end when the history has a candle for every place in it.
Ends(h, a) ==
    {e \in a..(a + MaxBase - 1) : \A j \in (a + 1)..e : Joins(h, a, j)}

\* A base ends at the last of them.
LEMMA BaseEndIs ==
    ASSUME NEW h \in Seq(Candle), NEW a \in 1..Len(h), a + Lookback <= Len(h)
    PROVE  /\ BaseEnd(h, a) = Max(Ends(h, a))
           /\ BaseEnd(h, a) \in Ends(h, a)
           /\ \A e \in Ends(h, a) : e <= BaseEnd(h, a)
<1>1. /\ MaxBase \in Nat \ {0} /\ Lookback \in Nat /\ MaxBase <= Lookback
      /\ Len(h) \in Nat
  BY DetectorAssumption, LookbackAssumption
<1>2. Min({a + MaxBase - 1, Len(h)}) = a + MaxBase - 1
  BY <1>1, MinOfTwo
<1>3. BaseEnd(h, a) = Max(Ends(h, a))
  BY <1>2 DEF BaseEnd, Ends
<1>4. a \in Ends(h, a) /\ Ends(h, a) \in SUBSET (0..(a + MaxBase - 1))
  BY <1>1 DEF Ends
<1>5. a + MaxBase - 1 \in Nat
  BY <1>1
<1>6. Max(Ends(h, a)) \in Ends(h, a) /\ \A e \in Ends(h, a) : Max(Ends(h, a)) >= e
  BY <1>4, <1>5, HasGreatest
<1>7. \A e \in Ends(h, a) : e \in Int
  BY <1>4
<1> QED BY <1>3, <1>6, <1>7, <1>4

\* A swing low stays one while its window is not dropped.
LEMMA SameSwingLow ==
    ASSUME NEW h, NEW g, NEW s, GoesOn(h, g, s), NEW a \in SwingLows(h),
           Whole(a, s)
    PROVE  /\ a \in 1..Len(h) /\ a + Lookback <= Len(h)
           /\ a - s \in 1..Len(g) /\ (a - s) + Lookback <= Len(g)
           /\ a - s \in SwingLows(g)
<1>1. /\ a \in Windowed(h) /\ Lookback \in Nat /\ s \in {0, 1}
      /\ h \in Seq(Candle) /\ g \in Seq(Candle)
      /\ Len(h) \in Nat /\ Len(g) \in Nat /\ Len(h) - s <= Len(g)
  BY LookbackAssumption DEF SwingLows, GoesOn
<1>2. /\ a \in Int /\ Lookback + 1 <= a /\ a + Lookback <= Len(h)
  BY <1>1 DEF Windowed
<1>3. s = 1 => a > Lookback + 1
  BY <1>2, WholeMeans
<1>4. /\ a \in 1..Len(h) /\ a - s \in 1..Len(g) /\ (a - s) + Lookback <= Len(g)
      /\ a - s \in Windowed(g)
  BY <1>1, <1>2, <1>3 DEF Windowed
<1>5. \A k \in 1..Len(h) : k - s >= 1 /\ k - s <= Len(g) => g[k - s] = h[k]
  BY <1>1 DEF GoesOn
<1>6. a - s \in SwingLows(g)
  BY <1>1, <1>4, <1>5, SameWindow
<1> QED BY <1>2, <1>4, <1>6

\* The base of a zone: the same candles.
LEMMA SameBase ==
    ASSUME NEW h, NEW g, NEW s, GoesOn(h, g, s), NEW a \in SwingLows(h),
           Whole(a, s)
    PROVE  /\ BaseEnd(h, a) \in a..(a + MaxBase - 1)
           /\ BaseEnd(h, a) < Len(h)
           /\ BaseEnd(g, a - s) = BaseEnd(h, a) - s
<1> DEFINE E == BaseEnd(h, a)
<1>1. /\ a \in 1..Len(h) /\ a + Lookback <= Len(h)
      /\ a - s \in 1..Len(g) /\ (a - s) + Lookback <= Len(g)
  BY SameSwingLow
<1>2. /\ MaxBase \in Nat \ {0} /\ Lookback \in Nat /\ MaxBase <= Lookback
      /\ h \in Seq(Candle) /\ g \in Seq(Candle)
      /\ Len(h) \in Nat /\ Len(g) \in Nat /\ s \in {0, 1}
  BY DetectorAssumption, LookbackAssumption DEF GoesOn
<1>3. E \in Ends(h, a) /\ \A e \in Ends(h, a) : e <= E
  BY <1>1, <1>2, BaseEndIs
<1> HIDE DEF E
<1>4. ASSUME NEW e \in a..(a + MaxBase - 1)
      PROVE  e - s \in Ends(g, a - s) <=> e \in Ends(h, a)
  <2>1. /\ e \in Int /\ e <= Len(h)
        /\ e - s \in (a - s)..((a - s) + MaxBase - 1)
    BY <1>1, <1>2
  <2>2. ASSUME NEW j \in (a + 1)..e
        PROVE  /\ j - s \in ((a - s) + 1)..(e - s)
               /\ Joins(g, a - s, j - s) <=> Joins(h, a, j)
    <3>1. j \in (a + 1)..Len(h)
      BY <1>1, <1>2, <2>1
    <3> QED BY <1>1, <1>2, <2>1, <3>1, SameJoins
  <2>3. ASSUME NEW j \in ((a - s) + 1)..(e - s)
        PROVE  j + s \in (a + 1)..e /\ (j + s) - s = j
    BY <1>1, <1>2, <2>1
  <2>4. (\A j \in ((a - s) + 1)..(e - s) : Joins(g, a - s, j))
          <=> (\A j \in (a + 1)..e : Joins(h, a, j))
    <3>1. ASSUME \A j \in (a + 1)..e : Joins(h, a, j),
                 NEW j \in ((a - s) + 1)..(e - s)
          PROVE  Joins(g, a - s, j)
      <4>1. j + s \in (a + 1)..e /\ (j + s) - s = j
        BY <2>3
      <4>2. Joins(g, a - s, (j + s) - s)
        BY <2>2, <3>1, <4>1
      <4> QED BY <4>1, <4>2
    <3>2. ASSUME \A j \in ((a - s) + 1)..(e - s) : Joins(g, a - s, j),
                 NEW j \in (a + 1)..e
          PROVE  Joins(h, a, j)
      BY <2>2, <3>2
    <3> QED BY <3>1, <3>2
  <2> QED BY <2>1, <2>4 DEF Ends
<1>5. E \in a..(a + MaxBase - 1)
  BY <1>3 DEF Ends
<1>6. E - s \in Ends(g, a - s)
  BY <1>3, <1>4, <1>5
<1>7. ASSUME NEW y \in Ends(g, a - s)
      PROVE  y \in Int /\ y <= E - s
  <2>1. y \in (a - s)..((a - s) + MaxBase - 1)
    BY DEF Ends
  <2>2. y + s \in a..(a + MaxBase - 1) /\ (y + s) - s = y
    BY <1>1, <1>2, <2>1
  <2>3. y + s \in Ends(h, a)
    BY <1>4, <2>2
  <2>4. y + s <= E
    BY <1>3, <2>3
  <2> QED BY <1>1, <1>2, <1>5, <2>1, <2>4
<1>8. BaseEnd(g, a - s) = E - s
  <2>1. BaseEnd(g, a - s) = Max(Ends(g, a - s))
    BY <1>1, <1>2, BaseEndIs
  <2>2. Max(Ends(g, a - s)) = E - s
    BY <1>6, <1>7, GreatestIs
  <2> QED BY <2>1, <2>2
<1>9. E < Len(h)
  BY <1>1, <1>2, <1>5
<1> QED BY <1>5, <1>8, <1>9 DEF E

\* A zone that is found once is found again, at the same price range.
LEMMA SameZone ==
    ASSUME NEW h, NEW g, NEW s, GoesOn(h, g, s), NEW a \in Anchors(h),
           Whole(a, s)
    PROVE  /\ a - s \in Anchors(g)
           /\ ZoneLow(g, a - s) = ZoneLow(h, a)
           /\ ZoneHigh(g, a - s) = ZoneHigh(h, a)
<1> DEFINE E == BaseEnd(h, a)
<1>1. /\ a \in SwingLows(h) /\ Quiet(h, a)
      /\ E + 1 <= Len(h) /\ Bullish(h[E + 1])
  BY DEF Anchors
<1>2. /\ a \in 1..Len(h) /\ a - s \in 1..Len(g) /\ a - s \in SwingLows(g)
      /\ E \in a..(a + MaxBase - 1) /\ BaseEnd(g, a - s) = E - s
  BY <1>1, SameSwingLow, SameBase
<1>3. /\ MaxBase \in Nat \ {0} /\ AtrPeriod \in Nat
      /\ Len(h) \in Nat /\ Len(g) \in Nat /\ s \in {0, 1}
      /\ Len(h) - s <= Len(g)
      /\ s = 1 => a > AtrPeriod + 1
  BY <1>2, DetectorAssumption, WholeMeans DEF GoesOn
<1> HIDE DEF E
<1>4. Quiet(g, a - s)
  BY <1>1, <1>2, <1>3, SameQuiet
<1>5. /\ (E - s) + 1 <= Len(g) /\ Bullish(g[(E - s) + 1]) /\ a - s < Len(g)
  <2>1. /\ E + 1 \in 1..Len(h) /\ E + 1 > s /\ (E + 1) - s = (E - s) + 1
        /\ (E - s) + 1 <= Len(g) /\ a - s < Len(g)
    BY <1>1, <1>2, <1>3
  <2>2. g[(E + 1) - s] = h[E + 1]
    BY <2>1 DEF GoesOn
  <2> QED BY <1>1, <2>1, <2>2
<1>6. a - s \in Anchors(g)
  BY <1>2, <1>4, <1>5 DEF Anchors
<1>7. \A j \in a..E : j - s \in (a - s)..(E - s) /\ g[j - s] = h[j]
  <2>1. \A j \in a..E : /\ j - s \in (a - s)..(E - s)
                        /\ j \in 1..Len(h) /\ j > s
    BY <1>1, <1>2, <1>3
  <2> QED BY <2>1 DEF GoesOn
<1>8. \A j \in (a - s)..(E - s) : j + s \in a..E /\ g[j] = h[j + s]
  <2>1. \A j \in (a - s)..(E - s) : j + s \in a..E /\ (j + s) - s = j
    BY <1>2, <1>3
  <2> QED BY <1>7, <2>1
<1>9. /\ {g[j].low : j \in (a - s)..(E - s)} = {h[j].low : j \in a..E}
      /\ {g[j].high : j \in (a - s)..(E - s)} = {h[j].high : j \in a..E}
  BY <1>7, <1>8
<1> QED BY <1>2, <1>6, <1>9 DEF ZoneLow, ZoneHigh, E

\* The displacement begins with a bullish candle and lies in the history.
LEMMA DispEndIs ==
    ASSUME NEW h \in Seq(Candle), NEW start \in 1..Len(h), Bullish(h[start]),
           NEW a, BaseEnd(h, a) + 1 = start
    PROVE  /\ DispEnd(h, a) \in start..Len(h)
           /\ DispEnd(h, a) <= start + DispLookahead - 1
           /\ \A j \in start..DispEnd(h, a) : Bullish(h[j])
           /\ \A d \in start..Len(h) :
                 d <= start + DispLookahead - 1 /\ (\A j \in start..d : Bullish(h[j]))
                     => d <= DispEnd(h, a)
<1> DEFINE last == Min({start + DispLookahead - 1, Len(h)})
           D == {d \in start..last : \A j \in start..d : Bullish(h[j])}
<1>1. /\ DispLookahead \in Nat \ {0} /\ Len(h) \in Nat /\ start \in Nat
  BY DetectorAssumption
<1>2. last = IF start + DispLookahead - 1 <= Len(h)
             THEN start + DispLookahead - 1 ELSE Len(h)
  BY <1>1, MinOfTwo
<1>3. DispEnd(h, a) = Max(D)
  BY DEF DispEnd
<1> HIDE DEF last
<1>4. last \in Nat /\ start <= last /\ last <= Len(h)
      /\ last <= start + DispLookahead - 1
  BY <1>1, <1>2
<1>5. start \in D /\ D \in SUBSET (0..last)
  <2>1. \A j \in start..start : j = start
    BY <1>1
  <2> QED BY <1>1, <1>4, <2>1
<1>6. Max(D) \in D /\ \A d \in D : Max(D) >= d
  <2> HIDE DEF D
  <2> QED BY <1>4, <1>5, HasGreatest
<1>7. ASSUME NEW d \in start..Len(h), d <= start + DispLookahead - 1,
             \A j \in start..d : Bullish(h[j])
      PROVE  d <= DispEnd(h, a)
  <2>1. d \in D
    BY <1>1, <1>2, <1>7
  <2>2. Max(D) >= d /\ Max(D) \in Int
    <3> HIDE DEF D
    <3>1. Max(D) \in 0..last
      BY <1>5, <1>6
    <3> QED BY <1>4, <1>6, <2>1, <3>1
  <2> QED BY <1>1, <1>3, <2>2
<1>8. /\ DispEnd(h, a) \in start..last
      /\ \A j \in start..DispEnd(h, a) : Bullish(h[j])
  BY <1>3, <1>6
<1> QED BY <1>1, <1>4, <1>7, <1>8

\* What an anchor promises of the candle after its base.
LEMMA AnchorMeans ==
    ASSUME NEW h \in Seq(Candle), NEW a \in Anchors(h)
    PROVE  /\ a \in SwingLows(h) /\ a \in 1..Len(h)
           /\ BaseEnd(h, a) + 1 \in 1..Len(h)
           /\ BaseEnd(h, a) \in a..Len(h)
           /\ Bullish(h[BaseEnd(h, a) + 1])
           /\ DispEnd(h, a) \in (BaseEnd(h, a) + 1)..Len(h)
<1>1. /\ a \in SwingLows(h) /\ BaseEnd(h, a) + 1 <= Len(h)
      /\ Bullish(h[BaseEnd(h, a) + 1])
  BY DEF Anchors
<1>2. a \in 1..Len(h) /\ Len(h) \in Nat
  BY <1>1, LookbackAssumption DEF SwingLows, Windowed
<1>3. BaseEnd(h, a) \in a..Len(h)
  BY <1>2, BaseEndBounds
<1>4. BaseEnd(h, a) + 1 \in 1..Len(h)
  BY <1>1, <1>2, <1>3
<1>5. DispEnd(h, a) \in (BaseEnd(h, a) + 1)..Len(h)
  BY <1>1, <1>4, DispEndIs
<1> QED BY <1>1, <1>2, <1>3, <1>4, <1>5

\* A displacement that is over stays where it ended.
LEMMA SameDisp ==
    ASSUME NEW h, NEW g, NEW s, GoesOn(h, g, s), NEW a \in Settled(h),
           Whole(a, s)
    PROVE  DispEnd(g, a - s) = DispEnd(h, a) - s
<1> DEFINE p == BaseEnd(h, a) + 1
           q == BaseEnd(g, a - s) + 1
           D == DispEnd(h, a)
           F == DispEnd(g, a - s)
<1>1. a \in Anchors(h) /\ D < Len(h)
  BY DEF Settled
<1>2. /\ h \in Seq(Candle) /\ g \in Seq(Candle) /\ s \in {0, 1}
      /\ Len(h) \in Nat /\ Len(g) \in Nat /\ Len(h) - s <= Len(g)
      /\ \A k \in 1..Len(h) : k > s => g[k - s] = h[k]
      /\ DispLookahead \in Nat \ {0} /\ AtrPeriod \in Nat
  BY DetectorAssumption DEF GoesOn
<1>3. /\ p \in 1..Len(h) /\ Bullish(h[p]) /\ a \in 1..Len(h)
      /\ BaseEnd(h, a) \in a..Len(h) /\ a \in SwingLows(h)
  BY <1>1, <1>2, AnchorMeans
<1>4. q \in 1..Len(g) /\ Bullish(g[q])
  BY <1>1, <1>2, SameZone, AnchorMeans
<1>5. q = p - s
  BY <1>2, <1>3, SameBase
<1>6. s = 1 => a > 1
  BY <1>2, <1>3, WholeMeans
<1>7. /\ D \in p..Len(h) /\ D <= p + DispLookahead - 1
      /\ \A j \in p..D : Bullish(h[j])
      /\ \A d \in p..Len(h) :
            d <= p + DispLookahead - 1 /\ (\A j \in p..d : Bullish(h[j])) => d <= D
  BY <1>2, <1>3, DispEndIs
<1>8. /\ F \in q..Len(g) /\ F <= q + DispLookahead - 1
      /\ \A j \in q..F : Bullish(g[j])
      /\ \A d \in q..Len(g) :
            d <= q + DispLookahead - 1 /\ (\A j \in q..d : Bullish(g[j])) => d <= F
  BY <1>2, <1>4, DispEndIs
<1>9. p > s
  BY <1>2, <1>3, <1>6
<1> HIDE DEF p, q, D, F
<1>10. D - s <= F
  <2>1. D - s \in q..Len(g) /\ D - s <= q + DispLookahead - 1
    BY <1>1, <1>2, <1>3, <1>5, <1>7
  <2>2. ASSUME NEW j \in q..(D - s)
        PROVE  Bullish(g[j])
    <3>1. j + s \in p..D /\ (j + s) - s = j /\ j + s \in 1..Len(h) /\ j + s > s
      BY <1>1, <1>2, <1>3, <1>4, <1>5, <1>7
    <3>2. g[(j + s) - s] = h[j + s]
      BY <1>2, <3>1
    <3> QED BY <1>7, <3>1, <3>2
  <2> QED BY <1>8, <2>1, <2>2
<1>11. F <= D - s
  <2> SUFFICES ASSUME F > D - s PROVE FALSE
    BY <1>2, <1>7, <1>8
  <2>1. /\ D + 1 \in p..Len(h) /\ D + 1 <= p + DispLookahead - 1
        /\ D + 1 > s /\ (D + 1) - s \in q..F
    BY <1>1, <1>2, <1>3, <1>5, <1>7, <1>8, <1>9
  <2>2. g[(D + 1) - s] = h[D + 1]
    BY <1>2, <1>3, <2>1
  <2>3. Bullish(h[D + 1])
    BY <1>8, <2>1, <2>2
  <2>4. \A j \in p..(D + 1) : Bullish(h[j])
    BY <1>3, <1>7, <2>3
  <2>5. D + 1 <= D
    BY <1>7, <2>1, <2>4
  <2> QED BY <1>7, <2>5
<1>12. F = D - s
  BY <1>2, <1>7, <1>8, <1>10, <1>11
<1> QED BY <1>12 DEF D, F

\* Where the candles after a displacement lie: what was seen is seen again.
LEMMA SameLies ==
    ASSUME NEW h, NEW g, NEW s, GoesOn(h, g, s), NEW a \in Settled(h),
           Whole(a, s)
    PROVE  LET lies == LiesAfter(h, a)
               more == LiesAfter(g, a - s)
           IN  \E S : /\ lies \in Seq(S) /\ more \in Seq(S)
                      /\ Len(lies) <= Len(more)
                      /\ \A i \in 1..Len(lies) : more[i] = lies[i]
<1> DEFINE D == DispEnd(h, a)
           low == ZoneLow(h, a)
           high == ZoneHigh(h, a)
           lies == LiesAfter(h, a)
           more == LiesAfter(g, a - s)
           n == Len(h) - D
           m == Len(g) - (D - s)
<1>1. a \in Anchors(h) /\ D < Len(h)
  BY DEF Settled
<1>2. /\ h \in Seq(Candle) /\ g \in Seq(Candle) /\ s \in {0, 1}
      /\ Len(h) \in Nat /\ Len(g) \in Nat /\ Len(h) - s <= Len(g)
      /\ \A k \in 1..Len(h) : k > s => g[k - s] = h[k]
  BY DEF GoesOn
<1>3. D \in 1..Len(h)
  BY <1>1, <1>2, AnchorMeans
<1>4. /\ ZoneLow(g, a - s) = low /\ ZoneHigh(g, a - s) = high
      /\ DispEnd(g, a - s) = D - s
  BY <1>1, SameZone, SameDisp
<1>5. /\ lies = [k \in 1..n |-> Lie(h[D + k], low, high)]
      /\ more = [k \in 1..m |-> Lie(g[(D - s) + k], low, high)]
  BY <1>4 DEF LiesAfter
<1> HIDE DEF D, low, high, lies, more
<1>6. n \in Nat /\ m \in Nat /\ n <= m
  BY <1>1, <1>2, <1>3
<1>7. \A k \in 1..n : more[k] = lies[k]
  <2> SUFFICES ASSUME NEW k \in 1..n PROVE more[k] = lies[k]
    OBVIOUS
  <2>1. /\ D + k \in 1..Len(h) /\ D + k > s /\ (D + k) - s = (D - s) + k
        /\ k \in 1..m
    BY <1>1, <1>2, <1>3, <1>6
  <2>2. g[(D - s) + k] = h[D + k]
    BY <1>2, <2>1
  <2> QED BY <1>5, <2>1, <2>2
<1> DEFINE S == {lies[k] : k \in 1..n} \cup {more[k] : k \in 1..m}
<1> HIDE DEF n, m
<1>8. lies \in Seq(S) /\ Len(lies) = n /\ more \in Seq(S) /\ Len(more) = m
  BY <1>5, <1>6
<1> QED BY <1>6, <1>7, <1>8 DEF lies, more

-----------------------------------------------------------------------------
(* Evidence *)

\* Swing points whose windows are not dropped stay, and those before a base or
\* before a displacement's end were there already once their windows were.
LEMMA SameSwings ==
    ASSUME NEW h, NEW g, NEW s, GoesOn(h, g, s)
    PROVE  /\ \A i \in SwingLows(h) : i > Lookback + s => i - s \in SwingLows(g)
           /\ \A e \in Int : e - 1 + Lookback <= Len(h) =>
                 /\ \A i \in LowsBefore(h, e) :
                       i > Lookback + s => i - s \in LowsBefore(g, e - s)
                 /\ \A i \in LowsBefore(g, e - s) : i + s \in LowsBefore(h, e)
                 /\ \A i \in HighsBefore(h, e) :
                       i > Lookback + s => i - s \in HighsBefore(g, e - s)
                 /\ \A i \in HighsBefore(g, e - s) : i + s \in HighsBefore(h, e)
<1>1. /\ h \in Seq(Candle) /\ g \in Seq(Candle) /\ Lookback \in Nat
      /\ Len(h) \in Nat /\ Len(g) \in Nat /\ Len(h) - s <= Len(g) /\ s \in {0, 1}
      /\ \A k \in 1..Len(h) : k - s >= 1 /\ k - s <= Len(g) => g[k - s] = h[k]
  BY LookbackAssumption DEF GoesOn
<1>2. /\ SwingLows(h) \subseteq Windowed(h) /\ SwingHighs(h) \subseteq Windowed(h)
      /\ SwingLows(g) \subseteq Windowed(g) /\ SwingHighs(g) \subseteq Windowed(g)
      /\ Windowed(h) \subseteq Int /\ Windowed(g) \subseteq Int
  BY DEF SwingLows, SwingHighs, Windowed
<1>3. ASSUME NEW i \in Windowed(h), i > Lookback + s
      PROVE  /\ i \in SwingLows(h) <=> i - s \in SwingLows(g)
             /\ i \in SwingHighs(h) <=> i - s \in SwingHighs(g)
  <2>1. i - s \in Windowed(g)
    BY <1>1, <1>3 DEF Windowed
  <2> QED BY <1>1, <2>1, SameWindow
<1>4. ASSUME NEW i \in Windowed(g), i + s + Lookback <= Len(h)
      PROVE  /\ i + s \in SwingLows(h) <=> i \in SwingLows(g)
             /\ i + s \in SwingHighs(h) <=> i \in SwingHighs(g)
  <2>1. i + s \in Windowed(h) /\ i + s > Lookback + s /\ (i + s) - s = i
    BY <1>1, <1>4 DEF Windowed
  <2>2. /\ i + s \in SwingLows(h) <=> (i + s) - s \in SwingLows(g)
        /\ i + s \in SwingHighs(h) <=> (i + s) - s \in SwingHighs(g)
    BY <1>3, <2>1
  <2> QED BY <2>1, <2>2
<1>5. ASSUME NEW e \in Int, e - 1 + Lookback <= Len(h), NEW i \in Windowed(g),
             i < e - s
      PROVE  i + s + Lookback <= Len(h) /\ i + s < e
  BY <1>1, <1>2, <1>5
<1>6. \A e \in Int : \A i \in Int : i < e => i - s < e - s
  BY <1>1
<1> QED BY <1>2, <1>3, <1>4, <1>5, <1>6 DEF LowsBefore, HighsBefore

\* Whether the latest of the swing points S is still one after a step.
Stays(S, s) == s = 1 /\ S # {} => Max(S) > Lookback + 1

\* Swing points T of a history of n candles are found again in U, s places
\* further to the front, but for one whose window is dropped.
Moved(T, U, s, n) ==
    /\ n \in Nat /\ s \in {0, 1}
    /\ T \in SUBSET (1..n) /\ U \in SUBSET Int
    /\ \A i \in T : i > Lookback
    /\ \A i \in T : i > Lookback + s => i - s \in U
    /\ \A i \in U : i + s \in T

\* The latest of them moves with its candle.
LEMMA LatestShifts ==
    ASSUME NEW n, NEW T, NEW U, NEW s, Moved(T, U, s, n), Stays(T, s)
    PROVE  /\ U = {} <=> T = {}
           /\ T # {} => Max(T) \in T /\ Max(U) = Max(T) - s
<1> USE DEF Moved, Stays
<1>1. Lookback \in Nat
  BY LookbackAssumption
<1>2. CASE T = {}
  BY <1>2
<1>3. CASE T # {}
  <2>1. Max(T) \in T /\ \A y \in T : Max(T) >= y
    <3>1. T \in SUBSET (0..n)
      OBVIOUS
    <3> QED BY <1>3, <3>1, HasGreatest
  <2> PICK m \in T : m = Max(T)
    BY <2>1
  <2>2. m \in Int /\ m > Lookback + s
    BY <1>1, <1>3
  <2>3. m - s \in U
    BY <2>2
  <2>4. \A y \in U : y <= m - s
    <3> SUFFICES ASSUME NEW y \in U PROVE y <= m - s
      OBVIOUS
    <3>1. y \in Int /\ y + s \in T
      OBVIOUS
    <3>2. m >= y + s
      BY <2>1, <3>1
    <3> QED BY <2>2, <3>1, <3>2
  <2>5. Max(U) = m - s
    BY <2>3, <2>4, GreatestIs
  <2> QED BY <1>3, <2>3, <2>5
<1> QED BY <1>2, <1>3

\* Swing points have a full window before them.
LEMMA Inside ==
    ASSUME NEW h \in Seq(Candle), NEW e
    PROVE  /\ LowsBefore(h, e) \in SUBSET (1..Len(h))
           /\ HighsBefore(h, e) \in SUBSET (1..Len(h))
           /\ \A i \in LowsBefore(h, e) : i > Lookback
           /\ \A i \in HighsBefore(h, e) : i > Lookback
BY LookbackAssumption DEF LowsBefore, HighsBefore, SwingLows, SwingHighs, Windowed

\* The latest swing low before a base.
LEMMA SameLatestLow ==
    ASSUME NEW h, NEW g, NEW s, GoesOn(h, g, s), NEW e \in Int,
           e - 1 + Lookback <= Len(h), Stays(LowsBefore(h, e), s)
    PROVE  /\ LowsBefore(g, e - s) = {} <=> LowsBefore(h, e) = {}
           /\ LowsBefore(h, e) # {} =>
                 /\ Max(LowsBefore(h, e)) \in LowsBefore(h, e)
                 /\ Max(LowsBefore(g, e - s)) = Max(LowsBefore(h, e)) - s
                 /\ g[Max(LowsBefore(g, e - s))] = h[Max(LowsBefore(h, e))]
<1> PICK T : T = LowsBefore(h, e)
  OBVIOUS
<1> PICK U : U = LowsBefore(g, e - s)
  OBVIOUS
<1>1. /\ h \in Seq(Candle) /\ g \in Seq(Candle) /\ s \in {0, 1}
      /\ Len(h) \in Nat /\ Lookback \in Nat
      /\ \A k \in 1..Len(h) : k > s => g[k - s] = h[k]
  BY LookbackAssumption DEF GoesOn
<1>2. /\ T \in SUBSET (1..Len(h)) /\ U \in SUBSET Int
      /\ \A i \in T : i > Lookback
  BY <1>1, Inside
<1>3. /\ \A i \in T : i > Lookback + s => i - s \in U
      /\ \A i \in U : i + s \in T
  BY SameSwings
<1>4. Stays(T, s) /\ (s = 1 /\ T # {} => Max(T) > Lookback + 1)
  BY DEF Stays
<1>5. /\ U = {} <=> T = {}
      /\ T # {} => Max(T) \in T /\ Max(U) = Max(T) - s
  <2>1. Moved(T, U, s, Len(h))
    BY <1>1, <1>2, <1>3 DEF Moved
  <2> QED BY <1>4, <2>1, LatestShifts
<1>6. T # {} => g[Max(U)] = h[Max(T)]
  <2> SUFFICES ASSUME T # {} PROVE g[Max(U)] = h[Max(T)]
    OBVIOUS
  <2>1. Max(T) \in 1..Len(h) /\ Max(T) > s
    BY <1>1, <1>2, <1>4, <1>5
  <2> QED BY <1>1, <1>5, <2>1
<1> QED BY <1>5, <1>6

\* The latest of swing highs, where those of the one history are those of the
\* other.
LEMMA SameLatestHigh ==
    ASSUME NEW h, NEW g, NEW s, GoesOn(h, g, s),
           NEW T, NEW U, Moved(T, U, s, Len(h)), Stays(T, s)
    PROVE  /\ U = {} <=> T = {}
           /\ T # {} => g[Max(U)] = h[Max(T)]
<1>1. /\ s \in {0, 1} /\ Len(h) \in Nat /\ Lookback \in Nat
      /\ \A k \in 1..Len(h) : k > s => g[k - s] = h[k]
  BY LookbackAssumption DEF GoesOn
<1>2. s = 1 /\ T # {} => Max(T) > Lookback + 1
  BY DEF Stays
<1>3. /\ U = {} <=> T = {}
      /\ T # {} => Max(T) \in T /\ Max(U) = Max(T) - s
  BY LatestShifts
<1>4. T # {} => g[Max(U)] = h[Max(T)]
  <2> SUFFICES ASSUME T # {} PROVE g[Max(U)] = h[Max(T)]
    OBVIOUS
  <2> PICK m : m = Max(T)
    OBVIOUS
  <2>1. m \in 1..Len(h) /\ (s = 1 => m > Lookback + 1)
    BY <1>2, <1>3 DEF Moved
  <2>2. m > s
    BY <1>1, <2>1
  <2> QED BY <1>1, <1>3, <2>1, <2>2
<1> QED BY <1>3, <1>4

\* The swing low a sweep dips below lies before the base.
LEMMA SameSweep ==
    ASSUME NEW h, NEW g, NEW s, GoesOn(h, g, s), NEW a \in 1..Len(h), a > s,
           a + Lookback <= Len(h), Stays(LowsBefore(h, a), s)
    PROVE  LiquiditySweep(g, a - s) = LiquiditySweep(h, a)
<1>1. a \in Int /\ a - 1 + Lookback <= Len(h) /\ g[a - s] = h[a]
  BY LookbackAssumption DEF GoesOn
<1>2. /\ LowsBefore(g, a - s) = {} <=> LowsBefore(h, a) = {}
      /\ LowsBefore(h, a) # {}
            => g[Max(LowsBefore(g, a - s))] = h[Max(LowsBefore(h, a))]
  BY <1>1, SameLatestLow
<1>3. CASE LowsBefore(h, a) = {}
  BY <1>2, <1>3 DEF LiquiditySweep
<1>4. CASE LowsBefore(h, a) # {}
  <2>1. LatestLow(g, a - s) = LatestLow(h, a)
    BY <1>2, <1>4 DEF LatestLow
  <2> QED BY <1>1, <1>2, <1>4, <2>1 DEF LiquiditySweep
<1> QED BY <1>3, <1>4

\* So does the leg a zone is a retracement of.
LEMMA SameFib ==
    ASSUME NEW h, NEW g, NEW s, GoesOn(h, g, s), NEW a \in 1..Len(h), a > s,
           a + Lookback <= Len(h), Stays(LowsBefore(h, a), s),
           NEW low, NEW high
    PROVE  FibConfluence(g, low, high, a - s) = FibConfluence(h, low, high, a)
<1> DEFINE HighsAfterLow(f, b) == {i \in HighsBefore(f, b) :
                               LowsBefore(f, b) # {} /\ i > Max(LowsBefore(f, b))}
           At(bottom, top, level) ==
              LET fib == FibPrice(bottom.low, top.high, level)
              IN  Distance(100 * (low + high), fib) * 10000 <= FibTolerance * fib
           Fib(bottom, top) ==
              LET matching == {n \in DOMAIN FibLevels : At(bottom, top, FibLevels[n])}
              IN  IF top.high <= bottom.low \/ matching = {}
                  THEN NoFib ELSE FibLevels[Min(matching)]
<1> PICK T : T = LowsBefore(h, a)
  OBVIOUS
<1> PICK U : U = LowsBefore(g, a - s)
  OBVIOUS
<1>1. /\ h \in Seq(Candle) /\ g \in Seq(Candle) /\ s \in {0, 1}
      /\ Len(h) \in Nat /\ Lookback \in Nat
      /\ a \in Int /\ a - 1 + Lookback <= Len(h)
  BY LookbackAssumption DEF GoesOn
<1>2. /\ U = {} <=> T = {}
      /\ T # {} => /\ Max(T) \in T /\ Max(U) = Max(T) - s
                   /\ g[Max(U)] = h[Max(T)]
  BY <1>1, SameLatestLow
<1>3. \A f, b : FibConfluence(f, low, high, b) =
                   IF HighsAfterLow(f, b) = {} THEN NoFib
                   ELSE Fib(f[Max(LowsBefore(f, b))], f[Max(HighsAfterLow(f, b))])
  BY DEF FibConfluence
<1>4. CASE T = {}
  <2>1. HighsAfterLow(h, a) = {} /\ HighsAfterLow(g, a - s) = {}
    BY <1>2, <1>4
  <2> HIDE DEF HighsAfterLow, Fib
  <2> QED BY <1>3, <2>1
<1>5. CASE T # {}
  <2>1. PICK m \in Int : m = Max(T) /\ m > Lookback + s /\ m \in T
    <3>1. T \in SUBSET (1..Len(h)) /\ \A i \in T : i > Lookback
      BY <1>1, Inside
    <3>2. s = 1 => Max(T) > Lookback + 1
      BY <1>5 DEF Stays
    <3> QED BY <1>1, <1>2, <1>5, <3>1, <3>2
  <2>2. HighsAfterLow(h, a) = {i \in HighsBefore(h, a) : i > m}
    BY <1>5, <2>1
  <2>3. HighsAfterLow(g, a - s) = {i \in HighsBefore(g, a - s) : i > m - s}
    BY <1>2, <1>5, <2>1
  <2>4. /\ HighsBefore(h, a) \in SUBSET (1..Len(h))
        /\ HighsBefore(g, a - s) \in SUBSET (1..Len(g))
        /\ \A i \in HighsBefore(h, a) : i > Lookback
        /\ \A i \in HighsBefore(h, a) :
              i > Lookback + s => i - s \in HighsBefore(g, a - s)
        /\ \A i \in HighsBefore(g, a - s) : i + s \in HighsBefore(h, a)
    BY <1>1, Inside, SameSwings
  <2>5. PICK A : A = HighsAfterLow(h, a)
    OBVIOUS
  <2>6. PICK B : B = HighsAfterLow(g, a - s)
    OBVIOUS
  <2> HIDE DEF HighsAfterLow, Fib
  <2>7. /\ A \in SUBSET (1..Len(h)) /\ B \in SUBSET Int
        /\ \A i \in A : i > Lookback /\ i > Lookback + s
        /\ \A i \in A : i > Lookback + s => i - s \in B
        /\ \A i \in B : i + s \in A
    BY <1>1, <2>1, <2>2, <2>3, <2>4, <2>5, <2>6
  <2>8. Stays(A, s)
    <3> SUFFICES ASSUME A # {} PROVE Max(A) > Lookback + s
      BY DEF Stays
    <3>1. A \in SUBSET (0..Len(h))
      BY <2>7
    <3>2. Max(A) \in A
      BY <1>1, <3>1, HasGreatest
    <3> QED BY <2>7, <3>2
  <2>9. Moved(A, B, s, Len(h))
    BY <1>1, <2>7 DEF Moved
  <2>10. /\ B = {} <=> A = {}
         /\ A # {} => g[Max(B)] = h[Max(A)]
    BY <2>8, <2>9, SameLatestHigh
  <2> QED BY <1>2, <1>3, <1>5, <2>5, <2>6, <2>10
<1> QED BY <1>4, <1>5

\* What a zone's evidence is measured against is not dropped.
Outlasts(h, a, s) ==
    s = 1 =>
        /\ \A n \in {Lookback, AtrPeriod, VolumeWindow, EqualWindow + Lookback} :
               a > n + 1
        /\ \A S \in {LowsBefore(h, a), HighsBefore(h, DispEnd(h, a))} :
               S # {} => Max(S) > Lookback + 1

\* Which is more than its price range needs.
LEMMA OutlastsMeans ==
    ASSUME NEW h, NEW a \in Int, NEW s \in {0, 1}, Outlasts(h, a, s)
    PROVE  /\ Whole(a, s)
           /\ s = 1 => a > VolumeWindow + 1 /\ a > AtrPeriod + 1
                       /\ a > EqualWindow + Lookback + 1 /\ a > Lookback + 1
           /\ Stays(LowsBefore(h, a), s)
           /\ Stays(HighsBefore(h, DispEnd(h, a)), s)
<1>1. s = 1 => /\ a > VolumeWindow + 1 /\ a > AtrPeriod + 1
               /\ a > EqualWindow + Lookback + 1 /\ a > Lookback + 1
  BY DEF Outlasts
<1>2. Whole(a, s)
  BY <1>1, LookbackAssumption, DetectorAssumption, MaxOfTwo DEF Whole
<1>3. Stays(LowsBefore(h, a), s) /\ Stays(HighsBefore(h, DispEnd(h, a)), s)
  BY DEF Outlasts, Stays
<1> QED BY <1>1, <1>2, <1>3

\* The volume of the same candles is the same.
LEMMA SameVolume ==
    ASSUME NEW h, NEW g, NEW s, GoesOn(h, g, s), NEW i \in Int, NEW n \in Int,
           i > s, i + n - 1 <= Len(h)
    PROVE  Volume(g, i - s, n) = Volume(h, i, n)
<1>1. s \in {0, 1} /\ Len(h) \in Nat
  BY DEF GoesOn
<1>2. ASSUME NEW k \in 1..n
      PROVE  g[(i - s) + k - 1] = h[i + k - 1]
  <2>1. /\ i + k - 1 \in 1..Len(h) /\ i + k - 1 > s
        /\ (i + k - 1) - s = (i - s) + k - 1
    BY <1>1
  <2>2. g[(i + k - 1) - s] = h[i + k - 1]
    BY <2>1 DEF GoesOn
  <2> QED BY <2>1, <2>2
<1>3. [k \in 1..n |-> g[(i - s) + k - 1].volume]
        = [k \in 1..n |-> h[i + k - 1].volume]
  BY <1>2
<1> QED BY <1>3 DEF Volume

\* Everything a settled zone's evidence is made of lies in both histories.
LEMMA SameEvidence ==
    ASSUME NEW h, NEW g, NEW s, GoesOn(h, g, s), NEW a \in Settled(h),
           Outlasts(h, a, s)
    PROVE  Evidence(g, a - s) = Evidence(h, a)
<1> DEFINE p == BaseEnd(h, a) + 1
           D == DispEnd(h, a)
<1>1. /\ h \in Seq(Candle) /\ Len(h) \in Nat /\ s \in {0, 1}
      /\ \A k \in 1..Len(h) : k > s => g[k - s] = h[k]
      /\ a \in Anchors(h)
  BY DEF Settled, GoesOn
<1>2. /\ p \in 1..Len(h) /\ D \in p..Len(h)
      /\ a \in SwingLows(h) /\ a \in 1..Len(h) /\ a < p
  BY <1>1, AnchorMeans
<1>3. /\ Whole(a, s) /\ Stays(LowsBefore(h, a), s)
      /\ s = 1 => /\ a > VolumeWindow + 1 /\ a > AtrPeriod + 1
                  /\ a > Lookback + 1
  BY <1>1, <1>2, OutlastsMeans
<1>4. /\ AtrPeriod \in Nat /\ VolumeWindow \in Nat /\ Lookback \in Nat
  BY DetectorAssumption, LookbackAssumption
<1>5. a > s /\ p > s /\ (s = 1 => p > AtrPeriod + 1 /\ p > VolumeWindow + 2)
  BY <1>1, <1>2, <1>3, <1>4
<1>6. /\ BaseEnd(g, a - s) + 1 = p - s /\ DispEnd(g, a - s) = D - s
      /\ ZoneLow(g, a - s) = ZoneLow(h, a) /\ ZoneHigh(g, a - s) = ZoneHigh(h, a)
      /\ a + Lookback <= Len(h)
  <2>1. BaseEnd(g, a - s) = BaseEnd(h, a) - s /\ BaseEnd(h, a) \in Int
        /\ a + Lookback <= Len(h)
    BY <1>1, <1>2, <1>3, SameBase, SameSwingLow, DetectorAssumption
  <2>2. DispEnd(g, a - s) = DispEnd(h, a) - s
    BY <1>3, SameDisp
  <2>3. ZoneLow(g, a - s) = ZoneLow(h, a) /\ ZoneHigh(g, a - s) = ZoneHigh(h, a)
    BY <1>1, <1>3, SameZone
  <2> QED BY <1>1, <2>1, <2>2, <2>3
<1> HIDE DEF p, D
<1>7. Departure(g, a - s) = Departure(h, a)
  <2>1. \A j \in p..D : j - s \in (p - s)..(D - s) /\ g[j - s] = h[j]
    BY <1>1, <1>2, <1>5
  <2>2. \A j \in (p - s)..(D - s) : j + s \in p..D /\ g[j] = h[j + s]
    <3>1. \A j \in (p - s)..(D - s) : j + s \in p..D /\ (j + s) - s = j
      BY <1>1, <1>2
    <3> QED BY <2>1, <3>1
  <2>3. {g[j].high : j \in (p - s)..(D - s)} = {h[j].high : j \in p..D}
    BY <2>1, <2>2
  <2>4. Atr(g, p - s) = Atr(h, p)
    BY <1>2, <1>5, SameAtr
  <2>5. Departure(h, a) = [rise |-> Max({h[j].high : j \in p..D}) - ZoneHigh(h, a),
                           atr |-> Atr(h, p)]
    BY DEF Departure, p, D
  <2>6. Departure(g, a - s) =
          [rise |-> Max({g[j].high : j \in (p - s)..(D - s)}) - ZoneHigh(g, a - s),
           atr |-> Atr(g, p - s)]
    BY <1>6 DEF Departure
  <2> QED BY <1>6, <2>3, <2>4, <2>5, <2>6
<1>8. VolumeExpansion(g, a - s) = VolumeExpansion(h, a)
  <2> DEFINE n == D - p + 1
             fh == Max({1, p - VolumeWindow})
             fg == Max({1, (p - s) - VolumeWindow})
             Ratio(f, i, first, m) ==
                 IF Volume(f, first, m) = 0 THEN [num |-> 1, den |-> 1]
                 ELSE [num |-> Volume(f, i, n) * m, den |-> Volume(f, first, m) * n]
  <2>1. /\ fh = IF 1 >= p - VolumeWindow THEN 1 ELSE p - VolumeWindow
        /\ fg = IF 1 >= (p - s) - VolumeWindow THEN 1 ELSE (p - s) - VolumeWindow
    <3>1. p - VolumeWindow \in Int /\ (p - s) - VolumeWindow \in Int
      BY <1>1, <1>2, <1>4
    <3> QED BY <3>1, MaxOfTwo
  <2>2. VolumeExpansion(h, a) = Ratio(h, p, fh, p - fh)
    BY DEF VolumeExpansion, p, D
  <2>3. VolumeExpansion(g, a - s) = Ratio(g, p - s, fg, (p - s) - fg)
    <3>1. (D - s) - (p - s) + 1 = n
      BY <1>1, <1>2
    <3>2. VolumeExpansion(g, a - s) =
            IF Volume(g, fg, (p - s) - fg) = 0 THEN [num |-> 1, den |-> 1]
            ELSE [num |-> Volume(g, p - s, (D - s) - (p - s) + 1) * ((p - s) - fg),
                  den |-> Volume(g, fg, (p - s) - fg) * ((D - s) - (p - s) + 1)]
      BY <1>6 DEF VolumeExpansion
    <3> HIDE DEF n, fg
    <3> QED BY <3>1, <3>2
  <2> HIDE DEF fh, fg, n
  <2>4. fg = fh - s /\ fh \in Int /\ fh > s /\ fh <= p /\ (p - s) - fg = p - fh
    BY <1>1, <1>2, <1>4, <1>5, <2>1
  <2>5. n \in Int /\ p + n - 1 <= Len(h)
    BY <1>2 DEF n
  <2>6. /\ Volume(g, p - s, n) = Volume(h, p, n)
        /\ Volume(g, fg, p - fh) = Volume(h, fh, p - fh)
    <3>1. p - fh \in Int /\ fh + (p - fh) - 1 <= Len(h)
      BY <1>1, <1>2, <2>4
    <3>2. Volume(g, p - s, n) = Volume(h, p, n)
      BY <1>2, <1>5, <2>5, SameVolume
    <3>3. Volume(g, fh - s, p - fh) = Volume(h, fh, p - fh)
      BY <2>4, <3>1, SameVolume
    <3> QED BY <2>4, <3>2, <3>3
  <2>7. Ratio(g, p - s, fg, (p - s) - fg) = Ratio(h, p, fh, p - fh)
    BY <2>4, <2>6
  <2> QED BY <2>2, <2>3, <2>7
<1>9. LiquiditySweep(g, a - s) = LiquiditySweep(h, a)
  BY <1>2, <1>3, <1>5, <1>6, SameSweep
<1>10. FibConfluence(g, ZoneLow(g, a - s), ZoneHigh(g, a - s), a - s)
        = FibConfluence(h, ZoneLow(h, a), ZoneHigh(h, a), a)
  BY <1>2, <1>3, <1>5, <1>6, SameFib
<1> QED BY <1>7, <1>8, <1>9, <1>10 DEF Evidence

\* Equal lows stay.
LEMMA EqualLowsStay ==
    ASSUME NEW h, NEW g, NEW s, GoesOn(h, g, s), NEW a \in Int, EqualLows(h, a),
           s = 1 => a > EqualWindow + Lookback + 1
    PROVE  EqualLows(g, a - s)
<1> DEFINE Near(f, b) == {i \in SwingLows(f) : Distance(i, b) <= EqualWindow}
           Level(x, y) == Distance(x, y) * 10000 <= EqualTolerance * Min({x, y})
<1>1. /\ h \in Seq(Candle) /\ s \in {0, 1} /\ Lookback \in Nat /\ EqualWindow \in Nat
      /\ Len(h) \in Nat /\ \A k \in 1..Len(h) : k > s => g[k - s] = h[k]
  BY LookbackAssumption, StructureAssumption DEF GoesOn
<1>2. \A f, b : EqualLows(f, b) <=>
        \E x \in Near(f, b), y \in Near(f, b) : x < y /\ Level(f[x].low, f[y].low)
  BY DEF EqualLows
<1>3. ASSUME NEW i \in Near(h, a)
      PROVE  i \in Int /\ i - s \in Near(g, a - s) /\ g[i - s] = h[i]
  <2>1. /\ i \in SwingLows(h) /\ i \in 1..Len(h) /\ i > Lookback
        /\ Distance(i, a) <= EqualWindow
    BY <1>1 DEF SwingLows, Windowed
  <2>2. i > Lookback + s
    BY <1>1, <2>1 DEF Distance
  <2>3. i - s \in SwingLows(g)
    BY <2>1, <2>2, SameSwings
  <2>4. Distance(i - s, a - s) = Distance(i, a)
    BY <1>1, <2>1 DEF Distance
  <2> QED BY <1>1, <2>1, <2>2, <2>3, <2>4
<1>4. PICK i \in Near(h, a), j \in Near(h, a) : i < j /\ Level(h[i].low, h[j].low)
  <2> HIDE DEF Near, Level
  <2> QED BY <1>2
<1>5. /\ i - s \in Near(g, a - s) /\ j - s \in Near(g, a - s)
      /\ g[i - s] = h[i] /\ g[j - s] = h[j] /\ i \in Int /\ j \in Int
  BY <1>3
<1>6. i - s < j - s /\ Level(g[i - s].low, g[j - s].low)
  BY <1>1, <1>4, <1>5
<1> HIDE DEF Near, Level
<1> QED BY <1>2, <1>5, <1>6

\* A break of structure stays once every high before the displacement's end
\* has its window.
LEMMA BreakStays ==
    ASSUME NEW h, NEW g, NEW s, GoesOn(h, g, s), NEW e \in 1..Len(h),
           e - 1 + Lookback <= Len(h), BreakOfStructure(h, e),
           Stays(HighsBefore(h, e), s)
    PROVE  BreakOfStructure(g, e - s)
<1> PICK T : T = HighsBefore(h, e)
  OBVIOUS
<1> PICK U : U = HighsBefore(g, e - s)
  OBVIOUS
<1>1. /\ h \in Seq(Candle) /\ g \in Seq(Candle) /\ s \in {0, 1}
      /\ Len(h) \in Nat /\ Len(g) \in Nat /\ Lookback \in Nat /\ e \in Int
      /\ Len(h) - s <= Len(g) /\ \A k \in 1..Len(h) : k > s => g[k - s] = h[k]
  BY LookbackAssumption DEF GoesOn
<1>2. /\ T \in SUBSET (1..Len(h)) /\ U \in SUBSET Int
      /\ \A i \in T : i > Lookback /\ i < e
  <2>1. /\ T \in SUBSET (1..Len(h)) /\ U \in SUBSET (1..Len(g))
        /\ \A i \in T : i > Lookback
    BY <1>1, Inside
  <2>2. \A i \in T : i < e
    BY DEF HighsBefore
  <2> QED BY <2>1, <2>2
<1>3. /\ \A i \in T : i > Lookback + s => i - s \in U
      /\ \A i \in U : i + s \in T
  BY <1>1, SameSwings
<1>4. T # {}
  BY DEF BreakOfStructure
<1>5. U # {} /\ g[Max(U)] = h[Max(T)]
  <2>1. Moved(T, U, s, Len(h)) /\ Stays(T, s)
    BY <1>1, <1>2, <1>3 DEF Moved
  <2> QED BY <1>4, <2>1, SameLatestHigh
<1>6. LatestHigh(g, e - s) = LatestHigh(h, e)
  BY <1>5 DEF LatestHigh
<1>7. PICK k \in e..Min({Len(h), e + BosLookahead - 1}) :
         h[k].close > LatestHigh(h, e)
  BY DEF BreakOfStructure
<1>8. /\ Min({Len(h), e + BosLookahead - 1})
           = IF Len(h) <= e + BosLookahead - 1 THEN Len(h) ELSE e + BosLookahead - 1
      /\ Min({Len(g), (e - s) + BosLookahead - 1})
           = IF Len(g) <= (e - s) + BosLookahead - 1 THEN Len(g)
             ELSE (e - s) + BosLookahead - 1
      /\ BosLookahead \in Nat
  <2> DEFINE last == e + BosLookahead - 1
             next == (e - s) + BosLookahead - 1
  <2>1. last \in Int /\ next \in Int /\ BosLookahead \in Nat
        /\ Len(h) \in Int /\ Len(g) \in Int
    BY <1>1, StructureAssumption
  <2> HIDE DEF last, next
  <2>2. Min({Len(h), last}) = IF Len(h) <= last THEN Len(h) ELSE last
    BY <2>1, MinOfTwo
  <2>3. Min({Len(g), next}) = IF Len(g) <= next THEN Len(g) ELSE next
    BY <2>1, MinOfTwo
  <2> QED BY <2>1, <2>2, <2>3 DEF last, next
<1>9. e > s
  <2>1. PICK i \in T : TRUE
    BY <1>4
  <2> QED BY <1>1, <1>2, <2>1
<1>10. /\ k \in 1..Len(h) /\ k > s
       /\ k - s \in (e - s)..Min({Len(g), (e - s) + BosLookahead - 1})
  BY <1>1, <1>7, <1>8, <1>9
<1>11. g[k - s].close > LatestHigh(g, e - s)
  BY <1>1, <1>6, <1>7, <1>10
<1> QED BY <1>5, <1>10, <1>11 DEF BreakOfStructure

-----------------------------------------------------------------------------
(* From scan to scan *)

\* The closed candles are all but the last.
LEMMA ClosedIs ==
    ASSUME NEW h \in Seq(Candle), Len(h) \in Nat \ {0}
    PROVE  /\ Closed(h) \in Seq(Candle) /\ Len(Closed(h)) = Len(h) - 1
           /\ \A k \in 1..(Len(h) - 1) : Closed(h)[k] = h[k]
<1> DEFINE n == Len(h)
           g == Closed(h)
<1>1. \A k \in 1..(n - 1) : h[k] \in Candle
  BY ElementOfSeq
<1>2. g = SubSeq(h, 1, n - 1)
  BY DEF Closed, Front
<1>3. n \in Nat \ {0} /\ 1 \in Int /\ n - 1 \in Int
  OBVIOUS
<1> HIDE DEF n, g
<1>4. /\ g \in Seq(Candle)
      /\ Len(g) = IF 1 <= n - 1 THEN (n - 1) - 1 + 1 ELSE 0
      /\ \A k \in 1..((n - 1) - 1 + 1) : g[k] = h[1 + k - 1]
  BY <1>1, <1>2, <1>3, SubSeqProperties
<1>5. (IF 1 <= n - 1 THEN (n - 1) - 1 + 1 ELSE 0) = n - 1
  BY <1>3
<1>6. \A k \in 1..(n - 1) : 1 + k - 1 = k /\ k \in 1..((n - 1) - 1 + 1)
  BY <1>3
<1>7. g \in Seq(Candle) /\ Len(g) = n - 1 /\ \A k \in 1..(n - 1) : g[k] = h[k]
  BY <1>4, <1>5, <1>6
<1> QED BY <1>7 DEF n, g

\* A later scan's history, with and without its open candle, goes on from the
\* closed candles of an earlier one.
LEMMA StepGoesOn ==
    ASSUME HistoryInv, [Next]_historyVars
    PROVE  /\ GoesOn(Closed(df), df', Shift)
           /\ GoesOn(Closed(df), Closed(df'), Shift)
<1>1. /\ df \in Seq(Candle) /\ Len(df) \in Nat \ {0}
      /\ df' \in Seq(Candle) /\ Len(df') \in Nat \ {0}
      /\ Shift \in {0, 1} /\ Len(df') >= Len(df) - Shift
      /\ \A k \in 1..(Len(df) - 1) :
            k - Shift >= 1 /\ k - Shift <= Len(df') => df'[k - Shift] = df[k]
  BY HistoryStep, HistoryAssumption DEF HistoryInv
<1> DEFINE h == Closed(df)
           g == Closed(df')
<1> PICK s : s = Shift
  OBVIOUS
<1> PICK f : f = df'
  OBVIOUS
<1>2. /\ h \in Seq(Candle) /\ Len(h) = Len(df) - 1
      /\ \A k \in 1..(Len(df) - 1) : h[k] = df[k]
  BY <1>1, ClosedIs
<1>3. /\ g \in Seq(Candle) /\ Len(g) = Len(f) - 1
      /\ \A k \in 1..(Len(f) - 1) : g[k] = f[k]
  BY <1>1, ClosedIs
<1> HIDE DEF h, g
<1>4. ASSUME NEW k \in 1..Len(h), k > s
      PROVE  f[k - s] = h[k] /\ g[k - s] = h[k]
  <2>1. /\ k \in 1..(Len(df) - 1) /\ k - s >= 1 /\ k - s <= Len(f)
        /\ k - s \in 1..(Len(f) - 1)
    BY <1>1, <1>2, <1>4
  <2> QED BY <1>1, <1>2, <1>3, <2>1
<1>5. Len(h) - s <= Len(f) /\ Len(h) - s <= Len(g)
  BY <1>1, <1>2, <1>3
<1>6. GoesOn(h, f, s) /\ GoesOn(h, g, s)
  BY <1>1, <1>2, <1>3, <1>4, <1>5 DEF GoesOn
<1> QED BY <1>6 DEF h, g

-----------------------------------------------------------------------------
(* Freshness *)

\* The walk begins with Start and each round of it is a Step.
LEMMA WalkSteps ==
    ASSUME NEW S, NEW lies \in Seq(S)
    PROVE  /\ Walk(lies)[0] = Start
           /\ \A k \in 1..Len(lies) :
                 Walk(lies)[k] = Step(Walk(lies)[k - 1], lies[k])
<1> DEFINE n == Len(lies)
           IsWalk(s, m) == s = [k \in 0..m |-> IF k = 0 THEN Start
                                               ELSE Step(s[k - 1], lies[k])]
           Missing == {m \in 0..n : ~ \E s : IsWalk(s, m)}
<1>1. n \in Nat
  OBVIOUS
<1> HIDE DEF n
<1>2. Missing = {}
  <2> SUFFICES ASSUME Missing # {} PROVE FALSE
    OBVIOUS
  <2> DEFINE m == Min(Missing)
  <2>1. m \in Missing /\ \A y \in Missing : m <= y
    <3>1. Missing \in SUBSET Nat
      BY <1>1
    <3> HIDE DEF Missing
    <3> QED BY <3>1, HasLeast
  <2> HIDE DEF m
  <2>2. m \in 0..n /\ ~ \E s : IsWalk(s, m)
    BY <2>1
  <2>3. m # 0
    <3>1. IsWalk([k \in 0..0 |-> Start], 0)
      OBVIOUS
    <3> QED BY <2>2, <3>1
  <2>4. m - 1 \in 0..n /\ m - 1 \notin Missing
    <3> HIDE DEF Missing
    <3> QED BY <1>1, <2>1, <2>2, <2>3
  <2>5. PICK s : IsWalk(s, m - 1)
    BY <2>4
  <2> DEFINE t == [k \in 0..m |-> IF k = m THEN Step(s[m - 1], lies[m])
                                  ELSE s[k]]
  <2>6. ASSUME NEW k \in 0..m
        PROVE  t[k] = IF k = 0 THEN Start ELSE Step(t[k - 1], lies[k])
    <3>1. CASE k = m
      BY <1>1, <2>2, <2>3, <3>1
    <3>2. CASE k # m
      <4>1. k \in 0..(m - 1) /\ t[k] = s[k] /\ (k # 0 => t[k - 1] = s[k - 1])
        BY <1>1, <2>2, <3>2
      <4>2. s[k] = IF k = 0 THEN Start ELSE Step(s[k - 1], lies[k])
        BY <2>5, <4>1
      <4> QED BY <4>1, <4>2
    <3> QED BY <3>1, <3>2
  <2>7. IsWalk(t, m)
    BY <2>6
  <2> QED BY <2>2, <2>7
<1>3. \E s : IsWalk(s, n)
  <2>1. n \notin Missing
    BY <1>2
  <2> QED BY <1>1, <2>1
<1>4. IsWalk(Walk(lies), n)
  BY <1>3 DEF Walk, n
<1> QED BY <1>1, <1>4 DEF n

\* What one round does to the loop's variables.
LEMMA StepCounts ==
    ASSUME NEW s, NEW lie
    PROVE  /\ Touching(lie) /\ ~ s.inTest => Step(s, lie).tests = s.tests + 1
           /\ ~ (Touching(lie) /\ ~ s.inTest) => Step(s, lie).tests = s.tests + 0
           /\ Step(s, lie).inTest <=> Touching(lie)
BY DEF Step, Touching

\* The candles with which a touch begins, among the first k.
Visits(lies, k) ==
    {i \in 1..k : Touching(lies[i]) /\ (i > 1 => ~ Touching(lies[i - 1]))}

\* After k rounds the walk has counted the visits of the first k candles, and
\* knows whether the last of them touched the zone.
LEMMA WalkCountsVisits ==
    ASSUME NEW S, NEW lies \in Seq(S), NEW k \in 0..Len(lies)
    PROVE  /\ IsFiniteSet(Visits(lies, k))
           /\ Walk(lies)[k].tests = Cardinality(Visits(lies, k))
           /\ Walk(lies)[k].inTest <=> k > 0 /\ Touching(lies[k])
<1> DEFINE n == Len(lies)
           Right(m) == /\ IsFiniteSet(Visits(lies, m))
                       /\ Walk(lies)[m].tests = Cardinality(Visits(lies, m))
                       /\ Walk(lies)[m].inTest <=> m > 0 /\ Touching(lies[m])
           Wrong == {m \in 0..n : ~ Right(m)}
<1>1. n \in Nat
  OBVIOUS
<1>2. /\ Walk(lies)[0] = Start
      /\ \A m \in 1..n : Walk(lies)[m] = Step(Walk(lies)[m - 1], lies[m])
  BY WalkSteps
<1> HIDE DEF n
<1>3. Wrong = {}
  <2> SUFFICES ASSUME Wrong # {} PROVE FALSE
    OBVIOUS
  <2> DEFINE m == Min(Wrong)
  <2>1. m \in Wrong /\ \A y \in Wrong : m <= y
    <3>1. Wrong \in SUBSET Nat
      BY <1>1
    <3> HIDE DEF Wrong
    <3> QED BY <3>1, HasLeast
  <2> HIDE DEF m
  <2>2. m \in 0..n /\ ~ Right(m)
    BY <2>1
  <2>3. m # 0
    <3>1. Visits(lies, 0) = {}
      BY DEF Visits
    <3>2. Walk(lies)[0].tests = 0 /\ ~ Walk(lies)[0].inTest
      BY <1>2 DEF Start
    <3>3. ~ (0 > 0)
      OBVIOUS
    <3>4. Right(0)
      BY <3>1, <3>2, <3>3, FS_EmptySet, Zenon
    <3> QED BY <2>2, <3>4
  <2>4. Right(m - 1)
    <3>1. m - 1 \in 0..n /\ m - 1 \notin Wrong
      <4> HIDE DEF Wrong
      <4> QED BY <1>1, <2>1, <2>2, <2>3
    <3> QED BY <3>1
  <2>5. m \in 1..n /\ m - 1 \in Nat
    BY <1>1, <2>2, <2>3
  <2> DEFINE visit == Touching(lies[m]) /\ ~ Walk(lies)[m - 1].inTest
  <2>6. /\ visit => Visits(lies, m) = Visits(lies, m - 1) \cup {m}
        /\ ~ visit => Visits(lies, m) = Visits(lies, m - 1)
        /\ m \notin Visits(lies, m - 1)
    BY <2>4, <2>5 DEF Visits
  <2>7. /\ Walk(lies)[m].tests = Walk(lies)[m - 1].tests + (IF visit THEN 1 ELSE 0)
        /\ Walk(lies)[m].inTest <=> Touching(lies[m])
    <3>1. Walk(lies)[m] = Step(Walk(lies)[m - 1], lies[m])
      BY <1>2, <2>5
    <3> QED BY <3>1, StepCounts
  <2>8. Cardinality(Visits(lies, m - 1)) \in Nat
    BY <2>4, FS_CardinalityType
  <2>9. /\ IsFiniteSet(Visits(lies, m))
        /\ Walk(lies)[m].tests = Cardinality(Visits(lies, m))
    <3>1. CASE visit
      BY <2>4, <2>6, <2>7, <3>1, FS_AddElement
    <3>2. CASE ~ visit
      BY <2>4, <2>6, <2>7, <2>8, <3>2
    <3> QED BY <3>1, <3>2
  <2>10. Right(m)
    BY <2>5, <2>7, <2>9
  <2> QED BY <2>2, <2>10
<1>4. k \notin Wrong
  BY <1>3
<1>5. Right(k)
  BY <1>4 DEF n
<1> QED BY <1>5

\* The candles the loop walks are those no broken candle comes before.
LEMMA CountedCandles ==
    ASSUME NEW S, NEW lies \in Seq(S)
    PROVE  /\ Counted(lies) \in Seq(S)
           /\ Len(Counted(lies)) \in 0..Len(lies)
           /\ \A i \in 1..Len(Counted(lies)) : Counted(lies)[i] = lies[i]
           /\ \A i \in 1..Len(lies) :
                 i <= Len(Counted(lies))
                     <=> \A j \in 1..Len(lies) : Broken(lies[j]) => i < j
<1> DEFINE n == Len(lies)
           broken == {i \in 1..n : Broken(lies[i])}
<1>1. n \in Nat /\ DOMAIN lies = 1..n
  OBVIOUS
<1>2. CASE broken = {}
  <2>1. ~ \E i \in DOMAIN lies : Broken(lies[i])
    BY <1>1, <1>2
  <2>2. Counted(lies) = lies
    BY <2>1 DEF Counted
  <2> QED BY <1>1, <1>2, <2>2
<1>3. CASE broken # {}
  <2> DEFINE first == Min(broken)
  <2>1. first \in broken /\ \A j \in broken : first <= j
    <3>1. broken \in SUBSET Nat
      BY <1>1
    <3> HIDE DEF broken
    <3> QED BY <1>3, <3>1, HasLeast
  <2>2. Counted(lies) = SubSeq(lies, 1, first - 1)
    <3>1. \E i \in DOMAIN lies : Broken(lies[i])
      BY <1>1, <1>3
    <3>2. SelectInSeq(lies, Broken) = first
      BY <1>3 DEF SelectInSeq
    <3> HIDE DEF first
    <3> QED BY <3>1, <3>2 DEF Counted
  <2> HIDE DEF first
  <2>3. first \in 1..n /\ first - 1 \in 0..n /\ first - 1 \in Int
    BY <1>1, <2>1
  <2>4. /\ Counted(lies) \in Seq(S) /\ Len(Counted(lies)) = first - 1
        /\ \A i \in 1..(first - 1) : Counted(lies)[i] = lies[i]
    <3>1. \A i \in 1..(first - 1) : lies[i] \in S
      BY <1>1, <2>3, ElementOfSeq
    <3>2. /\ Counted(lies) \in Seq(S)
          /\ Len(Counted(lies))
               = IF 1 <= first - 1 THEN (first - 1) - 1 + 1 ELSE 0
          /\ \A i \in 1..((first - 1) - 1 + 1) :
                Counted(lies)[i] = lies[1 + i - 1]
      BY <2>2, <2>3, <3>1, SubSeqProperties
    <3>3. \A i \in 1..(first - 1) :
             1 + i - 1 = i /\ i \in 1..((first - 1) - 1 + 1)
      BY <2>3
    <3>4. (IF 1 <= first - 1 THEN (first - 1) - 1 + 1 ELSE 0) = first - 1
      BY <2>3
    <3> QED BY <3>2, <3>3, <3>4
  <2>5. \A i \in 1..n :
           i <= first - 1 <=> \A j \in 1..n : Broken(lies[j]) => i < j
    BY <1>1, <2>1, <2>3
  <2> QED BY <2>3, <2>4, <2>5
<1> QED BY <1>2, <1>3

\* freshness.py:53-62: what the loop counts.
LEMMA TestsAreVisits ==
    ASSUME NEW S, NEW lies \in Seq(S)
    PROVE  /\ IsFiniteSet(VisitsBegin(lies))
           /\ Tests(lies) = Cardinality(VisitsBegin(lies))
<1> DEFINE c == Counted(lies)
           m == Len(c)
<1>1. /\ c \in Seq(S) /\ m \in 0..Len(lies)
      /\ \A i \in 1..m : c[i] = lies[i]
      /\ \A i \in 1..Len(lies) :
            i <= m <=> \A j \in 1..Len(lies) : Broken(lies[j]) => i < j
  BY CountedCandles
<1>2. m \in 0..Len(c)
  BY <1>1
<1>3. /\ IsFiniteSet(Visits(c, m))
      /\ Walk(c)[m].tests = Cardinality(Visits(c, m))
  BY <1>1, <1>2, WalkCountsVisits
<1>4. Tests(lies) = Walk(c)[m].tests
  BY DEF Tests
<1> HIDE DEF c, m
<1>5. Visits(c, m) = VisitsBegin(lies)
  <2>1. m \in Nat /\ Len(lies) \in Nat
    BY <1>1
  <2>2. \A i \in 1..m : i \in 1..Len(lies) /\ (i > 1 => i - 1 \in 1..m)
    BY <1>1, <2>1
  <2>3. ASSUME NEW i \in 1..m
        PROVE  Touching(c[i]) <=> Touching(lies[i])
    BY <1>1
  <2>4. ASSUME NEW i
        PROVE  i \in Visits(c, m) <=> i \in VisitsBegin(lies)
    <3>1. CASE i \in 1..m
      <4>1. i \in 1..Len(lies) /\ (i > 1 => i - 1 \in 1..m)
            /\ \A j \in 1..Len(lies) : Broken(lies[j]) => i < j
        BY <1>1, <2>1, <2>2, <3>1
      <4>2. /\ Touching(c[i]) <=> Touching(lies[i])
            /\ i > 1 => (Touching(c[i - 1]) <=> Touching(lies[i - 1]))
        BY <2>3, <3>1, <4>1
      <4> QED BY <3>1, <4>1, <4>2 DEF Visits, VisitsBegin, Touching
    <3>2. CASE i \notin 1..m
      <4>1. i \in 1..Len(lies)
               => ~ \A j \in 1..Len(lies) : Broken(lies[j]) => i < j
        BY <1>1, <2>1, <3>2
      <4> QED BY <3>2, <4>1 DEF Visits, VisitsBegin, Touching
    <3> QED BY <3>1, <3>2
  <2> QED BY <2>4
<1> QED BY <1>3, <1>4, <1>5

\* A zone touched before it broke has been tested.
LEMMA TouchedIsTested ==
    ASSUME NEW S, NEW lies \in Seq(S), NEW t \in 1..Len(lies),
           Touching(lies[t])
    PROVE  Class(lies) # "fresh"
<1>1. CASE \E i \in DOMAIN lies : Broken(lies[i])
  BY <1>1 DEF Class
<1>2. CASE ~ \E i \in DOMAIN lies : Broken(lies[i])
  <2> DEFINE touches == {i \in 1..Len(lies) : Touching(lies[i])}
             first == Min(touches)
  <2>1. first \in touches /\ \A j \in touches : first <= j
    <3>1. touches \in SUBSET Nat /\ touches # {}
      OBVIOUS
    <3> HIDE DEF touches
    <3> QED BY <3>1, HasLeast
  <2> HIDE DEF first
  <2>2. first \in 1..Len(lies) /\ Len(lies) \in Nat
    BY <2>1
  <2>3. first > 1 => first - 1 \notin touches /\ first - 1 \in 1..Len(lies)
    <3> HIDE DEF touches
    <3> QED BY <2>1, <2>2
  <2>4. first \in VisitsBegin(lies)
    BY <1>2, <2>1, <2>2, <2>3 DEF VisitsBegin, Touching
  <2>5. Tests(lies) # 0
    BY <2>4, TestsAreVisits, FS_EmptySet
  <2> QED BY <1>2, <2>5 DEF Class
<1> QED BY <1>1, <1>2

\* More candles never make a zone fresher, and a zone that broke keeps its
\* count.
LEMMA VerdictGrows ==
    ASSUME NEW S, NEW lies \in Seq(S), NEW more \in Seq(S),
           Len(lies) <= Len(more), \A i \in 1..Len(lies) : more[i] = lies[i]
    PROVE  /\ Rank(Class(more)) >= Rank(Class(lies))
           /\ Tests(more) >= Tests(lies)
           /\ Class(lies) = "invalidated" => Tests(more) = Tests(lies)
<1>1. Len(lies) \in Nat /\ Len(more) \in Nat
  OBVIOUS
<1>2. \A i \in 1..Len(lies) : i \in 1..Len(more) /\ (i > 1 => i - 1 \in 1..Len(lies))
  BY <1>1
<1>3. ASSUME NEW i \in VisitsBegin(lies)
      PROVE  i \in VisitsBegin(more)
  <2>1. /\ i \in 1..Len(lies) /\ Touching(lies[i])
        /\ i > 1 => ~ Touching(lies[i - 1])
        /\ \A j \in 1..Len(lies) : Broken(lies[j]) => i < j
    BY DEF VisitsBegin, Touching
  <2>2. /\ i \in 1..Len(more) /\ Touching(more[i])
        /\ i > 1 => ~ Touching(more[i - 1])
    BY <1>2, <2>1
  <2>3. ASSUME NEW j \in 1..Len(more), Broken(more[j])
        PROVE  i < j
    <3>1. CASE j \in 1..Len(lies)
      BY <2>1, <2>3, <3>1
    <3>2. CASE j \notin 1..Len(lies)
      BY <1>1, <2>1, <3>2
    <3> QED BY <3>1, <3>2
  <2> QED BY <2>2, <2>3 DEF VisitsBegin, Touching
<1>4. /\ IsFiniteSet(VisitsBegin(more))
      /\ Tests(lies) = Cardinality(VisitsBegin(lies))
      /\ Tests(more) = Cardinality(VisitsBegin(more))
  BY TestsAreVisits
<1>5. Tests(more) \in Nat /\ Tests(lies) \in Nat /\ Tests(more) >= Tests(lies)
  BY <1>3, <1>4, FS_Subset, FS_CardinalityType
<1>6. ASSUME NEW b \in 1..Len(lies), Broken(lies[b])
      PROVE  /\ Class(lies) = "invalidated" /\ Class(more) = "invalidated"
             /\ VisitsBegin(lies) = VisitsBegin(more)
  <2>1. b \in 1..Len(more) /\ Broken(more[b])
    BY <1>2, <1>6
  <2>2. Class(lies) = "invalidated" /\ Class(more) = "invalidated"
    BY <1>6, <2>1 DEF Class
  <2>3. \A i \in VisitsBegin(more) : i < b /\ i \in 1..Len(more)
    BY <2>1 DEF VisitsBegin, Touching
  <2>4. VisitsBegin(more) \subseteq VisitsBegin(lies)
    BY <1>1, <1>2, <1>6, <2>3 DEF VisitsBegin, Touching
  <2> QED BY <1>3, <2>2, <2>4
<1>7. CASE \E b \in 1..Len(lies) : Broken(lies[b])
  BY <1>4, <1>5, <1>6, <1>7 DEF Rank
<1>8. CASE ~ \E b \in 1..Len(lies) : Broken(lies[b])
  <2>1. Class(lies) = CASE Tests(lies) = 0 -> "fresh"
                        [] Tests(lies) = 1 -> "tested_once"
                        [] OTHER           -> "multiple_tests"
    BY <1>8 DEF Class
  <2>2. \/ Class(more) = "invalidated"
        \/ Class(more) = CASE Tests(more) = 0 -> "fresh"
                           [] Tests(more) = 1 -> "tested_once"
                           [] OTHER           -> "multiple_tests"
    BY DEF Class
  <2> QED BY <1>5, <2>1, <2>2 DEF Rank
<1> QED BY <1>7, <1>8

-----------------------------------------------------------------------------
(* Structure *)

Highs(h) == Latest(SwingHighs(h))
Lows(h) == Latest(SwingLows(h))

\* A market that goes up has a higher high and a higher low ...
LEMMA UpMeans ==
    ASSUME NEW h, Direction(h) = "up"
    PROVE  /\ Highs(h) # {} /\ h[Min(Highs(h))].high < h[Max(Highs(h))].high
           /\ Lows(h) # {} /\ h[Min(Lows(h))].low < h[Max(Lows(h))].low
<1>1. ~ (Cardinality(Highs(h)) < 2) /\ ~ (Cardinality(Lows(h)) < 2)
  BY DEF Direction, Highs, Lows
<1>2. Highs(h) # {} /\ Lows(h) # {}
  BY <1>1, FS_EmptySet
<1> QED BY <1>2 DEF Direction, Highs, Lows

\* ... and one that goes down a lower high and a lower low.
LEMMA DownMeans ==
    ASSUME NEW h, Direction(h) = "down"
    PROVE  /\ Highs(h) # {} /\ h[Min(Highs(h))].high > h[Max(Highs(h))].high
           /\ Lows(h) # {} /\ h[Min(Lows(h))].low > h[Max(Lows(h))].low
<1>1. ~ (Cardinality(Highs(h)) < 2) /\ ~ (Cardinality(Lows(h)) < 2)
  BY DEF Direction, Highs, Lows
<1>2. Highs(h) # {} /\ Lows(h) # {}
  BY <1>1, FS_EmptySet
<1> QED BY <1>2 DEF Direction, Highs, Lows

\* A label other than Neutral rests on the structure.
LEMMA LabelNeedsDirection ==
    ASSUME NEW h
    PROVE  /\ BtcCondition(h) = "Strong" => Direction(h) = "up"
           /\ BtcCondition(h) = "Weak" => Direction(h) = "down"
BY DEF BtcCondition

\* The latest swing points are candles of the history.
LEMMA LatestInside ==
    ASSUME NEW h \in Seq(Candle), NEW S \in SUBSET (1..Len(h)), Latest(S) # {}
    PROVE  Min(Latest(S)) \in 1..Len(h) /\ Max(Latest(S)) \in 1..Len(h)
<1> DEFINE T == Latest(S)
<1>1. T \subseteq S
  BY DEF Latest
<1>2. T # {}
  OBVIOUS
<1> HIDE DEF T
<1>3. Len(h) \in Nat
  OBVIOUS
<1>4. T \in SUBSET Nat /\ T \in SUBSET (0..Len(h))
  BY <1>1, <1>3
<1>5. Min(T) \in T /\ Max(T) \in T
  BY <1>2, <1>3, <1>4, HasLeast, HasGreatest
<1> QED BY <1>1, <1>5 DEF T

\* Swing points are candles of the history.
LEMMA SwingsInside ==
    ASSUME NEW h \in Seq(Candle)
    PROVE  /\ SwingHighs(h) \in SUBSET (1..Len(h))
           /\ SwingLows(h) \in SUBSET (1..Len(h))
BY LookbackAssumption DEF SwingHighs, SwingLows, Windowed

\* Histories with the same highs have the same swing highs ...
LEMMA SameHighs ==
    ASSUME NEW g \in Seq(Candle), NEW h \in Seq(Candle), Len(g) = Len(h),
           \A k \in 1..Len(g) : g[k].high = h[k].high
    PROVE  SwingHighs(g) = SwingHighs(h)
<1>1. \A i : Beside(g, i) = Beside(h, i) /\ Beside(g, i) \subseteq 1..Len(g)
  BY DEF Beside
<1>2. Windowed(g) = Windowed(h) /\ Windowed(g) \subseteq 1..Len(g)
  BY LookbackAssumption DEF Windowed
<1> QED BY <1>1, <1>2 DEF SwingHighs

\* ... and with the same lows the same swing lows.
LEMMA SameLows ==
    ASSUME NEW g \in Seq(Candle), NEW h \in Seq(Candle), Len(g) = Len(h),
           \A k \in 1..Len(g) : g[k].low = h[k].low
    PROVE  SwingLows(g) = SwingLows(h)
<1>1. \A i : Beside(g, i) = Beside(h, i) /\ Beside(g, i) \subseteq 1..Len(g)
  BY DEF Beside
<1>2. Windowed(g) = Windowed(h) /\ Windowed(g) \subseteq 1..Len(g)
  BY LookbackAssumption DEF Windowed
<1> QED BY <1>1, <1>2 DEF SwingLows

\* Highs cannot net rise in the one and fall in the other.
LEMMA OneWayUp ==
    ASSUME NEW g \in Seq(Candle), NEW h \in Seq(Candle), Len(g) = Len(h),
           \A k \in 1..Len(g) : g[k].high = h[k].high,
           Direction(g) = "up", Direction(h) = "down"
    PROVE  FALSE
<1>1. SwingHighs(g) = SwingHighs(h)
  BY SameHighs
<1> DEFINE S == Latest(SwingHighs(g))
<1>2. S # {} /\ g[Min(S)].high < g[Max(S)].high /\ h[Min(S)].high > h[Max(S)].high
  BY <1>1, UpMeans, DownMeans DEF Highs
<1>3. Min(S) \in 1..Len(g) /\ Max(S) \in 1..Len(g)
  BY <1>2, SwingsInside, LatestInside
<1> HIDE DEF S
<1>4. /\ g[Min(S)].high = h[Min(S)].high /\ g[Max(S)].high = h[Max(S)].high
      /\ g[Min(S)].high \in Nat /\ g[Max(S)].high \in Nat
  BY <1>3, ElementOfSeq, Prices
<1> QED BY <1>2, <1>4

\* Nor can lows.
LEMMA OneWayDown ==
    ASSUME NEW g \in Seq(Candle), NEW h \in Seq(Candle), Len(g) = Len(h),
           \A k \in 1..Len(g) : g[k].low = h[k].low,
           Direction(g) = "up", Direction(h) = "down"
    PROVE  FALSE
<1>1. SwingLows(g) = SwingLows(h)
  BY SameLows
<1> DEFINE S == Latest(SwingLows(g))
<1>2. S # {} /\ g[Min(S)].low < g[Max(S)].low /\ h[Min(S)].low > h[Max(S)].low
  BY <1>1, UpMeans, DownMeans DEF Lows
<1>3. Min(S) \in 1..Len(g) /\ Max(S) \in 1..Len(g)
  BY <1>2, SwingsInside, LatestInside
<1> HIDE DEF S
<1>4. /\ g[Min(S)].low = h[Min(S)].low /\ g[Max(S)].low = h[Max(S)].low
      /\ g[Min(S)].low \in Nat /\ g[Max(S)].low \in Nat
  BY <1>3, ElementOfSeq, Prices
<1> QED BY <1>2, <1>4

\* Within one candle only the last place of the history changes.
LEMMA SameCandle ==
    ASSUME HistoryInv, [Next]_historyVars, opened' = opened
    PROVE  /\ df' \in Seq(Candle) /\ Len(df') = Len(df)
           /\ \A k \in 1..Len(df) : k = Len(df) \/ df'[k] = df[k]
<1> USE HistoryAssumption DEF HistoryInv
<1>1. CASE OpenCandle
  BY <1>1 DEF OpenCandle
<1>2. CASE Trade
  <2>1. PICK c \in Candles : df' = [df EXCEPT ![Len(df)] = c]
    BY <1>2 DEF Trade, After
  <2> QED BY <2>1, ExceptSeq
<1>3. CASE UNCHANGED historyVars
  BY <1>3 DEF historyVars
<1> QED BY <1>1, <1>2, <1>3 DEF Next

-----------------------------------------------------------------------------
(* The last candle *)

\* The highs of consecutive candles have a greatest, the zone's top.
LEMMA ZoneHighIsPrice ==
    ASSUME NEW h \in Seq(Candle), NEW a \in Anchors(h)
    PROVE  ZoneHigh(h, a) \in Nat
<1> DEFINE E == BaseEnd(h, a)
           Tops(e) == {i \in a..e : \A k \in a..e : h[k].high <= h[i].high}
           Topless == {e \in a..E : Tops(e) = {}}
<1>1. a \in 1..Len(h) /\ E \in a..Len(h)
  BY AnchorMeans
<1> HIDE DEF E
<1>2. \A i \in a..E : h[i].high \in Nat
  <2>1. \A i \in a..E : i \in 1..Len(h)
    BY <1>1
  <2> QED BY <2>1, ElementOfSeq, Prices
<1>3. Topless = {}
  <2> SUFFICES ASSUME Topless # {} PROVE FALSE
    OBVIOUS
  <2> DEFINE e == Min(Topless)
  <2>1. e \in Topless /\ \A y \in Topless : e <= y
    <3>1. Topless \in SUBSET Nat
      BY <1>1
    <3> HIDE DEF Topless
    <3> QED BY <3>1, HasLeast
  <2> HIDE DEF e
  <2>2. e \in a..E /\ Tops(e) = {}
    BY <2>1
  <2>3. e # a
    <3>1. a \in Tops(a)
      BY <1>1, <1>2
    <3> QED BY <2>2, <3>1
  <2>4. e - 1 \in a..E /\ e - 1 \notin Topless
    <3> HIDE DEF Topless
    <3> QED BY <1>1, <2>1, <2>2, <2>3
  <2>5. PICK i \in Tops(e - 1) : TRUE
    BY <2>4
  <2>6. CASE h[e].high <= h[i].high
    <3>1. i \in Tops(e)
      BY <1>1, <2>2, <2>4, <2>5, <2>6
    <3> QED BY <2>2, <3>1
  <2>7. CASE ~ (h[e].high <= h[i].high)
    <3>1. \A k \in a..e : k = e \/ k \in a..(e - 1)
      BY <1>1, <2>2
    <3>2. \A k \in a..(e - 1) : h[k].high <= h[i].high /\ k \in a..E
      BY <1>1, <2>2, <2>5
    <3>3. i \in a..E /\ e \in a..e
      BY <1>1, <2>2, <2>4, <2>5
    <3>4. \A k \in a..e : h[k].high <= h[e].high
      BY <1>2, <2>2, <2>7, <3>1, <3>2, <3>3
    <3>5. e \in Tops(e)
      BY <3>3, <3>4
    <3> QED BY <2>2, <3>5
  <2> QED BY <2>6, <2>7
<1>4. PICK i \in Tops(E) : TRUE
  <2>1. E \notin Topless /\ E \in a..E
    BY <1>1, <1>3
  <2> QED BY <2>1
<1>5. Max({h[j].high : j \in a..E}) = h[i].high
  <2> DEFINE T == {h[j].high : j \in a..E}
  <2>1. /\ T \in SUBSET Int /\ h[i].high \in T
        /\ \A y \in T : y <= h[i].high
    BY <1>2, <1>4
  <2> HIDE DEF T
  <2>2. Max(T) = h[i].high
    BY <2>1, GreatestIs
  <2> QED BY <2>2 DEF T
<1> QED BY <1>2, <1>4, <1>5 DEF ZoneHigh, E

\* The candle still open is one of the market's.
LEMMA LastTraded == Spec => [](HistoryInv /\ Traded(Last(df)))
<1> DEFINE Inv == HistoryInv /\ Traded(Last(df))
<1>1. Init => Traded(Last(df))
  <2> SUFFICES ASSUME Init PROVE Traded(Last(df))
    OBVIOUS
  <2>1. df \in Pasts /\ df \in Seq(Candle) \ {<< >>}
    BY HistoryAssumption DEF Init
  <2>2. Len(df) \in DOMAIN df
    BY <2>1, EmptySeq
  <2> QED BY <2>1, <2>2, TradedAssumption DEF Last
<1>2. HistoryInv /\ Traded(Last(df)) /\ [Next]_historyVars => Traded(Last(df'))
  <2> SUFFICES ASSUME HistoryInv, Traded(Last(df)), [Next]_historyVars
               PROVE  Traded(Last(df'))
    OBVIOUS
  <2>1. df \in Seq(Candle) /\ Len(df) \in 1..Limit /\ Candles \subseteq Candle
    BY HistoryAssumption DEF HistoryInv
  <2>2. CASE OpenCandle
    <3>1. PICK c \in Candles : df' = Kept(Append(df, c))
      BY <2>2 DEF OpenCandle
    <3> DEFINE h == Append(df, c)
    <3>2. h \in Seq(Candle) /\ Len(h) = Len(df) + 1 /\ h[Len(h)] = c
      BY <2>1, AppendProperties
    <3> HIDE DEF h
    <3>3. Last(df') = c
      <4>1. CASE Len(h) > Limit
        <5>1. df' = Tail(h) /\ h # << >>
          BY <2>1, <3>1, <3>2, <4>1, EmptySeq DEF Kept, h
        <5>2. /\ Len(df') = Len(h) - 1
              /\ \A k \in 1..Len(df') : df'[k] = h[k + 1]
          BY <3>2, <5>1, HeadTailProperties
        <5>3. Len(df') \in 1..Len(df') /\ Len(df') + 1 = Len(h)
          BY <2>1, <3>2, <5>2
        <5> QED BY <3>2, <5>2, <5>3 DEF Last
      <4>2. CASE ~ (Len(h) > Limit)
        BY <3>1, <3>2, <4>2 DEF Kept, Last, h
      <4> QED BY <4>1, <4>2
    <3> QED BY <3>3, TradedAssumption
  <2>3. CASE Trade
    <3>1. PICK c \in Candles : df' = [df EXCEPT ![Len(df)] = c]
      BY <2>3 DEF Trade, After
    <3>2. Last(df') = c
      BY <2>1, <3>1, ExceptSeq DEF Last
    <3> QED BY <3>2, TradedAssumption
  <2>4. CASE UNCHANGED historyVars
    BY <2>4 DEF historyVars
  <2> QED BY <2>2, <2>3, <2>4 DEF Next
<1>3. HistoryInv /\ Traded(Last(df)) /\ [Next]_historyVars
        => HistoryInv' /\ Traded(Last(df'))
  BY <1>2, HistoryStep
<1>4. Init => HistoryInv
  BY HistoryAssumption, EmptySeq DEF Init, HistoryInv
<1>5. Init => Inv
  BY <1>1, <1>4
<1>6. Inv /\ [Next]_historyVars => Inv'
  BY <1>3
<1> QED BY <1>5, <1>6, PTL DEF Spec

\* The candles after a displacement, as a sequence.
LEMMA LiesAre ==
    ASSUME NEW h \in Seq(Candle), NEW a \in Anchors(h)
    PROVE  \E S : /\ LiesAfter(h, a) \in Seq(S)
                  /\ Len(LiesAfter(h, a)) = Len(h) - DispEnd(h, a)
                  /\ Len(LiesAfter(h, a)) \in Nat
                  /\ DOMAIN LiesAfter(h, a) = 1..Len(LiesAfter(h, a))
<1> DEFINE n == Len(h) - DispEnd(h, a)
           lies == LiesAfter(h, a)
           S == {lies[k] : k \in 1..n}
<1>1. n \in Nat
  BY AnchorMeans
<1>2. lies = [k \in 1..n |->
                 Lie(h[DispEnd(h, a) + k], ZoneLow(h, a), ZoneHigh(h, a))]
  BY DEF LiesAfter
<1> HIDE DEF n, lies
<1>3. lies \in Seq(S) /\ Len(lies) = n /\ DOMAIN lies = 1..n
  BY <1>1, <1>2
<1> QED BY <1>1, <1>3 DEF lies, n

-----------------------------------------------------------------------------
(* The theorems *)

\* zone_detector.py:65-75: for any candles and for bases no longer than the
\* swing window is wide, no candle belongs to the bases of two zones, and a
\* zone's low is its anchor's.
THEOREM ZonesApart == Spec => []BasesApart
<1>1. HistoryInv => BasesApart
  BY AnchorsApart
<1> QED BY <1>1, HistoryInvHolds, PTL

\* freshness.py:46-62: for any candles and any invalidation buffer, the one
\* pass with its in-test flag counts the visits before the break, each once.
THEOREM VisitsCounted == Spec => []CountsVisits
<1>1. HistoryInv => CountsVisits
  <2> SUFFICES ASSUME HistoryInv, NEW a \in Anchors(df)
               PROVE  Tests(LiesAfter(df, a))
                        = Cardinality(VisitsBegin(LiesAfter(df, a)))
    BY DEF CountsVisits
  <2>1. PICK S : LiesAfter(df, a) \in Seq(S)
    BY LiesAre DEF HistoryInv
  <2> QED BY <2>1, TestsAreVisits
<1> QED BY <1>1, HistoryInvHolds, PTL

\* zone_detector.py:181 and 219: for any candles, a zone price is back in after
\* its displacement is not called fresh.
THEOREM EnteredAreTested == Spec => []EnteredIsTested
<1>1. HistoryInv /\ Traded(Last(df)) => EnteredIsTested
  <2> SUFFICES ASSUME HistoryInv, Traded(Last(df)), NEW a \in Detected(df, FALSE),
                      StatusOf(df, a) = "ENTERED", DispEnd(df, a) < Len(df)
               PROVE  Class(LiesAfter(df, a)) # "fresh"
    BY DEF EnteredIsTested
  <2> DEFINE lies == LiesAfter(df, a)
             d == DispEnd(df, a)
             c == df[Len(df)]
  <2>1. df \in Seq(Candle) /\ Len(df) \in Nat /\ a \in Anchors(df)
    BY DEF HistoryInv, Detected
  <2>2. d \in Nat /\ d < Len(df)
    BY <2>1, AnchorMeans
  <2>3. PICK S : /\ lies \in Seq(S) /\ Len(lies) = Len(df) - d
                 /\ Len(lies) \in Nat
    BY <2>1, LiesAre
  <2>4. c.low <= ZoneHigh(df, a)
    <3>1. c \in Candle /\ c = Last(df)
      BY <2>1, <2>2, ElementOfSeq DEF Last
    <3>2. c.low <= c.close /\ c.close <= ZoneHigh(df, a)
      BY <3>1 DEF StatusOf, Traded
    <3>3. c.low \in Nat /\ c.close \in Nat /\ ZoneHigh(df, a) \in Nat
      BY <2>1, <3>1, ZoneHighIsPrice DEF Candle
    <3> HIDE DEF c
    <3> QED BY <3>2, <3>3
  <2>5. ZoneHigh(df, a) \in Nat /\ c.low \in Nat
    <3>1. c \in Candle
      BY <2>1, <2>2, ElementOfSeq
    <3> HIDE DEF c
    <3> QED BY <2>1, <3>1, ZoneHighIsPrice, Prices
  <2>6. lies[Len(lies)] = Lie(c, ZoneLow(df, a), ZoneHigh(df, a))
    <3>1. Len(lies) \in 1..(Len(df) - d) /\ d + Len(lies) = Len(df)
      <4> HIDE DEF lies, d
      <4> QED BY <2>1, <2>2, <2>3
    <3>2. lies = [k \in 1..(Len(df) - d) |->
                     Lie(df[d + k], ZoneLow(df, a), ZoneHigh(df, a))]
      BY DEF LiesAfter
    <3> HIDE DEF lies, d
    <3> QED BY <3>1, <3>2
  <2>7. Touching(lies[Len(lies)])
    <3>1. ~ (c.low > ZoneHigh(df, a))
      <4> HIDE DEF c
      <4> QED BY <2>4, <2>5
    <3>2. Lie(c, ZoneLow(df, a), ZoneHigh(df, a)) # "away"
      BY <3>1 DEF Lie
    <3> HIDE DEF lies, c
    <3> QED BY <2>6, <3>2 DEF Touching
  <2>8. Len(lies) \in 1..Len(lies)
    <3> HIDE DEF lies, d
    <3> QED BY <2>1, <2>2, <2>3
  <2> QED BY <2>3, <2>7, <2>8, TouchedIsTested
<1> QED BY <1>1, LastTraded, PTL

\* swing_points.py:34-42: for any lookback, no later scan judges a closed
\* window differently.
THEOREM SwingPointsStand == Spec => SwingsStand
<1> DEFINE Stand ==
        \A i \in Windowed(Closed(df)) :
            i - Shift > Lookback =>
                /\ i \in SwingLows(Closed(df)) <=> i - Shift \in SwingLows(df')
                /\ i \in SwingHighs(Closed(df)) <=> i - Shift \in SwingHighs(df')
<1>1. HistoryInv /\ [Next]_historyVars => Stand
  <2> SUFFICES ASSUME HistoryInv, [Next]_historyVars,
                      NEW i \in Windowed(Closed(df)), i - Shift > Lookback
               PROVE  /\ i \in SwingLows(Closed(df)) <=> i - Shift \in SwingLows(df')
                      /\ i \in SwingHighs(Closed(df)) <=> i - Shift \in SwingHighs(df')
    OBVIOUS
  <2> PICK h : h = Closed(df)
    OBVIOUS
  <2> PICK g : g = df'
    OBVIOUS
  <2> PICK s : s = Shift
    OBVIOUS
  <2>1. /\ h \in Seq(Candle) /\ g \in Seq(Candle) /\ s \in {0, 1}
        /\ Len(h) \in Nat /\ Len(g) \in Nat /\ Len(h) - s <= Len(g)
        /\ \A k \in 1..Len(h) : k > s => g[k - s] = h[k]
    BY StepGoesOn DEF GoesOn
  <2>2. i - s \in Windowed(g) /\ i \in Windowed(h)
    BY <2>1, LookbackAssumption DEF Windowed
  <2>3. \A k \in 1..Len(h) : k - s >= 1 /\ k - s <= Len(g) => g[k - s] = h[k]
    BY <2>1
  <2> QED BY <2>1, <2>2, <2>3, SameWindow
<1> QED BY <1>1, HistoryInvHolds, PTL DEF Spec, SwingsStand

\* zone_detector.py:55-81, 137 and 167-171: for any candles and parameters, with
\* the price filter or without, a zone closed candles show keeps its price range
\* at the next scan, while its window and the true ranges before it last, and
\* that scan reports it unless the history is too short or price is not above it.
THEOREM ZonesStandOn == Spec => ZonesStand
<1> DEFINE Found(h, a, requireAbove) ==
               /\ Len(df') >= MinCandles
               /\ requireAbove => Last(df').close > ZoneHigh(h, a)
           Stand ==
        \A a \in Anchors(Closed(df)) :
            StaysWhole(a) =>
                /\ ZoneLow(df', a - Shift) = ZoneLow(Closed(df), a)
                /\ ZoneHigh(df', a - Shift) = ZoneHigh(Closed(df), a)
                /\ \A requireAbove \in BOOLEAN :
                       a - Shift \in Detected(df', requireAbove)
                           <=> Found(Closed(df), a, requireAbove)
<1>1. HistoryInv /\ [Next]_historyVars => Stand
  <2> SUFFICES ASSUME HistoryInv, [Next]_historyVars,
                      NEW a \in Anchors(Closed(df)), StaysWhole(a)
               PROVE  /\ ZoneLow(df', a - Shift) = ZoneLow(Closed(df), a)
                      /\ ZoneHigh(df', a - Shift) = ZoneHigh(Closed(df), a)
                      /\ \A requireAbove \in BOOLEAN :
                             a - Shift \in Detected(df', requireAbove)
                                 <=> Found(Closed(df), a, requireAbove)
    OBVIOUS
  <2> PICK h : h = Closed(df)
    OBVIOUS
  <2> PICK g : g = df'
    OBVIOUS
  <2> PICK s : s = Shift
    OBVIOUS
  <2>1. GoesOn(h, g, s) /\ a \in Anchors(h)
    BY StepGoesOn
  <2>2. Whole(a, s)
    BY DEF StaysWhole, Whole
  <2>3. /\ a - s \in Anchors(g)
        /\ ZoneLow(g, a - s) = ZoneLow(h, a)
        /\ ZoneHigh(g, a - s) = ZoneHigh(h, a)
    BY <2>1, <2>2, SameZone
  <2>4. \A requireAbove \in BOOLEAN :
            a - s \in Detected(g, requireAbove) <=>
                /\ ~ (Len(g) < MinCandles)
                /\ requireAbove => Last(g).close > ZoneHigh(h, a)
    BY <2>3 DEF Detected
  <2>5. ~ (Len(g) < MinCandles) <=> Len(g) >= MinCandles
    BY <2>1, DetectorAssumption DEF GoesOn
  <2> QED BY <2>3, <2>4, <2>5
<1>2. Stand <=> \A a \in Anchors(Closed(df)) :
          StaysWhole(a) =>
              LET b    == a - Shift
                  high == ZoneHigh(Closed(df), a)
              IN  /\ ZoneLow(df', b) = ZoneLow(Closed(df), a)
                  /\ ZoneHigh(df', b) = high
                  /\ \A requireAbove \in BOOLEAN :
                         b \in Detected(df', requireAbove) <=>
                             /\ Len(df') >= MinCandles
                             /\ requireAbove => Last(df').close > high
  OBVIOUS
<1> HIDE DEF Stand
<1> QED BY <1>1, <1>2, HistoryInvHolds, PTL DEF Spec, ZonesStand

\* zone_detector.py:173-207, structure.py, fibonacci.py: for any candles and
\* parameters, a scan finds the evidence of a zone whose displacement is over
\* as the one before it did, and of its confirmations takes back only a break
\* of structure, and that only while the windows before the displacement's end
\* are not all there; also when the oldest candle falls out, unless a candle
\* the evidence is measured against is among the first Lookback + 1 then.
THEOREM EvidenceIsFinal == Spec => EvidenceStands
<1> DEFINE Same(h, a) ==
               /\ Evidence(df', a - Shift) = Evidence(h, a)
               /\ Confirmations(h, a) \ Confirmations(df', a - Shift) \subseteq
                      IF DispEnd(h, a) - 1 + Lookback <= Len(h)
                      THEN {} ELSE {"break of structure"}
           Stand == \A a \in Settled(Closed(df)) :
                       ReferencesStay(Closed(df), a) => Same(Closed(df), a)
<1>1. HistoryInv /\ [Next]_historyVars => Stand
  <2> SUFFICES ASSUME HistoryInv, [Next]_historyVars,
                      NEW a \in Settled(Closed(df)), ReferencesStay(Closed(df), a)
               PROVE  Same(Closed(df), a)
    OBVIOUS
  <2> PICK h : h = Closed(df)
    OBVIOUS
  <2> PICK g : g = df'
    OBVIOUS
  <2> PICK s : s = Shift
    OBVIOUS
  <2>1. GoesOn(h, g, s) /\ a \in Settled(h)
    BY StepGoesOn
  <2>2. Outlasts(h, a, s)
    BY DEF ReferencesStay, Outlasts
  <2>3. Evidence(g, a - s) = Evidence(h, a)
    BY <2>1, <2>2, SameEvidence
  <2>4. /\ a \in Anchors(h) /\ h \in Seq(Candle) /\ s \in {0, 1}
    BY <2>1 DEF Settled, GoesOn
  <2>5. /\ DispEnd(h, a) \in 1..Len(h) /\ a \in Int
    BY <2>4, AnchorMeans
  <2>6. /\ Whole(a, s) /\ Stays(HighsBefore(h, DispEnd(h, a)), s)
        /\ s = 1 => a > EqualWindow + Lookback + 1
    BY <2>2, <2>4, <2>5, OutlastsMeans
  <2>7. DispEnd(g, a - s) = DispEnd(h, a) - s
    BY <2>1, <2>6, SameDisp
  <2>8. EqualLows(h, a) => EqualLows(g, a - s)
    BY <2>1, <2>5, <2>6, EqualLowsStay
  <2>9. DispEnd(h, a) - 1 + Lookback <= Len(h)
          => (BreakOfStructure(h, DispEnd(h, a))
                 => BreakOfStructure(g, DispEnd(g, a - s)))
    BY <2>1, <2>5, <2>6, <2>7, BreakStays
  <2>10. Confirmations(h, a) \ Confirmations(g, a - s) \subseteq
            IF DispEnd(h, a) - 1 + Lookback <= Len(h)
            THEN {} ELSE {"break of structure"}
    BY <2>8, <2>9 DEF Confirmations
  <2> QED BY <2>3, <2>10
<1>2. Stand <=>
         LET h == Closed(df)
         IN  \A a \in Settled(h) :
                ReferencesStay(h, a) =>
                    LET b == a - Shift
                    IN  /\ Evidence(df', b) = Evidence(h, a)
                        /\ Confirmations(h, a) \ Confirmations(df', b) \subseteq
                               IF DispEnd(h, a) - 1 + Lookback <= Len(h)
                               THEN {} ELSE {"break of structure"}
  OBVIOUS
<1> HIDE DEF Stand
<1> QED BY <1>1, <1>2, HistoryInvHolds, PTL DEF Spec, EvidenceStands

\* freshness.py:46-72: for any candles and parameters, no later scan finds a
\* zone fresher over the closed candles, and a broken zone keeps its count.
THEOREM VerdictsStand == Spec => ClosedVerdictStands
<1> DEFINE Grown(before, after) ==
               /\ Rank(Class(after)) >= Rank(Class(before))
               /\ Tests(after) >= Tests(before)
               /\ Class(before) = "invalidated" => Tests(after) = Tests(before)
           Stand ==
               \A a \in Settled(Closed(df)) :
                   StaysWhole(a) => Grown(LiesAfter(Closed(df), a),
                                          LiesAfter(Closed(df'), a - Shift))
<1>1. HistoryInv /\ [Next]_historyVars => Stand
  <2> SUFFICES ASSUME HistoryInv, [Next]_historyVars,
                      NEW a \in Settled(Closed(df)), StaysWhole(a)
               PROVE  Grown(LiesAfter(Closed(df), a),
                            LiesAfter(Closed(df'), a - Shift))
    OBVIOUS
  <2> PICK h : h = Closed(df)
    OBVIOUS
  <2> PICK g : g = Closed(df')
    OBVIOUS
  <2> PICK s : s = Shift
    OBVIOUS
  <2>1. GoesOn(h, g, s) /\ a \in Settled(h)
    BY StepGoesOn
  <2>2. Whole(a, s)
    BY DEF StaysWhole, Whole
  <2> DEFINE lies == LiesAfter(h, a)
             more == LiesAfter(g, a - s)
  <2>3. PICK S : /\ lies \in Seq(S) /\ more \in Seq(S)
                 /\ Len(lies) <= Len(more)
                 /\ \A i \in 1..Len(lies) : more[i] = lies[i]
    BY <2>1, <2>2, SameLies
  <2> HIDE DEF lies, more
  <2>4. Grown(lies, more)
    BY <2>3, VerdictGrows
  <2> QED BY <2>4 DEF lies, more
<1>2. Stand <=> \A a \in Settled(Closed(df)) :
          StaysWhole(a) =>
              LET before == LiesAfter(Closed(df), a)
                  after  == LiesAfter(Closed(df'), a - Shift)
              IN  /\ Rank(Class(after)) >= Rank(Class(before))
                  /\ Tests(after) >= Tests(before)
                  /\ Class(before) = "invalidated"
                        => Tests(after) = Tests(before)
  OBVIOUS
<1> HIDE DEF Stand
<1> QED BY <1>1, <1>2, HistoryInvHolds, PTL DEF Spec, ClosedVerdictStands

\* market_condition.py:58-83: for any lookback and number of points, BTC's
\* structure does not turn around while one candle moves one way only.
THEOREM TurnsNeedBothSides == Spec => TurnsTakeBothSides
<1> DEFINE Turn == /\ opened' = opened
                   /\ \/ Last(df').high = Last(df).high
                      \/ Last(df').low = Last(df).low
                   => /\ {Direction(df), Direction(df')} # {"up", "down"}
                      /\ {BtcCondition(df), BtcCondition(df')} # {"Strong", "Weak"}
<1>1. HistoryInv /\ [Next]_historyVars => Turn
  <2> SUFFICES ASSUME HistoryInv, [Next]_historyVars, opened' = opened,
                      \/ Last(df').high = Last(df).high
                      \/ Last(df').low = Last(df).low,
                      \/ {Direction(df), Direction(df')} = {"up", "down"}
                      \/ {BtcCondition(df), BtcCondition(df')} = {"Strong", "Weak"}
               PROVE  FALSE
    OBVIOUS
  <2>1. /\ df \in Seq(Candle) /\ df' \in Seq(Candle) /\ Len(df') = Len(df)
        /\ \A k \in 1..Len(df) : k = Len(df) \/ df'[k] = df[k]
    BY SameCandle DEF HistoryInv
  <2>2. \/ Direction(df) = "up" /\ Direction(df') = "down"
        \/ Direction(df) = "down" /\ Direction(df') = "up"
    <3>1. CASE {Direction(df), Direction(df')} = {"up", "down"}
      BY <3>1
    <3>2. CASE {BtcCondition(df), BtcCondition(df')} = {"Strong", "Weak"}
      <4>1. \/ BtcCondition(df) = "Strong" /\ BtcCondition(df') = "Weak"
            \/ BtcCondition(df) = "Weak" /\ BtcCondition(df') = "Strong"
        BY <3>2
      <4> QED BY <4>1, LabelNeedsDirection
    <3> QED BY <3>1, <3>2
  <2>3. CASE Last(df').high = Last(df).high
    <3>1. \A k \in 1..Len(df) : df'[k].high = df[k].high
      BY <2>1, <2>3 DEF Last
    <3> QED BY <2>1, <2>2, <3>1, OneWayUp
  <2>4. CASE Last(df').low = Last(df).low
    <3>1. \A k \in 1..Len(df) : df'[k].low = df[k].low
      BY <2>1, <2>4 DEF Last
    <3> QED BY <2>1, <2>2, <3>1, OneWayDown
  <2> QED BY <2>3, <2>4
<1> QED BY <1>1, HistoryInvHolds, PTL DEF Spec, TurnsTakeBothSides

=============================================================================
