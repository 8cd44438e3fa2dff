---------------------------- MODULE ScoringProofs ----------------------------
(***************************************************************************)
(* For every set of bases and prices: what grades take, what an entered    *)
(* zone can still score, and what a score that rises goes back to.         *)
(***************************************************************************)
EXTENDS Scoring, SequenceTheorems,
        WellFoundedInduction, TLAPS

LEMMA LeastNumber ==
    ASSUME NEW T \in SUBSET Nat, T # {}
    PROVE  \E x \in T : \A y \in T : x <= y
<1>1. PICK x \in T : \A y \in T : ~ (<<y, x>> \in OpToRel(<, Nat))
  BY WFMin, NatLessThanWellFounded
<1>2. \A y \in T : ~ (y < x)
  BY <1>1 DEF OpToRel
<1> QED BY <1>2

\* Points
LEMMA QualityBounds ==
    ASSUME NEW z \in Zone
    PROVE  /\ Quality(z) \in Int
           /\ Quality(z) <= 60
           /\ Fresh(z) # "fresh" => Quality(z) <= 51
<1>1. FreshPoints(Fresh(z)) \in Int /\ FreshPoints(Fresh(z)) <= 15
      /\ (Fresh(z) # "fresh" => FreshPoints(Fresh(z)) <= 6)
  BY DEF FreshPoints
<1> DEFINE f == FreshPoints(Fresh(z))
           rest == DeparturePoints(z.base.departure) + VolumePoints(z.base.expansion)
                   + PointsIf(10, z.base.bos) + PointsIf(5, z.base.sweep)
                   + PointsIf(5, z.base.fib)
<1>2. z.base \in Bases
  BY DEF Zone
<1>3. rest \in Int /\ rest <= 45
  BY <1>2, ScoringAssumption DEF DeparturePoints, VolumePoints, PointsIf
<1>4. Quality(z) = f + rest
  BY <1>1, <1>2, ScoringAssumption
     DEF Quality, DeparturePoints, VolumePoints, PointsIf
<1> HIDE DEF f, rest
<1> QED BY <1>1, <1>3, <1>4 DEF f

\* The strongest departure exists, so the CHOOSE of Best finds one.
LEMMA BestIsConfluent ==
    ASSUME zones \in [Timeframes -> Seq(Zone)], NEW z, NEW tf \in Timeframes,
           Confluent(z, tf) # {}
    PROVE  /\ Best(z, tf) \in Leading(z, tf)
           /\ Best(z, tf) \in Confluent(z, tf)
           /\ Best(z, tf) \in DOMAIN zones[tf]
           /\ zones[tf][Best(z, tf)] \in Zone
<1> DEFINE C == Confluent(z, tf)
           Lag(i) == MaxDeparture - zones[tf][i].base.departure
           Lags == {Lag(i) : i \in C}
<1>1. C \subseteq DOMAIN zones[tf] /\ zones[tf] \in Seq(Zone)
  BY DEF Confluent, Seen
<1>2. \A i \in C : i \in Nat /\ zones[tf][i] \in Zone
  BY <1>1
<1>3. \A i \in C : zones[tf][i].base \in Bases
  BY <1>2 DEF Zone
<1>4. \A i \in C : zones[tf][i].base.departure \in Int /\ Lag(i) \in Nat
  BY <1>3, ScoringAssumption
<1>5. PICK d \in Lags : \A e \in Lags : d <= e
  <2>1. Lags \in SUBSET Nat /\ Lags # {}
    BY <1>4
  <2> HIDE DEF Lags
  <2> QED BY <2>1, LeastNumber
<1> DEFINE Foremost == {i \in C : Lag(i) = d}
<1>6. PICK k \in Foremost : \A j \in Foremost : k <= j
  <2>1. Foremost \in SUBSET Nat /\ Foremost # {}
    BY <1>2, <1>5
  <2> HIDE DEF Foremost
  <2> QED BY <2>1, LeastNumber
<1>7. \A j \in C : Ahead(tf, k, j)
  <2> SUFFICES ASSUME NEW j \in C PROVE Ahead(tf, k, j)
    OBVIOUS
  <2>1. k \in C /\ Lag(k) <= Lag(j) /\ (Lag(j) = Lag(k) => k <= j)
    BY <1>5, <1>6
  <2>2. PICK dk \in Int, dj \in Int :
            dk = zones[tf][k].base.departure /\ dj = zones[tf][j].base.departure
    BY <1>4, <2>1
  <2>3. MaxDeparture - dk <= MaxDeparture - dj
        /\ (MaxDeparture - dj = MaxDeparture - dk => k <= j)
    BY <2>1, <2>2
  <2>4. dk > dj \/ (dk = dj /\ k <= j)
    BY <2>3, ScoringAssumption
  <2> QED BY <2>2, <2>4 DEF Ahead
<1>8. Best(z, tf) \in Leading(z, tf) /\ Best(z, tf) \in C
  BY <1>6, <1>7 DEF Best, Leading
<1> QED BY <1>1, <1>2, <1>8

\* A timeframe gives at most its weight in full.
LEMMA ShareBounds ==
    ASSUME zones \in [Timeframes -> Seq(Zone)], NEW z \in Zone,
           NEW own \in Timeframes, NEW tf \in Timeframes
    PROVE  /\ Share(own, z, tf) \in Int
           /\ own # tf /\ Confluent(z, tf) = {} => Share(own, z, tf) = 0
           /\ own # tf => Share(own, z, tf) <= 60 * Weight(tf)
           /\ own = tf => Share(own, z, tf) = Weight(tf) * Quality(z)
<1>1. Weight(tf) \in {10, 15}
  BY DEF Weight
<1>2. CASE own = tf
  BY <1>1, <1>2, QualityBounds DEF Share
<1>3. CASE own # tf /\ Confluent(z, tf) = {}
  BY <1>1, <1>3 DEF Share
<1>4. CASE own # tf /\ Confluent(z, tf) # {}
  <2>1. PICK c \in Zone : c = zones[tf][Best(z, tf)]
    BY <1>4, BestIsConfluent
  <2>2. Share(own, z, tf) = Weight(tf) * Quality(c)
    BY <1>4, <2>1, BestIsConfluent DEF Share, Qualities
  <2> QED BY <1>1, <1>4, <2>2, QualityBounds
<1> QED BY <1>2, <1>3, <1>4

-----------------------------------------------------------------------------
(* The type invariant is inductive: what Fits says of a zone is all that   *)
(* is needed of the past.                                                  *)

\* A test is on record of a zone price is in, unless it is still being left.
LEMMA InsideIsTested ==
    ASSUME TypeOK, NEW tf \in Timeframes, NEW i \in DOMAIN zones[tf],
           ~ zones[tf][i].leaving, price <= zones[tf][i].base.high
    PROVE  Fresh(zones[tf][i]) # "fresh"
<1>1. Fits(zones[tf][i])
  BY DEF TypeOK
<1> QED BY <1>1 DEF Fits, Fresh

\* A zone whose open candle closes, and another opens.
LEMMA OpenedFits ==
    ASSUME NEW z \in Zone, Fits(z), NEW runsOn \in BOOLEAN, runsOn => z.leaving
    PROVE  Opened(z, runsOn) \in Zone /\ Fits(Opened(z, runsOn))
<1> DEFINE n == Opened(z, runsOn)
<1>0. /\ z.base \in Bases /\ z.closed \in Freshness /\ z.inTest \in BOOLEAN
      /\ z.touched \in BOOLEAN /\ z.run \in BOOLEAN /\ z.leaving \in BOOLEAN
  BY DEF Zone
<1>1. /\ n.base = z.base /\ n.closed = Fresh(z)
      /\ n.inTest = (z.touched /\ ~ z.leaving /\ Fresh(z) = "tested_once")
      /\ n.touched = (price <= z.base.high) /\ n.run = runsOn /\ n.leaving = FALSE
      /\ n \in [base : {z.base}, closed : {Fresh(z)}, inTest : BOOLEAN,
                touched : BOOLEAN, run : BOOLEAN, leaving : BOOLEAN]
  BY DEF Opened
<1>2. Fresh(z) \in Freshness
  BY <1>0 DEF Fresh, Freshness
<1>3. n \in Zone
  BY <1>0, <1>1, <1>2 DEF Zone
<1>4. runsOn => Fresh(z) = "fresh" /\ z.leaving
  BY DEF Fresh
<1> HIDE DEF n
<1>6. Fits(n)
  <2>1. n.run => n.closed = "fresh" /\ ~ n.inTest
    BY <1>1, <1>4
  <2>2. n.inTest => n.closed = "tested_once"
    BY <1>1
  <2> QED BY <1>1, <2>1, <2>2 DEF Fits
<1> QED BY <1>3, <1>6 DEF n

LEMMA InitInv == Init => TypeOK
BY DEF Init, TypeOK, Timeframes

LEMMA FormKeepsInv ==
    ASSUME TypeOK, NEW tf \in Timeframes, Form(tf)
    PROVE  TypeOK'
<1>1. PICK z \in Zone : Fits(z) /\ zones' = [zones EXCEPT ![tf] = Append(@, z)]
  BY DEF Form
<1>2. price' = price /\ price \in Prices
  BY DEF Form, TypeOK
<1>3. zones \in [Timeframes -> Seq(Zone)]
  BY DEF TypeOK
<1>4. zones' \in [Timeframes -> Seq(Zone)]
  BY <1>1, <1>3
<1>5. ASSUME NEW o \in Timeframes, NEW i \in DOMAIN zones'[o]
      PROVE  \/ zones'[o][i] = z
             \/ i \in DOMAIN zones[o] /\ zones'[o][i] = zones[o][i]
  <2>1. CASE o = tf
    BY <1>1, <1>3, <2>1
  <2>2. CASE o # tf
    BY <1>1, <1>3, <2>2
  <2> QED BY <2>1, <2>2
<1>6. ASSUME NEW o \in Timeframes, NEW i \in DOMAIN zones'[o]
      PROVE  Fits(zones[o][i])'
  BY <1>1, <1>2, <1>5 DEF TypeOK, Fits
<1> QED BY <1>2, <1>4, <1>6 DEF TypeOK

LEMMA RemoveAtKeepsRest ==
    ASSUME NEW S, NEW s \in Seq(S), NEW k \in DOMAIN s
    PROVE  /\ RemoveAt(s, k) \in Seq(S)
           /\ \A i \in DOMAIN RemoveAt(s, k) :
                  \E j \in DOMAIN s : RemoveAt(s, k)[i] = s[j]
<1>1. k \in 1 .. Len(s) /\ Len(s) \in Nat /\ DOMAIN s = 1 .. Len(s)
  OBVIOUS
<1>a. k - 1 \in Int /\ k + 1 \in Int /\ \A i \in 1 .. Len(s) : s[i] \in S
  BY <1>1
<1> DEFINE front == SubSeq(s, 1, k - 1)
           rest == SubSeq(s, k + 1, Len(s))
<1>2. PICK a \in Seq(S) :
          /\ a = front /\ Len(a) = k - 1
          /\ \A i \in 1 .. k - 1 : a[i] = s[i]
  <2>1. \A i \in 1 .. k - 1 : s[i] \in S
    BY <1>1, <1>a
  <2>2. /\ front \in Seq(S)
        /\ Len(front) = IF 1 <= k - 1 THEN (k - 1) - 1 + 1 ELSE 0
        /\ \A i \in 1 .. (k - 1) - 1 + 1 : front[i] = s[1 + i - 1]
    BY <1>a, <2>1, SubSeqProperties
  <2>3. \A i \in 1 .. k - 1 : 1 + i - 1 = i
    OBVIOUS
  <2> HIDE DEF front
  <2> QED BY <1>1, <2>2, <2>3
<1>3. PICK b \in Seq(S) :
          /\ b = rest /\ Len(b) = Len(s) - k
          /\ \A i \in 1 .. Len(s) - k : b[i] = s[k + i]
  <2>1. \A i \in k + 1 .. Len(s) : s[i] \in S
    BY <1>1, <1>a
  <2>2. /\ rest \in Seq(S)
        /\ Len(rest) = IF k + 1 <= Len(s) THEN Len(s) - (k + 1) + 1 ELSE 0
        /\ \A i \in 1 .. Len(s) - (k + 1) + 1 : rest[i] = s[(k + 1) + i - 1]
    BY <1>1, <1>a, <2>1, SubSeqProperties
  <2>3. \A i \in 1 .. Len(s) - k : (k + 1) + i - 1 = k + i
    BY <1>1
  <2> HIDE DEF rest
  <2> QED BY <1>1, <2>2, <2>3
<1>4. RemoveAt(s, k) = a \o b
  BY <1>2, <1>3 DEF RemoveAt
<1>5. a \o b \in Seq(S) /\ Len(a \o b) = Len(a) + Len(b)
      /\ DOMAIN (a \o b) = 1 .. Len(a) + Len(b)
  OBVIOUS
<1>6. ASSUME NEW i \in 1 .. Len(a) + Len(b)
      PROVE  \E j \in DOMAIN s : (a \o b)[i] = s[j]
  <2>1. CASE i <= Len(a)
    BY <1>1, <1>2, <2>1
  <2>2. CASE i > Len(a)
    <3>1. (a \o b)[i] = b[i - Len(a)] /\ i - Len(a) \in 1 .. Len(b)
      BY <2>2
    <3>2. PICK d \in 1 .. Len(s) - k : d = i - Len(a)
      BY <1>1, <1>2, <1>3, <3>1
    <3>3. (a \o b)[i] = s[k + d] /\ k + d \in 1 .. Len(s)
      BY <1>1, <1>3, <3>1, <3>2
    <3> QED BY <1>1, <3>3
  <2> QED BY <1>2, <2>1, <2>2
<1> QED BY <1>4, <1>5, <1>6

LEMMA ForgetKeepsInv ==
    ASSUME TypeOK, NEW tf \in Timeframes, Forget(tf)
    PROVE  TypeOK'
<1>1. PICK k \in DOMAIN zones[tf] : zones' = [zones EXCEPT ![tf] = RemoveAt(@, k)]
  BY DEF Forget
<1>2. price' = price /\ price \in Prices
  BY DEF Forget, TypeOK
<1>3. zones \in [Timeframes -> Seq(Zone)] /\ zones[tf] \in Seq(Zone)
  BY DEF TypeOK
<1>4. /\ RemoveAt(zones[tf], k) \in Seq(Zone)
      /\ \A i \in DOMAIN RemoveAt(zones[tf], k) :
             \E j \in DOMAIN zones[tf] : RemoveAt(zones[tf], k)[i] = zones[tf][j]
  BY <1>3, RemoveAtKeepsRest
<1>5. zones' \in [Timeframes -> Seq(Zone)]
  BY <1>1, <1>3, <1>4
<1>6. \A o \in Timeframes : \A i \in DOMAIN zones'[o] :
          \E j \in DOMAIN zones[o] : zones'[o][i] = zones[o][j]
  BY <1>1, <1>3, <1>4
<1>7. ASSUME NEW o \in Timeframes, NEW i \in DOMAIN zones'[o]
      PROVE  Fits(zones[o][i])'
  <2>1. PICK j \in DOMAIN zones[o] : zones'[o][i] = zones[o][j]
    BY <1>6
  <2>2. Fits(zones[o][j])
    BY DEF TypeOK
  <2> QED BY <1>2, <2>1, <2>2 DEF Fits
<1> QED BY <1>2, <1>5, <1>7 DEF TypeOK

\* Zones that are changed in place keep what each of them keeps.
LEMMA InPlaceKeepsInv ==
    ASSUME TypeOK, price' \in Prices,
           zones' = [tf \in Timeframes |-> zones'[tf]],
           \A tf \in Timeframes :
               /\ zones'[tf] = [i \in DOMAIN zones[tf] |-> zones'[tf][i]]
               /\ \A i \in DOMAIN zones[tf] :
                      zones'[tf][i] \in Zone /\ Fits(zones[tf][i])'
    PROVE  TypeOK'
<1>1. zones \in [Timeframes -> Seq(Zone)]
  BY DEF TypeOK
<1>2. ASSUME NEW tf \in Timeframes
      PROVE  DOMAIN zones'[tf] = DOMAIN zones[tf] /\ zones'[tf] \in Seq(Zone)
  <2>1. DOMAIN zones[tf] = 1 .. Len(zones[tf]) /\ Len(zones[tf]) \in Nat
    BY <1>1
  <2>2. zones'[tf] \in [1 .. Len(zones[tf]) -> Zone]
    BY <2>1
  <2> QED BY <2>1, <2>2
<1>3. zones' \in [Timeframes -> Seq(Zone)]
  BY <1>2
<1> QED BY <1>2, <1>3 DEF TypeOK

LEMMA TradeKeepsInv ==
    ASSUME TypeOK, Trade
    PROVE  TypeOK'
<1>1. PICK close \in Prices, low \in Prices, rising \in SUBSET Timeframes :
          /\ low <= close
          /\ price' = close
          /\ zones' = [tf \in Timeframes |-> [i \in DOMAIN zones[tf] |->
                          [zones[tf][i] EXCEPT
                              !.touched = @ \/ low <= zones[tf][i].base.high,
                              !.leaving = zones[tf][i].run /\ tf \in rising]]]
  <2>1. PICK close \in Prices, low \in Prices,
             rising \in SUBSET {tf \in Timeframes :
                                    \E i \in DOMAIN zones[tf] : zones[tf][i].run} :
            /\ low <= close
            /\ price' = close
            /\ zones' = [tf \in Timeframes |-> [i \in DOMAIN zones[tf] |->
                            [zones[tf][i] EXCEPT
                                !.touched = @ \/ low <= zones[tf][i].base.high,
                                !.leaving = zones[tf][i].run /\ tf \in rising]]]
    BY DEF Trade
  <2>2. rising \in SUBSET Timeframes
    OBVIOUS
  <2> QED BY <2>1, <2>2
<1>2. close \in Nat /\ low \in Nat
  BY ScoringAssumption
<1>3. ASSUME NEW tf \in Timeframes, NEW i \in DOMAIN zones[tf]
      PROVE  zones'[tf][i] \in Zone /\ Fits(zones[tf][i])'
  <2>1. PICK z \in Zone : z = zones[tf][i] /\ Fits(z)
    BY DEF TypeOK
  <2>2. PICK n : n = zones'[tf][i]
    OBVIOUS
  <2> DEFINE hit == low <= z.base.high
             goes == z.run /\ tf \in rising
  <2>3. n = [z EXCEPT !.touched = @ \/ hit, !.leaving = goes]
    BY <1>1, <2>1, <2>2
  <2>4. hit \in BOOLEAN /\ goes \in BOOLEAN
    BY DEF Zone
  <2>5. close <= z.base.high => hit
    <3>1. PICK h \in Nat : h = z.base.high
      BY ScoringAssumption DEF Zone
    <3>2. low <= close
      BY <1>1
    <3>3. close <= h => low <= h
      BY <1>2, <3>2
    <3> QED BY <3>1, <3>3
  <2>6. goes => z.run
    OBVIOUS
  <2> HIDE DEF hit, goes
  <2>7. /\ n \in Zone /\ n.base = z.base /\ n.closed = z.closed
        /\ n.inTest = z.inTest /\ n.run = z.run
        /\ n.touched = (z.touched \/ hit) /\ n.leaving = goes
    BY <2>3, <2>4 DEF Zone
  <2>8. /\ n.leaving => n.run
        /\ n.run => n.closed = "fresh" /\ ~ n.inTest
        /\ n.inTest => n.closed = "tested_once"
        /\ close <= n.base.high => n.touched
    BY <2>1, <2>5, <2>6, <2>7 DEF Fits
  <2> QED BY <1>1, <2>2, <2>7, <2>8 DEF Fits
<1> QED BY <1>1, <1>3, InPlaceKeepsInv

LEMMA OpenCandleKeepsInv ==
    ASSUME TypeOK, NEW tf \in Timeframes, OpenCandle(tf)
    PROVE  TypeOK'
<1>1. PICK running \in SUBSET {i \in DOMAIN zones[tf] : zones[tf][i].leaving} :
          zones' = [zones EXCEPT ![tf] =
                       [i \in DOMAIN @ |-> Opened(@[i], i \in running)]]
  BY DEF OpenCandle
<1>2. price' = price /\ price \in Prices /\ zones \in [Timeframes -> Seq(Zone)]
  BY DEF OpenCandle, TypeOK
<1>3. ASSUME NEW o \in Timeframes
      PROVE  /\ zones'[o] = [i \in DOMAIN zones[o] |-> zones'[o][i]]
             /\ \A i \in DOMAIN zones[o] :
                    zones'[o][i] \in Zone /\ Fits(zones[o][i])'
  <2>1. CASE o = tf
    <3>1. zones'[o] = [i \in DOMAIN zones[o] |-> Opened(zones[o][i], i \in running)]
      BY <1>1, <1>2, <2>1
    <3>2. ASSUME NEW i \in DOMAIN zones[o]
          PROVE  zones'[o][i] \in Zone /\ Fits(zones[o][i])'
      <4>1. zones[o][i] \in Zone /\ Fits(zones[o][i])
            /\ (i \in running => zones[o][i].leaving)
        BY <1>1, <1>2, <2>1 DEF TypeOK
      <4> DEFINE runsOn == i \in running
      <4>2. runsOn \in BOOLEAN
        OBVIOUS
      <4>3. zones'[o][i] = Opened(zones[o][i], runsOn)
        BY <3>1
      <4>4. Opened(zones[o][i], runsOn) \in Zone /\ Fits(Opened(zones[o][i], runsOn))
        <5>1. runsOn => zones[o][i].leaving
          BY <4>1
        <5> HIDE DEF runsOn
        <5> QED BY <4>1, <4>2, <5>1, OpenedFits
      <4>5. PICK n \in Zone : n = zones'[o][i] /\ Fits(n)
        BY <4>3, <4>4
      <4> QED BY <1>2, <4>5 DEF Fits
    <3> QED BY <3>1, <3>2
  <2>2. CASE o # tf
    <3>1. zones'[o] = zones[o]
      BY <1>1, <1>2, <2>2
    <3>2. ASSUME NEW i \in DOMAIN zones[o]
          PROVE  zones'[o][i] \in Zone /\ Fits(zones[o][i])'
      <4>1. zones[o][i] \in Zone /\ Fits(zones[o][i])
        BY <1>2 DEF TypeOK
      <4> QED BY <1>2, <3>1, <4>1 DEF Fits
    <3>3. zones[o] = [i \in DOMAIN zones[o] |-> zones[o][i]]
      BY <1>2
    <3> QED BY <3>1, <3>2, <3>3
  <2> QED BY <2>1, <2>2
<1>4. zones' = [o \in Timeframes |-> zones'[o]]
  BY <1>1, <1>2
<1> QED BY <1>2, <1>3, <1>4, InPlaceKeepsInv

LEMMA ReassessKeepsInv ==
    ASSUME TypeOK, NEW tf \in Timeframes, Reassess(tf)
    PROVE  TypeOK'
<1>1. PICK k \in DOMAIN zones[tf], b \in Bases :
          /\ b.low = zones[tf][k].base.low /\ b.high = zones[tf][k].base.high
          /\ zones' = [zones EXCEPT ![tf][k].base = b]
  BY DEF Reassess
<1>2. price' = price /\ price \in Prices /\ zones \in [Timeframes -> Seq(Zone)]
  BY DEF Reassess, TypeOK
<1>3. ASSUME NEW o \in Timeframes
      PROVE  /\ zones'[o] = [i \in DOMAIN zones[o] |-> zones'[o][i]]
             /\ \A i \in DOMAIN zones[o] :
                    \/ zones'[o][i] = zones[o][i]
                    \/ /\ b.high = zones[o][i].base.high
                       /\ zones'[o][i] = [zones[o][i] EXCEPT !.base = b]
  <2>1. CASE o # tf
    <3>1. zones'[o] = zones[o] /\ zones[o] = [i \in DOMAIN zones[o] |-> zones[o][i]]
      BY <1>1, <1>2, <2>1
    <3> QED BY <3>1
  <2>2. CASE o = tf
    <3>1. zones'[o] = [zones[o] EXCEPT ![k].base = b]
      BY <1>1, <1>2, <2>2
    <3>2. zones[o] = [i \in DOMAIN zones[o] |-> zones[o][i]]
      BY <1>2
    <3>3. \A i \in DOMAIN zones[o] :
              zones'[o][i] = IF i = k THEN [zones[o][i] EXCEPT !.base = b] ELSE zones[o][i]
      BY <3>1, <3>2
    <3>4. zones'[o] = [i \in DOMAIN zones[o] |-> zones'[o][i]]
      BY <3>1, <3>2
    <3> QED BY <1>1, <2>2, <3>3, <3>4
  <2> QED BY <2>1, <2>2
<1>4. ASSUME NEW o \in Timeframes, NEW i \in DOMAIN zones[o]
      PROVE  zones'[o][i] \in Zone /\ Fits(zones[o][i])'
  <2>1. PICK z \in Zone : z = zones[o][i] /\ Fits(z)
    BY DEF TypeOK
  <2>2. PICK n : n = zones'[o][i]
    OBVIOUS
  <2>3. CASE n = z
    BY <1>2, <2>1, <2>2, <2>3 DEF Fits
  <2>4. CASE b.high = z.base.high /\ n = [z EXCEPT !.base = b]
    <3>1. /\ n \in Zone /\ n.base.high = z.base.high /\ n.closed = z.closed
          /\ n.inTest = z.inTest /\ n.run = z.run /\ n.touched = z.touched
          /\ n.leaving = z.leaving
      BY <2>4 DEF Zone
    <3> QED BY <1>2, <2>1, <2>2, <3>1 DEF Fits
  <2> QED BY <1>3, <2>1, <2>2, <2>3, <2>4
<1>5. zones' = [o \in Timeframes |-> zones'[o]]
  BY <1>1, <1>2
<1> QED BY <1>2, <1>3, <1>4, <1>5, InPlaceKeepsInv

LEMMA StepKeepsInv == TypeOK /\ [Next]_vars => TypeOK'
<1> SUFFICES ASSUME TypeOK, [Next]_vars PROVE TypeOK'
  OBVIOUS
<1>1. CASE Trade
  BY <1>1, TradeKeepsInv
<1>2. ASSUME NEW tf \in Timeframes, Form(tf) PROVE TypeOK'
  BY <1>2, FormKeepsInv
<1>3. ASSUME NEW tf \in Timeframes, OpenCandle(tf) PROVE TypeOK'
  BY <1>3, OpenCandleKeepsInv
<1>4. ASSUME NEW tf \in Timeframes, Reassess(tf) PROVE TypeOK'
  BY <1>4, ReassessKeepsInv
<1>5. ASSUME NEW tf \in Timeframes, Forget(tf) PROVE TypeOK'
  BY <1>5, ForgetKeepsInv
<1>6. CASE UNCHANGED vars
  BY <1>6 DEF vars, TypeOK, Fits
<1> QED BY <1>1, <1>2, <1>3, <1>4, <1>5, <1>6 DEF Next

\* detect_demand_zones: what a scan finds of a zone's displacement, its visits
\* and its freshness always fits together.
THEOREM TypeCorrect == Spec => []TypeOK
BY InitInv, StepKeepsInv, PTL DEF Spec

-----------------------------------------------------------------------------
(* Grades *)

\* What a grade demands of the total, in sixtieths, rounding included.
LEMMA GradeNeedsTotal ==
    ASSUME zones \in [Timeframes -> Seq(Zone)], NEW z \in Zone, NEW tf \in Timeframes
    PROVE  /\ Total(tf, z) \in Int
           /\ Score(tf, z) \in Int
           /\ Grade(Score(tf, z)) \in {"A", "A+"} => Total(tf, z) >= 4797
           /\ Grade(Score(tf, z)) = "A+" => Total(tf, z) >= 5397
<1>1. Total(tf, z) \in Int
  <2>1. \A o \in Timeframes : Share(tf, z, o) \in Int
    BY ShareBounds
  <2> QED BY <2>1, QualityBounds DEF Total, Timeframes
<1> DEFINE r == (Total(tf, z) + 3) \div 6
<1>2. r \in Int /\ 6 * r <= Total(tf, z) + 3
  BY <1>1
<1>3. Score(tf, z) = IF r < 1000 THEN r ELSE 1000
  BY DEF Score
<1> HIDE DEF r
<1>4. Grade(Score(tf, z)) \in {"A", "A+"} => Score(tf, z) >= 800
  BY <1>2, <1>3 DEF Grade
<1>5. Grade(Score(tf, z)) = "A+" => Score(tf, z) >= 900
  BY <1>2, <1>3 DEF Grade
<1> QED BY <1>1, <1>2, <1>3, <1>4, <1>5

\* The most another timeframe can add to a total.
Credit(z, tf) == IF Confluent(z, tf) = {} THEN 0 ELSE 60 * Weight(tf)

\* The total, bounded by which timeframes agree.
LEMMA TotalBounds ==
    ASSUME zones \in [Timeframes -> Seq(Zone)], NEW z \in Zone, NEW tf \in Timeframes,
           NEW q \in Int, Quality(z) <= q
    PROVE  /\ tf = "3D" => Total(tf, z) <= 75 * q + Credit(z, "1D") + Credit(z, "4H")
           /\ tf = "1D" => Total(tf, z) <= 75 * q + Credit(z, "3D") + Credit(z, "4H")
           /\ tf = "4H" => Total(tf, z) <= 70 * q + Credit(z, "3D") + Credit(z, "1D")
<1>1. Quality(z) \in Int
  BY QualityBounds
<1>2. Weight("3D") = 15 /\ Weight("1D") = 15 /\ Weight("4H") = 10
  BY DEF Weight
<1>3. ASSUME NEW o \in Timeframes
      PROVE  /\ Share(tf, z, o) \in Int
             /\ Credit(z, o) \in Int
             /\ o # tf => Share(tf, z, o) <= Credit(z, o)
             /\ o = tf => Share(tf, z, o) = Weight(o) * Quality(z)
  <2>1. Weight(o) \in {10, 15}
    BY DEF Weight
  <2>2. /\ Share(tf, z, o) \in Int
        /\ tf # o /\ Confluent(z, o) = {} => Share(tf, z, o) = 0
        /\ tf # o => Share(tf, z, o) <= 60 * Weight(o)
        /\ tf = o => Share(tf, z, o) = Weight(o) * Quality(z)
    BY ShareBounds
  <2>3. CASE Confluent(z, o) = {}
    BY <2>1, <2>2, <2>3 DEF Credit
  <2>4. CASE Confluent(z, o) # {}
    BY <2>1, <2>2, <2>4 DEF Credit
  <2> QED BY <2>3, <2>4
<1>4. Total(tf, z) = 60 * Quality(z) + Share(tf, z, "3D") + Share(tf, z, "1D")
                     + Share(tf, z, "4H")
  BY DEF Total
<1>5. CASE tf = "3D"
  <2>1. /\ Share(tf, z, "3D") = 15 * Quality(z)
        /\ Share(tf, z, "1D") <= Credit(z, "1D") /\ Share(tf, z, "1D") \in Int
        /\ Share(tf, z, "4H") <= Credit(z, "4H") /\ Share(tf, z, "4H") \in Int
        /\ Credit(z, "1D") \in Int /\ Credit(z, "4H") \in Int
    BY <1>2, <1>3, <1>5 DEF Timeframes
  <2> QED BY <1>1, <1>4, <1>5, <2>1
<1>6. CASE tf = "1D"
  <2>1. /\ Share(tf, z, "1D") = 15 * Quality(z)
        /\ Share(tf, z, "3D") <= Credit(z, "3D") /\ Share(tf, z, "3D") \in Int
        /\ Share(tf, z, "4H") <= Credit(z, "4H") /\ Share(tf, z, "4H") \in Int
        /\ Credit(z, "3D") \in Int /\ Credit(z, "4H") \in Int
    BY <1>2, <1>3, <1>6 DEF Timeframes
  <2> QED BY <1>1, <1>4, <1>6, <2>1
<1>7. CASE tf = "4H"
  <2>1. /\ Share(tf, z, "4H") = 10 * Quality(z)
        /\ Share(tf, z, "3D") <= Credit(z, "3D") /\ Share(tf, z, "3D") \in Int
        /\ Share(tf, z, "1D") <= Credit(z, "1D") /\ Share(tf, z, "1D") \in Int
        /\ Credit(z, "3D") \in Int /\ Credit(z, "1D") \in Int
    BY <1>2, <1>3, <1>7 DEF Timeframes
  <2> QED BY <1>1, <1>4, <1>7, <2>1
<1>8. tf \in {"3D", "1D", "4H"}
  BY DEF Timeframes
<1> QED BY <1>5, <1>6, <1>7, <1>8

LEMMA InvGivesConfluence == TypeOK => GradesNeedConfluence
<1> SUFFICES ASSUME TypeOK, NEW tf \in Timeframes, NEW i \in Opportunities(tf)
             PROVE  /\ GradeOf(tf, i) \in {"A", "A+"} => TimeframesOf(tf, i) # {tf}
                    /\ GradeOf(tf, i) = "A+" => {"3D", "1D"} \subseteq TimeframesOf(tf, i)
  BY DEF GradesNeedConfluence
<1> DEFINE z == zones[tf][i]
<1>1. zones \in [Timeframes -> Seq(Zone)] /\ z \in Zone
  BY DEF TypeOK, Opportunities, Seen
<1>2. Quality(z) \in Int /\ Quality(z) <= 60
  BY <1>1, QualityBounds
<1>3. TimeframesOf(tf, i) = {tf} \cup {o \in Timeframes \ {tf} : Confluent(z, o) # {}}
  BY DEF TimeframesOf, ConfluentTimeframes
<1>4. GradeOf(tf, i) = Grade(Score(tf, z))
  BY DEF GradeOf
<1>5. Weight("3D") = 15 /\ Weight("1D") = 15 /\ Weight("4H") = 10
  BY DEF Weight
<1> HIDE DEF z
<1>6. /\ tf = "3D" => Total(tf, z) <= 75 * 60 + Credit(z, "1D") + Credit(z, "4H")
      /\ tf = "1D" => Total(tf, z) <= 75 * 60 + Credit(z, "3D") + Credit(z, "4H")
      /\ tf = "4H" => Total(tf, z) <= 70 * 60 + Credit(z, "3D") + Credit(z, "1D")
  BY <1>1, <1>2, TotalBounds
<1>7. /\ Total(tf, z) \in Int
      /\ GradeOf(tf, i) \in {"A", "A+"} => Total(tf, z) >= 4797
      /\ GradeOf(tf, i) = "A+" => Total(tf, z) >= 5397
  BY <1>1, <1>4, GradeNeedsTotal
<1> QED BY <1>3, <1>5, <1>6, <1>7 DEF Timeframes, Credit

\* A zone that is no longer fresh needs every timeframe for an A.
LEMMA SpentNeedAllTimeframes ==
    ASSUME TypeOK, NEW tf \in Timeframes, NEW i \in Opportunities(tf),
           Fresh(zones[tf][i]) # "fresh"
    PROVE  /\ GradeOf(tf, i) # "A+"
           /\ GradeOf(tf, i) = "A" => TimeframesOf(tf, i) = Timeframes
<1> DEFINE z == zones[tf][i]
<1>1. zones \in [Timeframes -> Seq(Zone)] /\ z \in Zone
  BY DEF TypeOK, Opportunities, Seen
<1>3. Quality(z) \in Int /\ Quality(z) <= 51
  BY <1>1, QualityBounds
<1>4. TimeframesOf(tf, i) = {tf} \cup {o \in Timeframes \ {tf} : Confluent(z, o) # {}}
  BY DEF TimeframesOf, ConfluentTimeframes
<1>5. GradeOf(tf, i) = Grade(Score(tf, z))
  BY DEF GradeOf
<1>6. Weight("3D") = 15 /\ Weight("1D") = 15 /\ Weight("4H") = 10
  BY DEF Weight
<1> HIDE DEF z
<1>7. /\ tf = "3D" => Total(tf, z) <= 75 * 51 + Credit(z, "1D") + Credit(z, "4H")
      /\ tf = "1D" => Total(tf, z) <= 75 * 51 + Credit(z, "3D") + Credit(z, "4H")
      /\ tf = "4H" => Total(tf, z) <= 70 * 51 + Credit(z, "3D") + Credit(z, "1D")
  BY <1>1, <1>3, TotalBounds
<1>8. /\ Total(tf, z) \in Int
      /\ GradeOf(tf, i) \in {"A", "A+"} => Total(tf, z) >= 4797
      /\ GradeOf(tf, i) = "A+" => Total(tf, z) >= 5397
  BY <1>1, <1>5, GradeNeedsTotal
<1> QED BY <1>4, <1>6, <1>7, <1>8 DEF Timeframes, Credit

LEMMA InvGivesEntries == TypeOK => EntriesNeedAllTimeframes
<1> SUFFICES ASSUME TypeOK, NEW tf \in Timeframes, NEW i \in Opportunities(tf),
                    zones[tf][i].base.low <= price, price <= zones[tf][i].base.high,
                    ~ zones[tf][i].leaving
             PROVE  /\ GradeOf(tf, i) # "A+"
                    /\ GradeOf(tf, i) = "A" => TimeframesOf(tf, i) = Timeframes
  BY DEF EntriesNeedAllTimeframes
<1>1. Fresh(zones[tf][i]) # "fresh"
  BY InsideIsTested DEF Opportunities, Seen
<1> QED BY <1>1, SpentNeedAllTimeframes

LEMMA InvGivesBroken == TypeOK => BrokenNeedAllTimeframes
<1> SUFFICES ASSUME TypeOK, NEW tf \in Timeframes, NEW i \in Opportunities(tf),
                    Fresh(zones[tf][i]) = "invalidated"
             PROVE  /\ GradeOf(tf, i) # "A+"
                    /\ GradeOf(tf, i) = "A" => TimeframesOf(tf, i) = Timeframes
  BY DEF BrokenNeedAllTimeframes
<1> QED BY SpentNeedAllTimeframes

\* scoring.py: for any bases and prices, no timeframe carries an A alone, and
\* an A+ takes both of 3D and 1D.
THEOREM Confluence == Spec => []GradesNeedConfluence
BY TypeCorrect, InvGivesConfluence, PTL

\* zones_needing_alert: for any bases and prices, a zone price has come back
\* to is never graded A+, and A only if all three timeframes agree.
THEOREM Entries == Spec => []EntriesNeedAllTimeframes
BY TypeCorrect, InvGivesEntries, PTL

\* freshness.py:39: for any bases and prices, a broken zone is never graded
\* A+, and A only if all three timeframes agree.
THEOREM Broken == Spec => []BrokenNeedAllTimeframes
BY TypeCorrect, InvGivesBroken, PTL

-----------------------------------------------------------------------------
(* Rises *)

\* A zone that a scan finds no better than the last did is worth no more.
LEMMA NoBetterNoMore ==
    ASSUME TypeOK, TypeOK', NEW tf \in Timeframes, NEW i \in DOMAIN zones[tf],
           DOMAIN zones'[tf] = DOMAIN zones[tf], ~ Better(tf, i)
    PROVE  /\ Quality(zones[tf][i]) \in Int /\ Quality(zones[tf][i])' \in Int
           /\ Quality(zones[tf][i])' <= Quality(zones[tf][i])
<1>1. PICK was \in Bases, is \in Bases :
          was = zones[tf][i].base /\ is = zones'[tf][i].base
  <2>1. zones[tf][i] \in Zone /\ zones'[tf][i] \in Zone
    BY DEF TypeOK
  <2> QED BY <2>1 DEF Zone
<1>2. PICK f, g : f = Fresh(zones[tf][i]) /\ g = Fresh(zones[tf][i])'
  OBVIOUS
<1>3. ~ (Age(g) < Age(f))
  BY <1>2 DEF Better
<1>4. /\ FreshPoints(f) \in Int /\ FreshPoints(g) \in Int
      /\ FreshPoints(g) <= FreshPoints(f)
  BY <1>3 DEF FreshPoints, Age
<1>5. /\ is.departure <= was.departure /\ is.expansion <= was.expansion
      /\ is.bos => was.bos
      /\ is.sweep => was.sweep
      /\ is.fib => was.fib
  BY <1>1, ScoringAssumption DEF Better
<1> DEFINE Rest(b) == DeparturePoints(b.departure) + VolumePoints(b.expansion)
                      + PointsIf(10, b.bos) + PointsIf(5, b.sweep) + PointsIf(5, b.fib)
<1>6. Rest(was) \in Int /\ Rest(is) \in Int /\ Rest(is) <= Rest(was)
  <2>1. /\ DeparturePoints(was.departure) \in Int
        /\ DeparturePoints(is.departure) \in Int
        /\ DeparturePoints(is.departure) <= DeparturePoints(was.departure)
    BY <1>5, ScoringAssumption DEF DeparturePoints
  <2>2. /\ VolumePoints(was.expansion) \in Int
        /\ VolumePoints(is.expansion) \in Int
        /\ VolumePoints(is.expansion) <= VolumePoints(was.expansion)
    BY <1>5, ScoringAssumption DEF VolumePoints
  <2>3. ASSUME NEW p \in {5, 10}, NEW c, NEW d, d => c
        PROVE  /\ PointsIf(p, c) \in Int /\ PointsIf(p, d) \in Int
               /\ PointsIf(p, d) <= PointsIf(p, c)
    BY <2>3 DEF PointsIf
  <2>4. /\ PointsIf(10, is.bos) \in Int /\ PointsIf(10, was.bos) \in Int
        /\ PointsIf(10, is.bos) <= PointsIf(10, was.bos)
        /\ PointsIf(5, is.sweep) \in Int /\ PointsIf(5, was.sweep) \in Int
        /\ PointsIf(5, is.sweep) <= PointsIf(5, was.sweep)
        /\ PointsIf(5, is.fib) \in Int /\ PointsIf(5, was.fib) \in Int
        /\ PointsIf(5, is.fib) <= PointsIf(5, was.fib)
    BY <1>5, <2>3
  <2> QED BY <2>1, <2>2, <2>4
<1>7. Quality(zones[tf][i]) = FreshPoints(f) + Rest(was)
  BY <1>1, <1>2, <1>4, ScoringAssumption
     DEF Quality, DeparturePoints, VolumePoints, PointsIf
<1>8. Quality(zones[tf][i])' = FreshPoints(g) + Rest(is)
  BY <1>1, <1>2, <1>4, ScoringAssumption
     DEF Quality, DeparturePoints, VolumePoints, PointsIf
<1> HIDE DEF Rest
<1> QED BY <1>4, <1>6, <1>7, <1>8

\* Where a zone overlaps any of another timeframe, one of them leads.
OneLeads ==
    \A tf, o \in Timeframes : \A i \in DOMAIN zones[tf] :
        /\ Leading(zones[tf][i], o) \subseteq DOMAIN zones[o]
        /\ Confluent(zones[tf][i], o) = {} <=> Leading(zones[tf][i], o) = {}

LEMMA OneLeadsNow == TypeOK => OneLeads
<1> SUFFICES ASSUME TypeOK, NEW tf \in Timeframes, NEW o \in Timeframes,
                    NEW i \in DOMAIN zones[tf]
             PROVE  /\ Leading(zones[tf][i], o) \subseteq DOMAIN zones[o]
                    /\ Confluent(zones[tf][i], o) = {} <=> Leading(zones[tf][i], o) = {}
  BY DEF OneLeads
<1>1. Leading(zones[tf][i], o) \subseteq Confluent(zones[tf][i], o)
      /\ Confluent(zones[tf][i], o) \subseteq DOMAIN zones[o]
  BY DEF Leading, Confluent, Seen
<1>2. Confluent(zones[tf][i], o) # {} => Leading(zones[tf][i], o) # {}
  BY BestIsConfluent DEF TypeOK
<1> QED BY <1>1, <1>2

LEMMA OneLeadsNext == TypeOK' => OneLeads'
BY OneLeadsNow, PTL

\* A timeframe gives no more if the same zone speaks for it, no better.
LEMMA NoBetterShares ==
    ASSUME TypeOK, TypeOK', NEW tf \in Timeframes, NEW i \in DOMAIN zones[tf],
           NEW o \in Timeframes,
           DOMAIN zones'[tf] = DOMAIN zones[tf], DOMAIN zones'[o] = DOMAIN zones[o],
           ~ Better(tf, i),
           o # tf => /\ Leading(zones[tf][i], o)' = Leading(zones[tf][i], o)
                     /\ \A j \in Leading(zones[tf][i], o) : ~ Better(o, j)
    PROVE  /\ Share(tf, zones[tf][i], o) \in Int /\ Share(tf, zones[tf][i], o)' \in Int
           /\ Share(tf, zones[tf][i], o)' <= Share(tf, zones[tf][i], o)
<1>1. Weight(o) \in {10, 15}
  BY DEF Weight
<1>2. CASE o = tf
  <2>1. /\ Share(tf, zones[tf][i], o) = Weight(o) * Quality(zones[tf][i])
        /\ Share(tf, zones[tf][i], o)' = Weight(o) * Quality(zones[tf][i])'
    BY <1>2 DEF Share, Weight
  <2> QED BY <1>1, <2>1, NoBetterNoMore
<1>3. CASE o # tf
  <2>1. /\ Leading(zones[tf][i], o) \subseteq DOMAIN zones[o]
        /\ Confluent(zones[tf][i], o) = {} <=> Leading(zones[tf][i], o) = {}
    BY OneLeadsNow DEF OneLeads
  <2>2. Confluent(zones[tf][i], o)' = {} <=> Leading(zones[tf][i], o)' = {}
    BY OneLeadsNext DEF OneLeads
  <2>3. CASE Leading(zones[tf][i], o) = {}
    <3>1. Share(tf, zones[tf][i], o) = 0
      BY <1>3, <2>1, <2>3 DEF Share
    <3>2. Share(tf, zones[tf][i], o)' = 0
      BY <1>3, <2>2, <2>3 DEF Share
    <3> QED BY <3>1, <3>2
  <2>4. CASE Leading(zones[tf][i], o) # {}
    <3>1. PICK k : k = Best(zones[tf][i], o)
      OBVIOUS
    <3>2. k \in Leading(zones[tf][i], o) /\ k = Best(zones[tf][i], o)'
      BY <1>3, <2>4, <3>1 DEF Best
    <3>3. k \in DOMAIN zones[o] /\ ~ Better(o, k)
      BY <1>3, <2>1, <3>2
    <3>4. Share(tf, zones[tf][i], o) = Weight(o) * Quality(zones[o][k])
      BY <1>3, <2>1, <2>4, <3>1, <3>3 DEF Share, Qualities
    <3>5. Share(tf, zones[tf][i], o)' = Weight(o) * Quality(zones[o][k])'
      BY <1>3, <2>2, <2>4, <3>2, <3>3 DEF Share, Qualities, Weight
    <3> QED BY <1>1, <3>3, <3>4, <3>5, NoBetterNoMore
  <2> QED BY <2>3, <2>4
<1> QED BY <1>2, <1>3

LEMMA NoBetterScores ==
    ASSUME TypeOK, TypeOK', NEW tf \in Timeframes, NEW i \in Seen(tf),
           \A o \in Timeframes : DOMAIN zones'[o] = DOMAIN zones[o],
           ~ Better(tf, i),
           \A o \in Timeframes \ {tf} :
               /\ Leading(zones[tf][i], o)' = Leading(zones[tf][i], o)
               /\ \A j \in Leading(zones[tf][i], o) : ~ Better(o, j)
    PROVE  ~ (Score(tf, zones[tf][i])' > Score(tf, zones[tf][i]))
<1>1. i \in DOMAIN zones[tf]
  BY DEF Seen
<1>2. ASSUME NEW o \in Timeframes
      PROVE  /\ Share(tf, zones[tf][i], o) \in Int /\ Share(tf, zones[tf][i], o)' \in Int
             /\ Share(tf, zones[tf][i], o)' <= Share(tf, zones[tf][i], o)
  BY <1>1, NoBetterShares
<1>3. PICK a, b : a = Total(tf, zones[tf][i])' /\ b = Total(tf, zones[tf][i])
  OBVIOUS
<1>4. a \in Int /\ b \in Int /\ a <= b
  <2>1. /\ Quality(zones[tf][i]) \in Int /\ Quality(zones[tf][i])' \in Int
        /\ Quality(zones[tf][i])' <= Quality(zones[tf][i])
    BY <1>1, NoBetterNoMore
  <2> QED BY <1>2, <1>3, <2>1 DEF Total, Timeframes
<1>5. /\ (a + 3) \div 6 \in Int /\ (b + 3) \div 6 \in Int
      /\ (a + 3) \div 6 <= (b + 3) \div 6
  BY <1>4
<1>6. /\ Score(tf, zones[tf][i])
             = IF (b + 3) \div 6 < 1000 THEN (b + 3) \div 6 ELSE 1000
      /\ Score(tf, zones[tf][i])'
             = IF (a + 3) \div 6 < 1000 THEN (a + 3) \div 6 ELSE 1000
  BY <1>3 DEF Score
<1> QED BY <1>5, <1>6

\* scoring.py: for any bases and prices, whatever the market does between two
\* scans that find the same zones, a score that rises goes back to a zone that
\* is found better, or to another zone taking over on another timeframe.
THEOREM RisesEarned == Spec => RisesAreEarned
<1> DEFINE A ==
        (\A tf \in Timeframes : DOMAIN zones'[tf] = DOMAIN zones[tf]) =>
            \A tf \in Timeframes : \A i \in Seen(tf) \cap Seen(tf)' :
                Score(tf, zones[tf][i])' > Score(tf, zones[tf][i]) =>
                    \/ Better(tf, i)
                    \/ \E o \in Timeframes \ {tf} :
                           \/ Leading(zones[tf][i], o)' # Leading(zones[tf][i], o)
                           \/ \E j \in Leading(zones[tf][i], o) : Better(o, j)
<1>1. TypeOK /\ TypeOK' => A
  <2> SUFFICES ASSUME TypeOK, TypeOK',
                      \A tf \in Timeframes : DOMAIN zones'[tf] = DOMAIN zones[tf],
                      NEW tf \in Timeframes, NEW i \in Seen(tf),
                      ~ Better(tf, i),
                      \A o \in Timeframes \ {tf} :
                          /\ Leading(zones[tf][i], o)' = Leading(zones[tf][i], o)
                          /\ \A j \in Leading(zones[tf][i], o) : ~ Better(o, j)
               PROVE  ~ (Score(tf, zones[tf][i])' > Score(tf, zones[tf][i]))
    OBVIOUS
  <2> QED BY NoBetterScores
<1> HIDE DEF A
<1>2. []TypeOK => [][A]_vars
  BY <1>1, PTL
<1> QED BY <1>2, TypeCorrect, PTL DEF RisesAreEarned, A
=============================================================================
