--------------------------- MODULE ZoneStoreProofs ---------------------------
(***************************************************************************)
(* Theorems about ZoneStore, for every set of symbols, ranges and grades,  *)
(* for both stores and without any bound on rows or scans.                 *)
(***************************************************************************)
EXTENDS WatchlistRefinement, TLAPS

-----------------------------------------------------------------------------
(* Lemmas on the lookup *)

\* Overlap of ranges does not depend on which range is the stored one.
LEMMA OverlapSymmetric ==
  ASSUME NEW a \in Areas, NEW b \in Areas, Overlaps(a, b)
  PROVE  Overlaps(b, a)
BY AreaAssumption DEF Overlaps

\* Separate ranges: meeting the same range means meeting each other.
LEMMA OverlapTransitive ==
  ASSUME AreasSeparate, NEW a \in Areas, NEW b \in Areas, NEW c \in Areas,
         Overlaps(a, b), Overlaps(b, c)
  PROVE  Overlaps(a, c)
BY DEF AreasSeparate

\* A range overlaps itself.
LEMMA OverlapReflexive ==
  ASSUME NEW a \in Areas
  PROVE  Overlaps(a, a)
BY AreaAssumption DEF Overlaps

\* A row the lookup returns is a live row of the same symbol and timeframe,
\* and its range meets the one asked for.
LEMMA FoundIsCandidate ==
  ASSUME NEW key, NEW area, NEW i \in Found(key, area)
  PROVE  /\ i \in DOMAIN rows
         /\ rows[i].key = key
         /\ Live(rows[i])
         /\ Overlaps(rows[i].area, area)
BY DEF Found, Candidates

-----------------------------------------------------------------------------
(* Type correctness *)

\* A rescanned row is a well-formed row.
LEMMA RefreshedType ==
  ASSUME NEW row \in Row, NEW d \in Detection, NEW now \in Nat
  PROVE  Refreshed(row, d, now) \in Row
BY DEF Refreshed, Row, Detection, Statuses

\* A new row is a well-formed row.
LEMMA NewRowType ==
  ASSUME NEW d \in Detection, NEW now \in Nat
  PROVE  NewRow(d, now) \in Row
BY DEF NewRow, Row, Detection, Statuses

\* The table stays well formed through every operation of the store.
THEOREM TypeCorrect == Spec => []TypeOK
<1>1. Init => TypeOK
  BY DEF Init, TypeOK
<1>2. TypeOK /\ [Next]_vars => TypeOK'
  <2> SUFFICES ASSUME TypeOK, [Next]_vars
               PROVE  TypeOK'
    OBVIOUS
  <2> USE DEF TypeOK
  <2>1. ASSUME NEW d \in Detection, UpdateZone(d)
        PROVE  TypeOK'
    <3>1. PICK i \in Found(d.key, d.area) :
             rows' = [rows EXCEPT ![i] = Refreshed(rows[i], d, tick + 1)]
      BY <2>1 DEF UpdateZone
    <3>2. i \in DOMAIN rows /\ rows[i] \in Row
      BY FoundIsCandidate
    <3>3. Refreshed(rows[i], d, tick + 1) \in Row
      BY <3>2, RefreshedType
    <3>4. rows' \in Seq(Row)
      BY <3>1, <3>2, <3>3
    <3>5. \A j \in DOMAIN rows' : rows'[j].updated \in 1..(tick + 1)
      <4> TAKE j \in DOMAIN rows'
      <4>1. CASE j = i
        BY <4>1, <3>1, <3>2 DEF Refreshed, Row
      <4>2. CASE j # i
        BY <4>2, <3>1
      <4> QED BY <4>1, <4>2
    <3> QED BY <2>1, <3>4, <3>5 DEF UpdateZone
  <2>2. ASSUME NEW d \in Detection, InsertZone(d)
        PROVE  TypeOK'
    <3>1. NewRow(d, tick + 1) \in Row
      BY NewRowType
    <3>2. rows' = Append(rows, NewRow(d, tick + 1)) /\ tick' = tick + 1
      BY <2>2 DEF InsertZone
    <3>3. \A j \in DOMAIN rows' : rows'[j].updated \in 1..(tick + 1)
      BY <3>2 DEF NewRow
    <3> QED BY <3>1, <3>2, <3>3, <2>2 DEF InsertZone
  <2>3. ASSUME NEW i \in DOMAIN rows, ConfirmAlertSent(i)
        PROVE  TypeOK'
    <3>1. rows[i] \in Row
      OBVIOUS
    <3>2. [rows[i] EXCEPT !.alertSent = TRUE] \in Row
      BY <3>1 DEF Row
    <3>3. [id |-> i, key |-> rows[i].key, area |-> rows[i].area] \in Alert
      BY <3>1 DEF Row, Alert
    <3> QED BY <2>3, <3>1, <3>2, <3>3 DEF ConfirmAlertSent, Row
  <2>4. ASSUME NEW i \in DOMAIN rows,
               NEW status \in {"INVALIDATED", "STALE"}, EditStatus(i, status)
        PROVE  TypeOK'
    <3>1. rows[i] \in Row
      OBVIOUS
    <3>2. [rows[i] EXCEPT !.status = status] \in Row
      BY <3>1 DEF Row, Statuses
    <3> QED BY <2>4, <3>1, <3>2 DEF EditStatus, Row
  <2>5. CASE UNCHANGED vars
    BY <2>5 DEF vars
  <2> QED BY <2>1, <2>2, <2>3, <2>4, <2>5 DEF Next, ReconcileZone
<1> QED BY <1>1, <1>2, PTL DEF Spec

-----------------------------------------------------------------------------
(* One live row per price range *)

\* What each operation does to the row at one position, for the proofs below.
\* A rescan: the position held a candidate, and takes the detection's range.
LEMMA UpdateEffect ==
  ASSUME TypeOK, NEW d \in Detection, UpdateZone(d)
  PROVE  \E i \in Candidates(d.key, d.area) :
            /\ DOMAIN rows' = DOMAIN rows
            /\ rows'[i] = Refreshed(rows[i], d, tick + 1)
            /\ \A j \in DOMAIN rows : j # i => rows'[j] = rows[j]
<1>1. PICK i \in Found(d.key, d.area) :
         rows' = [rows EXCEPT ![i] = Refreshed(rows[i], d, tick + 1)]
  BY DEF UpdateZone
<1>2. i \in Candidates(d.key, d.area) /\ i \in DOMAIN rows
  BY DEF Found, Candidates
<1> QED BY <1>1, <1>2 DEF TypeOK

\* An insertion: every position keeps its row, one position is new, and no
\* row was a candidate.
LEMMA InsertEffect ==
  ASSUME TypeOK, NEW d \in Detection, InsertZone(d)
  PROVE  /\ DOMAIN rows' = DOMAIN rows \cup {Len(rows) + 1}
         /\ Len(rows) + 1 \notin DOMAIN rows
         /\ rows'[Len(rows) + 1] = NewRow(d, tick + 1)
         /\ \A j \in DOMAIN rows : rows'[j] = rows[j]
         /\ Candidates(d.key, d.area) = {}
<1>1. NewRow(d, tick + 1) \in Row
  BY NewRowType DEF TypeOK
<1> QED BY <1>1 DEF InsertZone, TypeOK

\* Confirming an alert: the row at one position is marked, the rest stay.
LEMMA ConfirmEffect ==
  ASSUME TypeOK, NEW i \in DOMAIN rows, ConfirmAlertSent(i)
  PROVE  /\ DOMAIN rows' = DOMAIN rows
         /\ rows[i] \in Row
         /\ rows'[i] = [rows[i] EXCEPT !.alertSent = TRUE]
         /\ \A j \in DOMAIN rows : j # i => rows'[j] = rows[j]
BY DEF ConfirmAlertSent, TypeOK

\* Editing a status: the row at one position changes it, the rest stay.
LEMMA EditEffect ==
  ASSUME TypeOK, NEW i \in DOMAIN rows, NEW status \in Statuses,
         EditStatus(i, status)
  PROVE  /\ DOMAIN rows' = DOMAIN rows
         /\ rows[i] \in Row /\ Live(rows[i])
         /\ rows'[i] = [rows[i] EXCEPT !.status = status]
         /\ \A j \in DOMAIN rows : j # i => rows'[j] = rows[j]
BY DEF EditStatus, TypeOK

\* An operation that leaves every row its key and its range, and brings no
\* row back to life.
LeavesPlaces ==
  /\ DOMAIN rows' = DOMAIN rows
  /\ \A j \in DOMAIN rows : /\ rows'[j].key = rows[j].key
                            /\ rows'[j].area = rows[j].area
                            /\ Live(rows'[j]) => Live(rows[j])

\* It leaves the ranges as far apart as they were.
LEMMA SamePlacesKept ==
  ASSUME OneLiveRowPerArea, LeavesPlaces
  PROVE  OneLiveRowPerArea'
BY DEF LeavesPlaces, OneLiveRowPerArea, SamePlace

\* What else is done to a row: its alert is confirmed, its status edited.
Marks(i) ==
  \/ ConfirmAlertSent(i)
  \/ \E status \in {"INVALIDATED", "STALE"} : EditStatus(i, status)

\* Neither an alert nor an edit gives a row another key or range, and neither
\* brings one back to life.
LEMMA MarksKeepPlaces ==
  ASSUME TypeOK, NEW i \in DOMAIN rows, Marks(i)
  PROVE  LeavesPlaces
<1> DEFINE Same(j) == /\ rows'[j].key = rows[j].key
                      /\ rows'[j].area = rows[j].area
                      /\ Live(rows'[j]) => Live(rows[j])
<1>1. CASE ConfirmAlertSent(i)
  <2>1. /\ DOMAIN rows' = DOMAIN rows
        /\ rows[i] \in Row
        /\ rows'[i] = [rows[i] EXCEPT !.alertSent = TRUE]
        /\ \A j \in DOMAIN rows : j # i => rows'[j] = rows[j]
    BY <1>1, ConfirmEffect
  <2>2. Same(i)
    BY <2>1 DEF Row, Live
  <2>3. ASSUME NEW j \in DOMAIN rows, j # i PROVE Same(j)
    BY <2>1, <2>3
  <2> QED BY <2>1, <2>2, <2>3 DEF LeavesPlaces
<1>2. ASSUME NEW status \in {"INVALIDATED", "STALE"}, EditStatus(i, status)
      PROVE  DOMAIN rows' = DOMAIN rows /\ \A j \in DOMAIN rows : Same(j)
  <2>1. status \in Statuses
    BY DEF Statuses
  <2>2. /\ DOMAIN rows' = DOMAIN rows
        /\ rows[i] \in Row /\ Live(rows[i])
        /\ rows'[i] = [rows[i] EXCEPT !.status = status]
        /\ \A j \in DOMAIN rows : j # i => rows'[j] = rows[j]
    BY <1>2, <2>1, EditEffect
  <2>3. Same(i)
    BY <2>2 DEF Row
  <2>4. ASSUME NEW j \in DOMAIN rows, j # i PROVE Same(j)
    BY <2>2, <2>4
  <2> QED BY <2>2, <2>3, <2>4
<1> QED BY <1>1, <1>2 DEF Marks, LeavesPlaces

\* The row at a position of the table is a well-formed row.
LEMMA RowAt ==
  ASSUME TypeOK, NEW j \in DOMAIN rows
  PROVE  rows[j] \in Row /\ rows[j].area \in Areas /\ rows[j].key \in Keys
<1>1. rows[j] \in Row
  BY DEF TypeOK
<1> QED BY <1>1 DEF Row

\* Separate ranges: matching by overlap keeps one live row per range.
LEMMA OneLiveRowStep ==
  ASSUME AreasSeparate, TypeOK, OneLiveRowPerArea, [Next]_vars
  PROVE  OneLiveRowPerArea'
<1>1. ASSUME NEW d \in Detection, UpdateZone(d)
      PROVE  OneLiveRowPerArea'
  <2>1. PICK i \in Candidates(d.key, d.area) :
           /\ DOMAIN rows' = DOMAIN rows
           /\ rows'[i] = Refreshed(rows[i], d, tick + 1)
           /\ \A j \in DOMAIN rows : j # i => rows'[j] = rows[j]
    BY <1>1, UpdateEffect
  <2>2. /\ i \in DOMAIN rows /\ rows[i].key = d.key /\ Live(rows[i])
        /\ Overlaps(rows[i].area, d.area)
        /\ rows'[i].key = d.key /\ rows'[i].area = d.area
    BY <2>1 DEF Candidates, Refreshed
  <2>3. \A j \in DOMAIN rows : rows[j].area \in Areas
    BY RowAt
  <2>4. ASSUME NEW k \in DOMAIN rows, k # i, Live(rows[k]),
               rows[k].key = d.key, Overlaps(d.area, rows[k].area)
        PROVE  FALSE
    <3>1. Overlaps(rows[i].area, rows[k].area)
      BY <2>2, <2>3, <2>4, OverlapTransitive DEF Detection
    <3> QED BY <2>2, <2>4, <3>1 DEF OneLiveRowPerArea, SamePlace
  <2>5. ASSUME NEW j \in DOMAIN rows, NEW k \in DOMAIN rows, j # k,
               Live(rows'[j]), Live(rows'[k]), SamePlace(j, k)'
        PROVE  FALSE
    <3>1. CASE j = i
      BY <2>1, <2>2, <2>4, <2>5, <3>1 DEF SamePlace
    <3>2. CASE k = i
      <4>1. Overlaps(rows[j].area, d.area) /\ rows[j].key = d.key
        BY <2>1, <2>2, <2>5, <3>2 DEF SamePlace
      <4>2. Overlaps(d.area, rows[j].area)
        BY <2>3, <4>1, OverlapSymmetric DEF Detection
      <4> QED BY <2>1, <2>4, <2>5, <3>2, <4>1, <4>2
    <3>3. CASE j # i /\ k # i
      BY <2>1, <2>5, <3>3 DEF OneLiveRowPerArea, SamePlace
    <3> QED BY <3>1, <3>2, <3>3
  <2> QED BY <2>1, <2>5 DEF OneLiveRowPerArea
<1>2. ASSUME NEW d \in Detection, InsertZone(d)
      PROVE  OneLiveRowPerArea'
  <2> DEFINE n == Len(rows) + 1
  <2>1. /\ DOMAIN rows' = DOMAIN rows \cup {n} /\ n \notin DOMAIN rows
        /\ rows'[n] = NewRow(d, tick + 1)
        /\ \A j \in DOMAIN rows : rows'[j] = rows[j]
        /\ Candidates(d.key, d.area) = {}
    BY <1>2, InsertEffect
  <2> HIDE DEF n
  <2>2. rows'[n].key = d.key /\ rows'[n].area = d.area
    BY <2>1 DEF NewRow
  <2>3. ASSUME NEW j \in DOMAIN rows, Live(rows[j]), rows[j].key = d.key
        PROVE  ~ Overlaps(rows[j].area, d.area) /\ ~ Overlaps(d.area, rows[j].area)
    <3>1. ~ Overlaps(rows[j].area, d.area)
      BY <2>1, <2>3 DEF Candidates
    <3>2. rows[j].area \in Areas /\ d.area \in Areas
      BY RowAt DEF Detection
    <3> QED BY <3>1, <3>2, OverlapSymmetric
  <2>4. ASSUME NEW j \in DOMAIN rows', NEW k \in DOMAIN rows', j # k,
               Live(rows'[j]), Live(rows'[k]), SamePlace(j, k)'
        PROVE  FALSE
    <3>1. CASE j = n
      BY <2>1, <2>2, <2>3, <2>4, <3>1 DEF SamePlace
    <3>2. CASE k = n
      BY <2>1, <2>2, <2>3, <2>4, <3>2 DEF SamePlace
    <3>3. CASE j # n /\ k # n
      BY <2>1, <2>4, <3>3 DEF OneLiveRowPerArea, SamePlace
    <3> QED BY <3>1, <3>2, <3>3
  <2> QED BY <2>4 DEF OneLiveRowPerArea
<1>3. ASSUME NEW i \in DOMAIN rows, Marks(i)
      PROVE  OneLiveRowPerArea'
  BY <1>3, MarksKeepPlaces, SamePlacesKept
<1>4. CASE UNCHANGED vars
  BY <1>4 DEF vars, OneLiveRowPerArea, SamePlace
<1> QED BY <1>1, <1>2, <1>3, <1>4 DEF Next, Marks, ReconcileZone

\* Two live rows never describe overlapping price ranges of one symbol and
\* timeframe, for any separate ranges.
THEOREM OneLiveRow == AreasSeparate => (Spec => []OneLiveRowPerArea)
<1> SUFFICES ASSUME AreasSeparate
             PROVE  Spec => []OneLiveRowPerArea
  OBVIOUS
<1>1. Init => OneLiveRowPerArea
  BY DEF Init, OneLiveRowPerArea
<1>2. TypeOK /\ OneLiveRowPerArea /\ [Next]_vars => OneLiveRowPerArea'
  BY OneLiveRowStep
<1> QED BY <1>1, <1>2, TypeCorrect, PTL DEF Spec

-----------------------------------------------------------------------------
(* Alerts and the rows that carry them *)

\* An operation that keeps keys, ranges and alert state keeps the agreement
\* between the history and the table.
LEMMA AlertsKept ==
  ASSUME TypeOK, SilenceIsEarned, AlertsRecorded, UNCHANGED alerted,
         DOMAIN rows' = DOMAIN rows,
         \A j \in DOMAIN rows : /\ rows'[j].key = rows[j].key
                                /\ rows'[j].area = rows[j].area
                                /\ rows'[j].alertSent = rows[j].alertSent
  PROVE  SilenceIsEarned' /\ AlertsRecorded'
BY DEF SilenceIsEarned, AlertsRecorded

\* Separate ranges: a row stays within reach of every alert it carries.
LEMMA AlertsStep ==
  ASSUME AreasSeparate, TypeOK, SilenceIsEarned, AlertsRecorded, [Next]_vars
  PROVE  SilenceIsEarned' /\ AlertsRecorded'
<1> USE DEF SilenceIsEarned, AlertsRecorded
<1>0. \A h \in alerted : h \in Alert /\ h.area \in Areas
  BY DEF TypeOK, Alert
<1>1. ASSUME NEW d \in Detection, UpdateZone(d)
      PROVE  SilenceIsEarned' /\ AlertsRecorded'
  <2>1. PICK i \in Candidates(d.key, d.area) :
           /\ DOMAIN rows' = DOMAIN rows
           /\ rows'[i] = Refreshed(rows[i], d, tick + 1)
           /\ \A j \in DOMAIN rows : j # i => rows'[j] = rows[j]
    BY <1>1, UpdateEffect
  <2>2. /\ i \in DOMAIN rows /\ Overlaps(rows[i].area, d.area)
        /\ rows'[i].key = rows[i].key /\ rows'[i].area = d.area
        /\ rows'[i].alertSent = rows[i].alertSent
        /\ alerted' = alerted
    BY <1>1, <2>1 DEF Candidates, Refreshed, UpdateZone
  <2>3. ASSUME NEW h \in alerted, h.id = i, Overlaps(h.area, rows[i].area)
        PROVE  Overlaps(h.area, rows'[i].area)
    <3>1. rows[i].area \in Areas /\ d.area \in Areas
      BY <2>2, RowAt DEF Detection
    <3> QED BY <1>0, <2>2, <2>3, <3>1, OverlapTransitive
  <2>4. AlertsRecorded'
    BY <2>1, <2>2, <2>3
  <2>5. SilenceIsEarned'
    BY <2>1, <2>2, <2>3
  <2> QED BY <2>4, <2>5
<1>2. ASSUME NEW d \in Detection, InsertZone(d)
      PROVE  SilenceIsEarned' /\ AlertsRecorded'
  <2> DEFINE n == Len(rows) + 1
  <2>1. /\ DOMAIN rows' = DOMAIN rows \cup {n} /\ n \notin DOMAIN rows
        /\ rows'[n] = NewRow(d, tick + 1)
        /\ \A j \in DOMAIN rows : rows'[j] = rows[j]
    BY <1>2, InsertEffect
  <2> HIDE DEF n
  <2>2. ~ rows'[n].alertSent /\ alerted' = alerted
    BY <1>2, <2>1 DEF NewRow, InsertZone
  <2> QED BY <2>1, <2>2
<1>3. ASSUME NEW i \in DOMAIN rows, ConfirmAlertSent(i)
      PROVE  SilenceIsEarned' /\ AlertsRecorded'
  <2> DEFINE new == [id |-> i, key |-> rows[i].key, area |-> rows[i].area]
  <2>1. /\ DOMAIN rows' = DOMAIN rows
        /\ rows'[i].key = rows[i].key /\ rows'[i].area = rows[i].area
        /\ rows'[i].alertSent
        /\ \A j \in DOMAIN rows : j # i => rows'[j] = rows[j]
        /\ alerted' = alerted \cup {new}
    BY <1>3, ConfirmEffect DEF Row, ConfirmAlertSent
  <2>2. /\ new.id = i /\ new.key = rows[i].key
        /\ Overlaps(new.area, rows'[i].area)
    BY <2>1, RowAt, OverlapReflexive
  <2> HIDE DEF new
  <2>3. AlertsRecorded'
    BY <2>1, <2>2
  <2>4. SilenceIsEarned'
    BY <2>1, <2>2
  <2> QED BY <2>3, <2>4
<1>4. ASSUME NEW i \in DOMAIN rows,
             NEW status \in {"INVALIDATED", "STALE"}, EditStatus(i, status)
      PROVE  SilenceIsEarned' /\ AlertsRecorded'
  <2>1. status \in Statuses
    BY DEF Statuses
  <2>2. alerted' = alerted
    BY <1>4 DEF EditStatus
  <2>3. DOMAIN rows' = DOMAIN rows /\ rows[i] \in Row
        /\ rows'[i] = [rows[i] EXCEPT !.status = status]
        /\ \A j \in DOMAIN rows : j # i => rows'[j] = rows[j]
    BY <1>4, <2>1, EditEffect
  <2> QED BY <2>2, <2>3, AlertsKept DEF Row
<1>5. CASE UNCHANGED vars
  BY <1>5 DEF vars
<1> QED BY <1>1, <1>2, <1>3, <1>4, <1>5 DEF Next, ReconcileZone

\* Where an alert was sent, no other live row may ask for one.
LEMMA InvariantForbidsRealert ==
  ASSUME AreasSeparate, StoreInv
  PROVE  NoRealert
<1> SUFFICES ASSUME NEW h \in alerted, NEW i \in Pending,
                    rows[i].key = h.key, Overlaps(rows[i].area, h.area),
                    Live(rows[h.id])
             PROVE  FALSE
  BY DEF NoRealert
<1>1. /\ h.id \in DOMAIN rows /\ rows[h.id].alertSent
      /\ rows[h.id].key = h.key /\ Overlaps(h.area, rows[h.id].area)
  BY DEF StoreInv, AlertsRecorded
<1>2. i \in DOMAIN rows /\ i # h.id /\ Live(rows[i])
  BY <1>1 DEF Pending, Live
<1>3. h.area \in Areas
  BY DEF StoreInv, TypeOK, Alert
<1>4. Overlaps(rows[i].area, rows[h.id].area)
  BY <1>1, <1>2, <1>3, RowAt, OverlapTransitive DEF StoreInv
<1> QED BY <1>1, <1>2, <1>4 DEF StoreInv, OneLiveRowPerArea, SamePlace

\* Separate ranges: the alert state a row carries is always its own, and no
\* zone is up for an alert it already had.
LEMMA AlertDedup == AreasSeparate => (Spec => [](NoRealert /\ SilenceIsEarned))
<1> SUFFICES ASSUME AreasSeparate
             PROVE  Spec => [](NoRealert /\ SilenceIsEarned)
  OBVIOUS
<1>1. Init => SilenceIsEarned /\ AlertsRecorded
  BY DEF Init, SilenceIsEarned, AlertsRecorded
<1>2. TypeOK /\ SilenceIsEarned /\ AlertsRecorded /\ [Next]_vars
        => (SilenceIsEarned /\ AlertsRecorded)'
  BY AlertsStep
<1>3. TypeOK /\ OneLiveRowPerArea /\ SilenceIsEarned /\ AlertsRecorded
        => NoRealert /\ SilenceIsEarned
  BY InvariantForbidsRealert DEF StoreInv
<1>4. Spec => []OneLiveRowPerArea
  BY OneLiveRow
<1> QED BY <1>1, <1>2, <1>3, <1>4, TypeCorrect, PTL DEF Spec

\* service.py:14: no zone is up for a second alert.
THEOREM NoSecondAlert == AreasSeparate => (Spec => []NoRealert)
BY AlertDedup, PTL

\* A row that is not alerted any more was alerted for the price range it has.
THEOREM SilenceEarned == AreasSeparate => (Spec => []SilenceIsEarned)
BY AlertDedup, PTL

-----------------------------------------------------------------------------
(* What no step does, whatever the ranges *)

\* A rescan keeps alert states and keys, and leaves invalidated rows alone.
LEMMA PastStep ==
  ASSUME TypeOK, [Next]_vars, NEW i \in DOMAIN rows
  PROVE  /\ i \in DOMAIN rows'
         /\ rows'[i].key = rows[i].key
         /\ rows[i].alertSent => rows'[i].alertSent
         /\ ~ Live(rows[i]) => rows'[i] = rows[i]
<1>1. ASSUME NEW d \in Detection, UpdateZone(d)
      PROVE  /\ i \in DOMAIN rows'
             /\ rows'[i].key = rows[i].key
             /\ rows[i].alertSent => rows'[i].alertSent
             /\ ~ Live(rows[i]) => rows'[i] = rows[i]
  <2>1. PICK k \in Candidates(d.key, d.area) :
           /\ DOMAIN rows' = DOMAIN rows
           /\ rows'[k] = Refreshed(rows[k], d, tick + 1)
           /\ \A j \in DOMAIN rows : j # k => rows'[j] = rows[j]
    BY <1>1, UpdateEffect
  <2>2. Live(rows[k]) /\ k \in DOMAIN rows
    BY <2>1 DEF Candidates
  <2> QED BY <2>1, <2>2 DEF Refreshed
<1>2. ASSUME NEW d \in Detection, InsertZone(d)
      PROVE  i \in DOMAIN rows' /\ rows'[i] = rows[i]
  BY <1>2, InsertEffect
<1>3. ASSUME NEW k \in DOMAIN rows, ConfirmAlertSent(k)
      PROVE  /\ i \in DOMAIN rows'
             /\ rows'[i].key = rows[i].key
             /\ rows[i].alertSent => rows'[i].alertSent
             /\ ~ Live(rows[i]) => rows'[i] = rows[i]
  <2>1. Live(rows[k])
    BY <1>3 DEF ConfirmAlertSent, Pending, Live
  <2> QED BY <1>3, <2>1, ConfirmEffect DEF Row
<1>4. ASSUME NEW k \in DOMAIN rows,
             NEW status \in {"INVALIDATED", "STALE"}, EditStatus(k, status)
      PROVE  /\ i \in DOMAIN rows'
             /\ rows'[i].key = rows[i].key
             /\ rows[i].alertSent => rows'[i].alertSent
             /\ ~ Live(rows[i]) => rows'[i] = rows[i]
  <2>1. status \in Statuses
    BY DEF Statuses
  <2>2. /\ DOMAIN rows' = DOMAIN rows
        /\ rows[k] \in Row /\ Live(rows[k])
        /\ rows'[k] = [rows[k] EXCEPT !.status = status]
        /\ \A j \in DOMAIN rows : j # k => rows'[j] = rows[j]
    BY <1>4, <2>1, EditEffect
  <2>3. CASE i = k
    BY <2>2, <2>3 DEF Row
  <2>4. CASE i # k
    BY <2>2, <2>4
  <2> QED BY <2>3, <2>4
<1>5. CASE UNCHANGED vars
  BY <1>5 DEF vars
<1> QED BY <1>1, <1>2, <1>3, <1>4, <1>5 DEF Next, ReconcileZone

\* An alert is never taken back and an invalidated row never comes back.
THEOREM PastIsKept == Spec => RowsKeepTheirPast
<1>1. TypeOK /\ [Next]_vars =>
        [\A i \in DOMAIN rows :
           /\ i \in DOMAIN rows'
           /\ rows'[i].key = rows[i].key
           /\ rows[i].alertSent => rows'[i].alertSent
           /\ ~ Live(rows[i]) => rows'[i] = rows[i]]_vars
  BY PastStep
<1> QED BY <1>1, TypeCorrect, PTL DEF Spec, RowsKeepTheirPast

\* A match stamps the row it refreshes and moves it from a range it met.
LEMMA UpdateWrites ==
  ASSUME TypeOK, NEW d \in Detection, UpdateZone(d)
  PROVE  \E k \in Candidates(d.key, d.area) :
            /\ k \in Written /\ MetRange(k, k)
            /\ rows'[k].key = d.key /\ rows'[k].area = d.area
            /\ DOMAIN rows' = DOMAIN rows
            /\ Live(rows[k])
            /\ \A m \in DOMAIN rows : m # k => rows'[m] = rows[m]
<1>1. PICK k \in Candidates(d.key, d.area) :
         /\ DOMAIN rows' = DOMAIN rows
         /\ rows'[k] = Refreshed(rows[k], d, tick + 1)
         /\ \A m \in DOMAIN rows : m # k => rows'[m] = rows[m]
  BY UpdateEffect
<1>2. /\ k \in DOMAIN rows /\ Live(rows[k]) /\ rows[k].key = d.key
      /\ Overlaps(rows[k].area, d.area)
  BY DEF Candidates
<1>3. /\ rows'[k].key = d.key /\ rows'[k].area = d.area
      /\ rows'[k].updated = tick + 1
  BY <1>1, <1>2 DEF Refreshed
<1>4. tick' = tick + 1 /\ tick' # tick
  BY DEF UpdateZone, TypeOK
<1> QED BY <1>1, <1>2, <1>3, <1>4 DEF Written, MetRange

\* Two live rows come to meet only when one of them is moved to a range both
\* met before.
LEMMA BridgeStep ==
  ASSUME TypeOK, [Next]_vars, NEW i \in DOMAIN rows', NEW j \in DOMAIN rows',
         i # j, Live(rows'[i]), Live(rows'[j]), SamePlace(i, j)'
  PROVE  \/ /\ i \in DOMAIN rows /\ j \in DOMAIN rows
            /\ Live(rows[i]) /\ Live(rows[j]) /\ SamePlace(i, j)
         \/ \E w \in {i, j} \cap Written : MetRange(i, w) /\ MetRange(j, w)
<1> DEFINE Kept == /\ i \in DOMAIN rows /\ j \in DOMAIN rows
                   /\ Live(rows[i]) /\ Live(rows[j]) /\ SamePlace(i, j)
           Bridged == \E w \in {i, j} \cap Written : MetRange(i, w) /\ MetRange(j, w)
<1>1. \A m \in DOMAIN rows : rows[m].area \in Areas
  BY RowAt
<1>2. ASSUME NEW d \in Detection, UpdateZone(d)
      PROVE  Kept \/ Bridged
  <2>1. PICK k \in Candidates(d.key, d.area) :
           /\ k \in Written /\ MetRange(k, k)
           /\ rows'[k].key = d.key /\ rows'[k].area = d.area
           /\ DOMAIN rows' = DOMAIN rows
           /\ Live(rows[k])
           /\ \A m \in DOMAIN rows : m # k => rows'[m] = rows[m]
    BY <1>2, UpdateWrites
  <2>2. d.area \in Areas
    BY DEF Detection
  <2>3. ASSUME NEW m \in DOMAIN rows, m # k, Live(rows'[m]),
               SamePlace(k, m)' \/ SamePlace(m, k)'
        PROVE  MetRange(m, k)
    <3>1. rows'[m] = rows[m] /\ rows[m].area \in Areas
      BY <1>1, <2>1, <2>3
    <3>2. rows[m].key = rows'[k].key
      BY <2>3, <3>1 DEF SamePlace
    <3>3. Overlaps(rows[m].area, d.area) \/ Overlaps(d.area, rows[m].area)
      BY <2>1, <2>3, <3>1 DEF SamePlace
    <3>4. Overlaps(rows[m].area, rows'[k].area)
      BY <2>1, <2>2, <3>1, <3>3, OverlapSymmetric
    <3> QED BY <2>3, <3>1, <3>2, <3>4 DEF MetRange
  <2>4. CASE i = k
    BY <2>1, <2>3, <2>4
  <2>5. CASE j = k
    BY <2>1, <2>3, <2>5
  <2>6. CASE i # k /\ j # k
    BY <2>1, <2>6 DEF SamePlace
  <2> QED BY <2>4, <2>5, <2>6
<1>3. ASSUME NEW d \in Detection, InsertZone(d)
      PROVE  Kept
  <2> DEFINE n == Len(rows) + 1
  <2>1. /\ DOMAIN rows' = DOMAIN rows \cup {n}
        /\ rows'[n] = NewRow(d, tick + 1)
        /\ \A m \in DOMAIN rows : rows'[m] = rows[m]
        /\ n \notin DOMAIN rows
        /\ Candidates(d.key, d.area) = {}
    BY <1>3, InsertEffect
  <2> HIDE DEF n
  <2>2. rows'[n].key = d.key /\ rows'[n].area = d.area /\ d.area \in Areas
    BY <2>1 DEF NewRow, Detection
  <2>3. ASSUME NEW m \in DOMAIN rows, Live(rows[m]), rows[m].key = d.key
        PROVE  ~ Overlaps(rows[m].area, d.area) /\ ~ Overlaps(d.area, rows[m].area)
    <3>1. ~ Overlaps(rows[m].area, d.area)
      BY <2>1, <2>3 DEF Candidates
    <3> QED BY <1>1, <2>2, <3>1, OverlapSymmetric
  <2>4. i # n /\ j # n
    BY <2>1, <2>2, <2>3 DEF SamePlace
  <2> QED BY <2>1, <2>4 DEF SamePlace
<1>4. ASSUME NEW k \in DOMAIN rows, Marks(k)
      PROVE  Kept
  BY <1>4, MarksKeepPlaces DEF LeavesPlaces, SamePlace
<1>5. CASE UNCHANGED vars
  BY <1>5 DEF vars, SamePlace
<1> QED BY <1>2, <1>3, <1>4, <1>5 DEF Next, Marks, ReconcileZone

\* service.py:50, for any ranges: overlapping live rows are the work of a match
\* that moves one of them to a range both met; no insertion, alert or edit makes
\* two rows overlap, and no match moves a row to where it was not.
THEOREM BridgesOverlap == Spec => OverlapNeedsABridge
<1>1. TypeOK /\ [Next]_vars =>
        [\A i, j \in DOMAIN rows' :
          /\ i # j /\ Live(rows'[i]) /\ Live(rows'[j])
          /\ SamePlace(i, j)'
          => \/ /\ i \in DOMAIN rows /\ j \in DOMAIN rows
                /\ Live(rows[i]) /\ Live(rows[j]) /\ SamePlace(i, j)
             \/ \E w \in {i, j} \cap Written :
                    MetRange(i, w) /\ MetRange(j, w)]_vars
  BY BridgeStep
<1> QED BY <1>1, TypeCorrect, PTL DEF Spec, OverlapNeedsABridge
-----------------------------------------------------------------------------
(* The watchlist the table implements *)

\* Separate ranges: the zones of two ranges are the same zone exactly when
\* the keys are equal and the ranges meet.
LEMMA ZoneOfMeeting ==
  ASSUME AreasSeparate, NEW key, NEW a \in Areas, NEW b \in Areas,
         Overlaps(a, b)
  PROVE  ZoneOf(key, a) = ZoneOf(key, b)
<1>1. ASSUME NEW c \in Areas
      PROVE  Overlaps(c, a) <=> Overlaps(c, b)
  BY OverlapSymmetric, OverlapTransitive
<1> QED BY <1>1 DEF ZoneOf

\* Ranges that are one zone meet each other.
LEMMA ZoneOfApart ==
  ASSUME NEW key, NEW other, NEW a \in Areas, NEW b \in Areas,
         ZoneOf(key, a) = ZoneOf(other, b)
  PROVE  key = other /\ Overlaps(a, b)
<1>1. /\ key = other
      /\ {c \in Areas : Overlaps(c, a)} = {c \in Areas : Overlaps(c, b)}
  BY DEF ZoneOf
<1> QED BY <1>1, OverlapReflexive

\* Two rows of one zone stand in the same place.
LEMMA OneZoneOnePlace ==
  ASSUME TypeOK, NEW i \in DOMAIN rows, NEW j \in DOMAIN rows,
         ZoneOf(rows[i].key, rows[i].area) = ZoneOf(rows[j].key, rows[j].area)
  PROVE  SamePlace(i, j)
<1>1. rows[i].area \in Areas /\ rows[j].area \in Areas
  BY RowAt
<1>2. rows[i].key = rows[j].key /\ Overlaps(rows[i].area, rows[j].area)
  BY <1>1, ZoneOfApart
<1> QED BY <1>2 DEF SamePlace

\* What the watchlist shows: the live row of a zone, whichever it is.
ShowsLiveRows ==
  \A z \in Zones :
     /\ LiveRowsOf(z) = {} => EntryShown[z] = W!Absent
     /\ \A i \in LiveRowsOf(z) : EntryShown[z] = EntryOf(rows[i])

\* With one live row per range, the watchlist shows that row and no other.
LEMMA ShownIsTheLiveRow == TypeOK /\ OneLiveRowPerArea => ShowsLiveRows
<1> SUFFICES ASSUME TypeOK, OneLiveRowPerArea, NEW z \in Zones
             PROVE  /\ LiveRowsOf(z) = {} => EntryShown[z] = W!Absent
                    /\ \A i \in LiveRowsOf(z) : EntryShown[z] = EntryOf(rows[i])
  BY DEF ShowsLiveRows
<1>1. LiveRowsOf(z) = {} => EntryShown[z] = W!Absent
  BY DEF EntryShown, W!Absent
<1>2. ASSUME NEW i \in LiveRowsOf(z)
      PROVE  EntryShown[z] = EntryOf(rows[i])
  <2> DEFINE c == CHOOSE j \in LiveRowsOf(z) : TRUE
  <2>1. c \in LiveRowsOf(z)
    OBVIOUS
  <2> HIDE DEF c
  <2>2. /\ i \in DOMAIN rows /\ c \in DOMAIN rows
        /\ Live(rows[i]) /\ Live(rows[c])
        /\ ZoneOf(rows[i].key, rows[i].area) = ZoneOf(rows[c].key, rows[c].area)
    BY <2>1 DEF LiveRowsOf
  <2>3. SamePlace(i, c)
    BY <2>2, OneZoneOnePlace
  <2>4. i = c
    BY <2>2, <2>3 DEF OneLiveRowPerArea
  <2> QED BY <2>4 DEF EntryShown, c
<1> QED BY <1>1, <1>2

\* The zone of a row is a zone of the market.
LEMMA ZoneOfRow ==
  ASSUME NEW key \in Keys, NEW area \in Areas
  PROVE  ZoneOf(key, area) \in Zones
BY DEF Zones

\* Two tables, each with one live row per range, that differ in one row of one
\* zone: the entries of every other zone are the same.
LEMMA OneEntryMoves ==
  ASSUME AreasSeparate, TypeOK, TypeOK', OneLiveRowPerArea, OneLiveRowPerArea',
         NEW z \in Zones, NEW k, LiveRowsOf(z) \subseteq {k},
         LiveRowsOf(z)' \subseteq {k},
         \A j : j # k => /\ j \in DOMAIN rows <=> j \in DOMAIN rows'
                         /\ j \in DOMAIN rows => rows'[j] = rows[j],
         k \in DOMAIN rows /\ Live(rows[k]) => k \in LiveRowsOf(z),
         k \in DOMAIN rows' /\ Live(rows'[k]) => k \in LiveRowsOf(z)'
  PROVE  EntryShown' =
           [EntryShown EXCEPT ![z] = IF k \in LiveRowsOf(z)' THEN EntryOf(rows'[k])
                                     ELSE W!Absent]
<1>0. ShowsLiveRows'
  BY ShownIsTheLiveRow, PTL
<1>1. \A y \in Zones :
         /\ LiveRowsOf(y) = {} => EntryShown[y] = W!Absent
         /\ \A i \in LiveRowsOf(y) : EntryShown[y] = EntryOf(rows[i])
  BY ShownIsTheLiveRow DEF ShowsLiveRows
<1>2. \A y \in Zones :
         /\ LiveRowsOf(y)' = {} => EntryShown'[y] = W!Absent
         /\ \A i \in LiveRowsOf(y)' : EntryShown'[y] = EntryOf(rows'[i])
  BY <1>0 DEF ShowsLiveRows
<1>3. EntryShown'[z] = IF k \in LiveRowsOf(z)' THEN EntryOf(rows'[k])
                       ELSE W!Absent
  BY <1>2
<1>4. ASSUME NEW y \in Zones, y # z
      PROVE  EntryShown'[y] = EntryShown[y]
  <2>1. k \notin LiveRowsOf(y) /\ k \notin LiveRowsOf(y)'
    BY <1>4 DEF LiveRowsOf
  <2>2. \A j : j # k => (j \in LiveRowsOf(y) <=> j \in LiveRowsOf(y)')
    BY DEF LiveRowsOf
  <2>3. CASE LiveRowsOf(y) = {}
    BY <1>1, <1>2, <2>1, <2>2, <2>3
  <2>4. CASE LiveRowsOf(y) # {}
    <3>1. PICK i \in LiveRowsOf(y) : TRUE
      BY <2>4
    <3>2. i # k /\ i \in LiveRowsOf(y)' /\ rows'[i] = rows[i]
      BY <2>1, <2>2, <3>1 DEF LiveRowsOf
    <3>3. EntryShown[y] = EntryOf(rows[i]) /\ EntryShown'[y] = EntryOf(rows'[i])
      BY <1>1, <1>2, <3>1, <3>2
    <3> QED BY <3>2, <3>3 DEF EntryOf
  <2> QED BY <2>3, <2>4
<1>5. EntryShown = [y \in Zones |-> EntryShown[y]]
  BY DEF EntryShown
<1>6. EntryShown' = [y \in Zones |-> EntryShown'[y]]
  BY DEF EntryShown
<1> HIDE DEF EntryShown
<1> QED BY <1>1, <1>2, <1>3, <1>4, <1>5, <1>6

\* The step of one row of the table, as the watchlist sees it.
LEMMA OneRowMoves ==
  ASSUME AreasSeparate, TypeOK, TypeOK', OneLiveRowPerArea, OneLiveRowPerArea',
         NEW k \in DOMAIN rows, Live(rows[k]), DOMAIN rows' = DOMAIN rows,
         \A j \in DOMAIN rows : j # k => rows'[j] = rows[j],
         NEW z, z = ZoneOf(rows[k].key, rows[k].area),
         z = ZoneOf(rows'[k].key, rows'[k].area)
  PROVE  /\ z \in Zones
         /\ EntryShown[z] = EntryOf(rows[k])
         /\ EntryShown' =
              [EntryShown EXCEPT ![z] = IF Live(rows'[k]) THEN EntryOf(rows'[k])
                                        ELSE W!Absent]
<1>1. z \in Zones
  BY RowAt, ZoneOfRow
<1>2. LiveRowsOf(z) = {k}
  <2>1. ASSUME NEW i \in LiveRowsOf(z)
        PROVE  i = k
    <3>1. /\ i \in DOMAIN rows /\ Live(rows[i])
          /\ ZoneOf(rows[i].key, rows[i].area) = ZoneOf(rows[k].key, rows[k].area)
      BY DEF LiveRowsOf
    <3>2. SamePlace(i, k)
      BY <3>1, OneZoneOnePlace
    <3> QED BY <3>1, <3>2 DEF OneLiveRowPerArea
  <2>2. k \in LiveRowsOf(z)
    BY DEF LiveRowsOf
  <2> QED BY <2>1, <2>2
<1>3. /\ LiveRowsOf(z)' \subseteq {k}
      /\ k \in LiveRowsOf(z)' <=> Live(rows'[k])
  BY <1>2 DEF LiveRowsOf
<1>4. EntryShown[z] = EntryOf(rows[k])
  BY <1>1, <1>2, ShownIsTheLiveRow DEF ShowsLiveRows
<1>5. EntryShown' =
        [EntryShown EXCEPT ![z] = IF k \in LiveRowsOf(z)' THEN EntryOf(rows'[k])
                                  ELSE W!Absent]
  BY <1>1, <1>2, <1>3, OneEntryMoves
<1> QED BY <1>1, <1>3, <1>4, <1>5
\* Every step of the table is a step of the watchlist or changes no entry.
LEMMA WatchStep ==
  ASSUME AreasSeparate, TypeOK, TypeOK', OneLiveRowPerArea, OneLiveRowPerArea',
         [Next]_vars
  PROVE  W!Next \/ UNCHANGED EntryShown
<1>1. ASSUME NEW d \in Detection, UpdateZone(d)
      PROVE  W!Next
  <2>1. PICK k \in Candidates(d.key, d.area) :
           /\ DOMAIN rows' = DOMAIN rows
           /\ rows'[k] = Refreshed(rows[k], d, tick + 1)
           /\ \A j \in DOMAIN rows : j # k => rows'[j] = rows[j]
    BY <1>1, UpdateEffect
  <2>2. /\ k \in DOMAIN rows /\ Live(rows[k]) /\ rows[k].key = d.key
        /\ Overlaps(rows[k].area, d.area)
        /\ rows[k].area \in Areas /\ d.area \in Areas
    BY <2>1, RowAt DEF Candidates, Detection
  <2>3. /\ rows'[k].key = rows[k].key /\ rows'[k].area = d.area
        /\ Live(rows'[k])
        /\ EntryOf(rows'[k])
             = W!Rescanned(EntryOf(rows[k]), d.status, d.grade)
    BY <2>1 DEF Refreshed, Live, Detection, DetectedStatuses, EntryOf,
                W!Rescanned
  <2>4. PICK z : /\ z = ZoneOf(rows[k].key, rows[k].area)
                 /\ z = ZoneOf(rows'[k].key, rows'[k].area)
    BY <2>2, <2>3, ZoneOfMeeting
  <2>5. /\ z \in Zones
        /\ EntryShown[z] = EntryOf(rows[k])
        /\ EntryShown' = [EntryShown EXCEPT ![z] = EntryOf(rows'[k])]
    BY <2>1, <2>2, <2>3, <2>4, OneRowMoves
  <2>6. W!Rescan(z, d.status, d.grade)
    BY <2>3, <2>5 DEF W!Rescan
  <2> QED BY <2>5, <2>6 DEF W!Next, Detection, DetectedStatuses
<1>2. ASSUME NEW d \in Detection, InsertZone(d)
      PROVE  W!Next
  <2> DEFINE n == Len(rows) + 1
             z == ZoneOf(d.key, d.area)
  <2>1. /\ DOMAIN rows' = DOMAIN rows \cup {n}
        /\ n \notin DOMAIN rows
        /\ rows'[n] = NewRow(d, tick + 1)
        /\ \A j \in DOMAIN rows : rows'[j] = rows[j]
        /\ Candidates(d.key, d.area) = {}
    BY <1>2, InsertEffect
  <2>2. z \in Zones /\ d.area \in Areas
    BY ZoneOfRow DEF Detection
  <2> PICK k : k = n
    OBVIOUS
  <2> HIDE DEF n
  <2>3. /\ ZoneOf(rows'[k].key, rows'[k].area) = z /\ Live(rows'[k])
        /\ EntryOf(rows'[k]) = W!Rescanned(W!Absent, d.status, d.grade)
    BY <2>1 DEF NewRow, Live, Detection, DetectedStatuses, EntryOf,
                W!Rescanned, W!Absent
  <2>4. ASSUME NEW i \in LiveRowsOf(z)
        PROVE  FALSE
    <3>1. /\ i \in DOMAIN rows /\ Live(rows[i])
          /\ ZoneOf(rows[i].key, rows[i].area) = ZoneOf(d.key, d.area)
      BY DEF LiveRowsOf
    <3>2. rows[i].area \in Areas
      BY <3>1, RowAt
    <3>3. rows[i].key = d.key /\ Overlaps(rows[i].area, d.area)
      BY <2>2, <3>1, <3>2, ZoneOfApart
    <3> QED BY <2>1, <3>1, <3>3 DEF Candidates
  <2> HIDE DEF z
  <2>5. LiveRowsOf(z)' = {k}
    BY <2>1, <2>3, <2>4 DEF LiveRowsOf
  <2>6. EntryShown' = [EntryShown EXCEPT ![z] = EntryOf(rows'[k])]
    BY <2>1, <2>2, <2>4, <2>5, OneEntryMoves
  <2>7. EntryShown[z] = W!Absent
    BY <2>2, <2>4, ShownIsTheLiveRow DEF ShowsLiveRows
  <2>8. W!Rescan(z, d.status, d.grade)
    BY <2>3, <2>6, <2>7 DEF W!Rescan
  <2> QED BY <2>2, <2>8 DEF W!Next, Detection, DetectedStatuses
<1>3. ASSUME NEW k \in DOMAIN rows, ConfirmAlertSent(k)
      PROVE  W!Next
  <2>1. /\ DOMAIN rows' = DOMAIN rows
        /\ rows[k] \in Row
        /\ rows'[k] = [rows[k] EXCEPT !.alertSent = TRUE]
        /\ \A j \in DOMAIN rows : j # k => rows'[j] = rows[j]
        /\ k \in Pending
    BY <1>3, ConfirmEffect DEF ConfirmAlertSent
  <2>2. /\ rows'[k].key = rows[k].key /\ rows'[k].area = rows[k].area
        /\ Live(rows[k]) /\ Live(rows'[k])
        /\ EntryOf(rows'[k]) = W!Marked(EntryOf(rows[k]))
        /\ W!Due(EntryOf(rows[k]))
    BY <2>1 DEF Row, Pending, Live, EntryOf, W!Marked, W!Due
  <2>3. PICK z : /\ z = ZoneOf(rows[k].key, rows[k].area)
                 /\ z = ZoneOf(rows'[k].key, rows'[k].area)
    BY <2>2
  <2>4. /\ z \in Zones
        /\ EntryShown[z] = EntryOf(rows[k])
        /\ EntryShown' = [EntryShown EXCEPT ![z] = EntryOf(rows'[k])]
    BY <2>1, <2>2, <2>3, OneRowMoves
  <2>5. W!Alert(z)
    BY <2>2, <2>4 DEF W!Alert
  <2> QED BY <2>4, <2>5 DEF W!Next
<1>4. ASSUME NEW k \in DOMAIN rows,
             NEW status \in {"INVALIDATED", "STALE"}, EditStatus(k, status)
      PROVE  W!Next
  <2>0. status \in Statuses
    BY DEF Statuses
  <2>1. /\ DOMAIN rows' = DOMAIN rows
        /\ rows[k] \in Row /\ Live(rows[k])
        /\ rows'[k] = [rows[k] EXCEPT !.status = status]
        /\ \A j \in DOMAIN rows : j # k => rows'[j] = rows[j]
        /\ rows[k].status # status
    BY <1>4, <2>0, EditEffect DEF EditStatus
  <2>2. /\ rows'[k].key = rows[k].key /\ rows'[k].area = rows[k].area
        /\ rows'[k].status = status
        /\ EntryOf(rows'[k]) = [EntryOf(rows[k]) EXCEPT !.status = status]
        /\ Live(rows'[k]) <=> status = "STALE"
        /\ EntryOf(rows[k]) # W!Absent
    BY <2>1 DEF Row, Statuses, DetectedStatuses, Live, EntryOf, W!Absent
  <2>3. PICK z : /\ z = ZoneOf(rows[k].key, rows[k].area)
                 /\ z = ZoneOf(rows'[k].key, rows'[k].area)
    BY <2>2
  <2>4. /\ z \in Zones
        /\ EntryShown[z] = EntryOf(rows[k])
        /\ EntryShown' =
             [EntryShown EXCEPT ![z] = IF Live(rows'[k]) THEN EntryOf(rows'[k])
                                       ELSE W!Absent]
    BY <2>1, <2>2, <2>3, OneRowMoves
  <2>5. CASE status = "STALE"
    <3>1. EntryShown[z].status \in {"WAITING", "ENTERED"}
      BY <2>1, <2>4, <2>5 DEF Row, Statuses, DetectedStatuses, Live, EntryOf
    <3>2. W!Shelve(z)
      BY <2>2, <2>4, <2>5, <3>1 DEF W!Shelve
    <3> QED BY <2>4, <3>2 DEF W!Next
  <2>6. CASE status = "INVALIDATED"
    <3>1. W!Retire(z)
      BY <2>2, <2>4, <2>6 DEF W!Retire
    <3> QED BY <2>4, <3>1 DEF W!Next
  <2> QED BY <2>5, <2>6
<1>5. CASE UNCHANGED vars
  BY <1>5 DEF vars, EntryShown, LiveRowsOf
<1> QED BY <1>1, <1>2, <1>3, <1>4, <1>5 DEF Next, ReconcileZone

\* For any separate ranges the table implements the watchlist: one entry per
\* zone, which a rescan observes anew and an alert marks, whatever shape the
\* zone is seen in and whichever store answers the lookup.
THEOREM TableIsWatchlist == AreasSeparate => (Spec => ImplementsWatchlist)
<1> SUFFICES ASSUME AreasSeparate
             PROVE  Spec => ImplementsWatchlist
  OBVIOUS
<1>1. Init => W!Init
  BY DEF Init, W!Init, W!Absent, EntryShown, LiveRowsOf
<1>2. TypeOK /\ TypeOK' /\ OneLiveRowPerArea /\ OneLiveRowPerArea' /\ [Next]_vars
        => [W!Next]_EntryShown
  BY WatchStep
<1>3. Spec => []OneLiveRowPerArea
  BY OneLiveRow
<1> QED BY <1>1, <1>2, <1>3, TypeCorrect, PTL
        DEF Spec, ImplementsWatchlist, W!Spec

=============================================================================
