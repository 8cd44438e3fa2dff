----------------------- MODULE StoreEquivalenceProofs -----------------------
(***************************************************************************)
(* The stores only part on an ambiguous match, for all ranges, symbols and *)
(* grades and any number of rows and scans.                                *)
(***************************************************************************)
EXTENDS StoreEquivalence, TLAPS

\* Two stores with the same rows consider the same rows.
LEMMA SameCandidates ==
  ASSUME StoresAgree, NEW key, NEW area
  PROVE  Mem!Candidates(key, area) = Sql!Candidates(key, area)
BY DEF StoresAgree, Mem!Candidates, Sql!Candidates, Mem!Live, Sql!Live,
       Mem!Overlaps, Sql!Overlaps

\* A detection that meets at most one live row leaves agreeing stores agreeing.
LEMMA ReconcileAgrees ==
  ASSUME StoresAgree, NEW d \in Mem!Detection, Reconcile(d),
         \A i, j \in Mem!Candidates(d.key, d.area) : i = j
  PROVE  StoresAgree'
<1> DEFINE C == Mem!Candidates(d.key, d.area)
<1>1. C = Sql!Candidates(d.key, d.area)
  BY SameCandidates
<1>2. CASE Mem!UpdateZone(d) /\ Sql!UpdateZone(d)
  <2>1. PICK i \in C :
           memRows' = [memRows EXCEPT ![i] = Mem!Refreshed(memRows[i], d, tick + 1)]
    BY <1>2 DEF Mem!UpdateZone, Mem!Found
  <2>2. PICK j \in C :
           sqlRows' = [sqlRows EXCEPT ![j] = Sql!Refreshed(sqlRows[j], d, tick + 1)]
    BY <1>1, <1>2 DEF Sql!UpdateZone, Sql!Found
  <2>3. i = j
    BY <2>1, <2>2
  <2> QED BY <2>1, <2>2, <2>3 DEF StoresAgree, Mem!Refreshed, Sql!Refreshed
<1>3. CASE Mem!InsertZone(d) /\ Sql!InsertZone(d)
  BY <1>3 DEF StoresAgree, Mem!InsertZone, Sql!InsertZone, Mem!NewRow, Sql!NewRow
<1>4. ~ (Mem!UpdateZone(d) /\ Sql!InsertZone(d))
  BY <1>1 DEF Mem!UpdateZone, Mem!Found, Sql!InsertZone
<1>5. ~ (Mem!InsertZone(d) /\ Sql!UpdateZone(d))
  BY <1>1 DEF Mem!InsertZone, Sql!UpdateZone, Sql!Found
<1> QED BY <1>2, <1>3, <1>4, <1>5
        DEF Reconcile, Mem!ReconcileZone, Sql!ReconcileZone

\* If they part, each refreshes one of two rows the detection meets.
LEMMA ReconcileParts ==
  ASSUME StoresAgree, ~ StoresAgree', NEW d \in Mem!Detection, Reconcile(d),
         tick \in Nat
  PROVE  \E i \in Mem!Written, j \in Sql!Written :
            /\ i # j
            /\ memRows'[i].area = sqlRows'[j].area
            /\ Mem!MetRange(i, i) /\ Mem!MetRange(j, i)
<1> DEFINE C == Mem!Candidates(d.key, d.area)
<1>1. C = Sql!Candidates(d.key, d.area)
  BY SameCandidates
<1>2. ~ (Mem!InsertZone(d) /\ Sql!InsertZone(d))
  BY DEF StoresAgree, Mem!InsertZone, Sql!InsertZone, Mem!NewRow, Sql!NewRow
<1>3. Mem!UpdateZone(d) /\ Sql!UpdateZone(d)
  BY <1>1, <1>2 DEF Reconcile, Mem!ReconcileZone, Sql!ReconcileZone,
     Mem!UpdateZone, Mem!Found, Sql!InsertZone, Mem!InsertZone, Sql!UpdateZone,
     Sql!Found
<1>4. PICK i \in C :
         memRows' = [memRows EXCEPT ![i] = Mem!Refreshed(memRows[i], d, tick + 1)]
  BY <1>3 DEF Mem!UpdateZone, Mem!Found
<1>5. PICK j \in C :
         sqlRows' = [sqlRows EXCEPT ![j] = Sql!Refreshed(sqlRows[j], d, tick + 1)]
  BY <1>1, <1>3 DEF Sql!UpdateZone, Sql!Found
<1>6. i # j
  BY <1>4, <1>5 DEF StoresAgree, Mem!Refreshed, Sql!Refreshed
<1>7. ASSUME NEW k \in C
      PROVE  /\ k \in DOMAIN memRows /\ k \in DOMAIN sqlRows
             /\ Mem!Live(memRows[k]) /\ memRows[k].key = d.key
             /\ Mem!Overlaps(memRows[k].area, d.area)
  BY DEF Mem!Candidates, StoresAgree
<1>8. /\ memRows'[i].key = d.key /\ memRows'[i].area = d.area
      /\ memRows'[i].updated = tick + 1 /\ i \in DOMAIN memRows'
  BY <1>4, <1>7 DEF Mem!Refreshed
<1>9. /\ sqlRows'[j].area = d.area
      /\ sqlRows'[j].updated = tick + 1 /\ j \in DOMAIN sqlRows'
  BY <1>5, <1>7 DEF Sql!Refreshed
<1>10. tick' = tick + 1 /\ tick' # tick
  BY <1>3 DEF Mem!UpdateZone
<1>11. i \in Mem!Written /\ j \in Sql!Written
  BY <1>8, <1>9, <1>10 DEF Mem!Written, Sql!Written
<1>12. Mem!MetRange(i, i) /\ Mem!MetRange(j, i)
  BY <1>7, <1>8 DEF Mem!MetRange
<1> QED BY <1>6, <1>8, <1>9, <1>11, <1>12

\* No other step parts agreeing stores.
LEMMA OnlyReconcileParts ==
  ASSUME StoresAgree, ~ StoresAgree', [Next]_vars
  PROVE  \E d \in Mem!Detection : Reconcile(d)
<1>1. ASSUME NEW i, Confirm(i) PROVE StoresAgree'
  BY <1>1 DEF Confirm, StoresAgree, Mem!ConfirmAlertSent, Sql!ConfirmAlertSent
<1>2. ASSUME NEW i, NEW status, Edit(i, status) PROVE StoresAgree'
  BY <1>2 DEF Edit, StoresAgree, Mem!EditStatus, Sql!EditStatus
<1>3. CASE UNCHANGED vars
  BY <1>3 DEF vars, StoresAgree
<1> QED BY <1>1, <1>2, <1>3 DEF Next

-----------------------------------------------------------------------------
(* Each store by itself *)

MemProofs == INSTANCE ZoneStoreProofs
                WITH Backend <- "memory", rows <- memRows, alerted <- memAlerted
SqlProofs == INSTANCE ZoneStoreProofs
                WITH Backend <- "sqlite", rows <- sqlRows, alerted <- sqlAlerted

\* The assumptions ZoneStore makes hold of either store.
LEMMA StoreAssumptions ==
  /\ MemProofs!AreaAssumption /\ MemProofs!BackendAssumption
  /\ MemProofs!BoundAssumption
  /\ SqlProofs!AreaAssumption /\ SqlProofs!BackendAssumption
  /\ SqlProofs!BoundAssumption
BY SideBySideAssumption
   DEF MemProofs!AreaAssumption, MemProofs!BackendAssumption,
       MemProofs!BoundAssumption, SqlProofs!AreaAssumption,
       SqlProofs!BackendAssumption, SqlProofs!BoundAssumption

\* Both stores are handed the same detections.
LEMMA SameDetections == Mem!Detection = Sql!Detection
BY DEF Mem!Detection, Sql!Detection, Mem!DetectedStatuses, Sql!DetectedStatuses

\* The in-memory store takes the steps ZoneStore takes by itself.
LEMMA MemSameSteps ==
  /\ Mem!Detection = MemProofs!Detection
  /\ \A d : Mem!ReconcileZone(d) <=> MemProofs!ReconcileZone(d)
  /\ \A i : Mem!ConfirmAlertSent(i) <=> MemProofs!ConfirmAlertSent(i)
  /\ \A i, status : Mem!EditStatus(i, status) <=> MemProofs!EditStatus(i, status)
<1>1. Mem!Detection = MemProofs!Detection
  BY DEF Mem!Detection, MemProofs!Detection,
         Mem!DetectedStatuses, MemProofs!DetectedStatuses
<1>2. ASSUME NEW d PROVE Mem!ReconcileZone(d) <=> MemProofs!ReconcileZone(d)
  BY DEF Mem!ReconcileZone, MemProofs!ReconcileZone,
         Mem!UpdateZone, MemProofs!UpdateZone,
         Mem!InsertZone, MemProofs!InsertZone,
         Mem!Found, MemProofs!Found, Mem!Preferred, MemProofs!Preferred,
         Mem!Candidates, MemProofs!Candidates, Mem!Live, MemProofs!Live,
         Mem!Overlaps, MemProofs!Overlaps,
         Mem!Refreshed, MemProofs!Refreshed, Mem!NewRow, MemProofs!NewRow
<1>3. ASSUME NEW i PROVE Mem!ConfirmAlertSent(i) <=> MemProofs!ConfirmAlertSent(i)
  BY DEF Mem!ConfirmAlertSent, MemProofs!ConfirmAlertSent,
         Mem!Pending, MemProofs!Pending
<1>4. ASSUME NEW i, NEW status
      PROVE  Mem!EditStatus(i, status) <=> MemProofs!EditStatus(i, status)
  BY DEF Mem!EditStatus, MemProofs!EditStatus, Mem!Live, MemProofs!Live
<1> QED BY <1>1, <1>2, <1>3, <1>4

\* What holds of ZoneStore by itself holds of the in-memory store.
LEMMA MemAlone == Spec => MemProofs!Spec
<1>1. Init => MemProofs!Init
  BY DEF Init, Mem!Init, MemProofs!Init
<1>2. [Next]_vars => [MemProofs!Next]_(MemProofs!vars)
  <2>1. ASSUME NEW d \in Mem!Detection, Reconcile(d)
        PROVE  MemProofs!Next
    BY <2>1, MemSameSteps DEF Reconcile, MemProofs!Next
  <2>2. ASSUME NEW i \in DOMAIN memRows \cap DOMAIN sqlRows, Confirm(i)
        PROVE  MemProofs!Next
    BY <2>2, MemSameSteps DEF Confirm, MemProofs!Next
  <2>3. ASSUME NEW i \in DOMAIN memRows \cap DOMAIN sqlRows,
               NEW status \in {"INVALIDATED", "STALE"}, Edit(i, status)
        PROVE  MemProofs!Next
    BY <2>3, MemSameSteps DEF Edit, MemProofs!Next
  <2>4. CASE UNCHANGED vars
    BY <2>4 DEF vars, MemProofs!vars
  <2> QED BY <2>1, <2>2, <2>3, <2>4 DEF Next
<1> QED BY <1>1, <1>2, PTL DEF Spec, MemProofs!Spec

\* A SQL store takes the steps ZoneStore takes by itself.
LEMMA SqlSameSteps ==
  /\ Sql!Detection = SqlProofs!Detection
  /\ \A d : Sql!ReconcileZone(d) <=> SqlProofs!ReconcileZone(d)
  /\ \A i : Sql!ConfirmAlertSent(i) <=> SqlProofs!ConfirmAlertSent(i)
  /\ \A i, status : Sql!EditStatus(i, status) <=> SqlProofs!EditStatus(i, status)
<1>1. Sql!Detection = SqlProofs!Detection
  BY DEF Sql!Detection, SqlProofs!Detection,
         Sql!DetectedStatuses, SqlProofs!DetectedStatuses
<1>2. ASSUME NEW d PROVE Sql!ReconcileZone(d) <=> SqlProofs!ReconcileZone(d)
  BY DEF Sql!ReconcileZone, SqlProofs!ReconcileZone,
         Sql!UpdateZone, SqlProofs!UpdateZone,
         Sql!InsertZone, SqlProofs!InsertZone,
         Sql!Found, SqlProofs!Found, Sql!Preferred, SqlProofs!Preferred,
         Sql!Candidates, SqlProofs!Candidates, Sql!Live, SqlProofs!Live,
         Sql!Overlaps, SqlProofs!Overlaps,
         Sql!Refreshed, SqlProofs!Refreshed, Sql!NewRow, SqlProofs!NewRow
<1>3. ASSUME NEW i PROVE Sql!ConfirmAlertSent(i) <=> SqlProofs!ConfirmAlertSent(i)
  BY DEF Sql!ConfirmAlertSent, SqlProofs!ConfirmAlertSent,
         Sql!Pending, SqlProofs!Pending
<1>4. ASSUME NEW i, NEW status
      PROVE  Sql!EditStatus(i, status) <=> SqlProofs!EditStatus(i, status)
  BY DEF Sql!EditStatus, SqlProofs!EditStatus, Sql!Live, SqlProofs!Live
<1> QED BY <1>1, <1>2, <1>3, <1>4

\* What holds of ZoneStore by itself holds of a SQL store.
LEMMA SqlAlone == Spec => SqlProofs!Spec
<1>1. Init => SqlProofs!Init
  BY DEF Init, Sql!Init, SqlProofs!Init
<1>2. [Next]_vars => [SqlProofs!Next]_(SqlProofs!vars)
  <2>1. ASSUME NEW d \in Mem!Detection, Reconcile(d)
        PROVE  SqlProofs!Next
    BY <2>1, SqlSameSteps, SameDetections DEF Reconcile, SqlProofs!Next
  <2>2. ASSUME NEW i \in DOMAIN memRows \cap DOMAIN sqlRows, Confirm(i)
        PROVE  SqlProofs!Next
    BY <2>2, SqlSameSteps DEF Confirm, SqlProofs!Next
  <2>3. ASSUME NEW i \in DOMAIN memRows \cap DOMAIN sqlRows,
               NEW status \in {"INVALIDATED", "STALE"}, Edit(i, status)
        PROVE  SqlProofs!Next
    BY <2>3, SqlSameSteps DEF Edit, SqlProofs!Next
  <2>4. CASE UNCHANGED vars
    BY <2>4 DEF vars, SqlProofs!vars
  <2> QED BY <2>1, <2>2, <2>3, <2>4 DEF Next
<1> QED BY <1>1, <1>2, PTL DEF Spec, SqlProofs!Spec

\* Whatever ranges the engine detects, the in-memory store and the SQL stores
\* hold the same rows until one detection meets two live rows at once, and they
\* part by refreshing one of the two each.
THEOREM StoresPartOnlyOnAmbiguity == Spec => PartOnlyOnAmbiguity
<1>1. tick \in Nat /\ [Next]_vars =>
        [StoresAgree /\ ~ StoresAgree' =>
           \E i \in Mem!Written, j \in Sql!Written :
              /\ i # j
              /\ memRows'[i].area = sqlRows'[j].area
              /\ Mem!MetRange(i, i) /\ Mem!MetRange(j, i)]_vars
  BY OnlyReconcileParts, ReconcileParts
<1>2. Spec => []MemProofs!TypeOK
  BY MemAlone, StoreAssumptions, MemProofs!TypeCorrect, PTL
<1>3. MemProofs!TypeOK => tick \in Nat
  BY DEF MemProofs!TypeOK
<1> QED BY <1>1, <1>2, <1>3, PTL DEF Spec, PartOnlyOnAmbiguity

\* Whatever the ranges, in either store: overlapping live rows are the work of
\* a detection that meets both of them.
THEOREM StoresOverlapByBridges == Spec => OverlapsNeedABridge
<1>1. Spec => Mem!OverlapNeedsABridge
  BY MemAlone, StoreAssumptions, MemProofs!BridgesOverlap, PTL
     DEF Mem!OverlapNeedsABridge, MemProofs!OverlapNeedsABridge,
         Mem!vars, MemProofs!vars, Mem!SamePlace, MemProofs!SamePlace,
         Mem!Written, MemProofs!Written, Mem!MetRange, MemProofs!MetRange,
         Mem!Live, MemProofs!Live, Mem!Overlaps, MemProofs!Overlaps
<1>2. Spec => Sql!OverlapNeedsABridge
  BY SqlAlone, StoreAssumptions, SqlProofs!BridgesOverlap, PTL
     DEF Sql!OverlapNeedsABridge, SqlProofs!OverlapNeedsABridge,
         Sql!vars, SqlProofs!vars, Sql!SamePlace, SqlProofs!SamePlace,
         Sql!Written, SqlProofs!Written, Sql!MetRange, SqlProofs!MetRange,
         Sql!Live, SqlProofs!Live, Sql!Overlaps, SqlProofs!Overlaps
<1> QED BY <1>1, <1>2 DEF OverlapsNeedABridge

-----------------------------------------------------------------------------
(* Separate ranges: the promise of db/store.py *)

\* A range meets at most one live row of a table with one row per range.
LEMMA NoAmbiguity ==
  ASSUME Mem!AreasSeparate, MemProofs!TypeOK, MemProofs!OneLiveRowPerArea,
         NEW key, NEW area \in Areas
  PROVE  \A i, j \in Mem!Candidates(key, area) : i = j
<1> SUFFICES ASSUME NEW i \in Mem!Candidates(key, area),
                    NEW j \in Mem!Candidates(key, area), i # j
             PROVE  FALSE
  OBVIOUS
<1>1. /\ i \in DOMAIN memRows /\ j \in DOMAIN memRows
      /\ memRows[i].key = key /\ memRows[j].key = key
      /\ MemProofs!Live(memRows[i]) /\ MemProofs!Live(memRows[j])
      /\ MemProofs!Overlaps(memRows[i].area, area)
      /\ MemProofs!Overlaps(memRows[j].area, area)
  BY DEF Mem!Candidates, Mem!Live, MemProofs!Live, Mem!Overlaps,
         MemProofs!Overlaps
<1>2. memRows[i].area \in Areas /\ memRows[j].area \in Areas
  BY <1>1, StoreAssumptions, MemProofs!RowAt
<1>3. MemProofs!Overlaps(area, memRows[j].area)
  BY <1>1, <1>2, StoreAssumptions, MemProofs!OverlapSymmetric
<1>4. MemProofs!Overlaps(memRows[i].area, memRows[j].area)
  BY <1>1, <1>2, <1>3
     DEF Mem!AreasSeparate, Mem!Overlaps, MemProofs!Overlaps
<1> QED BY <1>1, <1>4 DEF MemProofs!OneLiveRowPerArea, MemProofs!SamePlace

\* store.py:10-12: for any separate ranges the stores hold the same rows, row
\* by row and alert state by alert state, after any run of the same operations.
THEOREM SeparateStoresAgree == Mem!AreasSeparate => (Spec => []StoresAgree)
<1> SUFFICES ASSUME Mem!AreasSeparate
             PROVE  Spec => []StoresAgree
  OBVIOUS
<1>1. Init => StoresAgree
  BY DEF Init, Mem!Init, Sql!Init, StoresAgree
<1>2. MemProofs!TypeOK /\ MemProofs!OneLiveRowPerArea /\ StoresAgree
        /\ [Next]_vars => StoresAgree'
  <2> SUFFICES ASSUME MemProofs!TypeOK, MemProofs!OneLiveRowPerArea, StoresAgree,
                      [Next]_vars, ~ StoresAgree'
               PROVE  FALSE
    OBVIOUS
  <2>1. PICK d \in Mem!Detection : Reconcile(d)
    BY OnlyReconcileParts
  <2>2. d.area \in Areas
    BY DEF Mem!Detection
  <2> QED BY <2>1, <2>2, NoAmbiguity, ReconcileAgrees
<1>3. Spec => []MemProofs!TypeOK
  BY MemAlone, StoreAssumptions, MemProofs!TypeCorrect, PTL
<1>4. MemProofs!AreasSeparate
  BY DEF Mem!AreasSeparate, MemProofs!AreasSeparate, Mem!Overlaps,
         MemProofs!Overlaps
<1>5. Spec => []MemProofs!OneLiveRowPerArea
  BY <1>4, MemAlone, StoreAssumptions, MemProofs!OneLiveRow, PTL
<1> QED BY <1>1, <1>2, <1>3, <1>5, PTL DEF Spec

=============================================================================
