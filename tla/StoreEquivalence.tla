-------------------------- MODULE StoreEquivalence --------------------------
(***************************************************************************)
(* The in-memory store and the SQL stores side by side, given the same     *)
(* operations in the same order.  db/store.py promises that reconciliation *)
(* "behaves identically regardless of which store backs it"; the stores    *)
(* differ in which of several overlapping rows they return.                *)
(***************************************************************************)
EXTENDS Naturals, Sequences

CONSTANTS Keys, Areas, Grades, AlertGrades, MaxRows, MaxTicks

ASSUME SideBySideAssumption ==
    /\ Areas \subseteq [low : Nat, high : Nat]
    /\ \A a \in Areas : a.low <= a.high
    /\ MaxRows \in Nat /\ MaxTicks \in Nat

VARIABLES
    memRows, memAlerted,    \* InMemoryZoneStore
    sqlRows, sqlAlerted,    \* SQLiteZoneStore, PostgresZoneStore
    tick                    \* the clock both are stamped with

vars == <<memRows, memAlerted, sqlRows, sqlAlerted, tick>>

Mem == INSTANCE ZoneStore
          WITH Backend <- "memory", rows <- memRows, alerted <- memAlerted
Sql == INSTANCE ZoneStore
          WITH Backend <- "sqlite", rows <- sqlRows, alerted <- sqlAlerted

-----------------------------------------------------------------------------

Init == Mem!Init /\ Sql!Init

Reconcile(d) == Mem!ReconcileZone(d) /\ Sql!ReconcileZone(d)

\* Both stores list the row as pending and both sends succeed.
Confirm(i) == Mem!ConfirmAlertSent(i) /\ Sql!ConfirmAlertSent(i)

Edit(i, status) == Mem!EditStatus(i, status) /\ Sql!EditStatus(i, status)

Next ==
    \/ \E d \in Mem!Detection : Reconcile(d)
    \/ \E i \in DOMAIN memRows \cap DOMAIN sqlRows :
          \/ Confirm(i)
          \/ \E status \in {"INVALIDATED", "STALE"} : Edit(i, status)

Spec == Init /\ [][Next]_vars

-----------------------------------------------------------------------------

\* store.py:10-12: the two stores hold the same rows.  False when a detection
\* meets two rows, as PartOnlyOnAmbiguity says.
StoresAgree == memRows = sqlRows

\* Whatever the ranges: the stores only part by reconciling one and the same
\* detection with two different rows, both of them live rows at its range.  A
\* detection that meets one row, or none, leaves stores that agree agreeing.
PartOnlyOnAmbiguity ==
    [][StoresAgree /\ ~ StoresAgree' =>
          \E i \in Mem!Written, j \in Sql!Written :
              /\ i # j
              /\ memRows'[i].area = sqlRows'[j].area
              /\ Mem!MetRange(i, i) /\ Mem!MetRange(j, i)]_vars

\* Whatever the ranges, in either store: two live rows of one symbol and
\* timeframe come to overlap only by a detection that meets both of them.
OverlapsNeedABridge == Mem!OverlapNeedsABridge /\ Sql!OverlapNeedsABridge

=============================================================================
