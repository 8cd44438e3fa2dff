------------------------------ MODULE ZoneStore ------------------------------
(***************************************************************************)
(* The demand_zones table and the reconciliation service in front of it    *)
(* (db/service.py, db/memory_store.py, db/sqlite_store.py).                 *)
(*                                                                         *)
(* Every scan detects zones from scratch.  A detection is matched against  *)
(* the live rows of its symbol and timeframe by price-range overlap: on a  *)
(* match the row is refreshed in place and keeps its alert state, otherwise *)
(* a new row is inserted.  A row is identified by its position in `rows`   *)
(* (the autoincrement id).  Of a row's columns we keep the ones matching   *)
(* and alerting depend on.                                                 *)
(***************************************************************************)
EXTENDS Naturals, Sequences

CONSTANTS
    Keys,          \* the (symbol, timeframe) pairs that are scanned
    Areas,         \* the price ranges the engine may detect
    Grades,        \* the grades a detection may carry
    AlertGrades,   \* the grades that are alerted, ("A+", "A") in the code
    Backend,       \* "memory" or "sqlite": which store answers the lookups
    MaxRows,       \* bound: rows ever inserted
    MaxTicks       \* bound: detections ever reconciled

ASSUME AreaAssumption ==
    /\ Areas \subseteq [low : Nat, high : Nat]
    /\ \A a \in Areas : a.low <= a.high
ASSUME BackendAssumption == Backend \in {"memory", "sqlite"}
ASSUME BoundAssumption == MaxRows \in Nat /\ MaxTicks \in Nat

VARIABLES
    rows,      \* the table: a sequence, the position of a row is its id
    tick,      \* the clock that stamps updated_at
    alerted    \* history: which row was alerted, and for which price range

vars == <<rows, tick, alerted>>

-----------------------------------------------------------------------------
(* Rows and detections *)

\* The statuses the detector hands out; the other two are set by hand through
\* update_zone, as tests/test_db.py does.
DetectedStatuses == {"WAITING", "ENTERED"}
Statuses == DetectedStatuses \cup {"INVALIDATED", "STALE"}

Detection == [key : Keys, area : Areas, grade : Grades,
              status : DetectedStatuses]

Row == [key : Keys, area : Areas, grade : Grades, status : Statuses,
        alertSent : BOOLEAN, updated : Nat]

Alert == [id : Nat, key : Keys, area : Areas]

\* Faulty: a record inserted without its time stamp.
NewRowUnstamped(d, now) ==
    [key |-> d.key, area |-> d.area, grade |-> d.grade, status |-> d.status,
     alertSent |-> FALSE, updated |-> 0]

NewRow(d, now) ==
    [key |-> d.key, area |-> d.area, grade |-> d.grade, status |-> d.status,
     alertSent |-> FALSE, updated |-> now]

\* Faulty: a rescan that writes a fresh record over the row.
RefreshedAsNew(row, d, now) == NewRow(d, now)

\* Everything a rescan rewrites; the id, the key and the alert state stay.
Refreshed(row, d, now) ==
    [key |-> row.key, area |-> d.area, grade |-> d.grade, status |-> d.status,
     alertSent |-> row.alertSent, updated |-> now]

-----------------------------------------------------------------------------
(* Lookups *)

Overlaps(a, b) == ~ (b.high < a.low \/ b.low > a.high)

Live(row) == row.status # "INVALIDATED"

\* Faulty: a lookup that matches invalidated rows as well.
CandidatesEvenDead(key, area) ==
    {i \in DOMAIN rows : rows[i].key = key /\ Overlaps(rows[i].area, area)}

\* Faulty: a lookup that asks for exactly the stored price range.
CandidatesSameRange(key, area) ==
    {i \in DOMAIN rows : /\ rows[i].key = key
                         /\ Live(rows[i])
                         /\ rows[i].area = area}

\* Faulty: a lookup by symbol and timeframe alone.
CandidatesAnyArea(key, area) ==
    {i \in DOMAIN rows : rows[i].key = key /\ Live(rows[i])}

\* The rows find_overlapping_zone considers.
Candidates(key, area) ==
    {i \in DOMAIN rows : /\ rows[i].key = key
                         /\ Live(rows[i])
                         /\ Overlaps(rows[i].area, area)}

\* Which candidate it returns: the in-memory dict is scanned in insertion
\* order, the SQL query takes the most recently updated row.
Preferred(i, C) ==
    \/ Backend = "memory" /\ \A j \in C : i <= j
    \/ Backend = "sqlite" /\ \A j \in C : rows[j].updated <= rows[i].updated

\* Faulty: the query takes the latest row of the symbol and timeframe, and only
\* then looks at its range.
FoundLatest(key, area) ==
    LET C == IF Backend = "memory" \/ Candidates(key, area) = {}
             THEN Candidates(key, area) ELSE CandidatesAnyArea(key, area)
    IN  {i \in C : Preferred(i, C)}

Found(key, area) ==
    LET C == Candidates(key, area) IN {i \in C : Preferred(i, C)}

\* list_pending_alerts
Pending ==
    {i \in DOMAIN rows : /\ rows[i].status = "ENTERED"
                         /\ ~ rows[i].alertSent
                         /\ rows[i].grade \in AlertGrades}

-----------------------------------------------------------------------------
(* Operations *)

Init ==
    /\ rows = << >>
    /\ tick = 0
    /\ alerted = {}

\* reconcile_zone, the branch that found a row
UpdateZone(d) ==
    /\ tick < MaxTicks
    /\ \E i \in Found(d.key, d.area) :
           rows' = [rows EXCEPT ![i] = Refreshed(rows[i], d, tick + 1)]
    /\ tick' = tick + 1
    /\ UNCHANGED alerted

\* reconcile_zone, the branch that found none
InsertZone(d) ==
    /\ tick < MaxTicks /\ Len(rows) < MaxRows
    /\ Candidates(d.key, d.area) = {}
    /\ rows' = Append(rows, NewRow(d, tick + 1))
    /\ tick' = tick + 1
    /\ UNCHANGED alerted

ReconcileZone(d) == UpdateZone(d) \/ InsertZone(d)

\* confirm_alert_sent, called for a pending row after its message went out
ConfirmAlertSent(i) ==
    /\ i \in Pending
    /\ rows' = [rows EXCEPT ![i].alertSent = TRUE]
    /\ alerted' = alerted \cup
                    {[id |-> i, key |-> rows[i].key, area |-> rows[i].area]}
    /\ UNCHANGED tick

\* update_zone with an edited status: a row retired or shelved by hand.
\* updated_at keeps its value.
EditStatus(i, status) ==
    /\ Live(rows[i])
    /\ rows[i].status # status
    /\ rows' = [rows EXCEPT ![i].status = status]
    /\ UNCHANGED <<tick, alerted>>

Next ==
    \/ \E d \in Detection : ReconcileZone(d)
    \/ \E i \in DOMAIN rows :
          \/ ConfirmAlertSent(i)
          \/ \E status \in {"INVALIDATED", "STALE"} : EditStatus(i, status)

Spec == Init /\ [][Next]_vars

-----------------------------------------------------------------------------
(* Properties *)

\* The table holds well-formed rows and is never stamped ahead of its clock.
TypeOK ==
    /\ rows \in Seq(Row)
    /\ tick \in Nat
    /\ \A i \in DOMAIN rows : rows[i].updated \in 1..tick
    /\ alerted \subseteq Alert

\* The ranges a detection may have fall into groups: two that meet a common
\* third range also meet each other.
AreasSeparate ==
    \A a, b, c \in Areas : Overlaps(a, b) /\ Overlaps(b, c) => Overlaps(a, c)

SamePlace(i, j) ==
    rows[i].key = rows[j].key /\ Overlaps(rows[i].area, rows[j].area)

\* reconcile_zone "updates the existing record or inserts a new one": two
\* live rows never describe overlapping price ranges of one symbol and
\* timeframe.  Holds when the ranges are separate.
OneLiveRowPerArea ==
    \A i, j \in DOMAIN rows :
        i # j /\ Live(rows[i]) /\ Live(rows[j]) => ~ SamePlace(i, j)

\* service.py, "each zone does not generate duplicate notifications": a row
\* is never up for an alert where one was already sent, unless the row that
\* sent it was invalidated.  Holds when the ranges are separate.
NoRealert ==
    \A h \in alerted : \A i \in Pending :
        rows[i].key = h.key /\ Overlaps(rows[i].area, h.area)
            => ~ Live(rows[h.id])

\* A row is only silent because of an alert about its own price range: the
\* alert state it inherits on a match belongs to the range it now stands
\* for.  Holds when the ranges are separate.
SilenceIsEarned ==
    \A i \in DOMAIN rows :
        rows[i].alertSent =>
            \E h \in alerted : h.id = i /\ Overlaps(h.area, rows[i].area)

\* The history and the table agree: an alert names a row that is marked, has
\* kept its key, and still stands for the alerted range.
AlertsRecorded ==
    \A h \in alerted :
        /\ h.id \in DOMAIN rows
        /\ rows[h.id].alertSent
        /\ rows[h.id].key = h.key
        /\ Overlaps(h.area, rows[h.id].area)

\* The inductive invariant of a table whose ranges are separate.
StoreInv ==
    TypeOK /\ OneLiveRowPerArea /\ SilenceIsEarned /\ AlertsRecorded

\* The row a step reconciled a detection with: it carries the new stamp, and
\* the key and the range of that detection.
Written == {i \in DOMAIN rows' : tick' # tick /\ rows'[i].updated = tick'}

\* Row i was, before the step, a live row at the range the step wrote to row w.
MetRange(i, w) ==
    /\ i \in DOMAIN rows /\ Live(rows[i])
    /\ rows[i].key = rows'[w].key
    /\ Overlaps(rows[i].area, rows'[w].area)

\* service.py:50, a match moves the row: whatever the ranges, two live rows
\* come to overlap only in a step that moves one of them to a range both of
\* them met before.  No row jumps onto another, and none is inserted onto one.
OverlapNeedsABridge ==
    [][\A i, j \in DOMAIN rows' :
          /\ i # j /\ Live(rows'[i]) /\ Live(rows'[j])
          /\ SamePlace(i, j)'
          => \/ /\ i \in DOMAIN rows /\ j \in DOMAIN rows
                /\ Live(rows[i]) /\ Live(rows[j]) /\ SamePlace(i, j)
             \/ \E w \in {i, j} \cap Written :
                    MetRange(i, w) /\ MetRange(j, w)]_vars

\* Whatever the ranges: a rescan never takes back an alert, never moves a row
\* to another symbol or timeframe, and never touches an invalidated row
\* (tests/test_db.py, "not a resurrection of the invalidated one").
RowsKeepTheirPast ==
    [][\A i \in DOMAIN rows :
          /\ i \in DOMAIN rows'
          /\ rows'[i].key = rows[i].key
          /\ rows[i].alertSent => rows'[i].alertSent
          /\ ~ Live(rows[i]) => rows'[i] = rows[i]]_vars

=============================================================================
