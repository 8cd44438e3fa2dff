------------------------------ MODULE Watchlist ------------------------------
(***************************************************************************)
(* What the watchlist promises: one entry per zone.  A zone is a price     *)
(* range of one symbol and timeframe, whatever shape the scanner last saw  *)
(* it in.  ZoneStore implements this when the ranges are separate; the     *)
(* scheduled scan is modelled on top of it.                                *)
(***************************************************************************)
EXTENDS Naturals

CONSTANTS
    Zones,         \* the zones of the market
    Grades,        \* the grades a detection may carry
    AlertGrades    \* the grades that are alerted

VARIABLE entry     \* what the table says of each zone

-----------------------------------------------------------------------------
(* Entries *)

\* No live row stands for the zone.
Absent == [status |-> "ABSENT", grade |-> "none", alertSent |-> FALSE]

Entry == {Absent} \cup
         [status : {"WAITING", "ENTERED", "STALE"}, grade : Grades,
          alertSent : BOOLEAN]

\* A rescan's entry: the new observation, the old alert state.
Rescanned(e, status, grade) ==
    [status |-> status, grade |-> grade, alertSent |-> e.alertSent]

Due(e) ==
    e.status = "ENTERED" /\ ~ e.alertSent /\ e.grade \in AlertGrades

Marked(e) == [status |-> e.status, grade |-> e.grade, alertSent |-> TRUE]

-----------------------------------------------------------------------------
(* The watchlist *)

Init == entry = [z \in Zones |-> Absent]

Rescan(z, status, grade) ==
    entry' = [entry EXCEPT ![z] = Rescanned(entry[z], status, grade)]

Alert(z) ==
    /\ Due(entry[z])
    /\ entry' = [entry EXCEPT ![z] = Marked(entry[z])]

Shelve(z) ==
    /\ entry[z].status \in {"WAITING", "ENTERED"}
    /\ entry' = [entry EXCEPT ![z].status = "STALE"]

Retire(z) ==
    /\ entry[z] # Absent
    /\ entry' = [entry EXCEPT ![z] = Absent]

Next ==
    \E z \in Zones :
        \/ \E status \in {"WAITING", "ENTERED"}, grade \in Grades :
              Rescan(z, status, grade)
        \/ Alert(z)
        \/ Shelve(z)
        \/ Retire(z)

Spec == Init /\ [][Next]_entry

=============================================================================
