----------------------------- MODULE AlertLedger -----------------------------
(***************************************************************************)
(* What the whole system promises about Telegram alerts, whatever fails:   *)
(* an alert on record was delivered, the record is never lost, and once it *)
(* is durable the zone is silent for good.  Deliveries may be lost to the  *)
(* record and repeated; every repetition is a fault's doing.               *)
(***************************************************************************)
EXTENDS Naturals

CONSTANTS
    Zones,
    MaxAttempts    \* copies one faulty send may leave behind

VARIABLES
    inbox,       \* copies of each zone's alert the reader has received
    recorded,    \* zones whose alert is on durable record
    faults       \* faults so far

ledgerVars == <<inbox, recorded, faults>>

Init ==
    /\ inbox = [z \in Zones |-> 0]
    /\ recorded = {}
    /\ faults = 0

\* An alert of a zone that is not on record reaches the reader.
Deliver(z, copies) ==
    /\ z \notin recorded
    /\ inbox' = [inbox EXCEPT ![z] = @ + copies]
    /\ faults' \in {faults, faults + 1}
    /\ copies = 1 \/ faults' = faults + 1
    /\ UNCHANGED recorded

\* Deliveries become durable.
Record(zs) ==
    /\ \A z \in zs : inbox[z] > 0
    /\ recorded' = recorded \cup zs
    /\ UNCHANGED <<inbox, faults>>

Fault ==
    /\ faults' = faults + 1
    /\ UNCHANGED <<inbox, recorded>>

Next ==
    \/ \E z \in Zones, copies \in 0..MaxAttempts : Deliver(z, copies)
    \/ \E zs \in SUBSET Zones : Record(zs)
    \/ Fault

Spec == Init /\ [][Next]_ledgerVars

=============================================================================
