------------------------- MODULE ScheduledScanProofs -------------------------
(***************************************************************************)
(* Theorems about ScheduledScan, for every set of zones and grades, any    *)
(* number of attempts and without any bound on runs.                       *)
(***************************************************************************)
EXTENDS ScheduledScan, TLAPS

-----------------------------------------------------------------------------
(* Entries *)

\* A rescanned entry is an entry and keeps its alert state.
LEMMA RescannedType ==
  ASSUME NEW e \in W!Entry, NEW s \in Formed
  PROVE  /\ W!Rescanned(e, StatusOf(s), s.grade) \in W!Entry
         /\ W!Rescanned(e, StatusOf(s), s.grade).alertSent = e.alertSent
<1>1. e.alertSent \in BOOLEAN
  <2>1. CASE e = W!Absent
    <3>1. W!Absent.alertSent = FALSE
      BY DEF W!Absent
    <3> QED BY <2>1, <3>1
  <2>2. CASE e \in [status : {"WAITING", "ENTERED", "STALE"}, grade : Grades,
                    alertSent : BOOLEAN]
    BY <2>2
  <2> QED BY <2>1, <2>2 DEF W!Entry
<1>2. s.grade \in Grades /\ StatusOf(s) \in {"WAITING", "ENTERED", "STALE"}
  BY DEF Formed, StatusOf
<1> QED BY <1>1, <1>2 DEF W!Entry, W!Rescanned

\* A due entry that is marked is an entry, and no longer due.
LEMMA MarkedType ==
  ASSUME NEW e \in W!Entry, W!Due(e)
  PROVE  W!Marked(e) \in W!Entry /\ W!Marked(e).alertSent
<1>1. /\ e.status \in {"WAITING", "ENTERED", "STALE"}
      /\ e.grade \in Grades
  BY DEF W!Entry, W!Due, W!Absent
<1> QED BY <1>1 DEF W!Entry, W!Marked

\* A zone without a row is an entry, not due and not alerted.
LEMMA AbsentType == W!Absent \in W!Entry /\ ~ W!Absent.alertSent /\ ~ W!Due(W!Absent)
BY DEF W!Entry, W!Absent, W!Due

\* A reconciled database is a database with the same alert states.
LEMMA ReconciledType ==
  ASSUME NEW db \in [Zones -> W!Entry], NEW sightings \in [Zones -> Sighting]
  PROVE  /\ Reconciled(db, sightings) \in [Zones -> W!Entry]
         /\ \A z \in Zones :
               Reconciled(db, sightings)[z].alertSent = db[z].alertSent
<1>1. ASSUME NEW z \in Zones, Reported(sightings[z])
      PROVE  /\ W!Rescanned(db[z], StatusOf(sightings[z]), sightings[z].grade)
                  \in W!Entry
             /\ W!Rescanned(db[z], StatusOf(sightings[z]), sightings[z].grade).alertSent
                  = db[z].alertSent
  BY <1>1, RescannedType DEF Reported
<1> QED BY <1>1 DEF Reconciled

\* A page made from a database shows that database.
LEMMA PageType ==
  ASSUME NEW db \in [Zones -> W!Entry], NEW errs
  PROVE  PageOf(db, errs) \in Page /\ PageOf(db, errs).entries = db
BY DEF PageOf, Page

\* The empty database.
LEMMA NoEntriesType ==
  /\ NoEntries \in [Zones -> W!Entry]
  /\ \A z \in Zones : ~ NoEntries[z].alertSent
BY AbsentType DEF NoEntries

-----------------------------------------------------------------------------
(* Type correctness *)

\* The variables of the job keep their types through every step.
LEMMA TypeStep ==
  ASSUME TypeOK, JobInv, QueueStaysDue, [Next]_vars
  PROVE  TypeOK'
<1> USE DEF TypeOK
<1>1. CASE StartJob
  BY <1>1 DEF StartJob
<1>2. CASE BuildUniverse
  BY <1>2 DEF BuildUniverse, jobVars
<1>3. CASE UniverseFails
  BY <1>3, PageType DEF UniverseFails, FaultIf
<1>4. CASE CheckBtc
  BY <1>4 DEF CheckBtc
<1>5. CASE ScanSymbols
  BY <1>5, ReconciledType DEF ScanSymbols, FaultIf
<1>6. CASE ListPending
  BY <1>6 DEF ListPending, PendingNow
<1>7. ASSUME NEW z \in Zones, SendAlert(z)
      PROVE  TypeOK'
  <2>1. PICK outcome \in SendOutcomes(MaxAttempts) :
           /\ inbox' = [inbox EXCEPT ![z] = @ + outcome.copies]
           /\ FaultIf(outcome # CleanOutcome)
           /\ AfterSend(z, outcome.verdict)
    BY <1>7 DEF SendAlert
  <2>2. outcome.copies \in Nat
    BY ScanAssumption DEF SendOutcomes
  <2>3. inbox' \in [Zones -> Nat] /\ faults' \in Nat
    BY <2>1, <2>2 DEF FaultIf
  <2>4. /\ pc' \in {"alert", "confirm", "failed"}
        /\ queue' \subseteq Zones /\ current' \subseteq Zones
        /\ errors' \subseteq {"coingecko", "binance_btc", "telegram"}
    BY <1>7, <2>1 DEF SendAlert, AfterSend
  <2> QED BY <1>7, <2>3, <2>4 DEF SendAlert
<1>8. CASE ConfirmAlertSent
  <2>1. \A z \in current : W!Marked(work[z]) \in W!Entry
    BY MarkedType DEF QueueStaysDue
  <2> QED BY <1>8, <2>1 DEF ConfirmAlertSent
<1>9. CASE GenerateDashboard
  BY <1>9, PageType DEF GenerateDashboard
<1>10. CASE CommitAndPush
  BY <1>10, NoEntriesType, PageType DEF CommitAndPush, Pushed, DiscardRunner
<1>11. CASE EndFailedJob
  BY <1>11, NoEntriesType, PageType DEF EndFailedJob, DiscardRunner
<1>12. CASE AbortJob
  BY <1>12, NoEntriesType, PageType DEF AbortJob, DiscardRunner, FaultIf
<1>13. CASE UNCHANGED vars
  BY <1>13 DEF vars
<1> QED BY <1>1, <1>2, <1>3, <1>4, <1>5, <1>6, <1>7, <1>8, <1>9, <1>10, <1>11,
           <1>12, <1>13 DEF Next, JobStep

-----------------------------------------------------------------------------
(* The inductive invariant *)

\* What a send leaves behind, for the zone and for the others.
LEMMA SendEffect ==
  ASSUME TypeOK, JobInv, QueueStaysDue, NEW z \in Zones, SendAlert(z)
  PROVE  \E outcome \in SendOutcomes(MaxAttempts) :
            /\ inbox'[z] = inbox[z] + outcome.copies
            /\ \A y \in Zones : y # z => inbox'[y] = inbox[y]
            /\ outcome.copies \in 0..MaxAttempts
            /\ outcome.verdict = "sent" => outcome.copies > 0
            /\ \/ outcome.copies = 1 /\ outcome.verdict = "sent"
                   /\ faults' = faults
               \/ faults' = faults + 1
            /\ AfterSend(z, outcome.verdict)
            /\ pc = "alert" /\ z \in queue /\ current = {}
            /\ ~ work[z].alertSent /\ ~ repo[z].alertSent
            /\ UNCHANGED <<market, repo, site, work, page>>
<1>1. PICK outcome \in SendOutcomes(MaxAttempts) :
         /\ inbox' = [inbox EXCEPT ![z] = @ + outcome.copies]
         /\ FaultIf(outcome # CleanOutcome)
         /\ AfterSend(z, outcome.verdict)
  BY DEF SendAlert
<1>2. /\ outcome.copies \in 0..MaxAttempts
      /\ outcome.verdict = "sent" => outcome.copies > 0
  BY ScanAssumption DEF SendOutcomes
<1>3. \/ outcome.copies = 1 /\ outcome.verdict = "sent" /\ faults' = faults
      \/ faults' = faults + 1
  BY <1>1 DEF FaultIf, CleanOutcome
<1>4. pc = "alert" /\ z \in queue /\ current = {}
  BY DEF SendAlert, JobInv
<1>5. ~ work[z].alertSent /\ ~ repo[z].alertSent
  BY <1>4 DEF QueueStaysDue, W!Due, JobInv
<1> QED BY <1>1, <1>2, <1>3, <1>4, <1>5 DEF SendAlert, TypeOK

\* The pieces of a job keep fitting together, and every alert that is marked
\* was delivered.
LEMMA JobStepInv ==
  ASSUME TypeOK, JobInv, QueueStaysDue, NoLostAlert, [Next]_vars
  PROVE  JobInv' /\ QueueStaysDue' /\ NoLostAlert'
<1> USE DEF TypeOK, JobInv, QueueStaysDue, NoLostAlert
<1>1. CASE StartJob
  BY <1>1 DEF StartJob
<1>2. CASE BuildUniverse
  BY <1>2 DEF BuildUniverse, jobVars
<1>3. CASE UniverseFails
  BY <1>3 DEF UniverseFails
<1>4. CASE CheckBtc
  BY <1>4 DEF CheckBtc
<1>5. CASE ScanSymbols
  BY <1>5, ReconciledType DEF ScanSymbols
<1>6. CASE ListPending
  BY <1>6 DEF ListPending, PendingNow
<1>7. ASSUME NEW z \in Zones, SendAlert(z)
      PROVE  JobInv' /\ QueueStaysDue' /\ NoLostAlert'
  <2>1. PICK outcome \in SendOutcomes(MaxAttempts) :
            /\ inbox'[z] = inbox[z] + outcome.copies
            /\ \A y \in Zones : y # z => inbox'[y] = inbox[y]
            /\ outcome.copies \in 0..MaxAttempts
            /\ outcome.verdict = "sent" => outcome.copies > 0
            /\ AfterSend(z, outcome.verdict)
            /\ pc = "alert" /\ z \in queue /\ current = {}
            /\ UNCHANGED <<market, repo, site, work, page>>
    BY <1>7, SendEffect
  <2>2. \A y \in Zones : inbox[y] > 0 => inbox'[y] > 0
    BY <2>1, ScanAssumption
  <2>3. outcome.verdict = "sent" => inbox'[z] > 0
    BY <2>1, ScanAssumption
  <2> QED BY <2>1, <2>2, <2>3 DEF AfterSend
<1>8. CASE ConfirmAlertSent
  <2>1. \A z \in current : W!Marked(work[z]).alertSent
    BY MarkedType
  <2> QED BY <1>8, <2>1 DEF ConfirmAlertSent
<1>9. CASE GenerateDashboard
  BY <1>9, PageType DEF GenerateDashboard
<1>10. CASE CommitAndPush
  BY <1>10, NoEntriesType DEF CommitAndPush, Pushed, DiscardRunner
<1>11. CASE EndFailedJob
  BY <1>11, NoEntriesType DEF EndFailedJob, DiscardRunner
<1>12. CASE AbortJob
  BY <1>12, NoEntriesType DEF AbortJob, DiscardRunner
<1>13. CASE UNCHANGED vars
  BY <1>13 DEF vars
<1> QED BY <1>1, <1>2, <1>3, <1>4, <1>5, <1>6, <1>7, <1>8, <1>9, <1>10, <1>11,
           <1>12, <1>13 DEF Next, JobStep

\* One more fault pays for MaxAttempts more copies.
LEMMA Price ==
  ASSUME NEW f \in Nat
  PROVE  /\ MaxAttempts * f \in Nat
         /\ MaxAttempts * (f + 1) = MaxAttempts * f + MaxAttempts
         /\ MaxAttempts >= 1
BY ScanAssumption

\* A step that delivers nothing keeps the account of a zone: either a fault is
\* charged, or a delivery that was accounted for still is.
LEMMA AccountKept ==
  ASSUME TypeOK, DuplicatesArePaidFor, NEW z \in Zones, inbox'[z] = inbox[z],
         \/ faults' = faults + 1
         \/ faults' = faults /\ (Accounted(z) => Accounted(z)')
  PROVE  inbox'[z] <= MaxAttempts * faults' + (IF Accounted(z)' THEN 1 ELSE 0)
<1> DEFINE paid == IF Accounted(z) THEN 1 ELSE 0
           paidNext == IF Accounted(z)' THEN 1 ELSE 0
<1>1. inbox[z] \in Nat /\ faults \in Nat /\ inbox[z] <= MaxAttempts * faults + paid
  BY DEF TypeOK, DuplicatesArePaidFor
<1>2. paid \in {0, 1} /\ paidNext \in {0, 1}
  OBVIOUS
<1>3. (Accounted(z) => Accounted(z)') => paid <= paidNext
  OBVIOUS
<1> HIDE DEF paid, paidNext
<1>4. inbox'[z] <= MaxAttempts * faults' + paidNext
  <2>1. CASE faults' = faults + 1
    <3>1. /\ MaxAttempts * faults' = MaxAttempts * faults + MaxAttempts
          /\ MaxAttempts * faults \in Nat /\ MaxAttempts \in Nat \ {0}
      BY <1>1, <2>1, Price, ScanAssumption
    <3> QED BY <1>1, <1>2, <3>1
  <2>2. CASE faults' = faults /\ (Accounted(z) => Accounted(z)')
    BY <1>1, <1>2, <1>3, <2>2, Price
  <2> QED BY <2>1, <2>2
<1> QED BY <1>4 DEF paidNext

\* Every copy beyond the first is paid for by a fault.
LEMMA AccountStep ==
  ASSUME TypeOK, JobInv, QueueStaysDue, DuplicatesArePaidFor, [Next]_vars
  PROVE  DuplicatesArePaidFor'
<1> USE DEF TypeOK, JobInv
<1>1. ASSUME \A z \in Zones :
                /\ inbox'[z] = inbox[z]
                /\ \/ faults' = faults + 1
                   \/ faults' = faults /\ (Accounted(z) => Accounted(z)')
      PROVE  DuplicatesArePaidFor'
  BY <1>1, AccountKept DEF DuplicatesArePaidFor
<1>2. CASE StartJob
  BY <1>2, <1>1 DEF StartJob, Accounted
<1>3. CASE BuildUniverse \/ CheckBtc \/ ListPending \/ GenerateDashboard
  BY <1>3, <1>1 DEF BuildUniverse, CheckBtc, ListPending, GenerateDashboard,
                    jobVars, Accounted
<1>4. CASE UniverseFails \/ AbortJob
  BY <1>4, <1>1 DEF UniverseFails, AbortJob, FaultIf
<1>5. CASE ScanSymbols
  BY <1>5, <1>1, ReconciledType DEF ScanSymbols, FaultIf, Accounted
<1>6. ASSUME NEW z \in Zones, SendAlert(z)
      PROVE  DuplicatesArePaidFor'
  <2>1. PICK outcome \in SendOutcomes(MaxAttempts) :
            /\ inbox'[z] = inbox[z] + outcome.copies
            /\ \A y \in Zones : y # z => inbox'[y] = inbox[y]
            /\ outcome.copies \in 0..MaxAttempts
            /\ \/ outcome.copies = 1 /\ outcome.verdict = "sent"
                   /\ faults' = faults
               \/ faults' = faults + 1
            /\ AfterSend(z, outcome.verdict)
            /\ pc = "alert" /\ current = {}
            /\ ~ work[z].alertSent /\ ~ repo[z].alertSent
            /\ UNCHANGED <<repo, work>>
    BY <1>6, SendEffect
  <2>2. ~ Accounted(z)
    BY <2>1 DEF Accounted
  <2>3. inbox[z] <= MaxAttempts * faults
    BY <2>2, Price DEF DuplicatesArePaidFor
  <2>4. faults' = faults => Accounted(z)'
    BY <2>1 DEF AfterSend, Accounted
  <2>5. inbox'[z] <= MaxAttempts * faults' + (IF Accounted(z)' THEN 1 ELSE 0)
    <3>1. CASE faults' = faults /\ outcome.copies = 1
      BY <2>1, <2>3, <2>4, <3>1, Price
    <3>2. CASE faults' = faults + 1
      <4>1. inbox'[z] <= MaxAttempts * faults'
        BY <2>1, <2>3, <3>2, Price, ScanAssumption
      <4>2. MaxAttempts * faults' \in Nat /\ inbox'[z] \in Nat
        BY <2>1, <3>2, Price, ScanAssumption
      <4> QED BY <4>1, <4>2
    <3> QED BY <2>1, <3>1, <3>2
  <2>6. ASSUME NEW y \in Zones, y # z
        PROVE  inbox'[y] <= MaxAttempts * faults' + (IF Accounted(y)' THEN 1 ELSE 0)
    <3>1. faults' = faults => (Accounted(y) => Accounted(y)')
      BY <2>1 DEF AfterSend, Accounted
    <3> QED BY <2>1, <2>6, <3>1, AccountKept
  <2> QED BY <2>5, <2>6 DEF DuplicatesArePaidFor
<1>7. CASE ConfirmAlertSent
  <2>1. \A z \in current : W!Marked(work[z]).alertSent
    BY MarkedType DEF QueueStaysDue
  <2> QED BY <1>7, <1>1, <2>1 DEF ConfirmAlertSent, Accounted
<1>8. CASE CommitAndPush
  BY <1>8, <1>1 DEF CommitAndPush, Pushed, DiscardRunner, Accounted
<1>9. CASE EndFailedJob
  BY <1>9, <1>1 DEF EndFailedJob, DiscardRunner, Accounted
<1>10. CASE UNCHANGED vars
  BY <1>10, <1>1 DEF vars, Accounted
<1> QED BY <1>2, <1>3, <1>4, <1>5, <1>6, <1>7, <1>8, <1>9, <1>10 DEF Next, JobStep

\* The published page shows the branch's database.
LEMMA MirrorStep ==
  ASSUME TypeOK, JobInv, SiteMirrorsRepo, [Next]_vars
  PROVE  SiteMirrorsRepo'
<1> USE DEF SiteMirrorsRepo
<1>1. CASE CommitAndPush
  BY <1>1 DEF CommitAndPush, Pushed, JobInv
<1>2. CASE UNCHANGED <<repo, site>>
  BY <1>2
<1> QED BY <1>1, <1>2 DEF Next, JobStep, StartJob, BuildUniverse, UniverseFails,
      CheckBtc, ScanSymbols, ListPending, SendAlert, ConfirmAlertSent,
      GenerateDashboard, EndFailedJob, AbortJob, vars

-----------------------------------------------------------------------------
(* The theorems *)

\* The initial state satisfies the invariant.
LEMMA InitInv == Init => ScanInv
<1> SUFFICES ASSUME Init PROVE ScanInv
  OBVIOUS
<1> USE NoEntriesType, PageType DEF Init
<1>1. TypeOK
  BY DEF TypeOK, Sighting
<1>2. JobInv /\ NoLostAlert /\ QueueStaysDue
  BY DEF JobInv, NoLostAlert, QueueStaysDue
<1>3. DuplicatesArePaidFor
  BY Price DEF DuplicatesArePaidFor
<1>4. SiteMirrorsRepo
  BY DEF SiteMirrorsRepo
<1> QED BY <1>1, <1>2, <1>3, <1>4 DEF ScanInv

\* The invariant is inductive.
LEMMA InvStep == ScanInv /\ [Next]_vars => ScanInv'
BY TypeStep, JobStepInv, AccountStep, MirrorStep DEF ScanInv

\* The four safety properties of the job, for any zones, grades and faults.
LEMMA SafetyHolds ==
  Spec => [](TypeOK /\ NoLostAlert /\ QueueStaysDue /\ SiteMirrorsRepo)
<1>1. ScanInv => TypeOK /\ NoLostAlert /\ QueueStaysDue /\ SiteMirrorsRepo
  BY DEF ScanInv
<1> QED BY <1>1, InitInv, InvStep, PTL DEF Spec

\* The job's variables keep their types in every run.
THEOREM TypeCorrect == Spec => []TypeOK
BY SafetyHolds, PTL

\* confirm_alert_sent: wherever the job dies, no zone is marked as alerted
\* whose alert was not delivered.
THEOREM NoAlertLost == Spec => []NoLostAlert
BY SafetyHolds, PTL

\* zones_needing_alert is read once: the list the job works through stays
\* accurate to the end.
THEOREM QueueAccurate == Spec => []QueueStaysDue
BY SafetyHolds, PTL

\* scan.yml:55: the published page never disagrees with the branch's database.
THEOREM SiteInStep == Spec => []SiteMirrorsRepo
BY SafetyHolds, PTL

\* In every run, a zone's alert arrives at most MaxAttempts times per fault and
\* once more.
THEOREM DuplicatesNeedFaults == Spec => []DuplicatesArePaidFor
<1>1. ScanInv => DuplicatesArePaidFor
  BY DEF ScanInv
<1> QED BY <1>1, InitInv, InvStep, PTL DEF Spec

-----------------------------------------------------------------------------
(* The record on the branch, and the ledger *)

\* A step either leaves the branch alone, or is the push of a database that
\* has kept every mark.
LEMMA BranchStep ==
  ASSUME TypeOK, JobInv, [Next]_vars, NEW z \in Zones, repo[z].alertSent
  PROVE  repo'[z].alertSent
<1>1. CASE CommitAndPush
  BY <1>1 DEF CommitAndPush, Pushed, JobInv
<1>2. CASE UNCHANGED repo
  BY <1>2
<1> QED BY <1>1, <1>2 DEF Next, JobStep, StartJob, BuildUniverse, UniverseFails,
      CheckBtc, ScanSymbols, ListPending, SendAlert, ConfirmAlertSent,
      GenerateDashboard, EndFailedJob, AbortJob, vars

\* Only a send delivers, and it never concerns a zone on record.
LEMMA InboxStep ==
  ASSUME TypeOK, JobInv, QueueStaysDue, [Next]_vars,
         NEW z \in Zones, repo[z].alertSent
  PROVE  inbox'[z] = inbox[z]
<1>1. ASSUME NEW y \in Zones, SendAlert(y)
      PROVE  inbox'[z] = inbox[z]
  BY <1>1, SendEffect
<1>2. CASE UNCHANGED inbox
  BY <1>2
<1> QED BY <1>1, <1>2 DEF Next, JobStep, StartJob, BuildUniverse, UniverseFails,
      CheckBtc, ScanSymbols, ListPending, ConfirmAlertSent, CommitAndPush,
      Pushed, GenerateDashboard, EndFailedJob, AbortJob, vars

\* An alert on the branch's record stays there and is never sent again.
THEOREM RecordStays == Spec => RecordIsFinal
<1>1. ScanInv /\ [Next]_vars =>
        [\A z \in Zones :
            repo[z].alertSent => repo'[z].alertSent /\ inbox'[z] = inbox[z]]_vars
  BY BranchStep, InboxStep DEF ScanInv
<1> QED BY <1>1, InitInv, InvStep, PTL DEF Spec, RecordIsFinal

\* The scan starts with an empty ledger.
LEMMA LedgerInit == Init => L!Init
BY NoEntriesType DEF Init, L!Init

\* Every step of the scan is a step of the ledger, or none.
LEMMA LedgerStep ==
  ASSUME ScanInv, [Next]_vars
  PROVE  [L!Next]_(L!ledgerVars)
<1> USE DEF ScanInv
<1> DEFINE recorded == {z \in Zones : repo[z].alertSent}
<1>1. CASE UNCHANGED <<inbox, repo, faults>>
  BY <1>1 DEF L!ledgerVars
<1>2. CASE UNCHANGED <<inbox, repo>> /\ faults' = faults + 1
  BY <1>2 DEF L!Next, L!Fault
<1>3. ASSUME NEW z \in Zones, SendAlert(z)
      PROVE  L!Next
  <2>1. PICK outcome \in SendOutcomes(MaxAttempts) :
            /\ inbox'[z] = inbox[z] + outcome.copies
            /\ outcome.copies \in 0..MaxAttempts
            /\ \/ outcome.copies = 1 /\ faults' = faults
               \/ faults' = faults + 1
            /\ ~ repo[z].alertSent
            /\ UNCHANGED repo
            /\ \A y \in Zones : y # z => inbox'[y] = inbox[y]
    BY <1>3, SendEffect
  <2>2. inbox' = [inbox EXCEPT ![z] = @ + outcome.copies]
    BY <1>3, <2>1, TypeStep DEF TypeOK, Next, JobStep
  <2>3. L!Deliver(z, outcome.copies)
    BY <2>1, <2>2 DEF L!Deliver
  <2> QED BY <2>1, <2>3 DEF L!Next
<1>4. CASE CommitAndPush
  <2> DEFINE zs == {z \in Zones : work[z].alertSent}
  <2>1. \A z \in zs : inbox[z] > 0
    BY DEF NoLostAlert
  <2>2. {z \in Zones : repo'[z].alertSent} = recorded \cup zs
    BY <1>4 DEF CommitAndPush, Pushed, JobInv
  <2>3. UNCHANGED <<inbox, faults>>
    BY <1>4 DEF CommitAndPush
  <2>4. zs \in SUBSET Zones
    OBVIOUS
  <2> HIDE DEF zs
  <2>5. \E rs \in SUBSET Zones :
           /\ \A z \in rs : inbox[z] > 0
           /\ {z \in Zones : repo'[z].alertSent} = recorded \cup rs
           /\ UNCHANGED <<inbox, faults>>
    BY <2>1, <2>2, <2>3, <2>4
  <2> QED BY <2>5 DEF L!Next, L!Record
<1> QED BY <1>1, <1>2, <1>3, <1>4 DEF Next, JobStep, StartJob, BuildUniverse,
      UniverseFails, CheckBtc, ScanSymbols, ListPending, ConfirmAlertSent,
      GenerateDashboard, EndFailedJob, AbortJob, FaultIf, vars, jobVars

\* The scheduled scan implements the alert ledger.
THEOREM Refinement == Spec => ImplementsLedger
<1>1. ScanInv /\ [Next]_vars => [L!Next]_(L!ledgerVars)
  BY LedgerStep
<1> QED BY <1>1, LedgerInit, InitInv, InvStep, PTL DEF Spec, L!Spec, ImplementsLedger

-----------------------------------------------------------------------------
(* The shipped configuration *)

\* Nothing is ENTERED, on the branch or in a job, and nothing was sent.
NothingEntered ==
    /\ \A z \in Zones : repo[z].status # "ENTERED" /\ work[z].status # "ENTERED"
    /\ \A z \in Zones : inbox[z] = 0

\* A reconciled database has no ENTERED row if it had none: the detector never
\* reports a zone as ENTERED under the price filter.
LEMMA NothingEnteredByScan ==
  ASSUME RequirePriceAboveZone, NEW db, NEW sightings,
         \A z \in Zones : db[z].status # "ENTERED"
  PROVE  \A z \in Zones : Reconciled(db, sightings)[z].status # "ENTERED"
BY DEF Reconciled, Reported, StatusOf, W!Rescanned

\* With the price filter of the shipped configuration no alert is ever sent.
THEOREM ShippedConfigurationIsSilent == Spec => []SilentWhenPriceMustBeAbove
<1>1. CASE RequirePriceAboveZone
  <2>0. \A z \in Zones : NoEntries[z].status # "ENTERED"
    BY DEF NoEntries, W!Absent
  <2>1. Init => NothingEntered
    BY <2>0 DEF Init, NothingEntered
  <2>2. ScanInv /\ NothingEntered /\ [Next]_vars => NothingEntered'
    <3> SUFFICES ASSUME ScanInv, NothingEntered, [Next]_vars
                 PROVE  NothingEntered'
      OBVIOUS
    <3> USE DEF NothingEntered
    <3>1. queue = {}
      BY DEF ScanInv, TypeOK, QueueStaysDue, W!Due
    <3>2. current = {}
      BY <3>1 DEF ScanInv, QueueStaysDue
    <3>3. CASE ScanSymbols
      BY <1>1, <3>3, NothingEnteredByScan DEF ScanSymbols
    <3>4. CASE StartJob \/ CommitAndPush \/ EndFailedJob \/ AbortJob
      BY <2>0, <3>4 DEF StartJob, CommitAndPush, EndFailedJob, AbortJob, Pushed,
                       DiscardRunner
    <3>5. CASE ConfirmAlertSent
      BY <3>2, <3>5 DEF ConfirmAlertSent
    <3>6. CASE UNCHANGED <<repo, work, inbox>>
      BY <3>6
    <3> QED BY <3>1, <3>3, <3>4, <3>5, <3>6 DEF Next, JobStep, BuildUniverse,
          UniverseFails, CheckBtc, ListPending, SendAlert, GenerateDashboard,
          vars, jobVars
  <2>3. NothingEntered => SilentWhenPriceMustBeAbove
    BY DEF NothingEntered, SilentWhenPriceMustBeAbove
  <2> QED BY <2>1, <2>2, <2>3, InitInv, InvStep, PTL DEF Spec
<1>2. CASE ~ RequirePriceAboveZone
  <2>1. SilentWhenPriceMustBeAbove
    BY <1>2 DEF SilentWhenPriceMustBeAbove
  <2> QED BY <2>1, PTL
<1> QED BY <1>1, <1>2

=============================================================================
