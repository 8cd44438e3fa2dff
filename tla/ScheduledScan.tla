---------------------------- MODULE ScheduledScan ----------------------------
(***************************************************************************)
(* The scheduled scan end to end: the GitHub Actions job                   *)
(* (.github/workflows/scan.yml) that checks out the repository, runs       *)
(* scripts/run_scheduled_scan.py and pushes the updated database and       *)
(* dashboard.  Nothing outlives a job but what it pushed and what it sent. *)
(*                                                                         *)
(* The database is a watchlist of zones (Watchlist, which ZoneStore        *)
(* implements), a send is one of SendOutcomes (which ClientCall            *)
(* implements).                                                            *)
(***************************************************************************)
EXTENDS Naturals, SendContract

CONSTANTS
    Zones,                    \* the zones of the market
    Grades,                   \* the grades a zone may be scored
    AlertGrades,              \* the grades that are alerted
    RequirePriceAboveZone,    \* DetectionConfig.require_price_above_zone
    MaxAttempts,              \* requests one send makes at most
    MaxFaults                 \* bound: faults the environment may inject

ASSUME ScanAssumption ==
    /\ RequirePriceAboveZone \in BOOLEAN
    /\ MaxAttempts \in Nat \ {0}
    /\ MaxFaults \in Nat

VARIABLES
    pc,         \* where the job is, "idle" between jobs
    market,     \* each zone as the candles fetched by the latest scan show it
    repo,       \* the database at the head of the branch
    site,       \* the dashboard at the head of the branch, as published
    work,       \* the job's database file
    page,       \* the job's docs/ directory
    queue,      \* pending alerts not yet handled
    current,    \* the zone whose alert was just sent, if any
    errors,     \* api_errors
    inbox,      \* history: copies of each zone's alert the reader received
    faults      \* history: faults so far

vars == <<pc, market, repo, site, work, page, queue, current, errors, inbox,
          faults>>

jobVars == <<work, page, queue, current, errors>>

W == INSTANCE Watchlist WITH entry <- work

-----------------------------------------------------------------------------
(* The market and the detector *)

\* A zone as the candles show it: there, with the last close above, inside or
\* below it, and scored; or not there; or its candles could not be fetched.
NotThere == [price |-> "absent", grade |-> "none"]
NotFetched == [price |-> "unknown", grade |-> "none"]
Formed == [price : {"above", "inside", "below"}, grade : Grades]
Sighting == Formed \cup {NotThere, NotFetched}

\* Whether detect_demand_zones reports the zone at all.
Reported(sighting) ==
    /\ sighting \in Formed
    /\ RequirePriceAboveZone => sighting.price = "above"

\* Faulty: the position of the price handed on as the status.
StatusOfPrice(sighting) == sighting.price

\* The status it reports.
StatusOf(sighting) ==
    IF sighting.price = "inside" THEN "ENTERED" ELSE "WAITING"

-----------------------------------------------------------------------------
(* Pages, faults, and the end of a job *)

PageOf(db, errs) ==
    [health |-> IF errs = {} THEN "OK" ELSE "DEGRADED", entries |-> db]

NoEntries == [z \in Zones |-> W!Absent]

Init ==
    /\ pc = "idle"
    /\ market = [z \in Zones |-> NotThere]
    /\ repo = NoEntries
    /\ site = PageOf(NoEntries, {})
    /\ work = NoEntries /\ page = PageOf(NoEntries, {})
    /\ queue = {} /\ current = {} /\ errors = {}
    /\ inbox = [z \in Zones |-> 0]
    /\ faults = 0

FaultIf(condition) ==
    IF condition
    THEN faults < MaxFaults /\ faults' = faults + 1
    ELSE UNCHANGED faults

\* The runner goes away with everything on it.
DiscardRunner ==
    /\ pc' = "idle"
    /\ work' = NoEntries /\ page' = PageOf(NoEntries, {})
    /\ queue' = {} /\ current' = {} /\ errors' = {}

-----------------------------------------------------------------------------
(* The steps of the job *)

\* cron or workflow_dispatch; the concurrency group admits one job at a time.
\* The job checks out the branch: its database and its docs/.
StartJob ==
    /\ pc = "idle"
    /\ pc' = "universe"
    /\ work' = repo /\ page' = site
    /\ UNCHANGED <<market, repo, site, queue, current, errors, inbox,
                   faults>>

BuildUniverse ==
    /\ pc = "universe"
    /\ pc' = "btc"
    /\ UNCHANGED <<market, repo, site, jobVars, inbox, faults>>

\* DataProviderError: the dashboard is regenerated, then the script exits 1.
UniverseFails ==
    /\ pc = "universe"
    /\ pc' = "failed"
    /\ errors' = {"coingecko"}
    /\ page' = PageOf(work, {"coingecko"})
    /\ FaultIf(TRUE)
    /\ UNCHANGED <<market, repo, site, work, queue, current, inbox>>

CheckBtc ==
    /\ pc = "btc"
    /\ pc' = "scan"
    /\ errors' \in {errors, errors \cup {"binance_btc"}}
    /\ UNCHANGED <<market, repo, site, work, page, queue, current,
                   inbox, faults>>

\* Faulty: an insert instead of an update, the stored alert state is lost.
ReconciledAsNew(db, sightings) ==
    [z \in Zones |->
        IF Reported(sightings[z])
        THEN W!Rescanned(W!Absent, StatusOf(sightings[z]), sightings[z].grade)
        ELSE db[z]]

\* reconcile_scan_results: every zone the detector reports is reconciled, the
\* others keep what the last scan that saw them said.
Reconciled(db, sightings) ==
    [z \in Zones |->
        IF Reported(sightings[z])
        THEN W!Rescanned(db[z], StatusOf(sightings[z]), sightings[z].grade)
        ELSE db[z]]

\* The symbol loop, then the reconciliation.  Any zone's candles may be out of
\* reach: its symbol is skipped.
ScanSymbols ==
    /\ pc = "scan"
    /\ pc' = "list"
    /\ market' \in [Zones -> Sighting]
    /\ FaultIf(\E z \in Zones : market'[z] = NotFetched)
    /\ work' = Reconciled(work, market')
    /\ UNCHANGED <<repo, site, page, queue, current, errors, inbox>>

\* Faulty: the list of the checked-out database, read before the scan.
PendingAtCheckout == {z \in Zones : W!Due(repo[z])}

\* Faulty: only zones that entered in this very scan.
PendingJustEntered ==
    {z \in Zones : W!Due(work[z]) /\ repo[z].status # "ENTERED"}

\* zones_needing_alert
PendingNow == {z \in Zones : W!Due(work[z])}

\* The list is read once, before the loop.
ListPending ==
    /\ pc = "list"
    /\ pc' = "alert"
    /\ queue' = PendingNow
    /\ UNCHANGED <<market, repo, site, work, page, current, errors,
                   inbox, faults>>

\* Faulty: a failed send is confirmed as well.
AfterSendAlways(z, verdict) ==
    /\ pc' = "confirm" /\ current' = {z}
    /\ UNCHANGED <<queue, errors>>

\* What the loop does with the verdict: only True leads to a confirmation,
\* False goes on to the next alert, an exception ends the script.
AfterSend(z, verdict) ==
    \/ /\ verdict = "sent"
       /\ pc' = "confirm" /\ current' = {z}
       /\ UNCHANGED <<queue, errors>>
    \/ /\ verdict = "failed"
       /\ queue' = queue \ {z} /\ errors' = errors \cup {"telegram"}
       /\ UNCHANGED <<pc, current>>
    \/ /\ verdict = "raised"
       /\ pc' = "failed"
       /\ UNCHANGED <<queue, current, errors>>

SendAlert(z) ==
    /\ pc = "alert" /\ z \in queue
    /\ \E outcome \in SendOutcomes(MaxAttempts) :
           /\ inbox' = [inbox EXCEPT ![z] = @ + outcome.copies]
           /\ FaultIf(outcome # CleanOutcome)
           /\ AfterSend(z, outcome.verdict)
    /\ UNCHANGED <<market, repo, site, work, page>>

ConfirmAlertSent ==
    /\ pc = "confirm"
    /\ pc' = "alert"
    /\ work' = [z \in Zones |->
                   IF z \in current THEN W!Marked(work[z]) ELSE work[z]]
    /\ queue' = queue \ current
    /\ current' = {}
    /\ UNCHANGED <<market, repo, site, page, errors, inbox, faults>>

GenerateDashboard ==
    /\ pc = "alert" /\ queue = {}
    /\ pc' = "commit"
    /\ page' = PageOf(work, errors)
    /\ UNCHANGED <<market, repo, site, work, queue, current, errors,
                   inbox, faults>>

\* Faulty: only the dashboard is added to the commit.
PushedDocsOnly == UNCHANGED repo /\ site' = page

\* Faulty: only the database is added to the commit.
PushedDbOnly == repo' = work /\ UNCHANGED site

\* git add db/scanner_state.db docs/ and push, in one commit
Pushed == repo' = work /\ site' = page

CommitAndPush ==
    /\ pc = "commit"
    /\ Pushed
    /\ DiscardRunner
    /\ UNCHANGED <<market, inbox, faults>>

\* The scan step exited non-zero: the commit step does not run.
EndFailedJob ==
    /\ pc = "failed"
    /\ DiscardRunner
    /\ UNCHANGED <<market, repo, site, inbox, faults>>

\* The job ends anywhere: missing secrets, an uncaught exception, the
\* ten-minute limit, a lost runner, a rejected push.
AbortJob ==
    /\ pc \notin {"idle", "failed"}
    /\ FaultIf(TRUE)
    /\ DiscardRunner
    /\ UNCHANGED <<market, repo, site, inbox>>

\* A started job goes on; it cannot choose to stop.
JobStep ==
    \/ BuildUniverse \/ UniverseFails \/ CheckBtc \/ ScanSymbols \/ ListPending
    \/ \E z \in Zones : SendAlert(z)
    \/ ConfirmAlertSent \/ GenerateDashboard \/ CommitAndPush \/ EndFailedJob

Next ==
    \/ StartJob
    \/ JobStep
    \/ AbortJob

Spec == Init /\ [][Next]_vars

\* The schedule fires again and again, and a started job gets on.
FairSpec == Spec /\ WF_vars(StartJob) /\ WF_vars(JobStep)

-----------------------------------------------------------------------------
(* Safety *)

Page == [health : {"OK", "DEGRADED"}, entries : [Zones -> W!Entry]]

TypeOK ==
    /\ pc \in {"idle", "universe", "btc", "scan", "list", "alert", "confirm",
               "commit", "failed"}
    /\ market \in [Zones -> Sighting]
    /\ repo \in [Zones -> W!Entry] /\ work \in [Zones -> W!Entry]
    /\ site \in Page /\ page \in Page
    /\ queue \subseteq Zones /\ current \subseteq Zones
    /\ errors \subseteq {"coingecko", "binance_btc", "telegram"}
    /\ inbox \in [Zones -> Nat]
    /\ faults \in Nat

\* service.py, confirm_alert_sent: called "only after a message has actually
\* been successfully delivered".  Whatever fails and wherever the job dies, a
\* zone marked as alerted, on the branch or in a running job, was alerted.
NoLostAlert ==
    \A z \in Zones : repo[z].alertSent \/ work[z].alertSent => inbox[z] > 0

\* The one delivery that needs no fault: the one on the branch's record, or the
\* one a running job that has not failed has marked or is about to mark.
Accounted(z) ==
    \/ repo[z].alertSent
    \/ pc # "failed" /\ (work[z].alertSent \/ z \in current)

\* Duplicates only come from faults: each fault (a reply lost on the way, a
\* send that failed, a job that died) costs the reader at most MaxAttempts
\* further copies of one zone's alert; without faults there is one copy.
DuplicatesArePaidFor ==
    \A z \in Zones :
        inbox[z] <= MaxAttempts * faults + (IF Accounted(z) THEN 1 ELSE 0)

\* The job alerts from a list it read once, and the list stays accurate:
\* everything on it is still to be alerted when its turn comes.
QueueStaysDue ==
    /\ \A z \in queue : W!Due(work[z])
    /\ current \subseteq queue

\* The dashboard and the database are pushed together and after the last
\* confirmation: the published page never disagrees with the branch's database.
SiteMirrorsRepo == site.entries = repo

\* How the pieces of a job fit together; with the properties above it is
\* inductive.
JobInv ==
    /\ pc = "idle" => \A z \in Zones : ~ work[z].alertSent
    /\ pc # "idle" =>
           \A z \in Zones : repo[z].alertSent => work[z].alertSent
    /\ pc \notin {"alert", "confirm", "failed"} => queue = {}
    /\ pc # "confirm" => current = {}
    /\ \A z \in current : inbox[z] > 0
    /\ pc = "commit" => page.entries = work

ScanInv ==
    /\ TypeOK /\ JobInv
    /\ NoLostAlert /\ DuplicatesArePaidFor /\ QueueStaysDue /\ SiteMirrorsRepo

\* An alert on the branch's record is there for good: every later job starts
\* from it and a rescan keeps it, so its zone is never alerted again.
RecordIsFinal ==
    [][\A z \in Zones :
          repo[z].alertSent => repo'[z].alertSent /\ inbox'[z] = inbox[z]]_vars

\* The system as a ledger of deliveries.
L == INSTANCE AlertLedger WITH recorded <- {z \in Zones : repo[z].alertSent}

\* The scan implements the ledger: alerts on durable record were delivered,
\* and only faults make a delivery repeat.
ImplementsLedger == L!Spec

\* With the shipped configuration (engine/config.py:64) the detector reports a
\* zone only while price is above it, never as ENTERED: nothing is ever sent.
SilentWhenPriceMustBeAbove ==
    RequirePriceAboveZone => \A z \in Zones : inbox[z] = 0

-----------------------------------------------------------------------------
(* Liveness *)

StaysEntered(z) ==
    <>[](market[z].price = "inside" /\ market[z].grade \in AlertGrades)

\* run_scheduled_scan.py:15-17: an alert goes out for every zone that became
\* eligible and is marked after a confirmed send.  A zone price has entered
\* and stays in is, once the faults are over, alerted on the branch's record.
EnteredZoneIsAlerted ==
    \A z \in Zones :
        StaysEntered(z) => <>(repo[z].alertSent /\ inbox[z] > 0)

\* "will retry next run" (run_scheduled_scan.py:135): an alert due on the
\* branch does not stay due for ever, whatever the market does.
DueIsSettled ==
    \A z \in Zones : W!Due(repo[z]) ~> ~ W!Due(repo[z])

-----------------------------------------------------------------------------
(* A promise of the documentation that the code does not keep *)

\* run_scheduled_scan.py:77-79: the dashboard is regenerated on a failed
\* universe build "so a broken run is visible on the site".
BrokenRunIsVisible ==
    [][pc = "failed" /\ page.health = "DEGRADED"
          => site'.health = "DEGRADED"]_vars

=============================================================================
