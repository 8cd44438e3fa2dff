# Demand zone scanner: TLA+ models, model checking and proofs

The scanner is a batch program. Every thirty minutes a GitHub Actions job checks
out the repository, builds a universe of coins, fetches candles, detects and
scores demand zones, reconciles them with a SQLite watchlist that is part of the
repository, sends Telegram alerts for zones price has entered, regenerates a
static dashboard, and pushes database and dashboard back. There are no threads;
what is hard is everything that lies *between* steps: a job that dies after an
alert left and before its mark is pushed, a POST repeated after a lost reply, rows
that are matched by price overlap and drift over many scans, zones and verdicts
that are worked out anew at every scan from candles of which the last one is open.

## 1. Inventory

| Part | State | Operations | Talks to |
|---|---|---|---|
| **Scheduled scan** `scripts/run_scheduled_scan.py`, `.github/workflows/scan.yml` | the runner's files, `api_errors`, the pending list | one pass: universe, BTC, symbols, reconcile, alerts, dashboard, push | everything below |
| **Watchlist** `db/service.py`, `db/*_store.py` | table `demand_zones` | `reconcile_zone`, `list_pending_alerts`, `mark_alert_sent`, hand edits by `update_zone` | called by the scan and the dashboard |
| **Universe tracking** `db/service.update_universe`, `data/universe_service.py` | `universe_snapshots`, `universe_events` | build, diff, save snapshot, save events | CoinGecko, Binance, the store |
| **HTTP retry** `data/http_client.py` | attempt number, sleeps | `get_with_retry`, `post_with_retry` | every provider, Telegram |
| **Notifier** `notifications/notifier.py` | none | `send_text`, `send_alert`, `get_updates` | HTTP retry |
| **Data clients** `data/binance.py`, `coingecko.py`, `coinmarketcap.py` | pair list cached per process | fetch and parse | HTTP retry |
| **Detector** `engine/zone_detector.py`, `volume.py` | none: everything is worked out anew from the candles | `detect_demand_zones` | swing points, structure, freshness |
| **Swing points, structure** `engine/swing_points.py`, `structure.py`, `fibonacci.py` | none | `find_swing_points`, break of structure, sweep, equal lows, retracement | called by the detector |
| **Freshness** `engine/freshness.py` | none | `classify_freshness` | called by the detector |
| **Market condition** `engine/market_condition.py` | none | `classify_btc_condition` | swing points |
| **Scoring** `engine/scoring.py` | none | `score_opportunity`, `score_all_opportunities` | called by the scan |
| **Dashboard** `dashboard/` | `docs/data.json` | `generate_dashboard` | the store |

What has to be right, part by part:

- *Scheduled scan*: an alert on record was delivered; duplicates come from faults
  only, and are bounded; a zone price stays in is alerted in the end; what is
  published agrees with the database that was pushed; a clean page means a clean job.
- *Watchlist*: one live row per zone; an alerted zone is not alerted again; an
  alert mark belongs to the price range it was sent for; invalidated rows are left
  alone; all backends behave alike.
- *Universe*: the event log explains how the universe came about, also on the
  branch, wherever a job dies.
- *HTTP retry, clients, notifier*: a call ends, respects Retry-After, makes at most
  `max_attempts` requests, reports success only after a confirmed delivery, and comes
  to one of the outcomes its caller reckons with.
- *Detector, swing points, structure*: what closed candles show is found by every
  later scan, at the same range and with the same evidence; what may change is
  confined and named; zones of one timeframe share no candle.
- *Freshness*: the count is the number of separate visits; verdicts only worsen.
- *Market condition*: one open candle does not turn the label around lightly.
- *Scoring*: what a grade takes is what the weights promise; a score rises only with what
  is found of a zone or of its neighbours, never with a test or a break; an alert grade is
  within reach of the zones that are alerted.

The hazards, each at its line, are in `PROJECT.json`.

## 2. Modules

```
 Watchlist <--implements-- ZoneStore (WatchlistRefinement)
     ^                       ^
     | instance              +-- StoreEquivalence (two of them)
     |
 ScheduledScan --implements--> AlertLedger        UniverseTracking
     |                                                   ^ extends
     +-- SendContract          FetchContract -------- MarketScan
              ^                      ^
              +--- implemented by ---+
                        |
                   ClientCall -- extends --> HttpRetry

 SwingPoints <-- Structure <--+
                              |
 Freshness <------------ ZoneDetector -- extends --> CandleHistory
                                                        ^
 Scoring                 MarketCondition -- extends ----+   (and SwingPoints)
```

| Module | Models | Correspondence |
|---|---|---|
| `ZoneStore` | table and reconciliation | `rows` is the table, a row's position its id; `tick` stamps `updated_at`; `alerted` is a history of the sends. `UpdateZone`/`InsertZone` are the two branches of `reconcile_zone`, `Found` is `find_overlapping_zone` of the backend chosen by `Backend`, `EditStatus` is a status set through `update_zone`. |
| `Watchlist` | what the table promises | one entry per zone: absent, or a status, a grade and an alert mark that a rescan keeps. |
| `WatchlistRefinement` | the mapping | a zone is a group of price ranges that meet; its entry is read off the one live row among them. |
| `StoreEquivalence` | in-memory and SQL store side by side | two instances of `ZoneStore` fed with the same calls. SQLite and Postgres run the same statements and are one backend. |
| `UniverseTracking` | `build_universe`, `update_universe` | the two commits are two actions, `Crash` lies between them; `told` is what a reader of the event log believes. |
| `MarketScan` | the first half of the job | one action per call of a provider or commit, from the ranking to the page; `branch` is the database at the head of the branch, that of `UniverseTracking` the runner's copy, thrown away with it (`Discard`), or a file that stays (`onRunner = FALSE`, `SCANNER_DB_PATH` on a machine of one's own); `errors` is `api_errors`, `failed` and `missed` are histories. |
| `HttpRetry` | `_request_with_retry` | one action per class of reply; `TryAgain` is the raise-or-sleep that three branches share. |
| `ClientCall` | one call of any client | the retry loop, then the reading of the body: `SendVerdict`, `UpdatesVerdict`, `KlinesVerdict`, `PairsVerdict`, `RankingVerdict`; `copies` counts what the server carried out. |
| `SendContract`, `FetchContract` | what callers rely on | verdict and number of copies of a send; outcomes of a fetch. |
| `ScheduledScan` | the job, watchlist and alerts | `pc` is the position in `main` and in the workflow; `repo`/`site` are the branch, `work`/`page` the runner's copies, thrown away with it. |
| `AlertLedger` | what the job promises | deliveries, durable records, faults. |
| `CandleHistory` | what `get_klines` answers, scan after scan | `Trade` goes on in the open candle, `OpenCandle` closes it and, past `Limit`, drops the oldest. |
| `SwingPoints`, `Structure` | the engine's readings of a history | operators over a candle sequence; positions count from 1. |
| `Freshness` | `classify_freshness` | operators over where the candles after the displacement lie. |
| `ZoneDetector` | `detect_demand_zones` | a zone is identified by its anchor, the swing low its base begins with; `Evidence` and `Confirmations` are its `ZoneEvidence`. |
| `MarketCondition` | `classify_btc_condition` | over the same histories. |
| `Scoring` | `score_opportunity`, `score_all_opportunities` over one symbol's zones | `zones[tf]` is the list the detector makes of timeframe `tf`; `Form`, `Trade`, `OpenCandle`, `Reassess` and `Forget` are what happens to it between two scans; `Score` and `Grade` of a state are what a scan at that point computes. |

`MC*` modules hold the definitions TLC's instances need; the `*Proofs` modules hold
the theorems. Operators whose comment begins with *Faulty* are plausible bugs; each
checked property is tested against one of them (`mutants` in `PROJECT.json`).

Composition is by contract. `ScheduledScan` does not repeat the table: it keeps a
`Watchlist`, which `ZoneStore` is shown to implement, and it does not repeat the
retry loop: a send is any member of `SendOutcomes`, a fetch of `MarketScan` any of
`FetchOutcomes`, which `ClientCall` is shown to stay within. `ScheduledScan`
instantiates the definitions of `Watchlist` and uses the same operators (`Rescanned`,
`Due`, `Marked`) for its database. The two halves of the job are two modules because
they share nothing but the job's end: the universe's tables are not read by the
watchlist, and the watchlist's are not by the universe.

### Abstractions

- Prices are integers (ticks), a price range is a pair; grades are letters.
  Names and texts are left out, and in the stores the evidence columns and scores:
  nothing in matching or alerting reads them.
- In `ScheduledScan` a zone is "there, with the last close above, inside or below
  it", or not there, or its candles were not fetched. `market` may change arbitrarily
  between scans.
- A fault of `ScheduledScan` is anything but the good path: a failed universe build,
  candles not fetched, any send that is not a single confirmed delivery, a job lost
  at any point (missing secrets, an exception anywhere, the ten-minute limit, a
  rejected push). A failed BTC fetch costs nothing and is not counted.
- Times in `HttpRetry` are whole seconds, jitter included.
- A body in `ClientCall` is good, a refusal in the form the client looks for, empty,
  of another shape, or not JSON. What a client does with a shape it does not foresee is
  an exception.
- In `MarketScan` an entry of a ranking is absent, lacks a key, or is a coin whose price
  moved or did not. The scheduled job ranks by CoinGecko; CoinMarketCap is the client
  `UniverseService` takes as well. The alerts in between appear only as the error they
  may leave.
- In the detector means are kept as fractions and percentages as whole numbers, so that
  nothing is rounded; the code computes in floating point, and what lies exactly on a
  threshold may fall on either side there.
- `Scoring` takes departures in fifths of an ATR and volume ratios in steps of 0.15,
  the grid on which the code's points are whole; totals are then exact, and no total
  lies where rounding decides a grade. All timeframes share one last price (the code
  fetches them one after the other). Of a zone it keeps its evidence and what the candles after
  its base show: the verdict over the closed ones, whether the last of them belongs to a
  visit, whether the open one has been in reach of the zone and belongs to the displacement,
  and whether that may still go on. A close of the open candle below the zone breaks it until
  price recovers (`Fresh`); once the candle has closed it stays broken (`Opened`). Evidence is
  not tied to candles: `Reassess` gives a known range any other evidence of `Bases` with that
  range, in either direction, at any time. In the code a break of structure may be confirmed
  up to ten candles late (`structure.py:33-35`) or undone, departure and volume grow while the
  displacement lasts, and a swept low leaves the window; `Reassess` allows all of that and
  more. `Form` likewise takes any zone that fits together (`Fits`). What candles can really
  do is `ZoneDetector`'s subject.
- The clock of the store never stands still between two reconciliations. With equal
  `updated_at` stamps SQLite's choice would be arbitrary, which only adds to the
  ambiguity `PartOnlyOnAmbiguity` already names.

## 3. Runs

| Run | Result | Instance | Distinct states |
|---|---|---|---|
| `store_separate` | holds | 2 keys, 3 ranges in 2 groups, 3 rows, 3 detections | 83 000 |
| `stores_chained` | holds | 1 key, 3 chained ranges, 3 rows, 5 detections | 114 000 |
| `store_realert` | **violated** | 1 key, 3 chained ranges, 4 detections | |
| `market_scan` | holds | 3 coins with 2 tickers, 3 timeframes, any number of jobs | 24 000 |
| `send` | holds | 6 calls, 4 attempts as in the code, Retry-After 0, 2 or 30 s | 10 200 |
| `send_raises` | **violated** | the same | |
| `scan_safety` | holds | 2 zones, 2 faults, 2 attempts, any number of jobs | 742 000 |
| `scan_live` | holds | 2 zones, 1 fault, any number of jobs | |
| `scan_default_never_alerts` | **violated** | 1 zone, no fault, shipped price filter | |
| `scan_broken_run` | **violated** | 1 zone, 1 fault | |
| `detector` | holds | 3 pasts, 8 shapes of candles, 4 candles opened, window of 12, price filter on and off | 75 000 |
| `scoring` | holds | 3 zones with 3 findings of 2 ranges, 2 prices, any number of candles | 176 000 |

**Bounds.** Three detections let a row be inserted, refreshed in another shape, and met
or replaced after being invalidated; the alert marks and hand edits in between are not
bounded. Two rows that come to overlap and part the stores need three and four
detections; five leave one more. Two faults put a lost mark *and* a failed send into one
story; jobs themselves are not bounded, so crashes early and late in arbitrarily many
jobs are covered. In `market_scan` two of the coins share a ticker, which is the least
that tells coins from tickers. In `scoring` three zones are one per timeframe, or two
that compete to be the best overlap of a third (`Rooms`); the two ranges overlap one way
only; of one range two findings are possible, all evidence, or a stronger departure and
little else, so that a zone gets better and worse and the best overlap changes; the
lower price is inside one range and breaks the other. Deadlock is not checked where the
bound on detections (`ZoneStore`, `StoreEquivalence`), on opened candles
(`CandleHistory`) or the end of a call (`ClientCall`) stops the model; everywhere else
it is.

The detector's windows are smaller than the code's, in the code's order: a swing point
takes two candles on either side (three in the code), a base has up to two (three), a
displacement two (six), true ranges and volumes are averaged over three (14 and 20). The
three pasts are a low about to be confirmed with a second one to follow, a zone just
left out of the retracement of a longer leg, and a zigzag of three candles that are
swing highs and lows at once. Four more candles, each changing while it is open, confirm
and undo swing points, end a displacement, visit a zone twice, break it, and, with the
window of 12, drop the oldest candles of the longer pasts: there are steps that drop a
candle while a zone has every kind of evidence and both confirmations, which is the case of
every coin with 300 candles of history.

**Fairness.** `FairSpec` of `ScheduledScan` is weak fairness of `StartJob` (the
schedule fires again and again, and the concurrency group queues instead of
cancelling) and of `JobStep` (a started job gets on: every request has a timeout and
a bounded number of attempts, which `CallEnds` shows for every call). `AbortJob` is not
part of `JobStep`: no fairness makes a job die, none prevents it; `MaxFaults` makes
faults finite. `ClientCall` has weak fairness of its only process.

### What the violated runs show

- **`store_realert`.** "The same zone" is defined by overlap, overlap is not
  transitive, and a match moves the row. With ranges A–B–C that chain, a row drifts
  from one to the other and is pending on a range that was already alerted
  (README.md:88-96 and `db/service.py:14` promise otherwise). With ranges in separate
  groups this cannot happen, which is proved.
- **`send_raises`.** `raise_for_status` raises `requests.HTTPError`, which is not a
  `DataProviderError`; a 400 of Telegram leaves `send_text` although
  `notifier.py:111-112` promises "logged, not raised" (137 the same of a poll), and a 400
  of Binance for one symbol ends the scan although `run_scheduled_scan.py:24-25` says it
  "is logged and skipped, not fatal". The marks of the alerts already sent in this job
  are lost.
- **`scan_default_never_alerts`.** `require_price_above_zone` drops a zone as soon as
  price is at or below its top, before the status is computed; nothing is ever
  ENTERED, so no alert is ever sent. All other runs of the scan set it to FALSE.
- **`scan_broken_run`.** The page written for a failed universe build is never pushed:
  the script exits 1 and the commit step is skipped.

### Further divergences

Found with the same models and recorded here only.

*Watchlist and alerts.* (1) A single fault between a delivery and the push of its mark
sends a second copy, although `service.py:14-15` promises none; `DuplicatesArePaidFor`
is the bound that holds. (2) A row whose send failed stays ENTERED until a rescan finds
its zone again, so an alert may go out for a zone price has long left (`service.py:123`:
"just entered"). (3) The in-memory store returns the oldest match, the SQL stores the
latest, so they refresh different rows when two match (`store.py:10-12`: "behaves
identically").

*Universe and page.* (4) Every snapshot after an empty one is treated as the very first
(`service.py:151-157`), and an answer of Binance without "symbols" (`binance.py:57`)
makes an empty one: every coin is logged as EXITED, and none as
ENTERED when they come back. (5)
`api_status` of "binance" is always "ok": no error is ever filed under that name, and a
failure of Binance's `exchangeInfo` is filed under "coingecko"
(`run_scheduled_scan.py:76`). Candles that could not be fetched do not show in `health`;
`CleanPageMeansCleanJob` is what a reader of the whole page may conclude.

*Detection.* (6) A zone broken by the open candle's price may be valid in the next scan
(`freshness.py:38-39`). (7) `freshness.py:6-7` and `:37` say a
visit ends with a close above the zone; the code ends it with a low above the zone
(lines 51 and 61-62). Two candles that dip into the zone one after the other and close above
it are two tests by the docstring and one by the code; `CountsVisits` states the code's
reading.
(8) A break of structure is said to be of the swing high that "preceded the zone"
(`structure.py:26-27`); the code takes the latest before the displacement's *end*, which may
lie inside the base or the displacement. A high confirmed later may undo the break
(`EvidenceStands`). (9) Equal lows are said to be "within `window` candles of each other"
(`structure.py:66-67`); the code takes those within `window` of the base, so up to twice as
far apart. (10) The half percent a base candle may dip below its anchor
(`zone_detector.py:67-73`) never comes to bear: with a base no longer than the swing
window every other candle of the base is above the anchor (`BasesApart`). (11) A broken
zone is "no longer a valid demand zone" (`freshness.py:39`), but is stored as WAITING or
ENTERED and can be graded A (`BrokenNeedAllTimeframes` says when). (12) A zone whose
displacement closes inside its own range is ENTERED and fresh (`EnteredIsTested` excludes
just that case).

*Scoring.* (13) `score_all_opportunities` "picks the highest-timeframe zone per
overlapping price area" (`scoring.py:145-148`, README.md:36-39: "deduped"), but marks a
zone as consumed only in its own timeframe: every zone of every timeframe is scored and
returned. (14) An overlapping zone can lower a score (`scoring.py:14-16`): departure
points have no floor, so a tested zone whose displacement never passed the base's top
has a negative quality; and a hollow neighbour with a stronger departure displaces a
better one. (15) `zones_needing_alert` asks for A and A+ (`service.py:123`), but a zone
price has come back to cannot be A+ (`EntriesNeedAllTimeframes`): even with the price
filter off, an A+ alert can only go out while the zone's displacement is its last candle.

## 4. Proofs

All theorems are checked by TLAPS for every value of the constants that satisfies the
named assumptions of the modules (`AreaAssumption`, `BackendAssumption`,
`BoundAssumption`, `SideBySideAssumption`, `ScanAssumption`, `RetryAssumption`,
`MarketAssumption`, `HistoryAssumption`, `TradedAssumption`, `LookbackAssumption`,
`StructureAssumption`, `BufferAssumption`, `DetectorAssumption`, `ConditionAssumption`,
`ScoringAssumption`). All but one say what kind of values the constants have (naturals,
finite sets, ranges with a low end, histories within the limit) and that a base is no longer
than the swing window. `TradedAssumption` is about the exchange: a candle's open and close
lie between its low and its high. Only `EnteredAreTested` uses it.

Every safety invariant and action property the passing runs check is proved, and the two
refinements of an abstract specification (`ImplementsLedger`, `ImplementsWatchlist`).
"Separate ranges" below is the hypothesis `AreasSeparate`: ranges that meet a common range
meet each other.

| Theorem | States |
|---|---|
| `ZoneStoreProofs!TypeCorrect` | `[]TypeOK` |
| `ZoneStoreProofs!OneLiveRow` | separate ranges: `[]OneLiveRowPerArea` |
| `ZoneStoreProofs!NoSecondAlert`, `SilenceEarned` | separate ranges: `[]NoRealert`, `[]SilenceIsEarned` |
| `ZoneStoreProofs!PastIsKept` | any ranges: `RowsKeepTheirPast` |
| `ZoneStoreProofs!BridgesOverlap` | any ranges: `OverlapNeedsABridge` |
| `ZoneStoreProofs!TableIsWatchlist` | separate ranges: `ImplementsWatchlist` (`Spec => W!Spec`) |
| `StoreEquivalenceProofs!StoresPartOnlyOnAmbiguity` | any ranges: `PartOnlyOnAmbiguity` |
| `StoreEquivalenceProofs!StoresOverlapByBridges` | any ranges: `OverlapsNeedABridge` |
| `StoreEquivalenceProofs!SeparateStoresAgree` | separate ranges: `[]StoresAgree` |
| `UniverseTrackingProofs!LogExplained`, `TypeCorrect` | `[](TypeOK /\ LogExplainsUniverse)`, `[]TypeOK` |
| `MarketScanProofs!MarketTypeCorrect` | `[]MarketTypeOK` |
| `MarketScanProofs!LogExplainedInJob`, `BranchSafe` | `[]LogExplainsUniverse`, `[]BranchLosesNoEvents` |
| `MarketScanProofs!PageIsHonest` | `[]CleanPageMeansCleanJob` |
| `ClientCallProofs!ContractHonoured` | `[]HonoursContract` |
| `ClientCallProofs!CallIsShort` | `CallRunsDown`, and at most `MaxAttempts + 1` steps |
| `ClientCallProofs!RetryTypeCorrect`, `WaitBounded` | `PowersOfTwo`: `[]HttpTypeOK`, `[]WaitLimited` |
| `ClientCallProofs!WishesKept` | `PowersOfTwo`: `[]WishesRespected`, and that every single sleep is at least what the reply before it asked for |
| `DetectorProofs!ZonesApart` | `[]BasesApart` |
| `DetectorProofs!SwingPointsStand` | `SwingsStand` |
| `DetectorProofs!VisitsCounted` | `[]CountsVisits` |
| `DetectorProofs!EnteredAreTested` | `[]EnteredIsTested` |
| `DetectorProofs!ZonesStandOn` | `ZonesStand` |
| `DetectorProofs!EvidenceIsFinal` | `EvidenceStands` |
| `DetectorProofs!VerdictsStand` | `ClosedVerdictStands` |
| `DetectorProofs!TurnsNeedBothSides` | `TurnsTakeBothSides` |
| `ScoringProofs!TypeCorrect` | `[]TypeOK` |
| `ScoringProofs!Confluence`, `Entries`, `Broken` | `[]GradesNeedConfluence`, `[]EntriesNeedAllTimeframes`, `[]BrokenNeedAllTimeframes` |
| `ScoringProofs!RisesEarned` | `RisesAreEarned` |
| `ScheduledScanProofs!TypeCorrect`, `NoAlertLost`, `QueueAccurate`, `SiteInStep` | `[]TypeOK`, `[]NoLostAlert`, `[]QueueStaysDue`, `[]SiteMirrorsRepo` |
| `ScheduledScanProofs!DuplicatesNeedFaults` | `[]DuplicatesArePaidFor` |
| `ScheduledScanProofs!RecordStays` | `RecordIsFinal` |
| `ScheduledScanProofs!Refinement` | `ImplementsLedger` (`Spec => L!Spec`) |
| `ScheduledScanProofs!ShippedConfigurationIsSilent` | price filter on: no alert is ever sent |

*Watchlist.* `NoRealert` is not inductive: a step may make a row pending whose alert
history says nothing. `StoreInv` adds that rows of one key do not overlap
(`OneLiveRowPerArea`), that an alert in the history names a marked row that still
stands for the alerted range (`AlertsRecorded`), and that a marked row has such an
alert (`SilenceIsEarned`). A pending row at an alerted range would then overlap the
marked row and, the ranges being separate, be it. The steps go through the
transitivity of overlap, which is exactly what `AreasSeparate` assumes and what real
ranges need not satisfy.

`TableIsWatchlist` maps a group of ranges that meet, of one key, to one entry, and the
entry to the one live row among them (`ShownIsTheLiveRow`, from `OneLiveRowPerArea`). A
step of the table changes one row. If that row is, or becomes, the live row of a zone, the
zone's entry changes as `Watchlist` allows (`OneRowMoves`), and every other entry stays
(`OneEntryMoves`). Without separate ranges the mapping has no one row to read, and
`store_realert` shows what becomes of the promise. What holds of any ranges is
`BridgesOverlap`: an insertion makes no overlap, because it is only done when nothing
matched; so two live rows come to overlap only when a step moves one of them (`Written`) to a
range that, before the step, met both (`MetRange`). The range is that of the detection the
step reconciles, not of any detection there might be.

*Stores side by side.* Each of the two tables goes through the steps of a `ZoneStore` of its
own (`MemAlone`, `SqlAlone`), so the theorems about one table hold of both
(`StoresOverlapByBridges`). `PartOnlyOnAmbiguity` compares the rows
the two wrote: stores that agreed and no longer do have reconciled one detection with two
different rows, both live and both at its range; if one row matched, or none, both wrote the
same. With separate ranges at most one live row matches a detection,
so no step is ambiguous, and stores that agree go on to agree: `db/store.py`'s "behaves
identically" is a theorem there, and only there.

*Scan.* `NoLostAlert` needs to know how the runner's copy relates to the branch:
`JobInv` says that a running job's database has at least the branch's marks, that an
idle runner has none, that the zone being confirmed was delivered, and that the page
to be pushed shows the database to be pushed. `DuplicatesArePaidFor` counts: the one
delivery that needs no fault is on the branch, or in a running job that has not
failed (`Accounted`); losing it costs the fault that pays for the next. The refinement
maps a send to `Deliver`, a push to `Record`, any other fault to `Fault`, all else to a
stutter.

*Universe and page.* The two tables agree by way of what is still owed: the first
snapshot with the logged and the owed events applied is the latest snapshot. Inside the
job `DatabaseInv` adds that a database on the branch is one between two scans, because a
lost runner puts it back, and that a runner's never has the gap of a crash. The page needs
a count, `CountInv` (every coin of the scan is to be scanned, counted or missing candles:
a coin that is done moves from one to another), and `PageInv`, how recorded errors and
failed calls go together before the page is made. For a failed universe build this rests
on `api_errors` alone: 0 of 0 coins were scanned.

*Client call.* `AttemptInv` bounds the requests the server may have carried out
unconfirmed by the attempts that went wrong so far; a delivery adds one at most, and
only on an attempt that was not one of them. `CallIsShort` is the part of `CallEnds` that needs
no fairness: `Left`, the steps a call may still take, starts at `MaxAttempts + 1` and every
step lowers it. `WishesKept` gives of every step that the time slept
grows by at least what the time asked for grows by: a sleep is no shorter than the
Retry-After it answers, from which the sum follows. The bounds on sleep need the powers of
two,
which the library defines by a recursion that these provers cannot unfold: they are
stated as the hypothesis `PowersOfTwo` (2^0 = 1, 2^(n+1) = 2·2^n, in `Nat`), of which TLC
evaluates every instance the run needs.

*Detector.* `BasesApart`: a base lies within its anchor's swing window (`MaxBase <=
Lookback`), where the anchor is the only lowest candle; so no other anchor can lie in it.
`TurnsTakeBothSides`: within one candle a step that makes no new high leaves every high
as it is, and with them the swing highs; they would have to net rise before and net fall
after it. Likewise for the lows, and a label other than Neutral rests on the direction.

The four properties that say what a later scan finds compare two histories, of which
one goes on from the other: the same candles, none or one dropped from the front, more at
the end (`GoesOn`). A step takes the closed candles to such a history, with and without the
candle that is open then (`StepGoesOn`). For two such histories the lemmas go up the
detector: the window of a swing point (`SameSwingLow`), the true ranges averaged at a candle
of the zone (`SameAtr`), who is quiet and who joins the base (`SameQuiet`, `SameJoins`), where
base and displacement end (`SameBase`, `SameDisp`), the range (`SameZone`), the candles
freshness is judged by (`SameLies`), the swing points before the base and the evidence
(`SameSwings`, `SameSweep`, `SameFib`, `SameVolume`, `SameEvidence`), each with the positions
moved by one when the oldest candle is dropped (`Moved`). `EvidenceStands` then needs the
candles the evidence refers to: the windows of averages and equal lows, and the latest swing
low and high before the zone, with the window that made them swings (`ReferencesStay`). With
300 candles that is every zone but those near the start of the answer. `ZonesStand` is about
what a scan reports: from the range being the same it follows that the zone is among
`Detected` exactly when the answer is long enough and, with the price filter, price is above
it. It says nothing of the score below which a zone is not stored, nor of the row it is
matched with: those are `Scoring`'s and `ZoneStore`'s. Sums are equal because they are
sums of the same summands; nothing is said of what they add up to, which would take
induction. Two facts make this true and are easy to lose in the code: a base ends inside the
window that makes its anchor a swing low, so a confirmed anchor has a base that can no longer
grow, and everything a settled zone's evidence reads lies before its displacement's end, except
for the break of structure and the equal lows (`BreakStays`, `EqualLowsStay`).

*Freshness.* `WalkCountsVisits` is the loop invariant of `classify_freshness`: after k rounds
`test_count` is the number of visits that began among the first k candles, and `in_test`
says whether the k-th touched the zone. It is shown for all k by taking the least k where it
fails. `TestsAreVisits` adds the break (`CountedCandles`: the walk covers exactly the
candles no broken one precedes). A visit of a history is a visit of every history that goes
on from it, hence `VerdictGrows`; the first candle that touches is a visit, hence
`TouchedIsTested`. An entered zone is touched by the last candle, whose low is not above its
close.

*Scoring.* The type invariant says of a zone how the facts kept of it fit together
(`Fits`), and that is inductive: a candle that reaches the zone is noted (`Trade`), what the
open candle showed goes into the verdict when it closes (`OpenedFits`), new evidence for a
range leaves them alone. A zone price is in has therefore been tested, unless it is still
being left (`InsideIsTested`); a tested zone has a quality of 51 at most, a broken one of 45,
hence at most 51·75/60 = 63.75 points by itself (59.5 on 4H); one more timeframe adds 15 at
most, which leaves it short of the 80 of an A, and both leave it at 89.5. That each share is
bounded needs the best overlap to exist: the strongest departure among finitely many, by
well-foundedness of the numbers below `MaxDeparture`. `RisesEarned` holds between any two
states that meet the type invariant and show the same zones, whatever happened in between: a
zone found no better has no higher quality (`NoBetterNoMore`), a timeframe for which the same
zone speaks, no better, has no higher share (`NoBetterShares`), and rounding and cap are
monotone. Nothing is assumed of how evidence changes; that it may rise, and scores with it, is
in the model.

**Only model-checked**: the liveness properties `CallEnds`, `EnteredZoneIsAlerted` and
`DueIsSettled`. They rest on fairness, and what fairness says is in terms of `ENABLED`, which
this version of TLAPS does not reason about. That no call can go on forever is proved all the
same (`CallIsShort`); that it does go on is what `CallEnds` adds.

## 5. Not modelled, and what is left

Not modelled for good: the HTML template, the verification and example scripts (no
state), the wording of messages, the settings table and `diff_against_previous` (nothing
calls them), `get_klines_for_universe` (a loop over `get_klines` the scan does not use),
the numeric fields of a market listing, and the detector's checks of its input
(`zone_detector.py:131-146`: the answers of `CandleHistory` are sorted and complete) with its
`or 1e-9` for an ATR of zero.

Left for later: the sections of the dashboard and which rows appear in several of them;
the arithmetic of means and ratios (what a sum over a window adds up to), on which no
property rests so far.
