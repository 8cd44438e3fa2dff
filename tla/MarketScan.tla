----------------------------- MODULE MarketScan -----------------------------
(***************************************************************************)
(* The first half of scripts/run_scheduled_scan.py: the universe of the    *)
(* scan is put together from two providers and stored, BTC is looked at,   *)
(* the candles of every coin are fetched, and the page says how it went.   *)
(* What happens to the zones found is ScheduledScan's part.                *)
(*                                                                         *)
(* The database is the one of UniverseTracking.  In the workflow it is a   *)
(* runner's copy that only a push makes last; run by hand, with            *)
(* SCANNER_DB_PATH, every commit lasts.                                    *)
(***************************************************************************)
EXTENDS UniverseTracking, FetchContract, FiniteSets, Naturals

CONSTANTS
    Coins,         \* the coins a ranking may list
    Ticker,        \* the symbol of each; two coins may share one
    Timeframes     \* 3D, 1D, 4H

ASSUME MarketAssumption ==
    /\ IsFiniteSet(Coins)
    /\ Ticker \in [Coins -> Symbols]
    /\ Timeframes # {}

VARIABLES
    onRunner,     \* whether the database is a runner's copy
    provider,     \* who ranks the coins
    stage,        \* where the job is, "idle" between jobs
    branch,       \* the database at the head of the branch
    entries,      \* the ranking, as answered
    coins,        \* get_top_n, then build_universe: the coins of this scan
    todo,         \* those not yet scanned
    scanned,      \* coins_scanned
    errors,       \* the keys of api_errors
    page,         \* the dashboard the job generated, if any
    failed,       \* history: the providers a call of this job failed at
    missed        \* history: the coins of which some candles were not fetched

dbVars == <<latest, baseline, told, gaps>>

jobVars == <<entries, coins, todo, scanned, errors, page, failed, missed>>

marketVars == <<vars, onRunner, provider, stage, branch, jobVars>>

-----------------------------------------------------------------------------
(* The ranking *)

\* An entry: absent, without a key the parser needs, or a coin whose price
\* moved, or did not, by the threshold.
Entry == {"absent", "malformed", "moving", "quiet"}

NoEntries == [c \in Coins |-> "absent"]

\* get_top_n: what can be parsed, but for stablecoins that keep their peg.
TopN(answer, stablecoins) ==
    {c \in Coins : /\ answer[c] \in {"moving", "quiet"}
                   /\ ~ (answer[c] = "quiet" /\ c \in stablecoins)}

\* What a call of `client` may answer.
Answers(client, something, nothing) ==
    something \cup (IF "nothing" \in FetchOutcomes(client) THEN {nothing} ELSE {})

-----------------------------------------------------------------------------
(* The page *)

NoPage == [universe |-> 0, scanned |-> 0, errors |-> {}, made |-> FALSE]

PageOf(size, n, errs) ==
    [universe |-> size, scanned |-> n, errors |-> errs, made |-> TRUE]

Health(p) == IF p.errors = {} THEN "OK" ELSE "DEGRADED"

\* api_status: two fixed names, and whatever names the errors have.
ApiStatus(p) ==
    [key \in {"coingecko", "binance"} \cup p.errors |->
        IF key \in p.errors THEN "error" ELSE "ok"]

-----------------------------------------------------------------------------
(* The job *)

Idle ==
    /\ stage = "idle" /\ entries = NoEntries
    /\ coins = {} /\ todo = {} /\ scanned = 0 /\ errors = {}
    /\ page = NoPage /\ failed = {} /\ missed = {}

NewDatabase == [latest |-> {}, baseline |-> FALSE, told |-> {}, gaps |-> {}]

MarketInit ==
    /\ Init /\ Idle
    /\ onRunner \in BOOLEAN
    /\ provider \in {"coingecko", "coinmarketcap"}
    /\ branch = NewDatabase

Work == [latest |-> latest, baseline |-> baseline, told |-> told, gaps |-> gaps]

EndJob ==
    /\ stage' = "idle" /\ entries' = NoEntries
    /\ coins' = {} /\ todo' = {} /\ scanned' = 0 /\ errors' = {}
    /\ page' = NoPage /\ failed' = {} /\ missed' = {}

StartJob ==
    /\ stage = "idle"
    /\ stage' = "ranking"
    /\ UNCHANGED <<vars, onRunner, provider, branch, jobVars>>

\* CoinGecko: the ranking does not say which coins are stablecoins ...
FetchRanking ==
    /\ stage = "ranking" /\ provider = "coingecko"
    /\ stage' = "stablecoins"
    /\ entries' \in Answers("markets", [Coins -> Entry], NoEntries)
    /\ UNCHANGED <<vars, onRunner, provider, branch, coins, todo, scanned,
                   errors, page, failed, missed>>

\* ... a second call does.
FetchStablecoins ==
    /\ stage = "stablecoins"
    /\ stage' = "pairs"
    /\ \E stablecoins \in Answers("markets", SUBSET Coins, {}) :
           coins' = TopN(entries, stablecoins)
    /\ entries' = NoEntries
    /\ UNCHANGED <<vars, onRunner, provider, branch, todo, scanned, errors,
                   page, failed, missed>>

\* CoinMarketCap: the tags come with the ranking.
FetchListings ==
    /\ stage = "ranking" /\ provider = "coinmarketcap"
    /\ stage' = "pairs"
    /\ \E answer \in Answers("listings", [Coins -> Entry], NoEntries),
          tagged \in SUBSET Coins :
              coins' = TopN(answer, tagged)
    /\ UNCHANGED <<vars, onRunner, provider, branch, entries, todo, scanned,
                   errors, page, failed, missed>>

\* build_universe: the coins whose ticker has a spot pair.
FetchPairs ==
    /\ stage = "pairs"
    /\ stage' = "snapshot"
    /\ \E pairs \in Answers("exchangeInfo", SUBSET Symbols, {}) :
           LET tradable == Tradable({Ticker[c] : c \in coins}, pairs)
           IN  coins' = {c \in coins : Ticker[c] \in tradable}
    /\ UNCHANGED <<vars, onRunner, provider, branch, entries, todo, scanned,
                   errors, page, failed, missed>>

\* A DataProviderError of any of these calls goes by the name of "coingecko":
\* a page is made, the script exits 1.
UniverseFails ==
    /\ stage \in {"ranking", "stablecoins", "pairs"}
    /\ stage' = "failed"
    /\ failed' = {IF stage = "pairs" THEN "binance" ELSE "coingecko"}
    /\ errors' = {"coingecko"}
    /\ page' = PageOf(0, 0, errors')
    /\ UNCHANGED <<vars, onRunner, provider, branch, entries, coins, todo,
                   scanned, missed>>

\* update_universe, first commit
StoreSnapshot ==
    /\ stage = "snapshot"
    /\ SaveUniverseSnapshot({Ticker[c] : c \in coins})
    /\ stage' = IF pc' = "logging" THEN "events" ELSE "btc"
    /\ UNCHANGED <<onRunner, provider, branch, jobVars>>

\* update_universe, second commit
StoreEvents ==
    /\ stage = "events"
    /\ SaveUniverseEvents
    /\ stage' = "btc"
    /\ UNCHANGED <<onRunner, provider, branch, jobVars>>

\* Faulty: the condition defaults to "Neutral" and nothing is noted.
BtcErrorsUnnoted(ok) == {}

BtcErrors(ok) == IF ok THEN {} ELSE {"binance_btc"}

CheckBtc ==
    /\ stage = "btc"
    /\ stage' = "symbols"
    /\ todo' = coins
    /\ \E ok \in BOOLEAN :
           /\ errors' = errors \cup BtcErrors(ok)
           /\ failed' = IF ok THEN failed ELSE failed \cup {"binance"}
    /\ UNCHANGED <<vars, onRunner, provider, branch, entries, coins, scanned,
                   page, missed>>

\* Faulty: a coin counts as scanned once some candles of it were there.
CountedIfAny(missing) == IF missing # Timeframes THEN 1 ELSE 0

\* symbol_had_error
Counted(missing) == IF missing = {} THEN 1 ELSE 0

\* The timeframes that fail are skipped and leave no trace but the count.
ScanSymbol(c) ==
    /\ stage = "symbols" /\ c \in todo
    /\ todo' = todo \ {c}
    /\ \E missing \in SUBSET Timeframes :
           /\ scanned' = scanned + Counted(missing)
           /\ missed' = IF missing = {} THEN missed ELSE missed \cup {c}
           /\ failed' = IF missing = {} THEN failed ELSE failed \cup {"binance"}
    /\ UNCHANGED <<vars, onRunner, provider, stage, branch, entries, coins,
                   errors, page>>

\* The alerts are sent in between; one that fails is noted.
GenerateDashboard ==
    /\ stage = "symbols" /\ todo = {}
    /\ stage' = "push"
    /\ errors' \in {errors, errors \cup {"telegram"}}
    /\ page' = PageOf(Cardinality(coins), scanned, errors')
    /\ UNCHANGED <<vars, onRunner, provider, branch, entries, coins, todo,
                   scanned, failed, missed>>

\* The workflow commits and pushes the database; by hand there is no such step.
CommitAndPush ==
    /\ stage = "push"
    /\ branch' = IF onRunner THEN Work ELSE branch
    /\ EndJob
    /\ UNCHANGED <<vars, onRunner, provider>>

\* Faulty: what was committed to the copy is pushed although the scan failed.
DiscardNothing == IF pc = "logging" THEN Crash ELSE UNCHANGED vars

\* The runner's copy is gone, whatever was committed to it.
Discard ==
    /\ pc' = "idle" /\ owed' = NoEvents
    /\ latest' = branch.latest /\ baseline' = branch.baseline
    /\ told' = branch.told /\ gaps' = branch.gaps

\* The script exits 1, an exception leaves it or the machine is lost, at any
\* point.  A database that stays keeps what was committed.
EndFailedJob ==
    /\ stage # "idle"
    /\ \/ onRunner /\ Discard
       \/ ~ onRunner /\ pc = "logging" /\ Crash
       \/ ~ onRunner /\ pc = "idle" /\ UNCHANGED vars
    /\ EndJob
    /\ UNCHANGED <<onRunner, provider, branch>>

MarketNext ==
    \/ StartJob
    \/ FetchRanking \/ FetchStablecoins \/ FetchListings \/ FetchPairs
    \/ UniverseFails
    \/ StoreSnapshot \/ StoreEvents
    \/ CheckBtc
    \/ \E c \in Coins : ScanSymbol(c)
    \/ GenerateDashboard \/ CommitAndPush
    \/ EndFailedJob

MarketSpec == MarketInit /\ [][MarketNext]_marketVars

-----------------------------------------------------------------------------
(* Properties *)

\* How the job's steps fit together: the process is between the two commits
\* exactly while events are to be saved, every coin of the scan is still to be
\* scanned, counted, or missing candles, and a database on the branch is one
\* that a job has finished with.
MarketTypeOK ==
    /\ TypeOK
    /\ onRunner \in BOOLEAN /\ provider \in {"coingecko", "coinmarketcap"}
    /\ stage \in {"idle", "ranking", "stablecoins", "pairs", "snapshot",
                  "events", "btc", "symbols", "push", "failed"}
    /\ pc = "logging" <=> stage = "events"
    /\ branch \in [latest : SUBSET Symbols, baseline : BOOLEAN,
                   told : SUBSET Symbols,
                   gaps : SUBSET {"empty snapshot", "crash"}]
    /\ entries \in [Coins -> Entry]
    /\ coins \subseteq Coins /\ todo \subseteq coins
    /\ missed \subseteq coins \ todo
    /\ scanned \in Nat
    /\ stage \in {"symbols", "push"} =>
           scanned + Cardinality(missed) + Cardinality(todo) = Cardinality(coins)
    /\ errors \subseteq {"coingecko", "binance_btc", "telegram"}
    /\ failed \subseteq {"coingecko", "binance"}

\* In the workflow the two commits of update_universe (service.py:170-172) are
\* as good as one: wherever the job dies, the branch's log explains the
\* branch's snapshot, but for snapshots without a coin.
BranchLosesNoEvents ==
    onRunner => /\ "crash" \notin gaps
                /\ branch.gaps = {} => branch.told = branch.latest

\* A page that reports nothing wrong: health, api_status and the two counts.
Clean(p) ==
    /\ Health(p) = "OK"
    /\ \A key \in DOMAIN ApiStatus(p) : ApiStatus(p)[key] = "ok"
    /\ p.scanned = p.universe

\* Only the page as a whole tells whether the providers answered: candles that
\* could not be fetched (run_scheduled_scan.py:109-112) show in coins_scanned
\* alone, a missing BTC label in api_errors alone.  A page is clean exactly if
\* no provider call of its job failed and every alert went out.
CleanPageMeansCleanJob ==
    page.made => (Clean(page) <=> failed = {} /\ "telegram" \notin errors)

=============================================================================
