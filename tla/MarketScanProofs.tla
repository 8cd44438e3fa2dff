-------------------------- MODULE MarketScanProofs --------------------------
(***************************************************************************)
(* For any coins, tickers and timeframes: what the branch's database keeps *)
(* of the universe, and what the page says of the job.                     *)
(*                                                                         *)
(* The first needs to know that a database on the branch is one between    *)
(* two scans, because a lost runner puts it back; the second how many      *)
(* coins are still to be scanned, counted or missing candles, and how the  *)
(* recorded errors and the failed calls go together.                       *)
(***************************************************************************)
EXTENDS MarketScan, UniverseTrackingProofs, FiniteSetTheorems

-----------------------------------------------------------------------------
(* The database *)

Databases == [latest : SUBSET Symbols, baseline : BOOLEAN, told : SUBSET Symbols,
              gaps : SUBSET {"empty snapshot", "crash"}]

DatabaseInv ==
    /\ UniverseInv
    /\ pc = "logging" <=> stage = "events"
    /\ branch \in Databases
    /\ ~ branch.baseline => branch.latest = {} /\ branch.told = {}
    /\ branch.gaps = {} => branch.told = branch.latest
    /\ onRunner => "crash" \notin gaps /\ "crash" \notin branch.gaps

\* A process that is idle owes nothing: its database is one to start from.
LEMMA WorkIsSound ==
    ASSUME DatabaseInv, pc = "idle"
    PROVE  /\ Work \in Databases
           /\ ~ Work.baseline => Work.latest = {} /\ Work.told = {}
           /\ Work.gaps = {} => Work.told = Work.latest
           /\ onRunner => "crash" \notin Work.gaps
<1>1. owed = NoEvents
  BY DEF DatabaseInv, UniverseInv, TypeOK
<1>2. Applied(told, owed) = told
  BY <1>1 DEF Applied, NoEvents
<1> QED BY <1>2 DEF DatabaseInv, UniverseInv, TypeOK, LogExplainsUniverse,
           Work, Databases

\* A lost runner leaves the branch's database to the next job.
LEMMA DiscardKeepsInv ==
    ASSUME DatabaseInv, Discard
    PROVE  UniverseInv'
<1>1. /\ latest' = branch.latest /\ baseline' = branch.baseline
      /\ told' = branch.told /\ gaps' = branch.gaps
      /\ pc' = "idle" /\ owed' = NoEvents
  BY DEF Discard
<1>2. TypeOK'
  BY <1>1 DEF DatabaseInv, Databases, TypeOK, Diff, NoEvents
<1>3. LogExplainsUniverse'
  BY <1>1 DEF DatabaseInv, LogExplainsUniverse, Applied, NoEvents
<1> QED BY <1>2, <1>3 DEF UniverseInv

LEMMA DatabaseInit == MarketInit => DatabaseInv
<1> SUFFICES ASSUME MarketInit PROVE DatabaseInv
  OBVIOUS
<1>1. UniverseInv
  BY InitHasInv DEF MarketInit
<1> QED BY <1>1 DEF MarketInit, Init, Idle, NewDatabase, DatabaseInv, Databases

\* The steps that neither commit nor end a job leave the database alone.
LEMMA DatabaseUntouched ==
    ASSUME DatabaseInv, UNCHANGED <<vars, onRunner, branch>>,
           stage # "events", stage' # "events"
    PROVE  DatabaseInv'
BY DEF DatabaseInv, UniverseInv, TypeOK, LogExplainsUniverse, Applied, vars

LEMMA DatabaseStep ==
    ASSUME DatabaseInv, coins \subseteq Coins, [MarketNext]_marketVars
    PROVE  DatabaseInv'
<1>1. CASE StoreSnapshot
  <2>1. SaveUniverseSnapshot({Ticker[c] : c \in coins})
        /\ branch' = branch /\ onRunner' = onRunner
        /\ stage' = IF pc' = "logging" THEN "events" ELSE "btc"
    BY <1>1 DEF StoreSnapshot
  <2>2. {Ticker[c] : c \in coins} \in SUBSET Symbols
    BY MarketAssumption
  <2>3. UniverseInv'
    BY <2>1, <2>2, SnapshotKeepsInv DEF DatabaseInv
  <2>4. "crash" \in gaps' => "crash" \in gaps
    BY <2>1 DEF SaveUniverseSnapshot
  <2> QED BY <2>1, <2>3, <2>4 DEF DatabaseInv
<1>2. CASE StoreEvents
  <2>1. SaveUniverseEvents /\ branch' = branch /\ onRunner' = onRunner
        /\ stage' = "btc"
    BY <1>2 DEF StoreEvents
  <2>2. UniverseInv' /\ gaps' = gaps /\ pc' = "idle"
    BY <2>1, EventsKeepInv DEF DatabaseInv, SaveUniverseEvents
  <2> QED BY <2>1, <2>2 DEF DatabaseInv
<1>3. CASE CommitAndPush
  <2>1. stage = "push" /\ stage' = "idle" /\ onRunner' = onRunner
        /\ UNCHANGED vars /\ branch' = IF onRunner THEN Work ELSE branch
    BY <1>3 DEF CommitAndPush, EndJob
  <2>2. pc = "idle"
    BY <2>1 DEF DatabaseInv, UniverseInv, TypeOK
  <2>3. UniverseInv' /\ pc' = "idle" /\ gaps' = gaps
    BY <2>1, <2>2 DEF DatabaseInv, UniverseInv, TypeOK, LogExplainsUniverse,
       Applied, vars
  <2> QED BY <2>1, <2>2, <2>3, WorkIsSound DEF DatabaseInv
<1>4. CASE EndFailedJob
  <2>1. stage' = "idle" /\ onRunner' = onRunner /\ branch' = branch
    BY <1>4 DEF EndFailedJob, EndJob
  <2>2. CASE onRunner /\ Discard
    BY <2>1, <2>2, DiscardKeepsInv DEF Discard, DatabaseInv
  <2>3. CASE ~ onRunner /\ pc = "logging" /\ Crash
    BY <2>1, <2>3, CrashKeepsInv DEF Crash, DatabaseInv
  <2>4. CASE ~ onRunner /\ pc = "idle" /\ UNCHANGED vars
    BY <2>1, <2>4 DEF DatabaseInv, UniverseInv, TypeOK, LogExplainsUniverse,
       Applied, vars
  <2> QED BY <1>4, <2>2, <2>3, <2>4 DEF EndFailedJob
<1>5. CASE UNCHANGED marketVars
  BY <1>5 DEF marketVars, vars, DatabaseInv, UniverseInv, TypeOK,
     LogExplainsUniverse, Applied
<1>6. CASE \/ StartJob \/ FetchRanking \/ FetchStablecoins \/ FetchListings
           \/ FetchPairs \/ UniverseFails \/ CheckBtc \/ GenerateDashboard
           \/ \E c \in Coins : ScanSymbol(c)
  <2>1. UNCHANGED <<vars, onRunner, branch>>
    BY <1>6 DEF StartJob, FetchRanking, FetchStablecoins, FetchListings,
       FetchPairs, UniverseFails, CheckBtc, GenerateDashboard, ScanSymbol
  <2>2. stage # "events" /\ stage' # "events"
    BY <1>6 DEF StartJob, FetchRanking, FetchStablecoins, FetchListings,
       FetchPairs, UniverseFails, CheckBtc, GenerateDashboard, ScanSymbol
  <2> QED BY <2>1, <2>2, DatabaseUntouched
<1> QED BY <1>1, <1>2, <1>3, <1>4, <1>5, <1>6 DEF MarketNext

-----------------------------------------------------------------------------
(* The job *)

Counting == {"symbols", "push"}

\* Every coin of the scan is still to be scanned, counted or missing candles.
CountInv ==
    /\ onRunner \in BOOLEAN /\ provider \in {"coingecko", "coinmarketcap"}
    /\ stage \in {"idle", "ranking", "stablecoins", "pairs", "snapshot",
                  "events", "btc", "symbols", "push", "failed"}
    /\ entries \in [Coins -> Entry]
    /\ coins \subseteq Coins /\ todo \subseteq coins
    /\ missed \subseteq coins \ todo
    /\ scanned \in Nat
    /\ stage \notin Counting => scanned = 0 /\ todo = {} /\ missed = {}
    /\ stage \in Counting =>
           scanned + Cardinality(missed) + Cardinality(todo) = Cardinality(coins)

\* What is recorded of the calls that failed, and what the page says of it.
PageInv ==
    /\ errors \subseteq {"coingecko", "binance_btc", "telegram"}
    /\ failed \subseteq {"coingecko", "binance"}
    /\ stage \notin Counting \cup {"failed"} => errors = {} /\ failed = {}
    /\ stage \in Counting =>
           /\ "coingecko" \notin errors
           /\ failed = {} <=> missed = {} /\ "binance_btc" \notin errors
    /\ stage = "push" => /\ todo = {}
                         /\ page = PageOf(Cardinality(coins), scanned, errors)
    /\ stage = "failed" => /\ failed # {}
                           /\ page = PageOf(0, 0, {"coingecko"})
    /\ stage \notin {"push", "failed"} => page = NoPage

JobInv == CountInv /\ PageInv

\* A coin is taken off the list and either counted or marked.
LEMMA OneCoinFewer ==
    ASSUME CountInv, stage = "symbols", NEW c \in Coins, ScanSymbol(c)
    PROVE  CountInv'
<1>1. PICK missing \in SUBSET Timeframes :
          /\ scanned' = scanned + Counted(missing)
          /\ missed' = IF missing = {} THEN missed ELSE missed \cup {c}
  BY DEF ScanSymbol
<1>2. /\ c \in todo /\ todo' = todo \ {c} /\ coins' = coins
      /\ entries' = entries /\ onRunner' = onRunner /\ provider' = provider
      /\ stage' = stage
  BY DEF ScanSymbol
<1>3. IsFiniteSet(todo) /\ IsFiniteSet(missed) /\ IsFiniteSet(coins)
  BY MarketAssumption, FS_Subset DEF CountInv
<1>4. /\ Cardinality(todo) \in Nat /\ Cardinality(missed) \in Nat
      /\ Cardinality(coins) \in Nat
      /\ Cardinality(todo') = Cardinality(todo) - 1
  BY <1>2, <1>3, FS_CardinalityType, FS_RemoveElement
<1>5. /\ c \notin missed
      /\ Cardinality(missed \cup {c}) = Cardinality(missed) + 1
  BY <1>2, <1>3, FS_AddElement DEF CountInv
<1>6. /\ scanned' \in Nat
      /\ scanned' + Cardinality(missed') + Cardinality(todo')
           = scanned + Cardinality(missed) + Cardinality(todo)
  <2>1. scanned \in Nat
    BY DEF CountInv
  <2>2. CASE missing = {}
    BY <1>1, <1>4, <2>1, <2>2 DEF Counted
  <2>3. CASE missing # {}
    BY <1>1, <1>4, <1>5, <2>1, <2>3 DEF Counted
  <2> QED BY <2>2, <2>3
<1>7. todo' \subseteq coins /\ missed' \subseteq coins \ todo'
  BY <1>1, <1>2 DEF CountInv
<1> QED BY <1>2, <1>6, <1>7 DEF CountInv, Counting

LEMMA CountStep ==
    ASSUME CountInv, [MarketNext]_marketVars
    PROVE  CountInv'
<1> USE DEF CountInv, Counting
<1>1. ASSUME NEW c \in Coins, ScanSymbol(c)
      PROVE  CountInv'
  BY <1>1, OneCoinFewer DEF ScanSymbol
<1>2. CASE CheckBtc
  <2>1. /\ stage = "btc" /\ stage' = "symbols" /\ todo' = coins
        /\ UNCHANGED <<onRunner, provider, entries, coins, scanned, missed>>
    BY <1>2 DEF CheckBtc
  <2>2. Cardinality(coins) \in Nat
    BY MarketAssumption, FS_Subset, FS_CardinalityType
  <2>3. 0 + Cardinality({}) + Cardinality(coins) = Cardinality(coins)
    BY <2>2, FS_EmptySet
  <2> QED BY <2>1, <2>3
<1>3. CASE FetchRanking
  BY <1>3 DEF FetchRanking, Answers, NoEntries, Entry
<1>4. CASE FetchStablecoins
  BY <1>4 DEF FetchStablecoins, TopN, NoEntries, Entry
<1>5. CASE FetchListings
  BY <1>5 DEF FetchListings, TopN
<1>6. CASE FetchPairs
  BY <1>6 DEF FetchPairs
<1>7. CASE CommitAndPush \/ EndFailedJob
  BY <1>7 DEF CommitAndPush, EndFailedJob, EndJob, NoEntries, Entry
<1>8. CASE StartJob \/ StoreSnapshot \/ StoreEvents
  BY <1>8 DEF StartJob, StoreSnapshot, StoreEvents, jobVars
<1>9. CASE UniverseFails \/ GenerateDashboard
  BY <1>9 DEF UniverseFails, GenerateDashboard
<1>10. CASE UNCHANGED marketVars
  BY <1>10 DEF marketVars, jobVars
<1> QED BY <1>1, <1>2, <1>3, <1>4, <1>5, <1>6, <1>7, <1>8, <1>9, <1>10
        DEF MarketNext

LEMMA PageStep ==
    ASSUME JobInv, [MarketNext]_marketVars
    PROVE  PageInv'
<1> USE DEF JobInv, PageInv, CountInv, Counting
<1>1. ASSUME NEW c \in Coins, ScanSymbol(c)
      PROVE  PageInv'
  BY <1>1 DEF ScanSymbol
<1>2. CASE CheckBtc
  BY <1>2 DEF CheckBtc, BtcErrors
<1>3. CASE GenerateDashboard
  BY <1>3 DEF GenerateDashboard
<1>4. CASE UniverseFails
  BY <1>4 DEF UniverseFails
<1>5. CASE CommitAndPush \/ EndFailedJob
  BY <1>5 DEF CommitAndPush, EndFailedJob, EndJob
<1>6. CASE FetchRanking \/ FetchStablecoins \/ FetchListings \/ FetchPairs
  BY <1>6 DEF FetchRanking, FetchStablecoins, FetchListings, FetchPairs
<1>7. CASE StartJob \/ StoreSnapshot \/ StoreEvents
  BY <1>7 DEF StartJob, StoreSnapshot, StoreEvents, jobVars
<1>8. CASE UNCHANGED marketVars
  BY <1>8 DEF marketVars, jobVars
<1> QED BY <1>1, <1>2, <1>3, <1>4, <1>5, <1>6, <1>7, <1>8 DEF MarketNext

\* The two counts of a page agree exactly if no coin misses candles.
LEMMA PageTells ==
    ASSUME JobInv
    PROVE  CleanPageMeansCleanJob
<1>1. SUFFICES ASSUME page.made
               PROVE  Clean(page) <=> failed = {} /\ "telegram" \notin errors
  BY DEF CleanPageMeansCleanJob
<1>2. stage \in {"push", "failed"}
  BY <1>1 DEF JobInv, PageInv, NoPage
<1>3. CASE stage = "failed"
  <2>1. page.errors = {"coingecko"} /\ failed # {}
    BY <1>3 DEF JobInv, PageInv, PageOf
  <2>2. ~ Clean(page)
    BY <2>1 DEF Clean, Health
  <2> QED BY <2>1, <2>2
<1>4. CASE stage = "push"
  <2>1. /\ page.errors = errors /\ page.universe = Cardinality(coins)
        /\ page.scanned = scanned /\ todo = {}
    BY <1>4 DEF JobInv, PageInv, PageOf
  <2>2. Clean(page) <=> errors = {} /\ scanned = Cardinality(coins)
    BY <2>1 DEF Clean, Health, ApiStatus
  <2>3. scanned = Cardinality(coins) <=> missed = {}
    <3>1. IsFiniteSet(missed) /\ IsFiniteSet(coins)
      BY MarketAssumption, FS_Subset DEF JobInv, CountInv
    <3>2. Cardinality(missed) \in Nat /\ Cardinality(coins) \in Nat
      BY <3>1, FS_CardinalityType
    <3>3. Cardinality(missed) = 0 <=> missed = {}
      BY <3>1, FS_EmptySet
    <3>4. scanned \in Nat /\ scanned + Cardinality(missed) + 0 = Cardinality(coins)
      BY <1>4, <2>1, FS_EmptySet DEF JobInv, CountInv, Counting
    <3> QED BY <3>2, <3>3, <3>4
  <2>4. errors = {} <=> "binance_btc" \notin errors /\ "telegram" \notin errors
    BY <1>4 DEF JobInv, PageInv, Counting
  <2> QED BY <1>4, <2>2, <2>3, <2>4 DEF JobInv, PageInv, Counting
<1> QED BY <1>2, <1>3, <1>4

-----------------------------------------------------------------------------
(* The theorems *)

LEMMA MarketInvHolds == MarketSpec => [](DatabaseInv /\ JobInv)
<1>1. MarketInit => DatabaseInv /\ JobInv
  <2>1. MarketInit => JobInv
    BY DEF MarketInit, Idle, JobInv, CountInv, PageInv, Counting, NoEntries, Entry
  <2> QED BY <2>1, DatabaseInit
<1>2. DatabaseInv /\ JobInv /\ [MarketNext]_marketVars => (DatabaseInv /\ JobInv)'
  BY DatabaseStep, CountStep, PageStep DEF JobInv, CountInv
<1> QED BY <1>1, <1>2, PTL DEF MarketSpec

\* run_scheduled_scan.py:69-151: the job's steps fit together for any coins
\* and timeframes.
THEOREM MarketTypeCorrect == MarketSpec => []MarketTypeOK
<1>1. DatabaseInv /\ JobInv => MarketTypeOK
  BY DEF DatabaseInv, Databases, UniverseInv, JobInv, CountInv, PageInv, Counting,
     MarketTypeOK
<1> QED BY <1>1, MarketInvHolds, PTL

\* service.py:141-174, whatever the job around it does: the event log explains
\* the universe of the database the job works on, but for the two known gaps.
THEOREM LogExplainedInJob == MarketSpec => []LogExplainsUniverse
<1>1. DatabaseInv => LogExplainsUniverse
  BY DEF DatabaseInv, UniverseInv
<1> QED BY <1>1, MarketInvHolds, PTL

\* scan.yml:51-57: in the workflow no crash ever opens a gap in the branch's
\* event log.
THEOREM BranchSafe == MarketSpec => []BranchLosesNoEvents
<1>1. DatabaseInv => BranchLosesNoEvents
  BY DEF DatabaseInv, BranchLosesNoEvents
<1> QED BY <1>1, MarketInvHolds, PTL

\* data_builder.py:71-94: for any number of coins, a page reports nothing wrong
\* exactly if nothing went wrong.
THEOREM PageIsHonest == MarketSpec => []CleanPageMeansCleanJob
<1>1. JobInv => CleanPageMeansCleanJob
  BY PageTells
<1> QED BY <1>1, MarketInvHolds, PTL

=============================================================================
