-------------------------- MODULE UniverseTracking --------------------------
(***************************************************************************)
(* db/service.update_universe: the universe of each scan is stored as a    *)
(* snapshot, and what entered or left since the previous snapshot is       *)
(* logged as events.  The two writes are two commits of the store.         *)
(***************************************************************************)
CONSTANT Symbols    \* the coins of the market

VARIABLES
    pc,        \* "idle", or "logging" between the two commits
    latest,    \* the symbols of the latest snapshot
    baseline,  \* whether any snapshot was ever taken
    owed,      \* the events computed and not yet saved
    told,      \* history: the first snapshot with the logged events applied
    gaps       \* history: the ways in which events were not logged so far

vars == <<pc, latest, baseline, owed, told, gaps>>

Diff == [entered : SUBSET Symbols, exited : SUBSET Symbols]

NoEvents == [entered |-> {}, exited |-> {}]

-----------------------------------------------------------------------------
(* What is computed *)

\* UniverseService.build_universe: the ranked coins with a spot pair.  No coin
\* at all is a valid result: no provider error is raised for it.
Tradable(ranked, pairs) == ranked \cap pairs

\* Faulty: a coin that left is not logged.
EventsEntriesOnly(previous, current) ==
    IF previous = {} THEN NoEvents
    ELSE [entered |-> current \ previous, exited |-> {}]

\* Nothing previous is taken to mean that no snapshot was ever taken.
Events(previous, current) ==
    IF previous = {} THEN NoEvents
    ELSE [entered |-> current \ previous, exited |-> previous \ current]

\* What a reader of the event log who knew universe u now believes.
Applied(u, events) == (u \ events.exited) \cup events.entered

-----------------------------------------------------------------------------
(* The two commits *)

Init ==
    /\ pc = "idle"
    /\ latest = {} /\ baseline = FALSE
    /\ owed = NoEvents
    /\ told = {}
    /\ gaps = {}

\* save_universe_snapshot
SaveUniverseSnapshot(current) ==
    /\ pc = "idle"
    /\ latest' = current /\ baseline' = TRUE
    /\ owed' = Events(latest, current)
    /\ pc' = IF owed' = NoEvents THEN "idle" ELSE "logging"
    /\ told' = IF baseline THEN told ELSE current
    /\ gaps' = IF baseline /\ latest = {} /\ current # {}
               THEN gaps \cup {"empty snapshot"} ELSE gaps

\* save_universe_events
SaveUniverseEvents ==
    /\ pc = "logging"
    /\ pc' = "idle"
    /\ told' = Applied(told, owed)
    /\ owed' = NoEvents
    /\ UNCHANGED <<latest, baseline, gaps>>

\* The process is lost, or the second commit fails: the events are never saved.
Crash ==
    /\ pc = "logging"
    /\ pc' = "idle"
    /\ owed' = NoEvents
    /\ gaps' = gaps \cup {"crash"}
    /\ UNCHANGED <<latest, baseline, told>>

Next ==
    \/ \E ranked, pairs \in SUBSET Symbols :
          SaveUniverseSnapshot(Tradable(ranked, pairs))
    \/ SaveUniverseEvents
    \/ Crash

Spec == Init /\ [][Next]_vars

-----------------------------------------------------------------------------
(* Properties *)

\* Type correctness of update_universe: a "logging" process has something to
\* log and an idle one owes nothing; what is owed agrees with the snapshot just
\* stored; nothing is stored before the first scan.
TypeOK ==
    /\ pc \in {"idle", "logging"}
    /\ latest \in SUBSET Symbols /\ told \in SUBSET Symbols
    /\ baseline \in BOOLEAN
    /\ owed \in Diff
    /\ gaps \subseteq {"empty snapshot", "crash"}
    /\ pc = "idle" <=> owed = NoEvents
    /\ owed.entered \subseteq latest /\ owed.exited \cap latest = {}
    /\ ~baseline => latest = {} /\ told = {}

\* The event log explains the universe: the first snapshot with the logged and
\* the owed events applied is the latest one.  Two things alone make
\* update_universe's two tables part, for good: a process lost between its two
\* commits, and a stored snapshot without a coin, which the next diff takes
\* for no snapshot at all.
LogExplainsUniverse == gaps = {} => Applied(told, owed) = latest

=============================================================================
