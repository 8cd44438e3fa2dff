----------------------- MODULE UniverseTrackingProofs -----------------------
(***************************************************************************)
(* For every set of coins: what the event log of update_universe explains. *)
(* LogExplainsUniverse is inductive together with TypeOK, whose conjuncts  *)
(* tie what is owed to the snapshot just stored.                           *)
(***************************************************************************)
EXTENDS UniverseTracking, TLAPS

UniverseInv == TypeOK /\ LogExplainsUniverse

\* The events between two snapshots are a difference, and no event at all for
\* an empty previous snapshot.
LEMMA EventsAreTheDiff ==
    ASSUME NEW p \in SUBSET Symbols, NEW u \in SUBSET Symbols
    PROVE  /\ Events(p, u) \in Diff
           /\ Events(p, u).entered \subseteq u
           /\ Events(p, u).exited \cap u = {}
           /\ p # {} => Events(p, u).entered = u \ p
                        /\ Events(p, u).exited = p \ u
           /\ p = {} => Events(p, u) = NoEvents
BY DEF Events, Diff, NoEvents

LEMMA InitHasInv == Init => UniverseInv
<1> SUFFICES ASSUME Init PROVE UniverseInv
    OBVIOUS
<1>1. NoEvents \in Diff /\ NoEvents.entered = {} /\ NoEvents.exited = {}
  BY DEF NoEvents, Diff
<1>2. latest = {} /\ told = {} /\ owed = NoEvents /\ pc = "idle" /\ gaps = {}
      /\ baseline \in BOOLEAN
  BY DEF Init
<1>3. TypeOK
  BY <1>1, <1>2 DEF TypeOK
<1>4. LogExplainsUniverse
  BY <1>1, <1>2 DEF LogExplainsUniverse, Applied
<1> QED BY <1>3, <1>4 DEF UniverseInv

LEMMA SnapshotKeepsInv ==
    ASSUME UniverseInv, NEW u \in SUBSET Symbols, SaveUniverseSnapshot(u)
    PROVE  UniverseInv'
<1>1. latest' = u /\ baseline' = TRUE /\ owed' = Events(latest, u) /\ pc = "idle"
  BY DEF SaveUniverseSnapshot
<1>2. latest \in SUBSET Symbols /\ told \in SUBSET Symbols /\ owed = NoEvents
  BY <1>1 DEF UniverseInv, TypeOK
<1>3. TypeOK'
  <2>1. owed' \in Diff /\ owed'.entered \subseteq latest'
        /\ owed'.exited \cap latest' = {}
    BY <1>1, <1>2, EventsAreTheDiff
  <2>2. pc' \in {"idle", "logging"} /\ (pc' = "idle" <=> owed' = NoEvents)
    BY DEF SaveUniverseSnapshot
  <2>3. told' \in SUBSET Symbols
    BY <1>2 DEF SaveUniverseSnapshot
  <2>4. gaps' \subseteq {"empty snapshot", "crash"}
    BY DEF SaveUniverseSnapshot, UniverseInv, TypeOK
  <2> QED BY <1>1, <2>1, <2>2, <2>3, <2>4 DEF TypeOK
<1>4. LogExplainsUniverse'
  <2>1. SUFFICES ASSUME gaps' = {} PROVE Applied(told', owed') = u
    BY <1>1 DEF LogExplainsUniverse
  <2>2. gaps = {} /\ ~(baseline /\ latest = {} /\ u # {})
    BY <2>1 DEF SaveUniverseSnapshot
  <2>3. told = latest
    BY <1>2, <2>2 DEF UniverseInv, LogExplainsUniverse, Applied, NoEvents
  <2>4. CASE baseline
    <3>1. told' = told
      BY <2>4 DEF SaveUniverseSnapshot
    <3>2. CASE latest = {}
      <4>1. u = {} /\ owed' = NoEvents
        BY <1>1, <1>2, <2>2, <2>4, <3>2, EventsAreTheDiff
      <4> QED BY <2>3, <3>1, <3>2, <4>1 DEF Applied, NoEvents
    <3>3. CASE latest # {}
      <4>1. owed'.entered = u \ latest /\ owed'.exited = latest \ u
        BY <1>1, <1>2, <3>3, EventsAreTheDiff
      <4> QED BY <2>3, <3>1, <4>1 DEF Applied
    <3> QED BY <3>2, <3>3
  <2>5. CASE ~baseline
    <3>1. told' = u
      BY <2>5 DEF SaveUniverseSnapshot
    <3>2. latest = {}
      BY <2>5 DEF UniverseInv, TypeOK
    <3>3. owed' = NoEvents
      BY <1>1, <1>2, <3>2, EventsAreTheDiff
    <3> QED BY <3>1, <3>3 DEF Applied, NoEvents
  <2> QED BY <2>4, <2>5
<1> QED BY <1>3, <1>4 DEF UniverseInv

LEMMA EventsKeepInv ==
    ASSUME UniverseInv, SaveUniverseEvents
    PROVE  UniverseInv'
<1>1. TypeOK'
  BY DEF UniverseInv, TypeOK, SaveUniverseEvents, Applied, Diff, NoEvents
<1>2. LogExplainsUniverse'
  BY DEF UniverseInv, LogExplainsUniverse, SaveUniverseEvents, Applied, NoEvents
<1> QED BY <1>1, <1>2 DEF UniverseInv

LEMMA CrashKeepsInv ==
    ASSUME UniverseInv, Crash
    PROVE  UniverseInv'
<1>1. TypeOK'
  BY DEF UniverseInv, TypeOK, Crash, Diff, NoEvents
<1>2. LogExplainsUniverse'
  BY DEF LogExplainsUniverse, Crash
<1> QED BY <1>1, <1>2 DEF UniverseInv

\* update_universe is type-correct, and its event log explains the universe
\* until a process is lost between its two commits or a coinless snapshot is
\* diffed against.
THEOREM LogExplained == Spec => [](TypeOK /\ LogExplainsUniverse)
<1>1. UniverseInv /\ [Next]_vars => UniverseInv'
  <2> SUFFICES ASSUME UniverseInv, [Next]_vars PROVE UniverseInv'
    OBVIOUS
  <2>1. CASE \E ranked, pairs \in SUBSET Symbols :
                 SaveUniverseSnapshot(Tradable(ranked, pairs))
    <3>1. PICK ranked \in SUBSET Symbols, pairs \in SUBSET Symbols :
                   SaveUniverseSnapshot(Tradable(ranked, pairs))
      BY <2>1
    <3>2. Tradable(ranked, pairs) \in SUBSET Symbols
      BY DEF Tradable
    <3> QED BY <3>1, <3>2, SnapshotKeepsInv
  <2>2. CASE SaveUniverseEvents
    BY <2>2, EventsKeepInv
  <2>3. CASE Crash
    BY <2>3, CrashKeepsInv
  <2>4. CASE UNCHANGED vars
    BY <2>4 DEF vars, UniverseInv, TypeOK, LogExplainsUniverse, Applied
  <2> QED BY <2>1, <2>2, <2>3, <2>4 DEF Next
<1>2. UniverseInv => TypeOK /\ LogExplainsUniverse
  BY DEF UniverseInv
<1> QED BY InitHasInv, <1>1, <1>2, PTL DEF Spec

\* update_universe is type-correct for any set of coins.
THEOREM TypeCorrect == Spec => []TypeOK
BY LogExplained, PTL

=============================================================================
