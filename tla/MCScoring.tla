------------------------------ MODULE MCScoring ------------------------------
EXTENDS Scoring

Strong(low, high) ==
    [low |-> low, high |-> high, departure |-> 15, expansion |-> 10,
     bos |-> TRUE, sweep |-> TRUE, fib |-> TRUE]

\* The stronger departure, and little else.
Hollow(low, high) ==
    [low |-> low, high |-> high, departure |-> 18, expansion |-> 3,
     bos |-> FALSE, sweep |-> FALSE, fib |-> FALSE]

\* The upper range, widened, reaches the lower one; not the other way round.
ThreeBases == {Strong(900, 1000), Hollow(900, 1000), Strong(1052, 1100)}

\* Inside the lower range, and far enough below the upper to break it; above
\* both.
FewPrices == {960, 1200}

Room(on3D, on1D, on4H) ==
    [tf \in Timeframes |-> CASE tf = "3D" -> on3D [] tf = "1D" -> on1D [] tf = "4H" -> on4H]

\* One zone on each timeframe, or a choice of two on one.
OneEachOrTwo == {Room(1, 1, 1), Room(0, 2, 1)}
=============================================================================
