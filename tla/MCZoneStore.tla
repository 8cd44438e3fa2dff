---------------------------- MODULE MCZoneStore ----------------------------
(***************************************************************************)
(* Instances of ZoneStore and of its refinement for TLC.  Prices are small *)
(* integers; a range includes both its ends, as in find_overlapping_zone.  *)
(***************************************************************************)
EXTENDS WatchlistRefinement, TLC

CONSTANTS k1, k2    \* (symbol, timeframe) pairs

Range(lo, hi) == [low |-> lo, high |-> hi]

\* Two shapes of one zone, and a second zone apart from them.
SeparateAreas == {Range(1, 2), Range(2, 3), Range(5, 6)}

\* A chain: the middle range meets both its neighbours, which do not meet.
ChainedAreas == {Range(1, 2), Range(2, 3), Range(3, 4)}

Symmetry == Permutations(Keys)

=============================================================================
