------------------------- MODULE MCStoreEquivalence -------------------------
(***************************************************************************)
(* The two stores over price ranges that chain: the middle range meets     *)
(* both its neighbours, which do not meet each other.                      *)
(***************************************************************************)
EXTENDS StoreEquivalence

Range(lo, hi) == [low |-> lo, high |-> hi]

ChainedAreas == {Range(1, 2), Range(2, 3), Range(3, 4)}

=============================================================================
