------------------------- MODULE WatchlistRefinement -------------------------
(***************************************************************************)
(* ZoneStore implements Watchlist when the price ranges are separate: the  *)
(* ranges that meet each other are one zone, and the one live row among    *)
(* them is that zone's entry.                                              *)
(***************************************************************************)
EXTENDS ZoneStore

ZoneOf(key, area) == <<key, {a \in Areas : Overlaps(a, area)}>>

Zones == {ZoneOf(key, area) : key \in Keys, area \in Areas}

\* The live rows that stand for a zone.
LiveRowsOf(z) ==
    {i \in DOMAIN rows : Live(rows[i]) /\ ZoneOf(rows[i].key, rows[i].area) = z}

EntryOf(row) ==
    [status |-> row.status, grade |-> row.grade, alertSent |-> row.alertSent]

EntryShown ==
    [z \in Zones |->
        IF LiveRowsOf(z) = {}
        THEN [status |-> "ABSENT", grade |-> "none", alertSent |-> FALSE]
        ELSE EntryOf(rows[CHOOSE i \in LiveRowsOf(z) : TRUE])]

W == INSTANCE Watchlist WITH entry <- EntryShown

\* The table behaves as one entry per zone: matching by overlap finds the
\* zone's own row and no other (db/store.py, 'the "same" zone reappearing on
\* a rescan, not a brand new one').
ImplementsWatchlist == W!Spec

=============================================================================
