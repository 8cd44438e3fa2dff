--------------------------- MODULE MCScheduledScan ---------------------------
EXTENDS ScheduledScan, TLC
CONSTANTS z1, z2
\* The zones are interchangeable.
Symmetry == Permutations(Zones)
=============================================================================
