SPECIFICATION Spec
CONSTANTS
    k1 = k1
    k2 = k2
    Keys = {k1, k2}
    Areas <- SeparateAreas
    Grades = {"A", "B"}
    AlertGrades = {"A+", "A"}
    Backend = "sqlite"
    MaxRows = 3
    MaxTicks = 3
SYMMETRY Symmetry
CHECK_DEADLOCK FALSE
INVARIANTS
    TypeOK
    OneLiveRowPerArea
    NoRealert
    SilenceIsEarned
PROPERTIES
    RowsKeepTheirPast
    ImplementsWatchlist
