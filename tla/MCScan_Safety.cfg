SPECIFICATION Spec
CONSTANTS
    z1 = z1
    z2 = z2
    Zones = {z1, z2}
    Grades = {"A", "B"}
    AlertGrades = {"A+", "A"}
    RequirePriceAboveZone = FALSE
    MaxAttempts = 2
    MaxFaults = 2
SYMMETRY Symmetry
INVARIANTS
    TypeOK
    NoLostAlert
    DuplicatesArePaidFor
    QueueStaysDue
    SiteMirrorsRepo
PROPERTIES
    RecordIsFinal
    ImplementsLedger
