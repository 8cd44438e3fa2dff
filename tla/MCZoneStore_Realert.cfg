SPECIFICATION Spec
CONSTANTS
    k1 = k1
    k2 = k2
    Keys = {k1}
    Areas <- ChainedAreas
    Grades = {"A"}
    AlertGrades = {"A+", "A"}
    Backend = "sqlite"
    MaxRows = 3
    MaxTicks = 4
CHECK_DEADLOCK FALSE
INVARIANTS
    NoRealert
