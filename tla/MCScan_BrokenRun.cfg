SPECIFICATION Spec
CONSTANTS
    z1 = z1
    z2 = z2
    Zones = {z1}
    Grades = {"A"}
    AlertGrades = {"A+", "A"}
    RequirePriceAboveZone = FALSE
    MaxAttempts = 2
    MaxFaults = 1
PROPERTIES
    BrokenRunIsVisible
