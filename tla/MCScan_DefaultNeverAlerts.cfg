SPECIFICATION FairSpec
CONSTANTS
    z1 = z1
    z2 = z2
    Zones = {z1}
    Grades = {"A"}
    AlertGrades = {"A+", "A"}
    RequirePriceAboveZone = TRUE
    MaxAttempts = 2
    MaxFaults = 0
PROPERTIES
    EnteredZoneIsAlerted
