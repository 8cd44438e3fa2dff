SPECIFICATION FairSpec
CONSTANTS
    z1 = z1
    z2 = z2
    Zones = {z1, z2}
    Grades = {"A"}
    AlertGrades = {"A+", "A"}
    RequirePriceAboveZone = FALSE
    MaxAttempts = 2
    MaxFaults = 1
PROPERTIES
    EnteredZoneIsAlerted
    DueIsSettled
