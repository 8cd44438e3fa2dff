SPECIFICATION Spec
CONSTANTS
    Keys = {"BTC 1D"}
    Areas <- ChainedAreas
    Grades = {"A"}
    AlertGrades = {"A+", "A"}
    MaxRows = 3
    MaxTicks = 5
CHECK_DEADLOCK FALSE
PROPERTIES
    PartOnlyOnAmbiguity
    OverlapsNeedABridge
