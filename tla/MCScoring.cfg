SPECIFICATION Spec
CONSTANTS
    Bases <- ThreeBases
    MaxDeparture = 18
    Prices <- FewPrices
    RequirePriceAboveZone = FALSE
    Rooms <- OneEachOrTwo
INVARIANTS
    TypeOK
    GradesNeedConfluence
    EntriesNeedAllTimeframes
    BrokenNeedAllTimeframes
PROPERTIES
    RisesAreEarned
