SPECIFICATION Spec
CONSTANTS
    Candles <- MCCandles
    Pasts <- MCPasts
    Limit = 12
    MaxOpened = 4
    Lookback = 2
    BosLookahead = 3
    SweepTolerance = 15
    EqualTolerance = 25
    EqualWindow = 4
    FibTolerance = 300
    FibLevels <- MCFibLevels
    InvalidationBuffer = 1
    AtrPeriod = 3
    BaseRange = 12
    MaxBase = 2
    DispLookahead = 2
    VolumeWindow = 3
    MinCandles = 5
    MaPeriod = 3
    LookbackPoints = 2
    MinMargin = 1
CHECK_DEADLOCK FALSE
INVARIANTS
    BasesApart
    
    EnteredIsTested
PROPERTIES
    SwingsStand
    ZonesStand
    EvidenceStands
    ClosedVerdictStands
    TurnsTakeBothSides
