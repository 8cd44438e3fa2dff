SPECIFICATION MarketSpec
CONSTANTS
    c1 = c1
    c2 = c2
    c3 = c3
    Coins <- MCCoins
    Ticker <- MCTicker
    Symbols = {"BTC", "ETH"}
    Timeframes = {"3D", "1D", "4H"}
INVARIANTS
    MarketTypeOK
    LogExplainsUniverse
    BranchLosesNoEvents
    CleanPageMeansCleanJob
