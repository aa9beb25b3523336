SPECIFICATION Spec
CONSTANTS
    Decimals = 2
    Half = 536870912
    MinSweepLegs = 3
    BucketLots = 3
    NumBuckets = 2
    TradePrices = {95, 100, 103}
    Lots = {1, 2, 5}
    Objects = {a, b}
    MaxTrades = 5
    MaxListened = 3
    MaxListeners = 2
INVARIANTS
    AccumulatorsAreSums
    VpinIsBucketed
    RunLengthIsLastRun
    SweepsAreReported
    OscillatorsInRange
    AveragesStayInRange
    SizesMatchTape
    ZScoreStopsOnSmallDeviation
    EachListenerSeesItsTrades
