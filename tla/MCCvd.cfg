SPECIFICATION Spec
CONSTANTS
    Decimals = 2
    Half = 536870912
    MinSweepLegs = 3
    BucketLots = 3
    NumBuckets = 2
    TradePrices = {95, 100, 103}
    Lots = {1, 2}
    Objects = {a}
    MaxTrades = 3
    MaxListened = 1
    MaxListeners = 1
INVARIANTS
    CvdIsBuysMinusSells
