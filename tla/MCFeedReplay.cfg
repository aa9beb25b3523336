SPECIFICATION Spec
CONSTANTS
    Sources = {"CSV", "NASDAQ", "Databento"}
    Stocks = {x, y}
    OrderIDs = {o1, o2, o3, o4}
    NoSymbol = none
    MaxPrice = 2
    MaxQuantity = 2
    MaxOrders = 3
SYMMETRY FeedSymmetry
INVARIANTS
    NoPhantomLiquidity
    MirrorsWhileExact
    QuietWhileExact
