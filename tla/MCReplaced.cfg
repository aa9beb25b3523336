SPECIFICATION Spec
CONSTANTS
    Sources = {"NASDAQ"}
    Stocks = {x}
    OrderIDs = {o1, o2, o3}
    NoSymbol = none
    MaxPrice = 2
    MaxQuantity = 2
    MaxOrders = 3
SYMMETRY FeedSymmetry
INVARIANTS
    ReplacedOrdersLeave
