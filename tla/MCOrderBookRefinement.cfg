SPECIFICATION FairObservedSpec
CONSTANTS
    OrderIDs = {o1, o2, o3}
    MaxPrice = 1
    MaxQuantity = 2
    QuantityModulus = 8
PROPERTIES
    ImplementsEngine
    CallsDoAsAsked
    CallsReturn
