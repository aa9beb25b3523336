SPECIFICATION ObservedSpec
CONSTANTS
    OrderIDs = {o1, o2, o3}
    MaxPrice = 1
    MaxQuantity = 2
    QuantityModulus = 8
SYMMETRY IDSymmetry
PROPERTIES
    ReplaceKeepsSide
