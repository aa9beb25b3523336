SPECIFICATION Spec
CONSTANTS
    OrderIDs = {o1, o2, o3, o4}
    MaxPrice = 2
    MaxQuantity = 3
    QuantityModulus = 6
    Decimals = 1
    Tick = 3
    Half = 536870912
SYMMETRY IDSymmetry
INVARIANTS
    InFlight
    TypeOK
    RegistryMatchesLevels
    TotalsMatchOrders
    NeverCrossed
    EmptyLevelsArePassing
    QuoteDenominatorsPositive
    QuotesInsideSpread
PROPERTIES
    PriceTimePriority
    NeverOvertaken
