SPECIFICATION AgreementSpec
CONSTANTS
    LevelUpdate = "Default"
    RoundsDown = {}
    EventPrices = {0, 1, 2}
    EventQuantities = {0, 1}
    EventCounts = {1}
    MaxBatch = 3
INVARIANTS
    StrategiesAgree
    SidesAscending
