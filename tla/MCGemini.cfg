SPECIFICATION GeminiSpec
CONSTANTS
    OrderIDs = {0, 1, 2}
    MaxPrice = 2
    MaxQuantity = 3
    QuantityModulus = 4
    LevelUpdate = "Gemini"
    RoundsDown = {3, 6, 12, 24}
    Strategy = "MergeEvents"
    BatchLimit = 2
    MaxRequests = 3
INVARIANTS
    LevelIsItsOrder
    BookMirrorsFeed
    ScreenIsTheExchange
