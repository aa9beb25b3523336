SPECIFICATION PipelineSpec
CONSTANTS
    LevelUpdate = "Default"
    RoundsDown = {}
    OrderIDs = {o1, o2, o3}
    MaxPrice = 1
    MaxQuantity = 1
    QuantityModulus = 8
    Strategy = "MergeEvents"
    BatchLimit = 2
    MaxRequests = 3
INVARIANTS
    SnapshotPlusPendingIsBook
    ScreenNeverCrossed
PROPERTIES
    ScreenConverges
