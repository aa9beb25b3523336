SPECIFICATION FairSpec
CONSTANTS
    MaxFrames = 2
    MaxChars = 6
    Missing = {0, 1, 2, 24, 37}
    MaxText = 5
    Decimals = 2
    Half = 2048
    WordLimit = 50
    MaxID = 2
INVARIANTS
    EveryCompleteMessageDelivered
    ReadsStayInFrame
    EveryLineDelivered
    NumberIsItsText
    PriceParsesBack
    LinesBecomeTheirMessage
PROPERTIES
    ReadingEnds
