SPECIFICATION FairSpec
CONSTANTS
    N = 5
    Prompt <- Prompts
    MaxTokens <- Limits
    Budget = 8
    MaxSeqs = 5
    Threshold = 3
    Adaptive = TRUE
    Cap = 2
    SpecTokens = 2
    NumBlocks = 13
    BlockSize = 2
    Watermark = 1
    ReserveFull = TRUE
    Caching = TRUE
    ModelLen = 14
    Depth = 2
INVARIANTS TypeOK FirstComeFirstServed CountsMatchFrames PrefillsCapped NoExtraStep NextLaneServed
PROPERTY AllFinish
CHECK_DEADLOCK FALSE
