SPECIFICATION Spec
CONSTANTS
    Tokens <- MCTokens
    Marker = "marker"
    Pad = "pad"
    Eos = "eos"
    States <- MCStates
    Start = "open"
    Final = "done"
    Reject = "none"
    Delta <- MCDelta
    SpecTokens = 3
    Async = TRUE
    MaxTokens = 5
CHECK_DEADLOCK FALSE
INVARIANTS MasksExact FollowsOutput
