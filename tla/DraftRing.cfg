SPECIFICATION Spec
CONSTANTS
    a = a
    b = b
    c = c
    Reqs = {a, b, c}
    Prompts = {1, 3}
    MaxSeqs = 2
    Window = 2
    SpecTokens = 1
    Budget = 4
    ModelLen = 9
    DraftLen = 7
    Short = {b, c}
    ShortLimit = 2
    LongLimit = 8
    Limit <- Limits
    MaxGen = 2
SYMMETRY Alike
INVARIANTS SlotsSuffice DraftSeesOwnWindow
CHECK_DEADLOCK FALSE
