CONSTANTS
    r1 = r1
    r2 = r2
    Reqs = {r1, r2}
    Prompt <- MCPrompt
    MaxTokens <- MCMaxTokens
    SpecTokens = 1
    ModelLen = 5
    DraftLen = 5
    Depth = 2
    MaxPreempts = 1
    Hits = {0, 1}
    Forgets = TRUE
SYMMETRY Symmetry
SPECIFICATION Spec
INVARIANTS StepTrue CountsAgree Settled
CHECK_DEADLOCK FALSE
