SPECIFICATION ParserSpec
CONSTANTS
    Texts = {"tool", "newline"}
    LongTexts = {"newline"}
    ToolName = "tool"
    Deltas <- Pairs
    MaxHeld = 4
INVARIANTS StreamAsOne EventsKeepText OnlyDeclared
CHECK_DEADLOCK FALSE
