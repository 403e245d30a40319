SPECIFICATION ParserSpec
CONSTANTS
    Texts = {"tool", "newline"}
    LongTexts = {"newline"}
    ToolName = "tool"
    Deltas <- Batches
    MaxHeld = 5
INVARIANT WrappedPathUnchanged
CHECK_DEADLOCK FALSE
