--------------------------- MODULE MCDsmlRecovery ---------------------------
(* DsmlRecovery for TLC: deltas of one or two lexemes, or also the output   *)
(* of a whole wrapped call in one.                                          *)
EXTENDS DsmlRecovery

Lexemes == Texts \cup Terminals
Pairs == [1 .. 1 -> Lexemes] \cup [1 .. 2 -> Lexemes]

WholeCall == <<"TOOL_START", "INVOKE_PREFIX", ToolName, "INVOKE_NAME_END", "INVOKE_END", "TOOL_END">>
Batches == [1 .. 1 -> Lexemes] \cup {WholeCall}
=============================================================================
