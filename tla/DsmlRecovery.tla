---------------------------- MODULE DsmlRecovery ----------------------------
(***************************************************************************)
(* The streaming DSML parser of a request with thinking, as                *)
(* hotfix-vllm-dsml-recovery leaves it.                                    *)
(*                                                                         *)
(* One class, StreamingParserEngine, is used twice: the reasoning pass     *)
(* (skip_tool_parsing) reads deltas until reasoning ends and hands what is *)
(* left of that delta to the tool pass, which reads everything after.  An  *)
(* invoke without its wrapper is held back, in either pass, until it turns *)
(* out to be a call of a declared tool, and is given back as text if not.  *)
(*                                                                         *)
(* The output is a sequence of lexemes, terminals of the configuration and *)
(* pieces of text.  A terminal arrives whole: the lexer keeps a split one  *)
(* until it is complete, also across the change of passes.  A second       *)
(* THINK_START is left out, and so are tool_choice and dropped tokens.     *)
(*                                                                         *)
(* The module ends at the events of the engines.  ParserEngine builds the  *)
(* messages of the client from them in _events_to_delta(), which may send  *)
(* text that follows a call later, out of turn or not at all, and drops    *)
(* blank text next to calls; nothing here speaks of those messages.        *)
(***************************************************************************)
EXTENDS Naturals, Sequences

CONSTANTS Texts,     \* pieces of text
          LongTexts, \* those with a newline, or too long for a name
          ToolName,  \* the piece that is the name of a tool
          Deltas,    \* bound: the deltas that may arrive
          MaxHeld    \* bound: lexemes held back

Terminals == {"THINK_END", "TOOL_START", "TOOL_END", "INVOKE_PREFIX",
              "INVOKE_NAME_END", "INVOKE_END", "FOREIGN_START", "FOREIGN_END"}

ASSUME ParserAssumption ==
    /\ LongTexts \subseteq Texts /\ ToolName \in Texts \ LongTexts
    /\ Texts \cap Terminals = {} /\ "" \notin Texts
    /\ Deltas \subseteq Seq(Texts \cup Terminals)
    /\ MaxHeld \in Nat

VARIABLES
    declared,   \* the request declares the tool
    over,       \* the stream is finished
    ended,      \* StreamState.reasoning_ended
    reasoning,  \* engine of the reasoning pass
    tool,       \* engine of the tool pass
    whole,      \* the same configuration as a single machine, for comparison
    wrapped,    \* in the last delta a wrapper was opened, or still open
    given,      \* lexemes held before the last delta, and the delta
    out, ref    \* the events of the two passes for it, and of the single machine

parserVars == <<declared, over, ended, reasoning, tool, whole, wrapped, given, out, ref>>

Fresh(st) ==
    [st |-> st, hold |-> FALSE, raw |-> <<>>, name |-> <<>>, events |-> <<>>,
     prior |-> st, closer |-> FALSE]

ParserInit ==
    /\ declared \in BOOLEAN
    /\ over = FALSE /\ ended = FALSE
    /\ reasoning = Fresh("REASONING")
    /\ tool = Fresh("CONTENT")
    /\ whole = Fresh("REASONING")
    /\ wrapped = FALSE
    /\ given = <<>> /\ out = <<>> /\ ref = <<>>

-----------------------------------------------------------------------------
(* The configuration of deepseek_v4.py *)

\* <<state, terminal, next state, events>>
Table ==
    { <<"CONTENT", "THINK_END", "CONTENT", <<>>>>,
      <<"REASONING", "THINK_END", "CONTENT", <<"reasoning_end">>>>,
      <<"REASONING", "TOOL_START", "TOOL_PREAMBLE", <<"reasoning_end">>>>,
      <<"CONTENT", "TOOL_START", "TOOL_PREAMBLE", <<>>>>,
      <<"CONTENT", "FOREIGN_START", "FOREIGN_BLOCK", <<"content">>>>,
      <<"FOREIGN_BLOCK", "FOREIGN_END", "CONTENT", <<"content">>>>,
      <<"FOREIGN_BLOCK", "TOOL_START", "TOOL_PREAMBLE", <<>>>>,
      <<"REASONING", "FOREIGN_START", "FOREIGN_REASONING_BLOCK", <<"reasoning">>>>,
      <<"FOREIGN_REASONING_BLOCK", "FOREIGN_END", "REASONING", <<"reasoning">>>>,
      <<"FOREIGN_REASONING_BLOCK", "TOOL_START", "TOOL_PREAMBLE", <<"reasoning_end">>>>,
      <<"REASONING", "INVOKE_PREFIX", "TOOL_NAME", <<"reasoning_end", "start">>>>,
      <<"CONTENT", "INVOKE_PREFIX", "TOOL_NAME", <<"start">>>>,
      <<"TOOL_PREAMBLE", "INVOKE_PREFIX", "TOOL_NAME", <<"start">>>>,
      <<"TOOL_NAME", "INVOKE_NAME_END", "TOOL_ARGS", <<>>>>,
      <<"TOOL_ARGS", "INVOKE_END", "TOOL_BETWEEN", <<"end">>>>,
      <<"TOOL_ARGS", "TOOL_END", "CONTENT", <<"end">>>>,
      <<"TOOL_BETWEEN", "INVOKE_PREFIX", "TOOL_NAME", <<"start">>>>,
      <<"TOOL_BETWEEN", "TOOL_END", "CONTENT", <<>>>> }

ToolStates == {"TOOL_PREAMBLE", "TOOL_NAME", "TOOL_ARGS", "TOOL_BETWEEN"}

States == ToolStates \cup {"CONTENT", "REASONING", "FOREIGN_BLOCK", "FOREIGN_REASONING_BLOCK"}

Transitions ==
    [st \in States |-> [t \in Terminals |-> {x \in Table : x[1] = st /\ x[2] = t}]]

\* _tool_terminals and _tool_exit_terminals
ToolTerminals == {x[2] : x \in {y \in Table : y[1] \in ToolStates \/ y[3] \in ToolStates}}
ToolExits == {x[2] : x \in {y \in Table : y[1] \in ToolStates /\ y[3] \notin ToolStates}}

\* provisional_tool_call, and commit_provisional_tool_call
Provisional(st, t) == t = "INVOKE_PREFIX" /\ st \in {"CONTENT", "REASONING"}
Commits(t) == t = "INVOKE_END"

\* content_events; text between the calls of a wrapper has none.
Kind(st) ==
    CASE st \in {"CONTENT", "FOREIGN_BLOCK"} -> "content"
      [] st \in {"REASONING", "FOREIGN_REASONING_BLOCK"} -> "reasoning"
      [] st = "TOOL_NAME" -> "name"
      [] st = "TOOL_ARGS" -> "argument"
      [] OTHER -> "dropped"

-----------------------------------------------------------------------------
(* The engine: operators that return it with the events it emits *)

As(kind, ls) == [i \in DOMAIN ls |-> <<kind, ls[i]>>]
Result(e, evs) == [e |-> e, out |-> evs]

\* _abort_recovery_hold(): all that was held, as text of the state it began in.
Abort(e) ==
    Result([Fresh(e.prior) EXCEPT !.closer = e.closer], As(Kind(e.prior), e.raw))

\* _emit_for_state(): text, or a terminal that means nothing here.  A name that
\* cannot be one is given back at once.
Text(e, l) ==
    LET held == [e EXCEPT !.raw = Append(@, l),
                          !.name = IF e.st = "TOOL_NAME" THEN Append(@, l) ELSE @,
                          !.events = Append(@, <<Kind(e.st), l>>)]
    IN IF ~ e.hold THEN Result(e, <<<<Kind(e.st), l>>>>)
       ELSE IF e.st = "TOOL_NAME" /\ l \in LongTexts
            THEN Abort([e EXCEPT !.raw = Append(@, l)])
            ELSE Result(held, <<>>)

\* _run_transition()
Run(e, t, x) == Result([e EXCEPT !.st = x[3]], [i \in DOMAIN x[4] |-> <<x[4][i], t>>])

\* _can_recover_tool_name(): the name is complete and declared by the request.
Known(e) == declared /\ e.name = <<ToolName>>

\* Fault: after a recovered call the engine waits for the next one.
CommittedBetween(e) == [Fresh("TOOL_BETWEEN") EXCEPT !.closer = TRUE]

\* After a recovered call comes text; one closer of a wrapper is expected.
Committed(e) == [Fresh("CONTENT") EXCEPT !.closer = TRUE]

\* A recovered call: its events, or in the reasoning pass all of it as content.
Commit(e, t, x, skip) ==
    Result(Committed(e),
           IF skip
           THEN (IF e.prior = "REASONING" THEN <<<<"reasoning_end", t>>>> ELSE <<>>)
                  \o As("content", Append(e.raw, t))
           ELSE e.events \o Run(e, t, x).out)

\* _advance_recovery_hold(): the name ends, or the arguments do.
Advance(e, t, x, skip) ==
    IF e.st = "TOOL_NAME" /\ Known(e)
    THEN Result([Run(e, t, x).e EXCEPT !.raw = Append(@, t), !.events = @ \o Run(e, t, x).out], <<>>)
    ELSE IF e.st = "TOOL_ARGS" /\ Commits(t) THEN Commit(e, t, x, skip)
    ELSE Abort([e EXCEPT !.raw = Append(@, t)])

\* _begin_recovery_hold()
Begin(e, t, x) ==
    Result([Run(e, t, x).e EXCEPT !.hold = TRUE, !.raw = <<t>>, !.name = <<>>,
                                  !.events = Run(e, t, x).out, !.prior = e.st], <<>>)

\* In the reasoning pass wrapped calls are text; their opener ends reasoning.
Skipped(e, t, x) ==
    IF "reasoning_end" \in {x[4][i] : i \in DOMAIN x[4]}
    THEN Result([e EXCEPT !.st = "CONTENT"], <<<<"reasoning_end", t>>, <<"content", t>>>>)
    ELSE Result(e, <<<<Kind(e.st), t>>>>)

\* _apply_transition()
Apply(e, t, x) ==
    Run([e EXCEPT !.closer = @ /\ ~ (e.st = "CONTENT" /\ x[3] \in ToolStates)], t, x)

\* A terminal without, and with, a transition from the present state.
Meaningful(e, t, x, skip) ==
    IF e.hold THEN Advance(e, t, x, skip)
    ELSE IF Provisional(e.st, t) THEN Begin(e, t, x)
    ELSE IF skip /\ t \in ToolTerminals THEN Skipped(e, t, x)
    ELSE Apply(e, t, x)

Unheld(e, t, skip) ==
    IF e.closer /\ e.st = "CONTENT" /\ t \in ToolExits
    THEN Result([e EXCEPT !.closer = FALSE], <<>>)
    ELSE IF Transitions[e.st][t] = {} THEN Text(e, t)
    ELSE Meaningful(e, t, CHOOSE x \in Transitions[e.st][t] : TRUE, skip)

\* _on_terminal(): one that cannot be in a name ends the candidate first.
OnTerminal(e, t, skip) ==
    IF e.hold /\ e.st = "TOOL_NAME" /\ Transitions[e.st][t] = {}
    THEN LET a == Abort(e) IN
         LET b == Unheld(a.e, t, skip) IN Result(b.e, a.out \o b.out)
    ELSE Unheld(e, t, skip)

\* feed()
Feed(e, ls, skip) ==
    LET f[n \in 0 .. Len(ls)] ==
          IF n = 0 THEN Result(e, <<>>)
          ELSE LET p == f[n - 1]
                   s == IF ls[n] \in Texts THEN Text(p.e, ls[n])
                        ELSE OnTerminal(p.e, ls[n], skip)
               IN Result(s.e, p.out \o s.out)
    IN f[Len(ls)]

\* Fault: what is held when the stream ends is forgotten.
FinishForgets(e) ==
    Result(Fresh("CONTENT"),
           IF e.st \in {"TOOL_NAME", "TOOL_ARGS"} THEN <<<<"end", "">>>> ELSE <<>>)

\* finish(): an unfinished candidate is text; an open call ends.  Between two
\* calls the code ends the last one again, which adds nothing to a call already
\* ended, and is left out.
FinishEngine(e) ==
    LET a == IF e.hold THEN Abort(e) ELSE Result(e, <<>>)
    IN Result([a.e EXCEPT !.st = "CONTENT"],
              a.out \o CASE a.e.st \in {"TOOL_NAME", "TOOL_ARGS"} -> <<<<"end", "">>>>
                         [] Kind(a.e.st) = "reasoning" -> <<<<"reasoning_end", "">>>>
                         [] OTHER -> <<>>)
-----------------------------------------------------------------------------
(* The two passes: parse_delta() and _flush_engine_parsers() *)

\* The elements of a sequence that belong to a set, in their order.
Only(s, S) ==
    LET f[n \in 0 .. Len(s)] ==
          IF n = 0 THEN <<>>
          ELSE IF s[n] \in S THEN Append(f[n - 1], s[n]) ELSE f[n - 1]
    IN f[Len(s)]

\* What an event carries: a lexeme, or nothing where the end of the stream made it.
Carried == Texts \cup Terminals \cup {""}

HasKind(k, evs) == \E i \in DOMAIN evs : evs[i][1] = k
OfKind(k, evs) == Only(evs, {k} \X Carried)
Values(evs) == [i \in DOMAIN evs |-> evs[i][2]]

Held == IF ended THEN tool.raw ELSE reasoning.raw

\* Fault: the reasoning pass is left as it is when reasoning ends.
HandOverUnflushed(r) == Values(OfKind("content", r.out))

\* What the tool pass is given of the delta in which reasoning ended: the
\* content the reasoning pass made of it, and what that still held.
HandOver(r) == Values(OfKind("content", r.out \o FinishEngine(r.e).out))

Small(e) == Len(e.raw) <= MaxHeld

\* parse_delta(): out is what the engines emit for the delta.
Delta(d) ==
    LET r == Feed(reasoning, d, TRUE)
        ends == HasKind("reasoning_end", r.out)
        t == IF ended THEN Feed(tool, d, FALSE)
             ELSE IF ends THEN Feed(tool, HandOver(r), FALSE) ELSE Result(tool, <<>>)
        w == Feed(whole, d, FALSE)
    IN /\ ~ over
       /\ Small(r.e) /\ Small(t.e) /\ Small(w.e)
       /\ given' = Held \o d
       /\ ended' = (ended \/ ends)
       /\ tool' = t.e
       /\ whole' = w.e
       /\ ref' = w.out
       /\ IF ended THEN out' = t.out /\ UNCHANGED reasoning
          ELSE IF ends
          THEN out' = OfKind("reasoning", r.out) \o t.out /\ reasoning' = FinishEngine(r.e).e
          ELSE out' = r.out /\ reasoning' = r.e
       /\ wrapped' = ((\E i \in DOMAIN d : d[i] = "TOOL_START")
                        \/ (wrapped /\ ~ whole.hold /\ whole.st \in ToolStates))
       /\ UNCHANGED <<declared, over>>

\* The last delta has been parsed: the pass that is active ends.
Finish ==
    LET f == FinishEngine(IF ended THEN tool ELSE reasoning)
    IN /\ ~ over
       /\ over' = TRUE
       /\ given' = Held
       /\ out' = f.out
       /\ ref' = FinishEngine(whole).out
       /\ whole' = FinishEngine(whole).e
       /\ IF ended THEN tool' = f.e /\ UNCHANGED reasoning
          ELSE reasoning' = f.e /\ UNCHANGED tool
       /\ UNCHANGED <<declared, ended, wrapped>>

ParserNext == Finish \/ \E d \in Deltas : Delta(d)

ParserSpec == ParserInit /\ [][ParserNext]_parserVars

-----------------------------------------------------------------------------
(* Properties *)

Pieces(ls) == Only(ls, Texts)

\* What the events say under a heading, without closers of wrappers.
Shown(k, evs) == Only(evs, {k} \X (Carried \ {"TOOL_END"}))

\* Delta by delta the events are those that one machine with the same table,
\* reading reasoning, answer and calls in one go, would have emitted: that two
\* passes share the work, where the deltas are cut, and whose turn it was when a
\* candidate was held back makes no difference.
StreamAsOne ==
    \A k \in {"reasoning", "content", "name", "argument", "start", "end"} :
        Shown(k, out) = Shown(k, ref)

\* Every piece of text that was read is in the events once and in order, or is
\* still held: neither a candidate held back over deltas and given back, nor the
\* hand-over, nor the end of the stream loses or repeats one.  Only text between
\* the calls of a wrapper has no event in the code; here it is one, "dropped".
EventsKeepText == Pieces(given) = Pieces(Values(out)) \o Pieces(Held)

\* A call that the events tell of although no wrapper was opened is complete and
\* its tool declared.
CallsWhole(evs) ==
    /\ HasKind("name", evs) => declared
    /\ \A i \in DOMAIN evs : evs[i][1] = "name" => evs[i][2] = ToolName
    /\ Len(OfKind("start", evs)) = Len(OfKind("end", evs))
    /\ Len(OfKind("start", evs)) = Len(OfKind("name", evs))

OnlyDeclared == ~ wrapped => CallsWhole(out)

\* What the hotfix says of itself, that the path of a correctly wrapped call is
\* unchanged: once its closer has been read, what follows is the answer again.
WrappedPathUnchanged == ended /\ whole.st = "CONTENT" => tool.st = "CONTENT"
=============================================================================
