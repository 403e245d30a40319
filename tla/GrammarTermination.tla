------------------------- MODULE GrammarTermination -------------------------
(***************************************************************************)
(* One request with structured output and speculative tokens, with the     *)
(* hotfixes of issues 136 and 210 (termination, drafts after the end of    *)
(* reasoning) and the grammar-advance hotfix applied.                      *)
(*                                                                         *)
(* A step filters the drafts, fills one row of the bitmask per position    *)
(* while it advances the matcher through the drafts, rolls the matcher     *)
(* back, samples under the rows and advances the matcher by what was       *)
(* accepted.  The grammar is an automaton; while the model reasons, up to  *)
(* and including the marker, it is not consulted.                          *)
(*                                                                         *)
(* A step's bitmask is computed after the update of the step before, with  *)
(* asynchronous scheduling too: the engine core defers such a step.        *)
(***************************************************************************)
EXTENDS Integers, Sequences, SequencesExt

CONSTANTS
    Tokens,      \* the grammar's tokens
    Marker,      \* end of reasoning
    Pad,         \* -1 in the place of a draft
    Eos,         \* the stop token
    States,      \* of the grammar
    Start, Final,
    Reject,      \* no state
    Delta,       \* [States \X Tokens -> States \cup {Reject}]
    SpecTokens,  \* drafts per step
    Async,       \* drafts are padded to the scheduled number
    MaxTokens    \* max_tokens of the request

Vocabulary == Tokens \cup {Marker}

ASSUME GrammarAssumption ==
    /\ Eos \in Tokens /\ Marker \notin Tokens /\ Pad \notin Vocabulary
    /\ {Start, Final} \subseteq States /\ Start # Final /\ Reject \notin States
    /\ Delta \in [States \X Tokens -> States \cup {Reject}]
    /\ \A t \in Tokens : Delta[Final, t] = Reject
    /\ \A s \in States \ {Final} : \E t \in Tokens : Delta[s, t] # Reject
    /\ SpecTokens \in Nat /\ MaxTokens \in Nat \ {0} /\ Async \in BOOLEAN

VARIABLES
    hist,        \* the matcher: the state after each token it has accepted
    processed,   \* num_processed_tokens
    terminated,  \* _is_terminated
    out,         \* output_token_ids
    ended,       \* reasoning_ended
    endIndex,    \* tokens up to reasoning_end_token_index, or 0
    status,      \* "running", "finished", "error" (FSM), "assert" (exception)
    drafts,      \* scheduled_spec_decode_tokens
    rows,        \* rows of the bitmask, as sets of tokens
    apply,       \* apply_bitmask
    window,      \* post_reasoning_end_in_window
    advanced,    \* state_advancements
    new,         \* tokens sampled, later those to advance the grammar by
    pc,
    reasons,     \* the request starts with reasoning
    stops        \* it stops at Eos (no ignore_eos)

matcher == <<hist, processed, terminated>>
request == <<out, ended, endIndex, status, reasons, stops>>
mask == <<drafts, rows, apply, window, advanced>>
vars == <<matcher, request, mask, new, pc>>

Init ==
    /\ hist = <<Start>> /\ processed = 0 /\ terminated = FALSE
    /\ out = <<>>
    /\ reasons \in BOOLEAN /\ ended = ~reasons /\ endIndex = 0
    /\ stops \in BOOLEAN
    /\ status = "running"
    /\ drafts = <<>> /\ rows = <<>>
    /\ apply = FALSE /\ window = FALSE /\ advanced = 0
    /\ new = <<>>
    /\ pc = "idle"

-----------------------------------------------------------------------------
(* The matcher *)

Step(s, t) == IF t \in Tokens THEN Delta[s, t] ELSE Reject

\* fill_next_token_bitmask()
Allowed(s) == {t \in Tokens : Step(s, t) # Reject}

\* accept_tokens() of one token
AcceptToken(t) ==
    /\ hist' = Append(hist, Step(Last(hist), t))
    /\ processed' = processed + 1
    /\ terminated' = (Step(Last(hist), t) = Final)

\* validate_tokens(): the longest prefix the matcher accepts, up to the token
\* that terminates it.
IsRun(s, toks) ==
    \E run \in [0 .. Len(toks) -> States] :
        /\ run[0] = s
        /\ \A k \in 1 .. Len(toks) : run[k - 1] # Final /\ Step(run[k - 1], toks[k]) = run[k]

ValidLength(toks) ==
    IF terminated THEN 0
    ELSE CHOOSE n \in 0 .. Len(toks) :
             /\ IsRun(Last(hist), SubSeq(toks, 1, n))
             /\ n < Len(toks) => ~ IsRun(Last(hist), SubSeq(toks, 1, n + 1))

-----------------------------------------------------------------------------
(* update_draft_token_ids() and update_draft_token_ids_in_output() *)

\* should_advance() looks for the marker in the last token, too, but that has
\* been looked at when it was appended.
Filtered(toks) ==
    IF ~ ended THEN toks
    ELSE SubSeq(toks, 1, ValidLength(toks))
         \o (IF Async THEN [k \in 1 .. Len(toks) - ValidLength(toks) |-> Pad] ELSE <<>>)

Draft(toks) ==
    /\ pc = "idle" /\ status = "running"
    /\ drafts' = Filtered(toks)
    /\ rows' = <<>> /\ apply' = ended /\ window' = FALSE /\ advanced' = 0
    /\ pc' = "mask"
    /\ UNCHANGED <<matcher, request, new>>

-----------------------------------------------------------------------------
(* grammar_bitmask(), position by position *)

\* _fill_bitmasks()
Row(on) == IF on /\ ~ terminated THEN Allowed(Last(hist)) ELSE Vocabulary

token == drafts[Len(rows) + 1]

FillRow ==
    /\ pc = "mask" /\ Len(rows) < Len(drafts)
    /\ rows' = Append(rows, Row(apply))

\* -1: what follows is not constrained.
MaskPad ==
    /\ FillRow /\ token = Pad
    /\ apply' = FALSE
    /\ UNCHANGED <<matcher, request, drafts, window, advanced, new, pc>>

\* The marker: what follows is constrained, the marker is not grammar.
EndsReasoning == ~ ended /\ ~ apply /\ token = Marker

MaskMarker ==
    /\ FillRow /\ EndsReasoning
    /\ apply' = TRUE /\ window' = TRUE
    /\ UNCHANGED <<matcher, request, drafts, advanced, new, pc>>

\* The matcher takes the draft, so that the next row is the one after it.
MaskAdvance ==
    /\ FillRow /\ token # Pad /\ ~ EndsReasoning
    /\ apply /\ ~ terminated
    /\ Step(Last(hist), token) # Reject
    /\ AcceptToken(token)
    /\ advanced' = advanced + 1
    /\ UNCHANGED <<request, drafts, apply, window, new, pc>>

\* Drafts of the window of the marker were not filtered; others were.
MaskReject ==
    /\ FillRow /\ token # Pad /\ ~ EndsReasoning
    /\ apply /\ ~ terminated
    /\ Step(Last(hist), token) = Reject
    /\ IF window THEN UNCHANGED <<status, pc>> ELSE status' = "assert" /\ pc' = "idle"
    /\ UNCHANGED <<matcher, out, ended, endIndex, reasons, stops, drafts, apply, window,
                   advanced, new>>

MaskFree ==
    /\ FillRow /\ token # Pad /\ ~ EndsReasoning
    /\ ~ apply \/ terminated
    /\ UNCHANGED <<matcher, request, drafts, apply, window, advanced, new, pc>>

\* Fault: only what held at the start of the step counts for the last row.
LastRowAppliesAtStart == ended

\* bonus_apply
LastRowApplies == ended \/ apply

ProcessedAfterRollback == processed - advanced

\* Fault: the cached flag is not taken back, as before the hotfix.
TerminatedAfterRollbackKept == terminated

\* is_terminated() of the matcher
TerminatedAfterRollback == hist[Len(hist) - advanced] = Final

\* The row of the bonus token, then rollback().
MaskLast ==
    /\ pc = "mask" /\ Len(rows) = Len(drafts)
    /\ rows' = Append(rows, Row(LastRowApplies))
    /\ IF advanced > 0
       THEN /\ hist' = SubSeq(hist, 1, Len(hist) - advanced)
            /\ processed' = ProcessedAfterRollback
            /\ terminated' = TerminatedAfterRollback
       ELSE UNCHANGED matcher
    /\ pc' = "sample"
    /\ UNCHANGED <<request, drafts, apply, window, advanced, new>>

-----------------------------------------------------------------------------
(* The sampler, and update_from_output() *)

\* n drafts are accepted and t is sampled in the place after them: all of them
\* are tokens that their rows allow.
Sample(n, t) ==
    /\ pc = "sample" /\ n <= Len(drafts)
    /\ \A k \in 1 .. n : drafts[k] \in rows[k]
    /\ t \in rows[n + 1]
    /\ new' = Append(SubSeq(drafts, 1, n), t)
    /\ pc' = "update"
    /\ UNCHANGED <<matcher, request, mask>>

\* The request was preempted while the frame was out: its tokens are dropped.
Discard ==
    /\ pc = "update"
    /\ pc' = "idle"
    /\ new' = <<>>
    /\ UNCHANGED <<matcher, request, mask>>

\* check_stop(), token by token: what is appended ends with the token that
\* stops the request.
StopsAt(k) == (stops /\ new[k] = Eos) \/ Len(out) + k = MaxTokens

Appended ==
    IF \E k \in 1 .. Len(new) : StopsAt(k)
    THEN SubSeq(new, 1, CHOOSE k \in 1 .. Len(new) :
                            StopsAt(k) /\ \A m \in 1 .. k - 1 : ~ StopsAt(m))
    ELSE new

\* _find_reasoning_end_index(), from the tokens appended
MarkerIn(toks) ==
    CHOOSE k \in 1 .. Len(toks) : toks[k] = Marker /\ \A m \in 1 .. k - 1 : toks[m] # Marker

\* trim_reasoning_for_advance()
Trimmed(toks, index) ==
    IF index > Len(out) THEN SubSeq(toks, index - Len(out) + 1, Len(toks)) ELSE toks

Update ==
    /\ pc = "update"
    /\ out' = out \o Appended
    /\ status' = IF \E k \in 1 .. Len(new) : StopsAt(k) THEN "finished" ELSE status
    /\ ended' = (ended \/ Marker \in ToSet(Appended))
    /\ endIndex' = IF ~ ended /\ ended' THEN Len(out) + MarkerIn(Appended) ELSE endIndex
    /\ new' = IF ended' THEN Trimmed(Appended, endIndex') ELSE <<>>
    /\ pc' = "advance"
    /\ UNCHANGED <<matcher, mask, reasons, stops>>

\* Fault: tokens after the one that terminates the grammar are offered to it.
AdvanceEndsLate == new = <<>>

\* accept_tokens() returns: no token is left, or the grammar has terminated.
AdvanceEnds == new = <<>> \/ terminated

\* accept_tokens() of the tokens that are not reasoning
Advance ==
    /\ pc = "advance"
    /\ IF AdvanceEnds
       THEN pc' = "idle" /\ new' = <<>> /\ UNCHANGED <<matcher, status>>
       ELSE IF Step(Last(hist), Head(new)) # Reject
       THEN AcceptToken(Head(new)) /\ new' = Tail(new) /\ UNCHANGED <<status, pc>>
       ELSE status' = "error" /\ pc' = "idle" /\ new' = <<>> /\ UNCHANGED matcher
    /\ UNCHANGED <<out, ended, endIndex, reasons, stops, mask>>

Next ==
    \/ \E n \in 0 .. SpecTokens : \E toks \in [1 .. n -> Vocabulary] : Draft(toks)
    \/ MaskPad \/ MaskMarker \/ MaskAdvance \/ MaskReject \/ MaskFree \/ MaskLast
    \/ \E n \in 0 .. SpecTokens, t \in Vocabulary : Sample(n, t)
    \/ Update \/ Discard \/ Advance

Spec == Init /\ [][Next]_vars

-----------------------------------------------------------------------------
(* Properties *)

\* The part of a text that is not reasoning.
InContent(text) == ~ reasons \/ Marker \in ToSet(text)

Content(text) ==
    IF ~ reasons THEN text
    ELSE IF Marker \in ToSet(text) THEN SubSeq(text, MarkerIn(text) + 1, Len(text))
    ELSE <<>>

\* Between two steps the matcher stands where the content of the output has
\* brought it, up to the token that ended the grammar; no content was ever
\* rejected, and no draft that was not filtered raised the exception.
FollowsOutput ==
    pc = "idle" =>
        LET c == Content(out) IN
        /\ status \in {"running", "finished"}
        /\ hist[1] = Start /\ Len(hist) = processed + 1 /\ processed <= Len(c)
        /\ \A k \in 1 .. processed : hist[k] # Final /\ Step(hist[k], c[k]) = hist[k + 1]
        /\ terminated = (hist[processed + 1] = Final)
        /\ terminated \/ processed = Len(c)

\* Where the grammar is after a text.
StateAfter(text) ==
    LET c == Content(text)
        state[k \in 0 .. Len(c)] ==
            IF k = 0 THEN Start
            ELSE IF state[k - 1] = Final THEN Final ELSE Step(state[k - 1], c[k])
    IN  state[Len(c)]

\* The sampler gets, for every position that it can reach, exactly the tokens
\* the grammar allows after the output and the drafts before that position:
\* all of them while the model reasons and when the grammar has ended.
MasksExact ==
    pc = "sample" =>
        \A k \in 1 .. Len(rows) :
            (\A m \in 1 .. k - 1 : drafts[m] \in rows[m]) =>
                LET text == out \o SubSeq(drafts, 1, k - 1)
                IN  rows[k] = IF InContent(text) /\ StateAfter(text) # Final
                              THEN Allowed(StateAfter(text)) ELSE Vocabulary
=============================================================================
