--------------------------- MODULE ThinkingBudget ---------------------------
(***************************************************************************)
(* The thinking budget of issue 31 on the GPU: per slot of the sampler a   *)
(* budget and a flag that the request in it still reasons; one kernel that *)
(* forces the end of reasoning in the row where the budget is used up, and *)
(* one that takes the flag back when an end was accepted.                  *)
(*                                                                         *)
(* Requests come into a slot, are preempted and come back into any slot    *)
(* with what the scheduler knows of their output, and leave; the rows of a *)
(* step are those of all its requests, one after the other, each with      *)
(* speculative tokens of which a prefix is accepted. With asynchronous     *)
(* scheduling the output of the last frame is still out when a request is  *)
(* preempted; it is delivered before the request comes back, or discarded  *)
(* when the cache is reset.                                                *)
(***************************************************************************)
EXTENDS Integers, Sequences, FiniteSets, SequencesExt

CONSTANTS
    Reqs,
    Slots,       \* rows of the sampler's state
    Budgets,     \* values of thinking_token_budget
    SpecSteps,   \* drafts per request and step
    NoSlot,
    MaxLen       \* bound: tokens generated by a request

None == -1
End == "end"        \* the end marker of reasoning
Other == "other"    \* any other token
TokenKinds == {End, Other}

\* decode_query_len, given to the sampler as num_speculative_tokens
MaxLookback == SpecSteps + 1

ASSUME BudgetAssumption ==
    /\ IsFiniteSet(Reqs) /\ NoSlot \notin Slots
    /\ Budgets \subseteq Nat
    /\ SpecSteps \in Nat /\ MaxLen \in Nat

VARIABLES
    state,    \* "new", "running", "preempted"
    wish,     \* thinking_token_budget of a request, or None
    opens,    \* its prompt ends in the start marker
    gen,      \* its output as the scheduler knows it
    pend,     \* output of frames that are still out
    slot,     \* its req_idx
    budget,   \* budget, by slot
    active,   \* active, by slot
    use,      \* use_budget, by slot
    batch,    \* the requests of the step, in the order of their rows
    draftTokens, \* the drafts of each
    forced    \* the rows where the end was forced

reqVars == <<state, wish, opens, gen, pend, slot>>
slotVars == <<budget, active, use>>
stepVars == <<batch, draftTokens, forced>>
budgetVars == <<reqVars, slotVars, stepVars>>

BudgetInit ==
    /\ state = [r \in Reqs |-> "new"]
    /\ wish = [r \in Reqs |-> None]
    /\ opens = [r \in Reqs |-> FALSE]
    /\ gen = [r \in Reqs |-> <<>>] /\ pend = [r \in Reqs |-> <<>>]
    /\ slot = [r \in Reqs |-> NoSlot]
    /\ budget = [s \in Slots |-> None]
    /\ active = [s \in Slots |-> FALSE]
    /\ use = [s \in Slots |-> FALSE]
    /\ batch = <<>> /\ draftTokens = [r \in Reqs |-> <<>>] /\ forced = {}

Text(r) == gen[r] \o pend[r]

-----------------------------------------------------------------------------
(* add_request(): a new request, or a preempted one that comes back *)

\* Fault: a request that comes back is taken to reason still.
ActiveOnAddAlways(r, b, o) == b # None /\ o

\* Only the suffix that was generated is looked at.
ActiveOnAdd(r, b, o) == b # None /\ o /\ End \notin ToSet(gen[r])

AddRequest(r, s, b, o) ==
    /\ s \notin {slot[q] : q \in Reqs}
    /\ state' = [state EXCEPT ![r] = "running"]
    /\ slot' = [slot EXCEPT ![r] = s]
    /\ budget' = [budget EXCEPT ![s] = b]
    /\ active' = [active EXCEPT ![s] = ActiveOnAdd(r, b, o)]
    /\ use' = [use EXCEPT ![s] = b # None]
    /\ UNCHANGED <<gen, pend, stepVars>>

Arrive(r, s, b, o) ==
    /\ batch = <<>> /\ state[r] = "new"
    /\ wish' = [wish EXCEPT ![r] = b]
    /\ opens' = [opens EXCEPT ![r] = o]
    /\ AddRequest(r, s, b, o)

\* One frame can be out; it is back before the scheduler's next turn.
Resume(r, s) ==
    /\ batch = <<>> /\ state[r] = "preempted" /\ pend[r] = <<>>
    /\ AddRequest(r, s, wish[r], opens[r])
    /\ UNCHANGED <<wish, opens>>

\* The slot keeps what it held, and frames that are out still count.
Preempt(r) ==
    /\ batch = <<>> /\ state[r] = "running"
    /\ state' = [state EXCEPT ![r] = "preempted"]
    /\ slot' = [slot EXCEPT ![r] = NoSlot]
    /\ UNCHANGED <<wish, opens, gen, pend, slotVars, stepVars>>

\* reset_prefix_cache() with reset_running_requests: the frames are discarded.
ResetRunning ==
    /\ batch = <<>>
    /\ LET running == {r \in Reqs : state[r] = "running"}
       IN  /\ running # {}
           /\ state' = [r \in Reqs |-> IF r \in running THEN "preempted" ELSE state[r]]
           /\ slot' = [r \in Reqs |-> IF r \in running THEN NoSlot ELSE slot[r]]
           /\ pend' = [r \in Reqs |-> IF r \in running THEN <<>> ELSE pend[r]]
    /\ UNCHANGED <<wish, opens, gen, slotVars, stepVars>>

\* Stopped or cancelled, and forgotten: the next request of that name is another.
Finish(r) ==
    /\ batch = <<>> /\ state[r] # "new"
    /\ state' = [state EXCEPT ![r] = "new"]
    /\ slot' = [slot EXCEPT ![r] = NoSlot]
    /\ wish' = [wish EXCEPT ![r] = None]
    /\ opens' = [opens EXCEPT ![r] = FALSE]
    /\ gen' = [gen EXCEPT ![r] = <<>>] /\ pend' = [pend EXCEPT ![r] = <<>>]
    /\ UNCHANGED <<slotVars, stepVars>>

\* update_from_output() of the frames that were out
Deliver(r) ==
    /\ batch = <<>> /\ pend[r] # <<>>
    /\ gen' = [gen EXCEPT ![r] = Text(r)]
    /\ pend' = [pend EXCEPT ![r] = <<>>]
    /\ UNCHANGED <<state, wish, opens, slot, slotVars, stepVars>>

-----------------------------------------------------------------------------
(* apply(): the rows of a step *)

\* A row: whose it is, which token of the output it samples, and its input,
\* the token before that one.  (The first input may be of the prompt.)
RowsOf(r, toks) ==
    [k \in 1 .. Len(toks) + 1 |->
        [slot |-> slot[r], req |-> r, row |-> k, index |-> Len(Text(r)) + k - 1,
         input |-> IF k > 1 THEN toks[k - 1]
                   ELSE IF Text(r) = <<>> THEN Other ELSE Last(Text(r))]]

\* Fault: rows of other requests count as well.
SeenEndAnyone(rows, i) ==
    \E back \in 0 .. MaxLookback - 1 : i - back >= 1 /\ rows[i - back].input = End

\* The path of drafts that leads to the row has an end.
SeenEnd(rows, i) ==
    \E back \in 0 .. MaxLookback - 1 :
        i - back >= 1 /\ rows[i - back].slot = rows[i].slot /\ rows[i - back].input = End

\* _force_thinking_end_kernel, one program per row
Forces(rows, i) ==
    /\ active[rows[i].slot] /\ budget[rows[i].slot] >= 0
    /\ ~ SeenEnd(rows, i)
    /\ rows[i].index = budget[rows[i].slot]

\* No row is looked at unless a request of the batch has a budget.
Apply(order, toks) ==
    LET rows == FlattenSeq([k \in 1 .. Len(order) |-> RowsOf(order[k], toks[order[k]])])
    IN  /\ batch' = order
        /\ draftTokens' = toks
        /\ forced' = IF \E k \in 1 .. Len(order) : use[slot[order[k]]]
                     THEN {<<rows[i].req, rows[i].row>> :
                              i \in {j \in 1 .. Len(rows) : Forces(rows, j)}}
                     ELSE {}

\* A step with some of the running requests, in any order, each with as many
\* drafts as it has room for.
Begin(order, toks) ==
    /\ batch = <<>>
    /\ \A k \in 1 .. Len(order) :
           state[order[k]] = "running" /\ Len(Text(order[k])) + Len(toks[order[k]]) < MaxLen
    /\ Apply(order, toks)
    /\ UNCHANGED <<reqVars, slotVars>>

-----------------------------------------------------------------------------
(* The rejection sampler and observe_accepted() *)

\* A forced row gives the end, whatever was drafted.
Fits(r, k, t) == <<r, k>> \in forced => t = End

\* _observe_accepted_end_kernel
ActiveAfter(r, toks) == active[slot[r]] /\ End \notin ToSet(toks)

\* The first request of the step that has not been sampled: n drafts are
\* accepted and t is sampled in the place after them.
Accept(n, t) ==
    /\ batch # <<>>
    /\ LET r == Head(batch)
           toks == Append(SubSeq(draftTokens[r], 1, n), t)
       IN  /\ n <= Len(draftTokens[r])
           /\ \A k \in 1 .. n + 1 : Fits(r, k, toks[k])
           /\ pend' = [pend EXCEPT ![r] = @ \o toks]
           /\ active' = [active EXCEPT ![slot[r]] = ActiveAfter(r, toks)]
           /\ forced' = {f \in forced : f[1] # r}
           /\ draftTokens' = [draftTokens EXCEPT ![r] = <<>>]
    /\ batch' = Tail(batch)
    /\ UNCHANGED <<state, wish, opens, gen, slot, budget, use>>

Orders == {o \in BoundedSeq(Reqs, Cardinality(Reqs)) : o # <<>> /\ IsInjective(o)}

\* Drafts for the requests of a step; there are none for the others.
DraftsFor(order) ==
    {[r \in Reqs |-> IF r \in DOMAIN f THEN f[r] ELSE <<>>] :
        f \in [ToSet(order) -> BoundedSeq(TokenKinds, SpecSteps)]}

BudgetNext ==
    \/ \E r \in Reqs, s \in Slots :
           \/ \E b \in Budgets \cup {None}, o \in BOOLEAN : Arrive(r, s, b, o)
           \/ Resume(r, s)
    \/ \E r \in Reqs : Preempt(r) \/ Finish(r) \/ Deliver(r)
    \/ ResetRunning
    \/ \E order \in Orders : \E toks \in DraftsFor(order) : Begin(order, toks)
    \/ \E n \in 0 .. SpecSteps, t \in TokenKinds : Accept(n, t)

BudgetSpec == BudgetInit /\ [][BudgetNext]_budgetVars

-----------------------------------------------------------------------------
\* A request that was let in with a budget, after a prompt that opens the
\* reasoning, ends it within the budget: once its text is longer than that, the
\* end is among the first budget + 1 tokens, whatever was drafted, rejected and
\* preempted, and whoever had its slot or the rows beside its rows.  (The end is
\* forced in the row whose index equals the budget and in no later one, so a row
\* passed over is never made good.)
BudgetKept ==
    \A r \in Reqs :
        wish[r] # None /\ opens[r] /\ Len(Text(r)) > wish[r] =>
            End \in ToSet(SubSeq(Text(r), 1, wish[r] + 1))

\* The end is forced only on a request that still reasons: where the drafts
\* before a forced row can all be accepted, the request has a budget, opened its
\* reasoning and has not ended it, neither in its text nor in those drafts.  (The
\* slot may have been another request's, and the flag of a request that comes
\* back is made anew from the part of its output the scheduler has.)
ForcedWhileReasoning ==
    \A k \in 1 .. Len(batch) :
        LET r == batch[k]
        IN  \A row \in 1 .. Len(draftTokens[r]) + 1 :
                /\ <<r, row>> \in forced
                /\ \A j \in 1 .. row - 1 : Fits(r, j, draftTokens[r][j])
                => /\ wish[r] # None /\ opens[r]
                   /\ End \notin ToSet(Text(r) \o SubSeq(draftTokens[r], 1, row - 1))
=============================================================================
