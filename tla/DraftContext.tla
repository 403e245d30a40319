---------------------------- MODULE DraftContext ----------------------------
(***************************************************************************)
(* The context cache of the DSpark draft model (overlay build).            *)
(*                                                                         *)
(* The draft attends to the last Window positions of the target's hidden   *)
(* states, which propose() copies into main_kv_cache: one ring of Window   *)
(* entries per slot, entry p % Window for position p.  A request keeps its *)
(* slot by request id, because the rows of the batch move when requests    *)
(* leave it.  Nothing else carries the context from step to step, so a     *)
(* step that is not stored leaves a hole and a slot that changes hands     *)
(* leaves the entries of its former owner.                                 *)
(*                                                                         *)
(* A step is Schedule (the scheduler's batch, in any row order) followed   *)
(* by one of the three ways the runner can end it.  An entry is the        *)
(* request, its incarnation and the position whose state it holds.         *)
(* VLLM_DSPARK_GPU_REJECTED_CONTEXT_MASK=1, as served; no prefix caching.  *)
(***************************************************************************)
EXTENDS Integers, FiniteSets, Functions

CONSTANTS Reqs,        \* request ids
          Prompts,     \* bound: lengths a prompt may have
          MaxSeqs,     \* max_num_seqs: rows of a batch, slots of the cache
          Window,      \* window_size of the draft model
          SpecTokens,  \* num_speculative_tokens
          Budget,      \* max_num_batched_tokens
          ModelLen,    \* max_model_len
          DraftLen,    \* effective_drafter_max_model_len
          Limit,       \* request -> max_tokens as a length: it stops there
          MaxGen       \* bound: how often an id is submitted

ASSUME DraftAssumption ==
    /\ IsFiniteSet(Reqs)
    /\ {MaxSeqs, Window, Budget, ModelLen} \subseteq Nat \ {0}
    /\ Prompts \subseteq 1 .. ModelLen - 1
    /\ {SpecTokens, DraftLen, MaxGen} \subseteq Nat
    /\ Limit \in [Reqs -> Nat]
    /\ SpecTokens < Window

VARIABLES
    waiting, running,  \* requests of the scheduler's two queues
    gen,               \* incarnations of an id so far
    computed,          \* num_computed_tokens, verified
    tokens,            \* num_tokens
    spec,              \* length of spec_token_ids
    batch,             \* input_batch.req_ids: row -> request
    rows,              \* num_scheduled_tokens of the step
    phase,             \* "idle" or "propose"
    slotOf,            \* _req_id_to_slot
    free,              \* _free_slots
    cache,             \* main_kv_cache
    since              \* history: positions from since[r] on are all stored

vars == <<waiting, running, gen, computed, tokens, spec, batch, rows, phase,
          slotOf, free, cache, since>>

NoSlot == -1
Empty == [req |-> "none", gen |-> 0, pos |-> 0]
Slots == 0 .. MaxSeqs - 1
Cells == 0 .. Window - 1
Entries == [req : Reqs, gen : Nat, pos : Nat] \cup {Empty}
Live == waiting \cup running
Owners == {r \in Reqs : slotOf[r] # NoSlot}
Members == Range(batch)

Init ==
    /\ waiting = {} /\ running = {}
    /\ gen = [r \in Reqs |-> 0]
    /\ computed = [r \in Reqs |-> 0]
    /\ tokens = [r \in Reqs |-> 0]
    /\ spec = [r \in Reqs |-> 0]
    /\ batch = <<>>
    /\ rows = [r \in Reqs |-> 0]
    /\ phase = "idle"
    /\ slotOf = [r \in Reqs |-> NoSlot]
    /\ free = Slots
    /\ cache = [s \in Slots |-> [c \in Cells |-> Empty]]
    /\ since = [r \in Reqs |-> 0]

-----------------------------------------------------------------------------
(* The scheduler between two steps *)

\* add_request().  An id may come back, even before the step that would have
\* taken the former request out of the batch.
Arrive(r) ==
    /\ phase = "idle" /\ r \notin Live /\ gen[r] < MaxGen
    /\ waiting' = waiting \cup {r}
    /\ gen' = [gen EXCEPT ![r] = @ + 1]
    /\ \E n \in Prompts : n < Limit[r] /\ tokens' = [tokens EXCEPT ![r] = n]
    /\ UNCHANGED <<running, computed, spec, batch, rows, phase, slotOf, free, cache, since>>

\* A stop at the limit or before it, or finish_requests() for an abort.
Finish(r) ==
    /\ phase = "idle" /\ r \in Live
    /\ waiting' = waiting \ {r}
    /\ running' = running \ {r}
    /\ computed' = [computed EXCEPT ![r] = 0]
    /\ tokens' = [tokens EXCEPT ![r] = 0]
    /\ spec' = [spec EXCEPT ![r] = 0]
    /\ since' = [since EXCEPT ![r] = 0]
    /\ UNCHANGED <<gen, batch, rows, phase, slotOf, free, cache>>

\* _preempt_request(): the tokens stay, the computed ones do not.
Preempt(r) ==
    /\ phase = "idle" /\ r \in running
    /\ running' = running \ {r}
    /\ waiting' = waiting \cup {r}
    /\ computed' = [computed EXCEPT ![r] = 0]
    /\ spec' = [spec EXCEPT ![r] = 0]
    /\ since' = [since EXCEPT ![r] = 0]
    /\ UNCHANGED <<gen, tokens, batch, rows, phase, slotOf, free, cache>>

AtMost(a, b) == IF a < b THEN a ELSE b

\* The tokens schedule() would give r: what it lacks, its drafts included,
\* kept below the model length.
Wanted(r) == AtMost(tokens[r] + spec[r] - computed[r], ModelLen - 1 - computed[r])

\* One step of schedule() and _update_states().  A running request is left
\* out only when the budget is used up before its turn, a waiting one is
\* admitted only when it is not; the rows of the batch are condensed and may be
\* reordered, so they come in any order.  check_stop() finished whatever
\* reached its limit before.
Schedule ==
    /\ phase = "idle"
    /\ \A r \in Live : tokens[r] < Limit[r]
    /\ \E S \in SUBSET Live \ {{}} :
       /\ \A r \in S : Wanted(r) > 0
       /\ Cardinality(running \cup S) <= MaxSeqs
       /\ \E n \in [S -> 1 .. Budget] :
          /\ \A r \in S : n[r] <= Wanted(r)
          /\ SumFunction(n) <= Budget
          /\ \/ \A r \in running \ S : Wanted(r) <= 0
             \/ S \subseteq running /\ SumFunction(n) = Budget
          /\ rows' = [r \in Reqs |-> IF r \in S THEN n[r] ELSE 0]
       /\ batch' \in Bijection(1 .. Cardinality(S), S)
       /\ running' = running \cup S
       /\ waiting' = waiting \ S
    /\ phase' = "propose"
    /\ UNCHANGED <<gen, computed, tokens, spec, slotOf, free, cache, since>>

-----------------------------------------------------------------------------
(* The end of a step: verification, then the drafter *)

\* Rows that survive verification: all but a suffix of the drafts.
Drafted(r) == computed[r] + rows[r] - tokens[r]
Outcomes ==
    {v \in [Reqs -> 0 .. Budget] :
       \A r \in Reqs : v[r] \in (IF rows[r] = 0 THEN {0}
                                 ELSE IF Drafted(r) > 0 THEN rows[r] - Drafted(r) .. rows[r]
                                 ELSE {rows[r]})}

Sampled(r, v) == r \in Members /\ computed[r] + v[r] >= tokens[r]

\* A request that sampled has one token more than it has computed, and drafts
\* for the next step (zeros if the drafter did not run).
Verify(v) ==
    /\ computed' = [r \in Reqs |-> computed[r] + v[r]]
    /\ tokens' = [r \in Reqs |-> IF Sampled(r, v) THEN computed[r] + v[r] + 1 ELSE tokens[r]]
    /\ spec' = [r \in Reqs |-> IF Sampled(r, v) THEN SpecTokens
                               ELSE IF r \in Members THEN 0 ELSE spec[r]]
    /\ batch' = <<>>
    /\ rows' = [r \in Reqs |-> 0]
    /\ phase' = "idle"
    /\ UNCHANGED <<waiting, running, gen>>

\* Nothing of this step was stored: history only.
Missed(v) == since' = [r \in Reqs |-> IF r \in Members THEN computed[r] + v[r] ELSE since[r]]

SeqLen(r) == computed[r] + rows[r]
FitsInDrafter == \A r \in Members : SeqLen(r) + SpecTokens <= DraftLen

\* Some sequence is too long for the drafter: propose() is not called, for
\* the whole batch.
DrafterTooShort ==
    /\ phase = "propose"
    /\ ~ FitsInDrafter
    /\ \E v \in Outcomes : Verify(v) /\ Missed(v)
    /\ UNCHANGED <<slotOf, free, cache>>

Divisible == SumFunction(rows) % Cardinality(Members) = 0

\* The guard of propose(): it returns before the slots are looked up.
SkipNonUniform ==
    /\ phase = "propose"
    /\ FitsInDrafter
    /\ ~ Divisible
    /\ \E v \in Outcomes : Verify(v) /\ Missed(v)
    /\ UNCHANGED <<slotOf, free, cache>>

\* Fault: only requests that left the scheduler give their slots back.
StaleFinished == Owners \ Live

\* _row_to_slot(): slots of requests that are not in the batch are reclaimed,
\* and new requests take the lowest free slots in row order.
Stale == Owners \ Members
Newcomers == Members \ Owners
Reclaimed == free \cup {slotOf[r] : r \in Stale}
Row(r) == CHOOSE i \in DOMAIN batch : batch[i] = r

RowToSlot ==
    \E pick \in Injection(Newcomers, Reclaimed) :
       /\ \A r \in Newcomers, s \in Reclaimed \ Range(pick) : pick[r] < s
       /\ \A r, q \in Newcomers : Row(r) < Row(q) => pick[r] < pick[q]
       /\ slotOf' = [r \in Reqs |-> IF r \in Newcomers THEN pick[r]
                                    ELSE IF r \in Stale THEN NoSlot
                                    ELSE slotOf[r]]
       /\ free' = Reclaimed \ Range(pick)

\* The ring a row is stored in and read from.
SlotOfRow(i) == slotOf'[batch[i]]

\* The first position stored for r: its segment is cut to its last Window rows.
FirstKept(r) == IF rows[r] > Window THEN SeqLen(r) - Window ELSE computed[r]

\* Fault: the rejected suffix is stored like the rest.
KeptUnmasked(r, v) == FirstKept(r) .. SeqLen(r) - 1

\* Positions stored for r: the last Window of its segment, less the rejected
\* suffix (at least one is kept).
Kept(r, v) ==
    LET first == FirstKept(r)
        last == IF computed[r] + v[r] > first THEN computed[r] + v[r] - 1 ELSE first
    IN first .. last

\* _store_main_kv_ragged() and store_main_kv(): entry p % Window of the slot.
StoreMainKV(v) ==
    cache' = [s \in Slots |-> [c \in Cells |->
        IF \E i \in DOMAIN batch : SlotOfRow(i) = s /\ \E p \in Kept(batch[i], v) : p % Window = c
        THEN LET r == batch[CHOOSE i \in DOMAIN batch : SlotOfRow(i) = s]
             IN [req |-> r, gen |-> gen[r],
                 pos |-> CHOOSE p \in Kept(r, v) : p % Window = c]
        ELSE cache[s][c]]]

\* propose(): slots, then context; the drafts are made from the rings as they
\* are after this step.
Propose ==
    /\ phase = "propose"
    /\ FitsInDrafter
    /\ Divisible
    /\ RowToSlot
    /\ \E v \in Outcomes : Verify(v) /\ StoreMainKV(v)
    /\ since' = [r \in Reqs |-> IF r \in Stale \cup Newcomers THEN computed[r] ELSE since[r]]

Next ==
    \/ \E r \in Reqs : Arrive(r) \/ Finish(r) \/ Preempt(r)
    \/ Schedule
    \/ DrafterTooShort
    \/ SkipNonUniform
    \/ Propose

Spec == Init /\ [][Next]_vars

-----------------------------------------------------------------------------
(* Properties *)

\* Every variable has its type; no request outgrows the model length, and a
\* batch holds running requests, one row each (schedule(), _update_states()).
TypeOK ==
    /\ waiting \subseteq Reqs
    /\ running \subseteq Reqs \ waiting
    /\ Cardinality(running) <= MaxSeqs
    /\ gen \in [Reqs -> 0 .. MaxGen]
    /\ computed \in [Reqs -> 0 .. ModelLen]
    /\ tokens \in [Reqs -> 0 .. ModelLen]
    /\ spec \in [Reqs -> 0 .. SpecTokens]
    /\ rows \in [Reqs -> 0 .. Budget]
    /\ phase \in {"idle", "propose"}
    /\ batch \in Injection(DOMAIN batch, Reqs)
    /\ phase = "propose" => Members \subseteq running
    /\ slotOf \in [Reqs -> Slots \cup {NoSlot}]
    /\ free \subseteq Slots
    /\ cache \in [Slots -> [Cells -> Entries]]
    /\ since \in [Reqs -> 0 .. ModelLen]

\* A slot belongs to one request or is free, never both and never neither, so
\* that no slot leaks and the index the clamp of _guard_slot_index() looks for
\* cannot arise.
SlotsPartitioned ==
    /\ \A r, q \in Owners : slotOf[r] = slotOf[q] => r = q
    /\ {slotOf[r] : r \in Owners} = Slots \ free

\* When _row_to_slot() is called there is a slot for every request that needs
\* one: pop(0) never meets an empty list, whatever left the batch or skipped
\* propose() before.
SlotsSuffice ==
    phase = "propose" => Cardinality(Newcomers) <= Cardinality(Reclaimed)

\* What the draft of r attends to: the last Window computed positions.
WindowOf(r) == {p \in 0 .. ModelLen : computed[r] - Window <= p /\ p < computed[r]}

\* Every position of the window that was stored for r since it got its slot is
\* in the ring at its place, as r's own: neither a rejected draft, another
\* request, a former request with the same id, nor a moved row has replaced it.
DraftSeesOwnWindow ==
    phase = "idle" =>
      \A r \in running \cap Owners : \A p \in WindowOf(r) :
        p >= since[r] => cache[slotOf[r]][p % Window] = [req |-> r, gen |-> gen[r], pos |-> p]

\* What the documentation of the ragged path promises: the context of every
\* step reaches the ring, so that nothing a running request computed is missing.
ContextComplete == phase = "idle" => \A r \in running : since[r] = 0

=============================================================================
