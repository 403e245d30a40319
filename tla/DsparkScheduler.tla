--------------------------- MODULE DsparkScheduler ---------------------------
(***************************************************************************)
(* vLLM's v1 Scheduler with the admission gate of issue 27, the decode     *)
(* floor of issue 43 and, optionally, the adaptive prefill chunk.          *)
(*                                                                         *)
(* schedule() and update_from_output() run in one thread: each loop        *)
(* iteration is an action, `phase` says which loop is running, and         *)
(* arrivals and aborts come only between calls (phase "idle").  A frame is *)
(* a batch handed to the workers whose output has not come back; with      *)
(* async scheduling (Depth = 2) a step is scheduled while the frame before *)
(* it is still out.  Tokens are counted, never named; KV blocks are        *)
(* counted too, without sharing between live requests.                     *)
(* FCFS policy, no connector, encoder input, LoRA, pipeline parallelism or *)
(* grammar.                                                                *)
(***************************************************************************)
EXTENDS Integers, Sequences, FiniteSets, SequencesExt

CONSTANTS N,            \* bound: requests that arrive, in the order 1, 2, ...
          Prompt,       \* Prompt[r]: num_prompt_tokens
          MaxTokens,    \* MaxTokens[r]: sampling max_tokens
          Budget,       \* max_num_batched_tokens
          MaxSeqs,      \* max_num_seqs
          Threshold,    \* long_prefill_token_threshold, 0 for none
          Adaptive,     \* the adaptive-chunk hotfix is applied
          Cap,          \* DSPARK_MAX_INFLIGHT_PREFILLS
          SpecTokens,   \* num_speculative_tokens
          NumBlocks,    \* KV blocks of the pool
          BlockSize,    \* tokens per block
          Watermark,    \* blocks an admission must leave free
          ReserveFull,  \* scheduler_reserve_full_isl
          Caching,      \* prefix caching: an admission may find cached blocks
          ModelLen,     \* max_model_len
          Depth         \* frames in flight: 1 synchronous, 2 asynchronous

Reqs == 1 .. N

ASSUME SchedulerAssumption ==
    /\ N \in Nat
    /\ Prompt \in [Reqs -> Nat \ {0}]
    /\ MaxTokens \in [Reqs -> Nat \ {0}]
    /\ {Budget, MaxSeqs, Cap, NumBlocks, BlockSize, ModelLen} \subseteq Nat \ {0}
    /\ {Threshold, SpecTokens, Watermark} \subseteq Nat
    /\ {Adaptive, ReserveFull, Caching} \subseteq BOOLEAN
    /\ Depth \in {1, 2}
    \* A padded decode request is never cut (the deployment has 1024 and 6).
    /\ Threshold = 0 \/ Threshold > SpecTokens

Async == Depth = 2

VARIABLES
    running, waiting,  \* the two queues
    status,            \* request status; "new" has not arrived
    outputs,           \* number of output tokens
    computed,          \* num_computed_tokens
    holders,           \* num_output_placeholders
    drafts,            \* length of spec_token_ids
    chunk,             \* is_prefill_chunk
    blocks,            \* KV blocks held
    inflight,          \* _inflight_prefills
    frames,            \* scheduler outputs whose results are not back, oldest first
    \* locals of schedule()
    phase,             \* "idle", "running", "waiting", "finish"; "update"
    idx,               \* req_index + 1
    want,              \* num_new_tokens of the request whose slots are sought
    budget,            \* token_budget
    sched,             \* num_scheduled_tokens, 0 when absent
    spec,              \* lengths in scheduled_spec_decode_tokens
    prefill,           \* prefill_scheduled
    preempted,         \* preempted_reqs is not empty
    admitted           \* len(scheduled_new_reqs) + len(scheduled_resumed_reqs)

reqVars  == <<status, outputs, computed, holders, drafts, chunk, blocks>>
stepVars == <<idx, want, budget, sched, spec, prefill, preempted, admitted>>
vars == <<running, waiting, reqVars, inflight, frames, phase, stepVars>>

Zeros == [r \in Reqs |-> 0]

Init ==
    /\ running = <<>>
    /\ waiting = <<>>
    /\ status = [r \in Reqs |-> "new"]
    /\ outputs = Zeros
    /\ computed = Zeros
    /\ holders = Zeros
    /\ drafts = Zeros
    /\ chunk = [r \in Reqs |-> FALSE]
    /\ blocks = Zeros
    /\ inflight = {}
    /\ frames = <<>>
    /\ phase = "idle"
    /\ idx = 1
    /\ want = 0
    /\ budget = 0
    /\ sched = Zeros
    /\ spec = Zeros
    /\ prefill = FALSE
    /\ preempted = FALSE
    /\ admitted = 0

-----------------------------------------------------------------------------
(* Counts *)

Lesser(a, b) == IF a < b THEN a ELSE b
Greater(a, b) == IF a < b THEN b ELSE a

NumTokens(r) == Prompt[r] + outputs[r]
Without(q, r) == RemoveAt(q, CHOOSE i \in 1 .. Len(q) : q[i] = r)

\* Blocks that hold n tokens, at most the model length.
BlocksFor(n) == (Lesser(n, ModelLen) + BlockSize - 1) \div BlockSize
FreeBlocks == NumBlocks - SumFunction(blocks)

\* allocate_slots: blocks for the tokens and the draft's lookahead slots.
Slots(tokens) == BlocksFor(tokens + SpecTokens)
Fits(r, tokens, spare) == Slots(tokens) - blocks[r] + spare <= FreeBlocks
Allocate(r, tokens) == [blocks EXCEPT ![r] = Greater(@, Slots(tokens))]

-----------------------------------------------------------------------------
(* Between engine steps *)

\* add_request
Arrive(r) ==
    /\ phase = "idle"
    /\ status[r] = "new"
    /\ \A q \in 1 .. r - 1 : status[q] # "new"
    /\ status' = [status EXCEPT ![r] = "waiting"]
    /\ waiting' = Append(waiting, r)
    /\ UNCHANGED <<running, outputs, computed, holders, drafts, chunk, blocks,
                   inflight, frames, phase, stepVars>>

\* The request object is dropped and its blocks are freed (_free_request).
Free(r) ==
    /\ status' = [status EXCEPT ![r] = "finished"]
    /\ outputs' = [outputs EXCEPT ![r] = 0]
    /\ computed' = [computed EXCEPT ![r] = 0]
    /\ holders' = [holders EXCEPT ![r] = 0]
    /\ drafts' = [drafts EXCEPT ![r] = 0]
    /\ chunk' = [chunk EXCEPT ![r] = FALSE]
    /\ blocks' = [blocks EXCEPT ![r] = 0]
    /\ inflight' = inflight \ {r}

\* Fault: a request that stops while preempted stays in the waiting queue.
DequeueNotPreempted(r) ==
    /\ running' = IF status[r] = "running" THEN Without(running, r) ELSE running
    /\ waiting' = IF status[r] = "waiting" THEN Without(waiting, r) ELSE waiting

\* The queue to take a request from is chosen by its status.
Dequeue(r) ==
    IF status[r] = "running"
    THEN running' = Without(running, r) /\ UNCHANGED waiting
    ELSE waiting' = Without(waiting, r) /\ UNCHANGED running

\* finish_requests: the client went away.
Abort(r) ==
    /\ phase = "idle"
    /\ status[r] \in {"waiting", "running", "preempted"}
    /\ Dequeue(r)
    /\ Free(r)
    /\ UNCHANGED <<frames, phase, stepVars>>

-----------------------------------------------------------------------------
(* schedule(): the running requests *)

BeginStep ==
    /\ phase = "idle"
    /\ Len(frames) < Depth
    /\ running # <<>> \/ waiting # <<>>
    /\ phase' = "running"
    /\ budget' = Budget
    /\ UNCHANGED <<running, waiting, reqVars, inflight, frames, idx, want, sched,
                   spec, prefill, preempted, admitted>>

\* Fault: the token every frame yields is left out of the count.
AtSentinelLate(r) ==
    /\ holders[r] > 0
    /\ computed[r] + 1 - holders[r] >= Prompt[r] + MaxTokens[r]
\* Fault: applied although no frame is in flight.
AtSentinelAlways(r) ==
    computed[r] + 2 - holders[r] >= Prompt[r] + MaxTokens[r]

\* The frames in flight are sure to reach max_tokens.
AtSentinel(r) ==
    /\ holders[r] > 0
    /\ computed[r] + 2 - holders[r] >= Prompt[r] + MaxTokens[r]

\* The long-prefill threshold; with the adaptive hotfix, only while some
\* running request is not a prefill chunk.
ChunkCap ==
    IF Adaptive /\ Threshold > 0 /\ \A q \in Range(running) : chunk[q]
    THEN Budget ELSE Threshold
Capped(n) == IF 0 < ChunkCap /\ ChunkCap < n THEN ChunkCap ELSE n

\* Issue 43: decode-active requests behind position i of the running list.
Lanes(i) == {j \in i + 1 .. Len(running) :
                 /\ ~ AtSentinel(running[j])
                 /\ computed[running[j]] >= Prompt[running[j]]}
\* Fault: no reservation, as before the hotfix.
DecodeFloorNone(i, n) == n
DecodeFloor(i, n) ==
    IF chunk[running[i]] /\ Lanes(i) # {}
    THEN Lesser(n, Greater(0, budget - Cardinality(Lanes(i))))
    ELSE n

\* num_new_tokens of the request at position i of the running list.
NewTokens(i) ==
    LET r == running[i]
        behind == NumTokens(r) + drafts[r] + holders[r] - computed[r]
    IN  DecodeFloor(i, Lesser(Lesser(Capped(behind), budget),
                              ModelLen - computed[r] - 1))

InRunningLoop == phase = "running" /\ want = 0 /\ idx <= Len(running) /\ budget > 0

SkipRunning ==
    /\ InRunningLoop
    /\ AtSentinel(running[idx]) \/ NewTokens(idx) = 0
    /\ idx' = idx + 1
    /\ UNCHANGED <<running, waiting, reqVars, inflight, frames, phase, want,
                   budget, sched, spec, prefill, preempted, admitted>>

PickRunning ==
    /\ InRunningLoop
    /\ ~ AtSentinel(running[idx])
    /\ NewTokens(idx) # 0
    /\ want' = NewTokens(idx)
    /\ UNCHANGED <<running, waiting, reqVars, inflight, frames, phase, idx,
                   budget, sched, spec, prefill, preempted, admitted>>

\* Fault: the test for a positive number of draft tokens is dropped.
SpecPartUnclamped(r, n) ==
    Lesser(drafts[r], n + computed[r] - NumTokens(r) - holders[r])
\* Draft tokens among the n tokens scheduled for r.
SpecPart(r, n) ==
    Greater(0, Lesser(drafts[r], n + computed[r] - NumTokens(r) - holders[r]))

ScheduleRunning ==
    LET r == running[idx] IN
    /\ phase = "running"
    /\ want # 0
    /\ Fits(r, computed[r] + want, 0)
    /\ blocks' = Allocate(r, computed[r] + want)
    /\ sched' = [sched EXCEPT ![r] = want]
    /\ spec' = [spec EXCEPT ![r] = SpecPart(r, want)]
    /\ drafts' = [drafts EXCEPT ![r] = 0]
    /\ budget' = budget - want
    /\ prefill' = (prefill \/ chunk[r])
    /\ idx' = idx + 1
    /\ want' = 0
    /\ UNCHANGED <<running, waiting, status, outputs, computed, holders, chunk,
                   inflight, frames, phase, preempted, admitted>>

\* A preempted request is put back at the head of the waiting queue.
Preempted(v) == <<v>> \o waiting

\* No slots: preempt the last running request, perhaps the one at hand.
Preempt ==
    LET r == running[idx]
        v == running[Len(running)]
    IN
    /\ phase = "running"
    /\ want # 0
    /\ ~ Fits(r, computed[r] + want, 0)
    /\ running' = SubSeq(running, 1, Len(running) - 1)
    /\ waiting' = Preempted(v)
    /\ status' = [status EXCEPT ![v] = "preempted"]
    /\ computed' = [computed EXCEPT ![v] = 0]
    /\ drafts' = [drafts EXCEPT ![v] = 0]
    /\ blocks' = [blocks EXCEPT ![v] = 0]
    /\ inflight' = inflight \ {v}
    /\ preempted' = TRUE
    /\ want' = IF v = r THEN 0 ELSE want
    /\ UNCHANGED <<outputs, holders, chunk, frames, phase, idx, budget, sched,
                   spec, prefill, admitted>>

EndRunning ==
    /\ phase = "running"
    /\ want = 0
    /\ idx > Len(running) \/ budget <= 0
    /\ phase' = IF preempted THEN "finish" ELSE "waiting"
    /\ UNCHANGED <<running, waiting, reqVars, inflight, frames, stepVars>>

-----------------------------------------------------------------------------
(* schedule(): the waiting requests *)

\* Length of the part of `running` that was there before this step.
Old == Len(running) - admitted

\* Issue 27: prefills in flight, counted from the running list.
PrefillsCounted ==
    Cardinality({i \in 1 .. Old : computed[running[i]] < Prompt[running[i]]})
    + Cardinality({i \in Old + 1 .. Len(running) :
                       computed[running[i]] + sched[running[i]] < NumTokens(running[i])})

\* Fault: the cap is exceeded by one.
GateOffByOne == Len(running) < MaxSeqs /\ PrefillsCounted <= Cap
\* max_num_seqs and the prefill cap.
Gate == Len(running) < MaxSeqs /\ PrefillsCounted < Cap

\* Cached tokens an admission of r may find: whole blocks, never the last token.
Hits(r) == {h \in 0 .. NumTokens(r) - 1 : h % BlockSize = 0 /\ (Caching \/ h = 0)}

\* A decode request joining a batch of decodes is padded to their size.
Padded(r, hit) ==
    /\ SpecTokens > 0
    /\ NumTokens(r) - hit = 1
    /\ \E i \in 1 .. Old : sched[running[i]] # 0
    /\ ~ prefill

Unscheduled(r, hit) == IF Padded(r, hit) THEN 1 + SpecTokens ELSE NumTokens(r) - hit
AdmitTokens(r, hit) == Lesser(Capped(Unscheduled(r, hit)), budget)

Admissible(r, hit) ==
    LET spare == IF running = <<>> THEN 0 ELSE Watermark IN
    /\ Padded(r, hit) => /\ 1 + SpecTokens <= budget
                         /\ hit + 1 + SpecTokens <= ModelLen
    /\ ReserveFull => BlocksFor(NumTokens(r)) + spare <= FreeBlocks
    /\ Fits(r, hit + AdmitTokens(r, hit), spare)

InWaitingLoop == phase = "waiting" /\ waiting # <<>> /\ budget > 0

Admit(hit) ==
    LET r == Head(waiting)
        n == AdmitTokens(r, hit)
    IN
    /\ InWaitingLoop
    /\ Gate
    /\ hit \in Hits(r)
    /\ Admissible(r, hit)
    /\ running' = Append(running, r)
    /\ waiting' = Tail(waiting)
    /\ status' = [status EXCEPT ![r] = "running"]
    /\ computed' = [computed EXCEPT ![r] = hit]
    /\ blocks' = Allocate(r, hit + n)
    /\ sched' = [sched EXCEPT ![r] = n]
    /\ spec' = [spec EXCEPT ![r] = IF Padded(r, hit) THEN SpecTokens ELSE 0]
    /\ budget' = budget - n
    /\ inflight' = IF hit + n < NumTokens(r) THEN inflight \cup {r} ELSE inflight
    /\ admitted' = admitted + 1
    /\ UNCHANGED <<outputs, holders, drafts, chunk, frames, phase, idx, want,
                   prefill, preempted>>

EndWaiting ==
    /\ phase = "waiting"
    /\ InWaitingLoop /\ Gate =>
           \E hit \in Hits(Head(waiting)) : ~ Admissible(Head(waiting), hit)
    /\ phase' = "finish"
    /\ UNCHANGED <<running, waiting, reqVars, inflight, frames, stepVars>>

-----------------------------------------------------------------------------
(* The end of schedule(), and the results of a frame *)

Scheduled == {r \in Reqs : sched[r] # 0}

\* is_prefill_chunk after the step: tokens of r are left to compute.
StillChunk(r) == computed[r] + sched[r] < NumTokens(r) + holders[r]
Sampling == {r \in Scheduled : ~ StillChunk(r)}

\* AsyncScheduler: a placeholder for the token each sampling request will
\* get and one per draft, and placeholders for its next drafts.
AsyncAfterSchedule ==
    IF Async
    THEN /\ holders' = [r \in Reqs |-> holders[r] + IF r \in Sampling THEN 1 + spec[r] ELSE 0]
         /\ drafts' = [r \in Reqs |-> IF r \in Sampling THEN SpecTokens ELSE drafts[r]]
    ELSE UNCHANGED <<holders, drafts>>

FinishStep ==
    /\ phase = "finish"
    /\ computed' = [r \in Reqs |-> computed[r] + sched[r]]
    /\ chunk' = [r \in Reqs |-> IF r \in Scheduled THEN StillChunk(r) ELSE chunk[r]]
    /\ inflight' = inflight \ Sampling
    /\ AsyncAfterSchedule
    /\ frames' = Append(frames, [reqs |-> Scheduled, sampling |-> Sampling, spec |-> spec])
    /\ phase' = "idle"
    /\ idx' = 1
    /\ budget' = 0
    /\ sched' = Zeros
    /\ spec' = Zeros
    /\ prefill' = FALSE
    /\ preempted' = FALSE
    /\ admitted' = 0
    /\ UNCHANGED <<running, waiting, status, outputs, blocks, want>>

\* The engine calls update_from_output with the oldest frame.
BeginUpdate ==
    /\ phase = "idle"
    /\ frames # <<>>
    /\ phase' = "update"
    /\ UNCHANGED <<running, waiting, reqVars, inflight, frames, stepVars>>

\* The oldest frame's next request.
Updating(r) ==
    /\ phase = "update"
    /\ r \in frames[1].reqs
    /\ \A q \in frames[1].reqs : r <= q

Taken(r) == [frames EXCEPT ![1].reqs = @ \ {r}]

\* A request that was aborted in the meantime has no result; a chunk of a
\* prefill samples no token.
NoOutput(r) ==
    /\ Updating(r)
    /\ status[r] = "finished" \/ r \notin frames[1].sampling
    /\ frames' = Taken(r)
    /\ drafts' = IF ~ Async /\ chunk[r] THEN [drafts EXCEPT ![r] = 0] ELSE drafts
    /\ UNCHANGED <<running, waiting, status, outputs, computed, holders, chunk,
                   blocks, inflight, phase, stepVars>>

\* Tokens r may still output: check_stop ends it there.
Room(r) == Lesser(MaxTokens[r] - outputs[r], ModelLen - NumTokens(r))

\* Fault: rejected drafts are not taken back.
RejectedNone(n, drafted, accepted) == n

\* A counter without the drafts that were rejected, unless it was reset.
Rejected(n, drafted, accepted) == IF n > 0 THEN n - (drafted - accepted) ELSE n

\* Some of r's drafts are accepted, which gives one more token, and no stop.
Output(r, accepted) ==
    LET drafted == frames[1].spec[r] IN
    /\ Updating(r)
    /\ status[r] # "finished"
    /\ r \in frames[1].sampling
    /\ accepted <= drafted
    /\ accepted + 1 < Room(r)
    /\ outputs' = [outputs EXCEPT ![r] = @ + accepted + 1]
    /\ computed' = [computed EXCEPT ![r] = Rejected(@, drafted, accepted)]
    /\ holders' = [holders EXCEPT ![r] = Rejected(@, drafted, accepted)
                                          - IF Async THEN accepted + 1 ELSE 0]
    /\ drafts' = IF Async THEN drafts ELSE [drafts EXCEPT ![r] = SpecTokens]
    /\ frames' = Taken(r)
    /\ UNCHANGED <<running, waiting, status, chunk, blocks, inflight, phase, stepVars>>

\* One of the tokens is a stop token or the last that fits: r is finished
\* and leaves the queue it is in, `waiting` if it was preempted meanwhile.
Stop(r) ==
    /\ Updating(r)
    /\ status[r] # "finished"
    /\ r \in frames[1].sampling
    /\ Dequeue(r)
    /\ Free(r)
    /\ frames' = Taken(r)
    /\ UNCHANGED <<phase, stepVars>>

EndUpdate ==
    /\ phase = "update"
    /\ frames[1].reqs = {}
    /\ frames' = Tail(frames)
    /\ phase' = "idle"
    /\ UNCHANGED <<running, waiting, reqVars, inflight, stepVars>>

-----------------------------------------------------------------------------
Schedule ==
    \/ BeginStep \/ SkipRunning \/ PickRunning \/ ScheduleRunning \/ Preempt
    \/ EndRunning
    \/ \E hit \in 0 .. ModelLen : Admit(hit)
    \/ EndWaiting \/ FinishStep

UpdateFromOutput ==
    \/ BeginUpdate \/ EndUpdate
    \/ \E r \in Reqs : NoOutput(r) \/ Stop(r)
                       \/ \E n \in 0 .. SpecTokens : Output(r, n)

Next == Schedule \/ UpdateFromOutput \/ \E r \in Reqs : Arrive(r) \/ Abort(r)

Spec == Init /\ [][Next]_vars

\* The engine core's loop never rests while it has requests.
FairSpec == Spec /\ WF_vars(Schedule \/ UpdateFromOutput)
-----------------------------------------------------------------------------
(* Properties *)

TypeOK ==
    /\ running \in Seq(Reqs) /\ waiting \in Seq(Reqs)
    /\ status \in [Reqs -> {"new", "waiting", "running", "preempted", "finished"}]
    /\ outputs \in [Reqs -> Nat]
    /\ computed \in [Reqs -> Int]
    /\ holders \in [Reqs -> Int]
    /\ drafts \in [Reqs -> Nat]
    /\ chunk \in [Reqs -> BOOLEAN]
    /\ blocks \in [Reqs -> Nat]
    /\ inflight \subseteq Reqs
    /\ frames \in Seq([reqs : SUBSET Reqs, sampling : SUBSET Reqs, spec : [Reqs -> Nat]])
    /\ phase \in {"idle", "running", "waiting", "finish", "update"}
    /\ idx \in Nat \ {0}
    /\ want \in Int
    /\ budget \in Int
    /\ sched \in [Reqs -> Int]
    /\ spec \in [Reqs -> Nat]
    /\ prefill \in BOOLEAN
    /\ preempted \in BOOLEAN
    /\ admitted \in Nat

Increasing(q) == \A i, j \in 1 .. Len(q) : i < j => q[i] < q[j]

\* The two queues together hold every live request once, in the order the
\* requests arrived: preemption and admission never let one overtake another,
\* and a request that stopped or was aborted, even while preempted, is in
\* neither queue.
FirstComeFirstServed ==
    /\ Increasing(running \o waiting)
    /\ Range(running) = {r \in Reqs : status[r] = "running"}
    /\ Range(waiting) = {r \in Reqs : status[r] \in {"waiting", "preempted"}}

\* Tokens the frames in flight, at most two, have reserved for r.
Reserve(i, r) ==
    IF i <= Len(frames) /\ r \in frames[i].reqs \cap frames[i].sampling
    THEN 1 + frames[i].spec[r] ELSE 0
Outstanding(r) == Reserve(1, r) + Reserve(2, r)

\* A decoding request has computed exactly its tokens less the last, plus what
\* the frames in flight reserve, and its placeholders count that reserve: so
\* through rejected drafts, preemption and late outputs.
CountsMatchFrames ==
    phase = "idle" =>
        \A r \in Reqs :
            /\ Async /\ status[r] \in {"running", "preempted"} => holders[r] = Outstanding(r)
            /\ status[r] = "running" /\ ~ chunk[r] =>
                   computed[r] = NumTokens(r) - 1 + Outstanding(r)

\* Issue 27: at most Cap requests of the running list have prompt tokens left
\* to compute between two steps.
PrefillsCapped ==
    phase = "idle" =>
        Cardinality({r \in Range(running) : computed[r] < Prompt[r]}) <= Cap

\* A running request that can decode and is not at the model length.
CanDecode(r) == computed[r] >= Prompt[r] /\ ~ AtSentinel(r) /\ computed[r] + 1 < ModelLen

\* Issue 43: in a step that schedules a prefill chunk no running request that
\* can decode is left without a token.
DecodeServed ==
    phase \in {"waiting", "finish"} /\ prefill =>
        \A i \in 1 .. Old : CanDecode(running[i]) => sched[running[i]] > 0

\* What the floor does achieve: behind every prefill chunk that got tokens the
\* next request that can decode gets some too, whatever is between them.
NextLaneServed ==
    phase \in {"waiting", "finish"} =>
        \A i, j \in 1 .. Old :
            /\ chunk[running[i]] /\ sched[running[i]] > 0
            /\ j \in Lanes(i) /\ CanDecode(running[j])
            /\ \A k \in Lanes(i) : j <= k
            => sched[running[j]] > 0

\* Async scheduling: a request is not scheduled once the frames in flight are
\* sure to bring it to max_tokens.
NoExtraStep ==
    \A r \in Reqs :
        sched[r] > 0 /\ Outstanding(r) > 0 =>
            outputs[r] + Cardinality({i \in 1 .. Len(frames) : r \in frames[i].sampling})
                < MaxTokens[r]

\* update_from_output asserts num_tokens_scheduled > 0 of every request of a
\* frame.
SharesPositive == phase = "finish" => \A r \in Scheduled : sched[r] > 0

\* Every request that arrived finishes.
AllFinish == \A r \in Reqs : (status[r] = "waiting") ~> (status[r] = "finished")
=============================================================================
