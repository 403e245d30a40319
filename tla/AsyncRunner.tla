----------------------------- MODULE AsyncRunner -----------------------------
(***************************************************************************)
(* Asynchronous scheduling with speculative decoding (overlay build): the  *)
(* scheduler prepares a step before it has the results of the one before,  *)
(* and the model runner builds its inputs before it has them either.       *)
(*                                                                         *)
(* The scheduler counts as if every draft were accepted and sends          *)
(* placeholders for the tokens it does not know.  The runner keeps the     *)
(* sampled tokens, the drafts and the accepted counts of its last step on  *)
(* the GPU, by the rows of that step's batch, and gathers from there by    *)
(* prev_req_id_to_index; a request that was not in that batch is rebuilt   *)
(* from the token ids the scheduler sends along.                           *)
(*                                                                         *)
(* A token is the request and the position it belongs to.  What schedule() *)
(* picks is left open: any running request may be left out or get less     *)
(* than it lacks, for want of budget.  Request ids are not used twice      *)
(* (the server makes them unique); reset_prefix_cache() with running       *)
(* requests, which this deployment does not call, is left out.             *)
(***************************************************************************)
EXTENDS Integers, Sequences, FiniteSets, SequencesExt, Functions

CONSTANTS Reqs,        \* request ids
          Prompt,      \* length of the prompt of a request
          MaxTokens,   \* max_tokens of a request
          SpecTokens,  \* num_speculative_tokens
          ModelLen,    \* max_model_len
          DraftLen,    \* effective_drafter_max_model_len
          Depth,       \* steps in flight: batch queue of the engine core
          MaxPreempts, \* bound: preemptions
          Hits,        \* bound: lengths of the cached prefixes a request finds
          Forgets      \* remove_request() drops the row from prev_req_id_to_index

ASSUME RunnerAssumption ==
    /\ IsFiniteSet(Reqs)
    /\ Prompt \in [Reqs -> Nat \ {0}] /\ MaxTokens \in [Reqs -> Nat \ {0}]
    /\ \A r \in Reqs : Prompt[r] < ModelLen
    /\ {SpecTokens, DraftLen, MaxPreempts} \subseteq Nat
    /\ {ModelLen, Depth} \subseteq Nat \ {0} /\ Hits \subseteq Nat
    /\ Forgets \in BOOLEAN

VARIABLES
    \* the scheduler
    status,    \* "new", "waiting", "preempted", "running", "done"
    outputs,   \* num_output_tokens
    computed,  \* num_computed_tokens
    holders,   \* num_output_placeholders
    drafts,    \* length of spec_token_ids
    chunk,     \* requests with is_prefill_chunk
    lastStep,  \* prev_step_scheduled_req_ids
    gone,      \* finished_req_ids
    preempts,  \* bound: preemptions so far
    \* between scheduler and runner
    inbox,     \* scheduler outputs, oldest first
    results,   \* runner outputs the scheduler has not taken, oldest first
    \* the runner, by requests
    outs,      \* output_token_ids of the cached requests
    drafted,   \* prev_num_draft_len of the cached requests
    batch,     \* requests in the input batch
    filled,    \* num_tokens_no_spec of their rows, less the prompt
    prevRow,   \* prev_req_id_to_index, 0 if none
    \* the runner, by rows
    last,      \* the last sampled step: start, count, token and drafts of a row
    step,      \* the step between execute_model() and sample_tokens(), if any
    \* the truth
    real,      \* tokens a request has
    kv         \* of these, those whose states are in its blocks

schedVars == <<status, outputs, computed, holders, drafts, chunk, lastStep, gone, preempts>>
runnerVars == <<outs, drafted, batch, filled, prevRow, last, step>>
vars == <<schedVars, inbox, results, runnerVars, real, kv>>

Hole == <<>>              \* the placeholder -1
Noise == <<"noise", 0>>   \* a token made without looking at the request
Holes(n) == [i \in 1 .. n |-> Hole]
Zeros == [r \in Reqs |-> 0]

Least(a, b) == IF a < b THEN a ELSE b
Greatest(a, b) == IF a < b THEN b ELSE a
Cleared(f, S) == [r \in Reqs |-> IF r \in S THEN 0 ELSE f[r]]

Init ==
    /\ status = [r \in Reqs |-> "new"]
    /\ outputs = Zeros /\ computed = Zeros /\ holders = Zeros /\ drafts = Zeros
    /\ chunk = {} /\ lastStep = {} /\ gone = {} /\ preempts = 0
    /\ inbox = <<>> /\ results = <<>>
    /\ outs = [r \in Reqs |-> <<>>] /\ drafted = Zeros
    /\ batch = {} /\ filled = Zeros /\ prevRow = Zeros
    /\ last = <<>> /\ step = <<>>
    /\ real = Prompt /\ kv = Zeros

-----------------------------------------------------------------------------
(* The scheduler *)

NumTokens(r) == Prompt[r] + outputs[r]
Running == {r \in Reqs : status[r] = "running"}
Waiting == {r \in Reqs : status[r] \in {"waiting", "preempted"}}

\* add_request().
Arrive(r) ==
    /\ status[r] = "new"
    /\ status' = [status EXCEPT ![r] = "waiting"]
    /\ UNCHANGED <<outputs, computed, holders, drafts, chunk, lastStep, gone, preempts,
                   inbox, results, runnerVars, real, kv>>

\* _free_request() of the requests S: the scheduler forgets them.
Free(S) ==
    /\ outputs' = Cleared(outputs, S) /\ computed' = Cleared(computed, S)
    /\ holders' = Cleared(holders, S) /\ drafts' = Cleared(drafts, S)
    /\ gone' = gone \cup S

\* finish_requests(): the client went away, perhaps with steps in flight.
Abort(r) ==
    /\ status[r] \in {"waiting", "preempted", "running"}
    /\ status' = [status EXCEPT ![r] = "done"]
    /\ Free({r})
    /\ UNCHANGED <<chunk, lastStep, preempts, inbox, results, runnerVars, real, kv>>

\* The steps in flight are sure to reach max_tokens.
AtSentinel(r) ==
    /\ holders[r] > 0
    /\ computed[r] + 2 - holders[r] >= Prompt[r] + MaxTokens[r]

\* What a running request lacks, its drafts included.
Lacks(r) == Least(NumTokens(r) + drafts[r] + holders[r] - computed[r],
                  ModelLen - 1 - computed[r])

\* Draft tokens among the n scheduled for r.
SpecPart(r, n) ==
    Greatest(0, Least(drafts[r], n + computed[r] - NumTokens(r) - holders[r]))

\* Fault: the token ids are sent with resumed requests only.
AllTokensResumed(r) == IF status[r] = "preempted" THEN outputs[r] ELSE -1

\* Outputs in all_token_ids, sent for a request that was not in the last step.
AllTokens(r) == IF r \notin lastStep THEN outputs[r] ELSE -1

NoEntry == [kind |-> "none", n |-> 0, spec |-> 0, from |-> 0, outs |-> 0, all |-> -1]

\* What the scheduler output says of r, of which n tokens are scheduled from
\* position `from` on.
Entry(r, n, from) ==
    IF status[r] = "waiting"
    THEN [NoEntry EXCEPT !.kind = "new", !.n = n, !.from = from]
    ELSE [kind |-> IF status[r] = "running" THEN "running" ELSE "resumed",
          n |-> n, spec |-> SpecPart(r, n), from |-> from,
          outs |-> outputs[r] + holders[r], all |-> AllTokens(r)]

\* _update_after_schedule() of the base class and of AsyncScheduler; P were
\* preempted.
AfterSchedule(req, P) ==
    LET S == {r \in Reqs : req[r].n > 0}
        to(r) == req[r].from + req[r].n
        late == {r \in S : to(r) < NumTokens(r) + holders[r]}
    IN /\ computed' = [r \in Reqs |-> IF r \in S THEN to(r)
                                      ELSE IF r \in P THEN 0 ELSE computed[r]]
       /\ chunk' = (chunk \ S) \cup late
       /\ holders' = [r \in Reqs |-> IF r \in S \ late THEN holders[r] + 1 + req[r].spec
                                     ELSE holders[r]]
       /\ drafts' = [r \in Reqs |-> IF r \in S \ late THEN SpecTokens
                                    ELSE IF r \in late \cup P THEN 0 ELSE drafts[r]]

\* schedule(): the running requests S get tokens and P are preempted; if none
\* is, the waiting requests A are admitted, with any prefix found in the cache.
Schedule ==
    /\ Len(inbox) + Len(step) + Len(results) < Depth
    /\ Running \cup Waiting \cup gone # {}
    /\ \E S \in SUBSET {r \in Running : ~ AtSentinel(r) /\ Lacks(r) > 0},
          P \in SUBSET Running, A \in SUBSET Waiting :
       /\ S \cap P = {}
       /\ P = {} \/ A = {}
       /\ preempts + Cardinality(P) <= MaxPreempts
       /\ \E n \in [S \cup A -> 1 .. ModelLen], hit \in [A -> Hits] :
          /\ \A r \in S : n[r] <= Lacks(r)
          /\ \A r \in A : n[r] <= NumTokens(r) - hit[r]
          /\ LET req == [r \in Reqs |-> IF r \in S THEN Entry(r, n[r], computed[r])
                                        ELSE IF r \in A THEN Entry(r, n[r], hit[r])
                                        ELSE NoEntry]
             IN /\ inbox' = Append(inbox, [req |-> req, gone |-> gone])
                /\ AfterSchedule(req, P)
       /\ status' = [r \in Reqs |-> IF r \in P THEN "preempted"
                                    ELSE IF r \in A THEN "running" ELSE status[r]]
       /\ lastStep' = S \cup A
       /\ preempts' = preempts + Cardinality(P)
    /\ gone' = {}
    /\ UNCHANGED <<outputs, results, runnerVars, real, kv>>

\* Fault: the row is looked up in the batch as it is by now.
ResultRowLive(res, r) ==
    IF \E i \in DOMAIN res.counts : step # <<>> /\ i <= Len(step[1].rows) /\ step[1].rows[i] = r
    THEN CHOOSE i \in DOMAIN step[1].rows : step[1].rows[i] = r ELSE res.row[r]

\* The row of r in req_id_to_index, copied when the tokens were sampled.
ResultRow(res, r) == res.row[r]

\* num_output_placeholders without the rejected drafts.
HoldersLeft(r, rejected) == IF holders[r] > 0 THEN holders[r] - rejected ELSE 0

\* update_from_output(): the request takes its new tokens up to a stop, which
\* is max_tokens, max_model_len or a token of the model's choice.
Update ==
    /\ results # <<>>
    /\ results' = Tail(results)
    /\ LET res == Head(results)
           R == {r \in Reqs : res.req[r].n > 0 /\ status[r] # "done"}
           gen(r) == IF r \in R THEN res.counts[ResultRow(res, r)] ELSE 0
           rejected(r) == IF res.req[r].spec > 0 /\ gen(r) > 0
                          THEN res.req[r].spec + 1 - gen(r) ELSE 0
           room(r) == Least(MaxTokens[r] - outputs[r], ModelLen - NumTokens(r))
       IN \E new \in [Reqs -> 0 .. SpecTokens + 1], stopped \in SUBSET R,
             length \in [Reqs -> 0 .. SpecTokens] :
          /\ \A r \in Reqs :
                /\ new[r] <= gen(r) /\ new[r] <= room(r)
                /\ gen(r) > 0 => new[r] > 0
                /\ new[r] < gen(r) \/ (gen(r) > 0 /\ new[r] = room(r)) => r \in stopped
                /\ r \in stopped => gen(r) > 0
          /\ LET resized == {r \in R \ stopped : /\ res.proposed /\ gen(r) > 0
                                                 /\ r \notin chunk /\ status[r] = "running"}
             IN /\ \A r \in Reqs \ resized : length[r] = 0
                /\ drafts' = [r \in Reqs |-> IF r \in stopped THEN 0
                                             ELSE IF r \in resized THEN length[r] ELSE drafts[r]]
          /\ outputs' = [r \in Reqs |-> IF r \in stopped THEN 0 ELSE outputs[r] + new[r]]
          /\ computed' = [r \in Reqs |-> IF r \in stopped \/ computed[r] = 0 THEN 0
                                         ELSE computed[r] - rejected(r)]
          /\ holders' = [r \in Reqs |-> IF r \in stopped THEN 0
                                        ELSE HoldersLeft(r, rejected(r)) - new[r]]
          /\ status' = [r \in Reqs |-> IF r \in stopped THEN "done" ELSE status[r]]
          /\ gone' = gone \cup stopped
    /\ UNCHANGED <<chunk, lastStep, preempts, inbox, runnerVars, real, kv>>

-----------------------------------------------------------------------------
(* The model runner *)

\* The last k of the n output tokens of r and the prompt before them.
LastTokens(r, n, k) ==
    LET m == Least(k, Prompt[r] + n)
    IN [i \in 1 .. m |-> <<r, Prompt[r] + n - m + i - 1>>]

\* Requests of the batch the scheduler output q goes on with.
Stay(q) == {r \in batch : q.req[r].kind = "running"}

\* output_token_ids after _update_states(): a request that stays is taken to
\* have had all its drafts accepted, cut to what the scheduler counts; one
\* that is added again gets the tokens sent along.
NewOuts(q, r) ==
    LET guess == outs[r] \o Holes(drafted[r])
    IN IF r \in Stay(q) THEN SubSeq(guess, 1, Least(Len(guess), q.req[r].outs))
       ELSE LastTokens(r, q.req[r].all, q.req[r].outs)

NewFilled(q, r) ==
    IF r \notin Stay(q) THEN Len(NewOuts(q, r))
    ELSE IF q.req[r].outs < Len(outs[r]) + drafted[r] THEN q.req[r].outs ELSE filled[r]

\* The row of the last step that r's results are gathered from.
RowBefore(q, r) == IF Forgets /\ r \notin Stay(q) THEN 0 ELSE prevRow[r]

\* Drafts of r in the last step that the scheduler counts as accepted and that
\* may not have been.
Pending(q, r) == IF r \in Stay(q) /\ RowBefore(q, r) # 0 THEN drafted[r] ELSE 0

\* Fault: the start is what the scheduler counts.
StartGuessed(q, r) == q.req[r].from

\* num_computed_tokens on the GPU.
Start(q, r) ==
    IF Pending(q, r) > 0
    THEN last[RowBefore(q, r)].start + last[RowBefore(q, r)].count
    ELSE q.req[r].from

\* Fault: the count is read at the row the request has now.
CorrectedNow(q, r, row) ==
    IF Pending(q, r) > 0
    THEN q.req[r].from - (Pending(q, r) - (last[Least(row[r], Len(last))].count - 1))
    ELSE q.req[r].from

\* num_computed_tokens on the CPU after correct_spec_decode_token_counts().
Corrected(q, r, row) ==
    IF Pending(q, r) > 0
    THEN q.req[r].from - (Pending(q, r) - (last[RowBefore(q, r)].count - 1))
    ELSE q.req[r].from

\* Token ids of r: what the CPU knows, then the sampled token and the drafts
\* of the last step at their places.
Input(q, r) ==
    LET n == q.req[r].n
        spec == q.req[r].spec
        row == RowBefore(q, r)
        known(p) == IF p < Prompt[r] THEN <<r, p>>
                    ELSE IF p - Prompt[r] < Len(NewOuts(q, r)) THEN NewOuts(q, r)[p - Prompt[r] + 1]
                    ELSE Hole
    IN [i \in 1 .. n |-> IF row = 0 \/ i < n - spec THEN known(q.req[r].from + i - 1)
                         ELSE IF i = n - spec THEN last[row].token
                         ELSE last[row].drafts[i - n + spec]]

\* execute_model(): update the batch, whose rows end up in any order, build the
\* inputs, launch the forward pass and then correct the counts.
Execute ==
    /\ inbox # <<>> /\ step = <<>>
    /\ inbox' = Tail(inbox)
    /\ LET q == Head(inbox)
           R == {r \in Reqs : q.req[r].n > 0}
           others == Reqs \ R
       IN /\ batch' = R
          /\ outs' = [r \in Reqs |-> IF r \in R THEN NewOuts(q, r)
                                     ELSE IF r \in q.gone THEN <<>> ELSE outs[r]]
          /\ drafted' = [r \in Reqs |-> IF r \in R THEN q.req[r].spec
                                        ELSE IF r \in q.gone THEN 0 ELSE drafted[r]]
          /\ filled' = [r \in Reqs |-> IF r \in R THEN NewFilled(q, r) ELSE 0]
          /\ prevRow' = [r \in Reqs |-> RowBefore(q, r)]
          /\ kv' = [r \in Reqs |-> IF q.req[r].kind \in {"new", "resumed"} THEN q.req[r].from
                                    ELSE IF r \in q.gone THEN 0 ELSE kv[r]]
          /\ real' = [r \in Reqs |-> IF r \in q.gone THEN Prompt[r] ELSE real[r]]
          /\ IF R = {}
             THEN /\ results' = Append(results, [req |-> q.req, row |-> Zeros,
                                                 counts |-> <<>>, proposed |-> FALSE])
                  /\ UNCHANGED step
             ELSE /\ \E rows \in SetToSeqs(R) :
                        LET row == [r \in Reqs |-> IF r \in R THEN CHOOSE i \in DOMAIN rows : rows[i] = r ELSE 0]
                        IN step' = <<[req |-> q.req, rows |-> rows,
                                      start |-> [r \in R |-> Start(q, r)],
                                      cpu |-> [r \in R |-> Corrected(q, r, row)],
                                      input |-> [r \in R |-> Input(q, r)],
                                      skip |-> {r \in R : q.req[r].from + q.req[r].n
                                                          < Prompt[r] + Len(NewOuts(q, r))}]>>
                  /\ UNCHANGED results
    /\ UNCHANGED <<schedVars, last>>

\* Position of the first token a row of the step may sample.
Base(s, r) == s.start[r] + s.req[r].n - s.req[r].spec

\* The drafter looks at the whole batch and has a length of its own.
Fits(s) == \A i \in DOMAIN s.rows :
               s.req[s.rows[i]].from + s.req[s.rows[i]].n + SpecTokens <= DraftLen

\* prev_req_id_to_index: a chunk's row has nothing to go on from.
SampledRow(s, r) ==
    IF r \in Range(s.rows) \ s.skip THEN CHOOSE i \in DOMAIN s.rows : s.rows[i] = r ELSE 0

\* sample_tokens(): accept a[r] drafts, propose the next ones and note
\* placeholders for what only the GPU knows yet.
Sample ==
    /\ step # <<>>
    /\ LET s == step[1]
           R == Range(s.rows)
           sampled == R \ s.skip
       IN \E a \in [R -> 0 .. SpecTokens] :
          /\ \A r \in R : a[r] <= IF r \in sampled THEN s.req[r].spec ELSE 0
          /\ LET count(r) == IF r \in sampled THEN a[r] + 1 ELSE 0
                 row(i) == LET r == s.rows[i]
                           IN [start |-> s.start[r], count |-> count(r),
                               token |-> IF r \in sampled THEN <<r, Base(s, r) + a[r]>> ELSE Noise,
                               drafts |-> [j \in 1 .. SpecTokens |->
                                             IF Fits(s) /\ r \in sampled THEN <<r, Base(s, r) + a[r] + j>>
                                             ELSE Noise]]
             IN /\ last' = [i \in DOMAIN s.rows |-> row(i)]
                /\ results' = Append(results,
                      [req |-> s.req, proposed |-> Fits(s),
                       row |-> [r \in Reqs |-> IF r \in R THEN CHOOSE i \in DOMAIN s.rows : s.rows[i] = r ELSE 0],
                       counts |-> [i \in DOMAIN s.rows |-> count(s.rows[i])]])
                /\ real' = [r \in Reqs |-> IF r \in R THEN real[r] + count(r) ELSE real[r]]
                /\ kv' = [r \in Reqs |-> IF r \in R THEN Base(s, r) + a[r] ELSE kv[r]]
          /\ prevRow' = [r \in Reqs |-> SampledRow(s, r)]
          /\ outs' = [r \in Reqs |-> IF r \in sampled THEN Append(outs[r], Hole) ELSE outs[r]]
          /\ filled' = [r \in Reqs |-> IF r \in sampled THEN filled[r] + 1 ELSE filled[r]]
    /\ step' = <<>>
    /\ UNCHANGED <<schedVars, inbox, drafted, batch>>

Next ==
    \/ \E r \in Reqs : Arrive(r) \/ Abort(r)
    \/ Schedule \/ Update \/ Execute \/ Sample

Spec == Init /\ [][Next]_vars

-----------------------------------------------------------------------------
(* Properties *)

\* The step the model runs is the true one, whatever was rejected, preempted or
\* left out while it was prepared: a row starts after the tokens whose states
\* its request has, its inputs are the request's own tokens at their positions,
\* a row that samples does so at the next token, and the drafts are the
\* request's own, placeholders or noise; and the token sampled has room in the
\* row (the assertion of _bookkeeping_sync).
StepTrue ==
    \A i \in DOMAIN step : LET s == step[i] IN \A r \in Range(s.rows) :
        LET n == s.req[r].n
            spec == s.req[r].spec
        IN /\ s.start[r] = kv[r]
           /\ \A j \in 1 .. n - spec : s.input[r][j] = <<r, s.start[r] + j - 1>>
           /\ \A j \in n - spec + 1 .. n :
                 s.input[r][j] \in {<<r, s.start[r] + j - 1>>, Hole, Noise}
           /\ r \notin s.skip => /\ Base(s, r) = real[r]
                               /\ Prompt[r] + filled[r] + 1 <= ModelLen
           /\ r \in s.skip => Base(s, r) < real[r] /\ spec = 0

\* Where the scheduler still counted drafts as accepted, the deferred correction
\* leaves the CPU with the count the kernel of _prepare_inputs has on the GPU.
CountsAgree ==
    \A i \in DOMAIN step : LET s == step[i] IN \A r \in Range(s.rows) :
        s.req[r].from # s.start[r] => s.cpu[r] = s.start[r]

\* A request with no step in flight is counted exactly: no placeholder is left,
\* the scheduler has all its tokens and knows which of them are computed.
Settled ==
    \A r \in Reqs :
        LET flying == {inbox[i].req : i \in DOMAIN inbox} \cup {results[i].req : i \in DOMAIN results}
                      \cup {step[i].req : i \in DOMAIN step}
        IN status[r] \in {"preempted", "running"} /\ (\A q \in flying : q[r].n = 0)
           => /\ holders[r] = 0
              /\ NumTokens(r) = real[r]
              /\ status[r] = "running" => computed[r] = kv[r]
=============================================================================
