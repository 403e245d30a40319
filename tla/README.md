# Formal models of the DSpark deployment recipe

The repository deploys a patched vLLM (DeepSeek-V4-Flash with the DSpark
speculative decoder) on two or three DGX Spark machines.  It is not one program
but three kinds of code: shell scripts that bring the containers up and down,
Python *hotfixes* that rewrite files of the vLLM image at container start, and
vLLM files themselves, kept as fixtures and overlays so that the hotfixes can be
tested against them.  The modules here model the parts whose correctness depends
on interleavings, ordering or failure.

Two builds of vLLM occur in the repository.  The shared-memory ring, the
scheduler, the Responses store, the grammar, the thinking budget and the parsers
are those of the image the launcher runs (fixtures `…-10c75477`, `…-752a3a504`
and the hotfixes applied on top); the draft context and the asynchronous model
runner are those of the overlay build under `recipe/overlay`.  They are therefore
modelled separately and not composed across builds.

## 1. Inventory

| component | state | operations | interacts with | hard behaviour | what makes it correct |
|---|---|---|---|---|---|
| Shared-memory broadcast ring (`scripts/fixtures/issue117`, `patches/hotfix-vllm-issue117-shm-ring-buffer.py`) | ring of chunks, flag bytes, indices, sockets | `enqueue`, `dequeue`, `acquire_write`, `acquire_read`, `SpinCondition.wait/notify/cancel`, `shutdown` | engine core to workers | lock-free readers and writer, lossy notifications, store order | every reader sees every message once, in order and whole; nothing waits for a notification that was lost |
| Scheduler and its hotfixes (`scripts/fixtures/dspark-swa-prefix`, issues 27, 43, adaptive chunk) | waiting and running queues, token counts, placeholders, blocks, frames in flight | `schedule`, `update_from_output`, `_preempt_request`, `add_request`, `finish_requests` | KV-cache manager, speculative decoder, workers | results that arrive after the next step was scheduled; preemption; budget arithmetic | first come first served; counts agree with what is in flight; caps and floors hold; every request finishes |
| Model runner and asynchronous scheduler of the overlay (`recipe/overlay/vllm/v1/worker/gpu_model_runner.py`, `…/core/sched/scheduler.py`) | counters and placeholders of the scheduler; the runner's batch, its rows, counts on CPU and GPU | `schedule`, `update_from_output`, `execute_model`, `sample_tokens`, the deferred correction | each other by two queues, draft context | a step is built before the result of the step before is known | every row computes its own next tokens at the right positions; a request at rest is counted exactly |
| Draft context (`recipe/overlay/vllm/v1/spec_decode/dspark_proposer.py`, `…/nvidia/dspark.py`) | slot map, free slots, one ring of hidden states per slot | `propose`, `_row_to_slot`, `prefill_main`, `store_main` | model runner's batch, scheduler, rejected drafts | rows move, requests leave and return, steps are skipped | a slot has one owner; a draft attends to its own request's states only |
| Responses store (`patches/hotfix-dsv4-responses-store.py`) | LRU store of responses, pins, background tasks, event queues | create, retrieve, cancel, stream, evict | HTTP handlers, engine | handlers interleave at every `await`; producers fail | bounded; nothing in use is evicted; no half of a bundle stays; readers end |
| Hotfix publishers and the command of the container (`patches/hotfix-*`, `docker-compose.dspark.yml`) | files of the installation, compile cache and its stamp | recognise, write, publish, verify, restore, serve | image, host directories, dockerd's restarts | kill between two file operations, partial failure, steps that share files | the engine runs a complete installation only; restarts lead to it |
| Launcher, stop, autostart, service (`start-*.sh`, `stop-*.sh`, `dspark-autostart.sh`, `dspark.service`) | ranks, machines, `.env.dspark` and its copies | start, stop, autostart, retry | docker, ssh, systemd | machines fail at any step; ssh answers before dockerd | no cluster of two configurations; a reported stop is one; a retry does not stop a healthy cluster |
| Structured output (issues 136 and 210, grammar advance) | matcher, bitmask, end of reasoning | filter drafts, fill rows, roll back, advance | scheduler, speculative decoder | drafts past the end of reasoning or of the grammar | every row is the one the grammar calls for |
| Thinking budget (issue 31) | budgets and flags by slot of the sampler | add, apply, observe, preempt, resume | sampler, scheduler | slots change hands, drafts are rejected, output is late | the budget counts accepted tokens, in the right request |
| Tool-call and DSML parsers (DSML recovery, issues 55, 191) | states of two streaming parsers, held candidates | `parse_delta`, `feed`, `finish` | HTTP handlers | markup split over deltas; the end of reasoning inside one | the events are those of one parser of the whole, and carry all its text |
| Tensor-parallel padding (`patches/tp3`) | shapes and shards | pad, load | model loader | ranks that do not divide the groups | the shards cover every tensor once and agree with each other |
| KV-cache manager and SWA prefix cache | block tables, hash tables | allocate, free, look up | scheduler | sharing and eviction of blocks | a hit leaves a window the draft can fill |
| Encoder cache and multi-modal inputs of the overlay | cached embeddings on both sides | schedule, free, gather | scheduler, runner | two steps in flight | the runner has what it gathers |
| Kernels, model code, confidence scheduling | tensors | forward, verify | GPU | numeric code | outside the scope |
| NFS share, model cache, warm-up, KV offload, image build | mounts, files | mount, verify, warm | launcher | retries | |
| Benchmarks, verification scripts, results, docs | none of the served program | | | | |

`PROJECT.json` lists all components, with the reason for those that are not
modelled, and under `hazards` what is hard to test, each at its line.

## 2. Modules

| module | models | extends / instance |
|---|---|---|
| `BroadcastLog` | what the ring promises: an append-only log, every reader takes the entries in order, at most a ring behind | |
| `ShmBroadcast` | `shm_broadcast.py` with the issue-117 hotfix | `Log == INSTANCE BroadcastLog` |
| `ShmBroadcastProofs` | its theorems | `ShmBroadcast` |
| `DsparkScheduler` | `scheduler.py` with issues 27, 43 and the adaptive chunk | |
| `DsparkSchedulerProofs` | its theorems | `DsparkScheduler` |
| `DraftContext` | slot map and ring cache of the draft model | |
| `DraftContextProofs` | its theorems | `DraftContext` |
| `AsyncRunner` | scheduler and model runner of the overlay, two steps in flight | |
| `AsyncRunnerProofs` | its theorems | `AsyncRunner` |
| `ResponsesStore` | the bounded store of API responses | |
| `ApiServerProofs` | theorems about the store and the DSML parser | `ResponsesStore`, `DsmlRecovery` |
| `HotfixBoot` | a chain of patch steps in a container that is killed, restarted and recreated | |
| `HotfixBootProofs` | its theorems | `HotfixBoot` |
| `DsparkChain` | the steps of the compose file as values for `HotfixBoot` | |
| `Cluster` | start, stop, autostart and the service on head and workers | |
| `ClusterProofs` | theorems about the cluster and the padding of its ranks | `Cluster`, `TensorPadding` |
| `GrammarTermination` | grammar matcher and bitmask under speculative tokens | |
| `ThinkingBudget` | the thinking budget on the GPU | |
| `SamplingProofs` | theorems about the grammar and the budget | `GrammarTermination`, `ThinkingBudget` |
| `DsmlRecovery` | the two passes of the streaming parser, and one machine to compare with | |
| `TensorPadding` | padded geometry and loaders for three ranks | |
| `MC…` | the instances for TLC: values of the constants, symmetry | the module they name |

No module uses RECURSIVE; sums over requests are folds.  In each module a few
definitions are commented `Fault:`.  No action uses them: they are plausible
bugs of the operator they precede, with the same parameters, and every property
of section 3 was confirmed to fail under one of them.

### ShmBroadcast

An atomic step is one access to shared memory that another process can observe:
the writer's `AcquireWrite` (the test over all flags), one `Commit` per store
between two fences (clear the written flag, the halves of the payload, each read
flag), `Raise` (the written flag, after the fence), then `SendOverflow`,
`Notify` (any subset of the readers is reached: the socket keeps one message and
loses the others).  A reader loads its own flag and the written
flag in two steps, enters the body, and `Release` is its `finally`: the read flag
and the index advance also when the body raised.  `Spin`, `Park`, `WakeBySocket`
and `WakeByRecheck` are `SpinCondition.wait`; `Shutdown` and `Cancel` may come
anywhere.  The acquire test of the writer reads the flags one by one; it is one
step because each flag it waits for can only change in its favour.

Messages are numbers and a payload is two halves, so that a torn message differs
from every message.

### DsparkScheduler

`schedule()` and `update_from_output()` run in one thread.  One iteration of a
loop is one action and `phase` says which loop runs; arrivals and aborts come only between
calls.  A frame is a scheduled batch whose results are not back, `Depth = 2` lets
the next step be scheduled over it.  `ScheduleRunning`, `Preempt`, `Admit`,
`FinishStep` are the two loops and what follows them (`_update_after_schedule`
included); `Output`, `NoOutput`, `EndUpdate` are the update, with any number of
accepted drafts and any admissible stop.  Tokens and KV blocks are counted,
never named; a prefix-cache hit may have any length the manager could return.
`AsyncScheduler`, the engine core's loop, `check_stop`, the model runner and the
rejection sampler are vLLM code that is not in the repository; they enter as
far as the scheduler's code and the hotfixes use them, and are marked external in
`PROJECT.json`.

### DraftContext

A step is `Schedule` followed by exactly one of the ways the runner ends it:
`Propose` (slots by `_row_to_slot`, then the store of the rows' states into the
rings, rejected suffixes masked), `SkipNonUniform` (the guard at the head of
`propose()`), or `DrafterTooShort`.  The rows may be in any order.  An entry of the cache
is the request, its incarnation and the position; the history variable `since`
says from which position on everything was stored for a request since it got
its slot.  A request ends at its `Limit` (`check_stop()`) at the latest.

### ResponsesStore

The bodies under `response_store_lock` contain no `await`, so each is one step,
and the suspensions of the handlers are the boundaries of the actions: `Create`
(pin), `Rendered` (in the `finally` the pin is released), the launches, the
result, the end.  `TaskEnds` and `TaskDone` are separate since a done callback is
scheduled by the loop after the task ended; between them everything else may
run.  Readers keep the event state they captured, also when the entry is
evicted.  "queued" stands for queued and in progress, which no code here tells
apart.  The vLLM handlers around the hotfix are external.  Every change of the
event flag is `Signal`, which also wakes the waiting readers.

### AsyncRunner

The overlay's scheduler and runner run in two threads of control joined by the
engine core's batch queue: `Schedule` puts a step into `inbox`, `Execute`
(`execute_model`: `_update_states`, the inputs, the correction that was
deferred from the step before) and `Sample` (`sample_tokens` and the
bookkeeping) are the runner's, and `Update` takes a result from `results`.  With
`Depth = 2` a step is scheduled, and its inputs are built, while the one before
has no result: the scheduler counts every draft as accepted and sends
placeholders, and the runner gathers tokens, drafts and counts on the GPU by the
rows of its last batch.  A token is the request and its position, so that a
token taken from a neighbour's row, or one position off, shows.  Which requests
a step takes and how much of what they lack is left open, and rows may be in any
order.  `real` and `kv` are what the model has truly sampled and computed.

Four things the code leaves to its surroundings are visible here.  When the
scheduler has already taken the result of the step before, its count is exact and
the deferred correction lowers the CPU's copy once too often, until the next
step overwrites it; nothing modelled reads it in between, so `CountsAgree`
speaks of guessed counts.  A request that a step leaves out finds its drafts
replaced by the placeholder −1 (`Hole`).  With two steps in flight the draft
lengths reported for a step are applied one step later.  And `Forgets = TRUE` says
of vLLM's `InputBatch.remove_request`, which is not in the repository, that the
row of a removed request is dropped from `prev_req_id_to_index`; without it a
request that was preempted and comes back after an empty step has the last token
of its chunk overwritten from a row of the older step, and `StepTrue` fails.

### HotfixBoot and DsparkChain

A content of a file is the set of steps whose hunks it holds, or `Torn`.  A step
first recognises every file it is about to touch (`Inspect`): by the digest of
the whole file (`pinned`) or by its own hunks.  It then writes in one of the
ways the scripts have: `cp` or `write_text` (`Truncate`, `Write`: a kill in
between leaves a torn file), or staged images put in place by `os.replace`
(`Publish`), with a rollback for the steps that have one (`StepFails`,
`Restore`, `Restored`).  Two of them, the assistant-final and the effort-align
step, roll back by writing over the file in place, so that a kill can leave it
torn there too (`RestoreTruncates`, `RestoreWrites`); their file is the encoder,
which the next boot copies anew.  The mapping of the efforts writes its file on
every boot, also when it is patched (`overwrite`).  The ablation step also keeps the compile cache and its
stamp on the host (`SyncCache`, `WriteStamp`).  `apply_tp3_patch.py` goes on
after a file it does not know and gives its verdict at the end, so its edits are
steps of kind `edit` followed by one of kind `verdict`.  `Kill` may come anywhere;
`Restart` runs the chain again over the files as they are; `Recreate` brings
back the files of the image, in any mode, while the cache stays.
`DsparkSteps` is the whole command, in order, with the optional steps on.
Refusals of one step that no state reaches, such as a manager patched over a
stock backend in issue 136, follow from the order of the chain.

### Cluster

A script is a sequence of sections, and one action handles the next machine of
the section.  A machine is down, starting (ssh answers, dockerd does not) or up;
`rank` holds the configuration its container was made from.  That `docker ps`
without an answer reads as no container is in `CheckHead`, `CheckWorker` and
`StopOn`; `blind` records the machines whose rank a script may have missed that
way.  The scripts take no lock: one at a time is assumed.  `Service` and `Exit`
are `dspark.service` with its restart on failure; the head's power failure ends
the script.

### GrammarTermination

The grammar is an automaton and the matcher the history of its states.  A step
filters the drafts, fills the bitmask row by row while the matcher advances
through them (`MaskPad` … `MaskLast`), rolls back, samples under the rows
(`Sample`), and updates and advances (`Update`, `Advance`).  Reasoning may end
inside the step.  The sampler keeps a draft only if its row allows it.

### ThinkingBudget

State by slot of the sampler: `Begin` is the forcing kernel over all rows of a
step, `Accept` the acceptance of one request's drafts with the kernel that
observes the end, request by request.  Preempted requests come back into any slot,
before or after their late output is delivered.

### DsmlRecovery

Lexemes are terminals or pieces of text.  `reasoning` and `tool` are the two
engines with the table the hotfix installs; `whole` reads the same deltas as one
machine and is the reference the two are compared with.  A terminal is a lexeme
since the lexer holds a split one back until it is complete.

`out` and `ref` are events, `SemanticEvent` in the code, and all four properties are
about them.  The step from events to the client's messages,
`ParserEngine._events_to_delta`, is not modelled; section 6 says what it changes.

### TensorPadding

Operators only: the padded numbers of groups and heads, and for each loader the
function from the cells of a rank's parameter to the axis of the checkpoint.
Nothing is in motion here, so there is no run; all of it is proved.

## 3. Runs

| run | bounds | shows |
|---|---|---|
| `shm_ring` | 2 readers, 2 chunks, 3 messages, one reader times out, one may be shut down | `TypeOK`, `BodySeesNextMessage`, `PayloadsPaired`, the refinement `RefinesLog`, and `Delivery`, `EnqueueEnds`, `ShutdownWakes` with all notifications possibly lost |
| `sched_async` | 5 requests with prompts of 1 to 6 tokens, budget 8, cap 2, threshold 3 and adaptive chunk, 2 drafts, 13 blocks of 2 tokens and a watermark, two frames | `TypeOK`, `FirstComeFirstServed`, `CountsMatchFrames`, `PrefillsCapped`, `NoExtraStep`, `NextLaneServed`, `AllFinish` |
| `draft_ring` | 3 requests, each submitted up to twice, prompts of 1 and 3, one to a length of 8 and two that stop at 2, 2 slots, window 2, 1 draft, budget 4, drafter length 7, model length 9 | `SlotsSuffice`, `DraftSeesOwnWindow` |
| `async_runner` | 2 requests, 3 tokens each at most, 1 draft, two steps in flight, model length 5, drafter length 5, one preemption | `StepTrue`, `CountsAgree`, `Settled` |
| `store_bound` | 3 requests of any kind, a store of 1 | `StoreBounded`, `BundlesWhole`, `PinsHeld`, `CancelledIsFinal` |
| `store_live` | 1 stream, 2 readers, 2 events | `NothingUnread`, `ReadersEnd` |
| `boot` | the whole chain, 3 modes, 2 kills or failures, 2 containers | `EngineWhole`, `CacheMatchesMode`, `UndoneIsUndone`, `ServesUnlessLost` |
| `cluster` | head and one worker, 2 configurations, 3 faults, 3 commands | `StoppedMeansGone`, `OneConfiguration`, `StartSparesServing`, `ServiceSucceeds` |
| `grammar` | a grammar of 4 states, 5 tokens, 3 drafts | `MasksExact`, `FollowsOutput` |
| `thinking` | 2 requests, 2 slots, budgets 0 and 2, 2 drafts, 3 tokens | `BudgetKept`, `ForcedWhileReasoning` |
| `dsml` | deltas of 1 or 2 lexemes, 4 lexemes held | `StreamAsOne`, `EventsKeepText`, `OnlyDeclared` |
| `dsml_batch` | two deltas, the first with a whole call | **violation** of `WrappedPathUnchanged` |

Why the bounds are enough.  The ring is lapped, so that a chunk is reused with
the flags of the lap before, and two readers suffice for "one has read, the
other has not".  The scheduler's pool cannot hold all requests, so preemption,
also of a request in a frame in flight, occurs; prompts of one to three chunks
meet the cap, and a decode goes through several steps with rejected drafts.  In the draft
context the long request passes over its ring of two cells three times before the
drafter's length 7 ends proposing, with chunks longer than the window and with
accepted and rejected drafts, whose cell is that of a position still in the
window; the two short ones contend for the other slot, move rows, and come back
under the same id before their slot was reclaimed, and a preempted long one
may find its slot taken.  Short requests stop before they have drafts
(`Limit`): with two or three long ones the states run into tens of millions, and
what the properties relate, a ring and its owner, is reached by one.  In `async_runner` a request has a prompt chunk, steps
with and without drafts, a last step that max_tokens or the model length cuts
short, and a neighbour whose row it may take over; a preemption and a return
need no second one, since the runner forgets the request in between.  In the
store three requests with a bound of one give a continuation of a response that
is next to be evicted while another completes; event states of different streams
share nothing.  Two faults in `boot` are a kill during the recovery from a kill;
two containers are a change of mode, and both modes that ablate occur.  Three
faults and three commands in `cluster` reach a start over ranks of an earlier
start whose stop failed.  In the other three runs a request is
as long as the longest thing that can happen to it: a budget, a marker and a
grammar that end inside one step's drafts; a candidate that begins in one pass
and ends in the other.

Deadlock is checked in none but `thinking`: the other systems stop when the
bounded number of messages, requests, faults or tokens is used up.  That nothing
gets stuck before is what the liveness properties say.  Symmetry is used in runs
without liveness only.

### Fairness

* Ring: the writer finishes an `enqueue()` it began and a worker's busy loop
  calls `dequeue()` again; both are threads the operating system schedules.
  Timeouts, notifications and shutdown are not fair.  A parked reader re-checks
  after a bounded time by the code itself (`WakeByRecheck`); that is what makes
  lost notifications harmless.
* Scheduler: the engine core's loop calls `schedule()` or
  `update_from_output()` as long as there are requests.  Arrivals and aborts are
  not fair, nor is any particular number of accepted drafts.
* Responses store: the event loop runs ready callbacks; rendering and generation end
  or fail; a client that stays takes its events.  Nothing is assumed of the
  number of events or of success.
* Boot: the command runs on and dockerd restarts what has exited
  (`restart: unless-stopped`).  Kills are bounded, not fair.
* Cluster: a script runs on; systemd runs the unit at boot and again after a
  failure; machines that lost power boot and dockerd comes up; complete ranks
  find each other and the head notices a lost worker.  Faults and commands are
  bounded, not fair.

## 4. Disagreements between the code and its documents

`dsml_batch` is a run that expects a violation, with an entry under `findings`: the
hotfix says that the path of a correctly wrapped call is unchanged.  When the
delta in which reasoning ends also carries a wrapped call and text after it,
the reasoning pass eats the closer of the wrapper, the tool pass stays between
calls, and the text is dropped.  Feeding the fixtures `</think>`, the call and
`\nDone.` in one delta gives an empty content where two deltas give
`\nDone.`.

Others can be reproduced from the modules with the values given here; the
definitions stay in the modules and no listed run checks them.

1. `NoRankComesBack` (`Cluster`; `Cluster.cfg` with `Confs = {"a"}`,
   `MaxFaults = 1`, `MaxCommands = 2`, `Spec`): the comment at
   `stop-deepseek-v4-flash-dspark.sh:60` says that stop must not report success
   while a worker's dockerd would bring its rank back; the probe at `:87` is
   `ssh true`, and a worker whose dockerd does not answer passes `:189-200`
   without a container.
2. `BodySeesNextMessage` with `WeakStores = TRUE` (`ShmBroadcast`; 2 readers,
   2 chunks, 4 messages, nobody impatient or stoppable): the comment at
   `shm_broadcast-10c75477.py:611` promises that a reader never sees a chunk
   that is not ready; no fence separates the stores of `:597` and `:607-609`,
   which the aarch64 machines of this recipe may reorder.
3. `DecodeServed` (`DsparkScheduler`; 3 requests, prompts 8, 1, 1, limits 2, 4, 4,
   budget 5, 3 sequences, threshold 3, not adaptive, cap 2, 2 drafts, 12 blocks
   of 2, depth 1, model length 14): the decode floor reserves one token per lane,
   but a lane with drafts takes 1 + k, and the lane after it may get none.
   `NextLaneServed` is what the floor does guarantee.
4. `SharesPositive` (`DsparkScheduler`; 2 requests, prompts 1, 5, limits 4, 2,
   budget 6, threshold 0, cap 1, 9 blocks, model length 7, depth 2): a padded
   decode request may end at the model length; the next asynchronous step
   computes −1 tokens for it.
5. `ContextComplete` (`DraftContext`; 3 requests, prompts 2 and 3, 2 slots,
   window 2, 1 draft, budget 9, model length 8, drafter length 20, limits 8, 1 incarnation):
   the guard for non-uniform steps returns before the ragged path that was written
   for them.

6. `PrefillsCapped` without `PromptsFit` (`DsparkScheduler`; 3 requests, prompts
   1, 3, 4, limits 3, 4, 2, budget 8, 5 sequences, threshold 3, adaptive, cap 1,
   2 drafts, 9 blocks of 2, watermark 1, `ReserveFull`, `Caching`, model length 5,
   depth 2): a prompt that with its drafts reaches the model length is padded up
   to it when admitted, and gets −1 tokens in the next step as in 4; when its
   drafts are then rejected it has fewer tokens than its prompt and counts as a
   prefill again, beside the one that the gate let in meanwhile.  No prompt of
   the run `sched_async` is that long.

Smaller ones.  `PrefillsCapped` speaks of prompt tokens: the gate of issue 27 does
not count a preempted request that recomputes its own output, although the stock
set does.  `DraftSeesOwnWindow` speaks of what was stored since the request got
its slot: `_row_to_slot` reclaims the slot of every request that is not in the
batch of the step, a running one that the budget left out included, where
`PATCHES.md` says "finished requests".  `README.md:102` and `docs/ENVS.md:178`
of the repository expect exit status 3 from a start over a running cluster,
which the head gives; a worker that runs gives 1.  If dockerd does not answer a
check of start, ranks of two configurations may serve together; `blind` excludes
that from `OneConfiguration`.  `load_column_parallel_weight` takes a share that is
as long as the tensor for a replicated parameter: with a single group on several
ranks each would get it; `NoShareTakenForACopy` shows that two groups suffice.
In the overlay's scheduler, the last token before an image is scheduled one step
early for the drafter's shifted read, so a request with two adjacent images stops
one token before the second, holding the first; if the encoder cache cannot hold
both it never goes on.  `_events_to_delta` of the DSML parsers may send text out of
turn: feeding the stock or the patched fixtures a wrapped call with `one ` behind it in one
delta, then `two ` and another wrapped call in the next, then `three`, gives the content
`two one three`; if the second delta is instead an open call and the last, `one ` is lost.

## 5. Proofs

| theorem | property | assumes |
|---|---|---|
| `TypeCorrect`, `BodySafe`, `OverwriteSafe`, `OverflowPaired`, `RingRefinesLog` | types, `BodySeesNextMessage`, `NoUnreadOverwrite`, `PayloadsPaired`, `RefinesLog` | all but the first: `~ WeakStores` |
| `SchedulerTypeCorrect`, `NeverOvertaken`, `CountsFollowFrames`, `NoStepTooMany`, `FirstLaneServed`, `GateHolds` | types, `FirstComeFirstServed`, `CountsMatchFrames`, `NoExtraStep`, `NextLaneServed`, `PrefillsCapped` | `SchedulerAssumption`; the last: `PromptsFit` |
| `DraftTypeCorrect`, `SlotsNeverShared`, `SlotsNeverShort`, `DraftReadsOwnStates` | types, `SlotsPartitioned`, `SlotsSuffice`, `DraftSeesOwnWindow` | `DraftAssumption` |
| `StoreTypeCorrect`, `RetentionBounded`, `BundlesIntact`, `ContinuationsKept`, `CancellationFinal`, `ReadersReadAll` | types, `StoreBounded`, `BundlesWhole`, `PinsHeld`, `CancelledIsFinal`, `NothingUnread` | `StoreAssumption` |
| `BootTypeCorrect`, `ServesWhole`, `CacheFollowsMode`, `RollbackComplete` | types, `EngineWhole`, `CacheMatchesMode`, `UndoneIsUndone` | `BootAssumption` |
| `ClusterTypeCorrect`, `StopRemovesAll`, `ServesOneConfiguration`, `StartIsHarmless` | types, `StoppedMeansGone`, `OneConfiguration`, `StartSparesServing` | `ClusterAssumption` |
| `RunnerInvariant`, `StepIsTrue`, `CountsMatch`, `SettledHolds` | its invariant, `StepTrue`, `CountsAgree`, `Settled` | `RunnerAssumption` and `TwoSteps` |
| `GrammarInvariant`, `MatcherFollows`, `RowsAreExact` | its invariant, `FollowsOutput`, `MasksExact` | `GrammarAssumption` |
| `BudgetInvariant`, `BudgetIsKept`, `ForcedOnlyInReasoning` | its invariant, `BudgetKept`, `ForcedWhileReasoning` | `BudgetAssumption` |
| `ParserInvariant`, `TextReachesEvents` | its invariant, `EventsKeepText` | `ParserAssumption` |
| `StreamIsOne`, `CallsAreDeclared` | `StreamAsOne`, `OnlyDeclared` | `ParserAssumption`; deltas read in reasoning are tidy (`TidyTurn`) |
| `GroupsKeepTheirHeads`, `NothingPadded`, `LoadedOnce`, `NoShareTakenForACopy`, `SinksFollowGroups` | about operators | as many heads in every group; two groups or more for the last two |

**Ring** (any set of readers, any number of chunks and messages).  The invariant
`RingInv` says which message each chunk holds (`Msg`, from the writer's index
and the number of messages published) and that its flags are raised for exactly
the readers that have taken it, unless the writer is storing to it; that each
reader's index agrees with its count up to one lap (`Aligned`); and that a
read flag loaded as 0 stays 0.  The last part is why two separate loads are
safe.  The theorems hold for stores in program order, which section 4 shows to
be needed; the refinement follows because `Raise` is `Publish`, `Release` without
an exception is `Take`, and all else stutters.  `OverflowPaired` needs an
invariant of the sockets as well (`PairInv`): what is in a reader's socket is in
order and still to come, or is the payload it waits for; that payload is there
or is the one the writer is about to send; and the markers in the ring say which
messages have one.  It speaks of readers without a timeout, since a `recv` that
gave up leaves its payload to the next marker.

**Scheduler** (any number of requests, any constants of the assumption).  That
the queues hold exactly the live requests, in order of arrival (`QueuesMatch`,
`InOrder`) is inductive only with what the loops know: slots are sought for a
request of the running list, requests of a frame have arrived, a phase of update has a frame.
The types need it too: `running[idx]` is a request only because preemption in the
middle of the loop keeps `idx` within the list.  All this is `IInv`; the other
theorems rest on it.

* `CountsFollowFrames`: `CountInv` says in every phase what is known of the step
  in progress (`StepOK`: shares belong to running requests, those from `idx` on
  have none yet, a step that preempted admits nobody) and of each request how its
  counters relate to the frames.  The property speaks of requests at rest;
  inductive it is only with the share in between: what is scheduled beyond the
  tokens and placeholders is drafts, or the padding at the model length
  (`Shared`), and a preempted request is not in the newest frame (`LeftOut`),
  which is why its placeholders still match when it comes back.  No sum over
  requests is needed.
* `NoStepTooMany`: with `CountInv`, a request that got a share with results
  outstanding was seen by the sentinel test with the same count of frames.
* `FirstLaneServed`: `LaneInv` is the invariant of the loop.  What a chunk asks
  for leaves one token for each lane behind it (`FloorKept`); as long as `idx` is
  not past the first lane behind a paid chunk, the budget covers
  those lanes (`LanePaid`): sentinels in between take nothing, and a chunk
  in between leaves as much itself.  Preemption takes requests from the end of
  the list, which only removes lanes.
* `GateHolds`: the gate counts the requests of the running list by what is
  computed and those admitted in the same step by their share; `Prefilling` is
  that mixed count for one request, and `PrefillInv` bounds the number of requests
  that satisfy it.  It must also say that no later event turns a decode back into a
  prefill: a rejection takes back at most the drafts of the frame, and what a frame
  drafted for a last chunk lies past the prompt (`Cut`).  This is where
  `PromptsFit` (prompt and drafts below the model length) is used; section 4
  shows that the property fails without it.

`SchedulerAssumption` has
`Threshold = 0 \/ Threshold > SpecTokens`: the deployment sets 1024 and 6, and
with a threshold inside the drafts the code would cut a padded decode.  The
theorems cover synchronous scheduling (`Depth = 1`) as well, which no run does.

**Draft context** (any requests, slots, window).  `SlotsPartitioned` is inductive
with the types (`SlotInv`); that `pop(0)` never meets an empty list is counting,
through injections from rows to slots.  `DraftSeesOwnWindow` needs `Counts` (a
request has drafts only when all but its last token is computed), which shows
that the kept rows of a step are consecutive positions, and `OwnWindows`, the
property without its guard on the phase.  The arithmetic lemma `CellsApart` says
that two positions less than a window apart use different entries; with
`SpecTokens < Window` a step's rejected suffix cannot reach the window.

**Responses store** (any finite set of responses, any readers, any bound).
`StoreInv` holds at every suspension.  The bound is counting: what eviction leaves
of the evictable responses has a first one in the order of use (`FirstElement`), and fewer
than `MaxEntries` evictable ones come after it, or it would have gone; so `Orders`,
that the order of use is a strict total order, is kept through every touch.
`PinsCounted` ties the counter of a response to the set of handlers that render a
continuation of it, and `Life` says which parts of a bundle exist at which stage
of a handler.  `Evicting` is the lemma all evicting steps share: what is pinned
or still has a producer stays.  `ReadersReadAll`: a reader ends only when it has
read the log up to the end of the stream, and a stream that is over adds nothing
(`OverStays`, from `Life`).

**Boot** (any chain of steps, any files, any number of kills, modes and
containers).  `TreeInv` says what each file holds: below `at` the hunks of the
steps passed (`StepsPassed`), in the step itself what it has been through
(`StepMakes`), hunks of the file's own steps only, and a torn file only where a
step writes over its files, going on or rolling back (`TornInPlace`).  It is inductive because
`BootAssumption` requires of a chain what the compose file's has: names are
distinct, a file that is copied is copied first, an edit is followed by a
verdict on its files, and only steps that publish or write in place roll back.  TLC evaluates that assumption on `DsparkSteps`.
`ToRestore` carries the rollback: every file that differs from what the step found
lies before `k`.  `CacheInv` says that the compiled cache is of the stamp's
mode whenever there is one, also between the removal of the cache and the new
stamp.

**Cluster** (any number of workers, configurations, faults and commands).  The
invariant follows the sections of the scripts: what a stop has been through is
gone or `blind` (`Sweep`); what a start has found, copied and brought up is of its
snapshot (`Progress`); the ranks that were not missed agree (`Agreed`); and what
serves is whole (`Joined`).  Faults between two sections take ranks away or bring
back the same ones, which is the argument of `Agreed`.  `StartIsHarmless` is an action
property: a start gets to `up` only if no rank but those of its own snapshot is
there, and bringing one of those up again changes nothing that serves.

**Model runner** (any finite set of requests, any prompts, lengths and numbers of
drafts).  `TwoSteps` is `Depth <= 2 /\ Forgets`: the engine core's batch queue
holds two steps, and rows go with their requests (section 3).  One invariant,
`RunnerInv`, carries all three properties, request by request:

* `CountOf` is the scheduler's side: the placeholders are what the entries in
  flight reserve (`HeldSum`), and the computed count is `Ahead`, where the request
  will be once the steps in flight are done, with the drafts rejected in results
  not yet taken (`Loss`) still counted as accepted.
* `BatchOK` and `RowOK` are the runner's side between two steps: a request
  whose row sampled has its next token, and its drafts, in `last` at `prevRow`;
  any other has all its tokens on the CPU.  `RunOK` is the same during a step.
* `HeadOK` and `Follows` join the two.  An output that waits for the runner was
  made from counts that have changed since, or for a request since aborted, so
  nothing of the scheduler's state can be used; what can is that each
  output starts where the one before ends when its drafts are taken for accepted, or
  brings all tokens along (`Fresh`).  `Link` ties the newest result to the rows, which
  is what the deferred correction relies on.

`StepTrue` and `CountsAgree` speak of the step just built and so are conjuncts
of the invariant; `Settled` is `CountOf` with nothing in flight.  The longest
parts are the runner's two steps; `Execute` needs that every request of a step
has exactly one row, which is where `Reqs` must be finite.

**Padding** (any groups, heads, ranks).  All five rest on the uniqueness of
quotient and remainder (`Unique`) and on the padded groups being the ranks times
the groups of one rank (`PaddedGroups`).  `SinksFollowGroups` relates two
loaders with windows of their own, one over heads and one over groups.

**Grammar** (any automaton, any vocabulary, any number of drafts and of tokens).
A history of the matcher is a `Run` of states along a text, and `Whole` if it
reaches the end of the text or the final state.  Between two steps the matcher
holds a whole run of the content of the output; in the loop over the rows, one of
the output with the drafts up to the row, provided that the sampler can still
accept all of these (`Reached`), and otherwise anything: this proviso, and that
`Rollback` returns to the count remembered before the loop, is the invariant.
`RowsExact` says of every row filled that it is what the grammar allows after the
drafts before it, `Filter` of the drafts that the scheduler kept that the matcher
can read them.  Two runs along one text agree (`StateOfRun`); that needs
induction over the text, which is taken from the least element of a set of numbers
(`Least`), since the induction theorems cannot be used.

**Budget** (any finite set of requests, any slots, drafts, budgets).  The rows of
a batch are blocks laid one behind the other (`Flattened`), so the kernel, which
looks back over rows, stays within the rows of its own request (`RowsStand`).
`SlotsTrue` ties a slot's flag to its request: reasoning has been opened and
its end is in none of the tokens the request has.  With that, the end is forced in the
row where the drafts before it use up the budget, and nowhere else
(`BatchForced`).  `BudgetKept` survives preemption and a reset of the running
requests because what remains of a request is a prefix of its text.

**DSML parser** (any texts, any deltas of any length).  Every operator of the
engine is followed by what it makes of a lexeme: the text is in an event, or held,
in order (`Yields`).  An engine that holds a candidate holds exactly the text of the
events it would make, so giving it back or committing it tells the same text once;
one that does not holds nothing (`EngineOK`).  The events of the reasoning
pass are thoughts, one end, then only answer (`Splits`), so taking
thoughts first and handing over the rest keeps the order.  What the tool pass does
of the rest is again `Yields`.  The feed over a delta is an induction over
sequences (`BySteps`).

`StreamIsOne` compares the passes with the single machine.  While reasoning goes
on the two are in the same state (`Alike`), and a candidate the reasoning pass holds
could be handed over as it is: read from the start by a fresh tool pass, what it holds
leads to the same engine, with the same name and events but for the end of
reasoning (`Replays`, `Twin`).  So at the end of reasoning, whether `</think>`, the
opener of a wrapper or a recovered call brought it, what is handed over leads the
tool pass to where the single machine is (`Handed`), and every further lexeme of the
delta is forwarded unchanged (`Passes`).  After that the engines differ at most in
the state a candidate began in, which is only read while one is held (`Like`).
`CallsAreDeclared` follows the single machine: outside an open wrapper every call goes
through a candidate, which holds one start, no end and exactly its name (`CallOK`),
and is committed with arguments only if that name is known.

The two are not true of all deltas, and `Tidy` says for which: in a delta that begins
in reasoning, `</think>` does not come after what ends reasoning, and
the closer of a wrapper not after the end of a call.  The reasoning pass
would take these for itself, which is the disagreement of section 4.  Deltas read after
the end of reasoning are not restricted.  In the pairs of the run `dsml` that are not
tidy the events are still the same; longer ones fail.

Only model-checked: the liveness properties (`Delivery`, `EnqueueEnds`,
`ShutdownWakes`, `AllFinish`, `ReadersEnd`, `ServesUnlessLost`, `ServiceSucceeds`),
which depend on fairness and ENABLED.  Every safety and action property of a
passing run is also a theorem, under the assumptions of the table.

## 6. Not modelled

Within the modelled components:

* Ring: the connection handshake and byte layout; the socket to readers on other
  nodes, which has no flow control and drops silently; an overflow payload left
  behind by a `recv` that timed out, which the next overflow marker is paired
  with (the workers of this deployment do not use a timeout).
* Scheduler: priority policy, connectors, encoder inputs, LoRA, pipeline
  parallelism and grammar waits (not used by this deployment, or kept by another
  component), and sharing of blocks between live requests.
* Draft context: the numeric kernels and the confidence-based draft lengths (any
  length is allowed, which includes them); prefix hits, since the hotfix that caps
  them belongs to the image build, whose draft cache is paged, not the overlay's
  slot ring.
* Model runner: block tables, attention metadata, CUDA graphs, encoders,
  streaming sessions, the same request id used twice, `reset_prefix_cache` with
  running requests.
* Responses store: response ids used by two requests.
* Boot: temporary files left by a kill, data not yet on disk at a power failure, a
  compile cache removed in part, the installation of the optional plugin.
* Cluster: most checks of numbers at the head of start, a third machine in the
  run, two scripts at once.
* Grammar: reset and jump-forward; several requests, which share nothing.
* Thinking budget: reasoning marks of several tokens, which the code refuses.
* DSML: everything after the engines' events.  `_events_to_delta`
  (`parser_engine-752a3a504-stock.py:696-774`, which the hotfix leaves alone) puts text that
  follows an event of a call in the same delta aside (`:712-714`), and sends it with the
  next delta that makes no delta of a call (`:743-745`), in front of that delta's own
  text.  So it comes after later text if the next delta has text before another call,
  or, when no delta of a call is made, in front of earlier text of its own delta; it is
  lost if the stream ends inside a call, whose end is then a delta too.  Blank text is
  dropped as long as there was a call and no other text (`:755-757`), and so are
  blanks at the end of reasoning (`:448-476`).  `EventsKeepText` speaks of none of
  this; `StreamAsOne` and `OnlyDeclared` compare and count events, before that step.
* DSML: a second `THINK_START`, `tool_choice`, the tokens to drop (a docstring says
  EOS never enters the buffers; in skip mode it does), the token-id mode, the
  conversion of arguments, the parse of a whole answer, and an empty wrapper that
  swallows the rest.
* Padding: axes widened but not sharded, least common multiples for vocabulary
  and experts.

Not modelled at all, with the reasons in `PROJECT.json`: numeric code, image
build, configuration checks, the KV-cache manager and the encoder cache of vLLM,
NFS share, model cache, warm-up, KV offload, request shaping, benchmarks.

## 7. Plan

Models to come: the encoder cache of the overlay's scheduler and runner; block
identity and the cap on prefix hits, refining the counted blocks of
`DsparkScheduler`.
