--------------------------- MODULE ResponsesStore ---------------------------
(***************************************************************************)
(* The bounded store of the Responses API.                                 *)
(*                                                                         *)
(* One event loop runs request handlers, background producers, their done  *)
(* callbacks and the readers of background streams; they interleave at     *)
(* every suspension.  The bodies under response_store_lock contain none,   *)
(* so each is one step and the lock itself never blocks.                   *)
(*                                                                         *)
(* response_store is a dict used as an LRU list: its keys are store, their *)
(* insertion order is order (<<i, j>>: j was touched after i).  msg_store  *)
(* and event_store are sets of keys; the event states live on in readers   *)
(* that captured them.  A response id is used by one request.              *)
(***************************************************************************)
EXTENDS Integers, FiniteSets

CONSTANTS Ids,         \* response ids
          Modes,       \* of requests: subset of AllModes
          Readers,     \* readers of background streams
          MaxEntries,  \* DSPARK_RESPONSES_STORE_MAX_ENTRIES
          MaxEvents,   \* bound: events of a stream before the final one
          NoId         \* no previous response

\* plain, stream: in the foreground; background, live: in the background,
\* live with a stream of events; transient: not to be stored.
AllModes == {"plain", "stream", "background", "live", "transient"}

ASSUME StoreAssumption ==
    /\ IsFiniteSet(Ids) /\ NoId \notin Ids
    /\ Modes \subseteq AllModes
    /\ MaxEntries \in Nat \ {0}
    /\ MaxEvents \in Nat

VARIABLES
    pc,      \* where the handler of a request is
    mode,    \* kind of the request
    prev,    \* the response it continues
    store,   \* keys of response_store
    order,   \* their order, least recently used first
    status,  \* status of a stored response
    pins,    \* response_store_pins
    msgs,    \* keys of msg_store
    events,  \* keys of event_store
    tasks,   \* keys of background_tasks
    run,     \* the coroutine of a background request
    log,     \* number of events in the deque of a stream
    final,   \* its last event is response.completed
    done,    \* done_signal
    sig,     \* new_event_signal
    reader   \* the readers: state, stream and current_index

stores == <<store, order, msgs, events>>
streams == <<log, final, done, sig>>
vars == <<pc, mode, prev, stores, status, pins, tasks, run, streams, reader>>

Idle == [st |-> "idle", id |-> NoId, idx |-> 0]

Init ==
    /\ pc = [i \in Ids |-> "new"]
    /\ mode = [i \in Ids |-> "none"]
    /\ prev = [i \in Ids |-> NoId]
    /\ store = {} /\ order = {} /\ msgs = {} /\ events = {} /\ tasks = {}
    /\ status = [i \in Ids |-> "none"]
    /\ pins = [i \in Ids |-> 0]
    /\ run = [i \in Ids |-> "none"]
    /\ log = [i \in Ids |-> 0]
    /\ final = [i \in Ids |-> FALSE]
    /\ done = [i \in Ids |-> FALSE]
    /\ sig = [i \in Ids |-> FALSE]
    /\ reader = [r \in Readers |-> Idle]

-----------------------------------------------------------------------------
(* The store: order of use, and eviction *)

\* The key is popped and put back: it becomes the last one.
Touched(i) ==
    {p \in order : p[1] # i /\ p[2] # i} \cup {<<j, i>> : j \in store \ {i}}

\* Fault: a response in use by a continuation may go.
EvictableUnpinned(i) == status'[i] # "queued" /\ i \notin tasks'

\* Neither queued nor in progress (one status here), no continuation reads it,
\* no producer is tracked for it.
Evictable(i) == status'[i] # "queued" /\ pins'[i] = 0 /\ i \notin tasks'

\* Of the evictable keys, all but the last MaxEntries.
Excess(keys, ord) ==
    {i \in keys : Evictable(i)
        /\ Cardinality({j \in keys : Evictable(j) /\ <<i, j>> \in ord}) >= MaxEntries}

\* Fault: only the response itself is dropped.
EvictResponses(keys, ord, m, e) ==
    LET gone == Excess(keys, ord)
    IN /\ store' = keys \ gone
       /\ order' = {p \in ord : p[1] \notin gone /\ p[2] \notin gone}
       /\ msgs' = m /\ events' = e

\* _evict_stored_responses_locked(): responses go with messages and events.
Evict(keys, ord, m, e) ==
    LET gone == Excess(keys, ord)
    IN /\ store' = keys \ gone
       /\ order' = {p \in ord : p[1] \notin gone /\ p[2] \notin gone}
       /\ msgs' = m \ gone
       /\ events' = e \ gone

\* Fault: a finished response overrides its cancellation.
CancelledNever(i) == FALSE

\* A cancelled response is not replaced by its result.
CancelledStays(i) == i \in store /\ status[i] = "cancelled"

\* _store_response() of a result, preserve_cancelled.
StoreResult(i) ==
    IF CancelledStays(i)
    THEN UNCHANGED <<stores, status>>
    ELSE /\ status' = [status EXCEPT ![i] = "completed"]
         /\ Evict(store \cup {i}, Touched(i), msgs, events)

-----------------------------------------------------------------------------
(* Request handlers *)

\* A continuation pins the response it continues, or is refused.
Create(i) ==
    /\ pc[i] = "new"
    /\ \E m \in Modes : mode' = [mode EXCEPT ![i] = m]
    /\ \/ /\ pc' = [pc EXCEPT ![i] = "rendering"]
          /\ UNCHANGED <<prev, store, order, pins>>
       \/ \E p \in store :
          /\ pc' = [pc EXCEPT ![i] = "rendering"]
          /\ prev' = [prev EXCEPT ![i] = p]
          /\ order' = Touched(p)
          /\ pins' = [pins EXCEPT ![p] = @ + 1]
          /\ UNCHANGED store
       \/ /\ store # Ids
          /\ pc' = [pc EXCEPT ![i] = "over"]
          /\ UNCHANGED <<prev, store, order, pins>>
    /\ UNCHANGED <<status, msgs, events, tasks, run, streams, reader>>

\* Fault: the pin is dropped, but the store is not looked at.
ReleaseOnly(i) ==
    IF prev[i] = NoId THEN UNCHANGED <<stores, pins>>
    ELSE /\ pins' = [pins EXCEPT ![prev[i]] = @ - 1]
         /\ UNCHANGED stores

\* _release_stored_response() of the response i continues.
Release(i) ==
    IF prev[i] = NoId THEN UNCHANGED <<stores, pins>>
    ELSE /\ pins' = [pins EXCEPT ![prev[i]] = @ - 1]
         /\ Evict(store, order, msgs, events)

\* The prompt is rendered (a suspension), or that fails or is cancelled; the
\* pin is released in either case.
Rendered(i) ==
    /\ pc[i] = "rendering"
    /\ \E next \in {"ready", "over"} : pc' = [pc EXCEPT ![i] = next]
    /\ UNCHANGED <<mode, prev, status, tasks, run, streams, reader>>
    /\ Release(i)

\* Between rendering and launch the handler may still fail.
GiveUp(i) ==
    /\ pc[i] \in {"ready", "lazy"}
    /\ pc' = [pc EXCEPT ![i] = "over"]
    /\ UNCHANGED <<mode, prev, stores, status, pins, tasks, run, streams, reader>>

\* Messages are kept at the launch, those of a foreground stream when it is
\* first read.
RetainedNow(i) == IF mode[i] \in {"plain", "background", "live"} THEN {i} ELSE {}

\* Foreground: the generation runs now, or when the stream is first read.
LaunchForeground(i) ==
    /\ pc[i] = "ready" /\ mode[i] \in {"plain", "stream", "transient"}
    /\ pc' = [pc EXCEPT ![i] = IF mode[i] = "stream" THEN "lazy" ELSE "generating"]
    /\ msgs' = msgs \cup RetainedNow(i)
    /\ UNCHANGED <<mode, prev, store, order, status, pins, events, tasks, run, streams, reader>>

\* Background: the queued response, the event state, then the task; the reader
\* of a live stream is the one the handler returns.
LaunchBackground(i) ==
    /\ pc[i] = "ready" /\ mode[i] \in {"background", "live"}
    /\ pc' = [pc EXCEPT ![i] = "over"]
    /\ status' = [status EXCEPT ![i] = "queued"]
    /\ tasks' = tasks \cup {i}
    /\ run' = [run EXCEPT ![i] = "running"]
    /\ UNCHANGED <<mode, prev, pins, streams>>
    /\ Evict(store \cup {i}, Touched(i), msgs \cup RetainedNow(i),
             IF mode[i] = "live" THEN events \cup {i} ELSE events)
    /\ \/ UNCHANGED reader
       \/ /\ mode[i] = "live"
          /\ \E r \in Readers : /\ reader[r].st = "idle"
                                /\ reader' = [reader EXCEPT ![r] = [st |-> "clear", id |-> i, idx |-> 0]]

\* The client reads the first event of a foreground stream.
StartStream(i) ==
    /\ pc[i] = "lazy"
    /\ pc' = [pc EXCEPT ![i] = "generating"]
    /\ msgs' = msgs \cup {i}
    /\ UNCHANGED <<mode, prev, store, order, status, pins, events, tasks, run, streams, reader>>

\* responses_full_generator() of a foreground request stores the result.
ForegroundResult(i) ==
    /\ pc[i] = "generating"
    /\ pc' = [pc EXCEPT ![i] = "stored"]
    /\ UNCHANGED <<mode, prev, pins, tasks, run, streams, reader>>
    /\ IF mode[i] = "transient" THEN UNCHANGED <<stores, status>> ELSE StoreResult(i)

\* The end of a foreground request, by return, failure or disconnect: without a
\* stored response its messages are dropped.
ForegroundEnd(i) ==
    /\ pc[i] \in {"generating", "stored"}
    /\ pc' = [pc EXCEPT ![i] = "over"]
    /\ msgs' = IF mode[i] = "transient" \/ i \in store THEN msgs ELSE msgs \ {i}
    /\ UNCHANGED <<mode, prev, store, order, status, pins, events, tasks, run, streams, reader>>

\* retrieve_responses(): touches the entry; a stream is read from any index.
Retrieve(i) ==
    /\ i \in store
    /\ order' = Touched(i)
    /\ \/ UNCHANGED reader
       \/ /\ i \in events
          /\ \E r \in Readers, from \in 0 .. MaxEvents + 1 :
               /\ reader[r].st = "idle"
               /\ reader' = [reader EXCEPT ![r] = [st |-> "clear", id |-> i, idx |-> from]]
    /\ UNCHANGED <<pc, mode, prev, store, status, pins, msgs, events, tasks, run, streams>>

\* cancel_responses() of a response that is not terminal.
Cancel(i) ==
    /\ i \in store /\ status[i] = "queued"
    /\ status' = [status EXCEPT ![i] = "cancelled"]
    /\ UNCHANGED <<pc, mode, prev, pins, tasks, run, streams, reader>>
    /\ Evict(store, Touched(i), msgs, events)

-----------------------------------------------------------------------------
(* Background producers *)

Woken(i) ==
    [r \in Readers |-> IF reader[r].st = "waiting" /\ reader[r].id = i
                       THEN [reader[r] EXCEPT !.st = "clear"] ELSE reader[r]]

\* new_event_signal.set()
Signal(i) == sig' = [sig EXCEPT ![i] = TRUE] /\ reader' = Woken(i)

\* An event of a live stream.
Produce(i) ==
    /\ run[i] = "running" /\ mode[i] = "live" /\ log[i] < MaxEvents
    /\ log' = [log EXCEPT ![i] = @ + 1]
    /\ Signal(i)
    /\ UNCHANGED <<pc, mode, prev, stores, status, pins, tasks, run, final, done>>

\* The producer has its result: it is stored, and then announced in the stream.
\* A cancelled producer may still come here.
TaskResult(i) ==
    /\ run[i] = "running"
    /\ run' = [run EXCEPT ![i] = "finished"]
    /\ UNCHANGED <<pc, mode, prev, pins, tasks, done>>
    /\ StoreResult(i)
    /\ IF mode[i] = "live"
       THEN /\ log' = [log EXCEPT ![i] = @ + 1]
            /\ final' = [final EXCEPT ![i] = TRUE]
            /\ Signal(i)
       ELSE UNCHANGED <<log, final, sig, reader>>

\* The coroutine returns, fails or is cancelled; a producer of events signals.
TaskEnds(i) ==
    /\ run[i] \in {"running", "finished"}
    /\ \E how \in {"ended", "cancelled"} : run' = [run EXCEPT ![i] = how]
    /\ IF mode[i] = "live" THEN Signal(i) ELSE UNCHANGED <<sig, reader>>
    /\ UNCHANGED <<pc, mode, prev, stores, status, pins, tasks, log, final, done>>

\* Fault: readers are not told that nothing will follow.
FinishStreamNot(i) == UNCHANGED <<done, sig, reader>>

\* The end of a stream, for readers that are there and for later ones.
FinishStream(i) ==
    IF i \in events THEN done' = [done EXCEPT ![i] = TRUE] /\ Signal(i)
    ELSE UNCHANGED <<done, sig, reader>>

\* The finished response counts as just used.
OrderOnDone(i) == IF i \in store THEN Touched(i) ELSE order

\* A producer that ended without a result leaves a response still queued.
StatusOnDone(i) ==
    IF i \in store /\ status[i] = "queued"
    THEN [status EXCEPT ![i] = IF run[i] = "cancelled" THEN "cancelled" ELSE "failed"]
    ELSE status

\* _background_task_done(), a callback of the loop: a response still queued
\* becomes terminal, and is now subject to eviction.
TaskDone(i) ==
    /\ run[i] \in {"ended", "cancelled"}
    /\ run' = [run EXCEPT ![i] = "none"]
    /\ tasks' = tasks \ {i}
    /\ status' = StatusOnDone(i)
    /\ UNCHANGED <<pc, mode, prev, pins, log, final>>
    /\ FinishStream(i)
    /\ Evict(store, OrderOnDone(i), msgs, events)

-----------------------------------------------------------------------------
(* Readers of a background stream *)

\* Fault: the end is looked for before the events.
AfterScanDoneFirst(r, flag) ==
    LET i == reader[r].id
    IN IF done[i] THEN [reader[r] EXCEPT !.st = "ended"]
       ELSE IF reader[r].idx < log[i] THEN [st |-> "yielded", id |-> i, idx |-> reader[r].idx + 1]
       ELSE [reader[r] EXCEPT !.st = IF flag THEN "clear" ELSE "waiting"]

\* One turn of the reader's loop up to its next suspension: an event is
\* yielded; without one the stream is over, or it waits (not at all when the
\* flag is set).
AfterScan(r, flag) ==
    LET i == reader[r].id
    IN IF reader[r].idx < log[i] THEN [st |-> "yielded", id |-> i, idx |-> reader[r].idx + 1]
       ELSE IF done[i] THEN [reader[r] EXCEPT !.st = "ended"]
       ELSE [reader[r] EXCEPT !.st = IF flag THEN "clear" ELSE "waiting"]

\* The head of the loop: the shared flag is cleared first.
ReadFromClear(r) ==
    /\ reader[r].st = "clear"
    /\ sig' = [sig EXCEPT ![reader[r].id] = FALSE]
    /\ reader' = [reader EXCEPT ![r] = AfterScan(r, FALSE)]
    /\ UNCHANGED <<pc, mode, prev, stores, status, pins, tasks, run, log, final, done>>

\* The client has taken an event; after response.completed the reader returns.
ReadOn(r) ==
    /\ reader[r].st = "yielded"
    /\ reader' = [reader EXCEPT ![r] =
                    IF final[reader[r].id] /\ reader[r].idx = log[reader[r].id]
                    THEN [reader[r] EXCEPT !.st = "ended"]
                    ELSE AfterScan(r, sig[reader[r].id])]
    /\ UNCHANGED <<pc, mode, prev, stores, status, pins, tasks, run, streams>>

\* The client disconnects.
Leave(r) ==
    /\ reader[r].st \in {"clear", "yielded", "waiting"}
    /\ reader' = [reader EXCEPT ![r] = Idle]
    /\ UNCHANGED <<pc, mode, prev, stores, status, pins, tasks, run, streams>>

-----------------------------------------------------------------------------
Next ==
    \/ \E i \in Ids :
         \/ Create(i) \/ Rendered(i) \/ GiveUp(i)
         \/ LaunchForeground(i) \/ LaunchBackground(i) \/ StartStream(i)
         \/ ForegroundResult(i) \/ ForegroundEnd(i)
         \/ Retrieve(i) \/ Cancel(i)
         \/ Produce(i) \/ TaskResult(i) \/ TaskEnds(i) \/ TaskDone(i)
    \/ \E r \in Readers : ReadFromClear(r) \/ ReadOn(r) \/ Leave(r)

Spec == Init /\ [][Next]_vars

\* Prompts are rendered and generations end; the loop runs what is ready, and
\* a client that stays takes its events.
Fairness ==
    /\ \A i \in Ids : WF_vars(Rendered(i)) /\ WF_vars(TaskEnds(i)) /\ WF_vars(TaskDone(i))
    /\ \A r \in Readers : WF_vars(ReadFromClear(r)) /\ WF_vars(ReadOn(r))

FairSpec == Spec /\ Fairness

-----------------------------------------------------------------------------
(* Properties *)

\* A response nobody needs any more.
Terminal(i) == status[i] # "queued" /\ pins[i] = 0 /\ i \notin tasks

\* At every suspension the store retains at most MaxEntries responses that no
\* continuation and no producer holds: whatever made one of them terminal or
\* free has evicted (the bound the constructor announces).
StoreBounded == Cardinality({i \in store : Terminal(i)}) <= MaxEntries

\* A stored response has its messages; messages without a response belong to a
\* foreground request still under way, and event states to stored responses:
\* nothing else stays behind.
BundlesWhole ==
    /\ store \subseteq msgs
    /\ \A i \in msgs \ store : pc[i] \in {"generating", "stored"}
    /\ events \subseteq store
    /\ tasks \subseteq store

\* Whatever else runs while a prompt is rendered, the continued response and
\* its messages are there; and no pin outlives its handler.
PinsHeld ==
    /\ \A i \in Ids : pc[i] = "rendering" /\ prev[i] # NoId => prev[i] \in store \cap msgs
    /\ \A p \in Ids : pins[p] = Cardinality({i \in Ids : pc[i] = "rendering" /\ prev[i] = p})

\* A response stays cancelled as long as it is stored, although its producer
\* may finish and its callback runs later.
CancelledIsFinal ==
    [][\A i \in store \cap store' : status[i] = "cancelled" => status'[i] = "cancelled"]_vars

\* A reader that returned has read every event of its stream.
NothingUnread ==
    \A r \in Readers : reader[r].st = "ended" =>
      LET i == reader[r].id IN (done[i] \/ final[i]) /\ reader[r].idx >= log[i]

\* A reader whose client stays comes to an end, also when another reader
\* clears the flag they share, and when the producer was cancelled or failed.
ReadersEnd ==
    \A r \in Readers : (reader[r].st \in {"clear", "yielded", "waiting"})
                         ~> (reader[r].st \in {"ended", "idle"})

=============================================================================
