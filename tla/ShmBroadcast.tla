---------------------------- MODULE ShmBroadcast ----------------------------
(***************************************************************************)
(* vllm/distributed/device_communicators/shm_broadcast.py as the issue-117 *)
(* hotfix installs it: one writer broadcasts messages to local readers     *)
(* through a ring of chunks in shared memory, without a lock.              *)
(*                                                                         *)
(* A chunk has a payload and one flag byte for the writer ("written") and  *)
(* one per reader ("read").  The writer's stores between two fences sit in *)
(* `pend` until they become visible; the constant WeakStores says whether  *)
(* they become visible in program order or in any order.  Messages are     *)
(* the numbers 1, 2, ... in the order of enqueue; a payload is two halves, *)
(* so that a half-written one can be told from a message.  The ring's      *)
(* companions are modelled with it: the XPUB socket that carries messages  *)
(* too large for a chunk, the lossy notification socket and the            *)
(* cancellation socket.                                                    *)
(***************************************************************************)
EXTENDS Naturals, Sequences

CONSTANTS Readers,        \* local readers (local_reader_ranks)
          MaxChunks,      \* chunks in the ring (max_chunks)
          MaxMsgs,        \* bound: messages the writer enqueues in a run
          Impatient,      \* readers that pass a timeout to dequeue()
          Stoppable,      \* readers whose process may be shut down
          WeakStores      \* TRUE: stores between fences commit in any order

ASSUME RingAssumption ==
    /\ MaxChunks \in Nat \ {0}
    /\ MaxMsgs \in Nat
    /\ Impatient \subseteq Readers
    /\ Stoppable \subseteq Readers
    /\ WeakStores \in BOOLEAN

Chunks == 0 .. MaxChunks - 1
\* Fault: the index is advanced without the modulus.
NextIdxUnwrapped(i) == i + 1
NextIdx(i) == (i + 1) % MaxChunks

VARIABLES
    written,     \* written[c]: metadata byte 0 of chunk c
    rflag,       \* rflag[c][r]: metadata byte 1 + rank of r
    ovf,         \* ovf[c]: payload byte 0, TRUE on the overflow path
    lo, hi,      \* the two halves of the rest of the payload
    wpc,         \* where the writer is in enqueue()
    widx,        \* the writer's current_idx
    pend,        \* stores of the writer not yet visible
    sent,        \* messages published (written flag raised)
    large,       \* the object being enqueued does not fit in a chunk
    rpc,         \* rpc[r]: where reader r is in dequeue()
    ridx,        \* ridx[r]: the reader's current_idx
    rload,       \* rload[r]: the read flag check() has loaded
    got,         \* got[r]: the last message r saw in the ring
    sock,        \* sock[r]: payloads waiting on r's local socket
    mixed,       \* mixed[r]: r has taken a payload for another message
    note,        \* note[r]: a notification waits on r's CONFLATE socket
    down,        \* down[r]: shutting_down of r's queue object
    ping         \* ping[r]: the cancellation socket is readable

writerVars == <<wpc, widx, pend, sent, large>>
memVars    == <<written, rflag, ovf, lo, hi>>
readerVars == <<rpc, ridx, rload, got>>
sockVars   == <<sock, mixed>>
wakeVars   == <<note, down, ping>>
vars == <<memVars, writerVars, readerVars, sockVars, wakeVars>>

FlagStores == {<<"flag", r>> : r \in Readers}
Stores == {<<"clear">>, <<"lo">>, <<"hi">>} \cup FlagStores

Init ==
    /\ written = [c \in Chunks |-> 0]
    /\ rflag = [c \in Chunks |-> [r \in Readers |-> 0]]
    /\ ovf = [c \in Chunks |-> FALSE]
    /\ lo = [c \in Chunks |-> 0]
    /\ hi = [c \in Chunks |-> 0]
    /\ wpc = "idle"
    /\ widx = 0
    /\ pend = {}
    /\ sent = 0
    /\ large = FALSE
    /\ rpc = [r \in Readers |-> "idle"]
    /\ ridx = [r \in Readers |-> 0]
    /\ rload = [r \in Readers |-> 0]
    /\ got = [r \in Readers |-> 0]
    /\ sock = [r \in Readers |-> <<>>]
    /\ mixed = [r \in Readers |-> FALSE]
    /\ note = [r \in Readers |-> FALSE]
    /\ down = [r \in Readers |-> FALSE]
    /\ ping = [r \in Readers |-> FALSE]

-----------------------------------------------------------------------------
(* The writer: enqueue() and acquire_write(). *)

\* enqueue(obj): an object whose pickle does not fit in a chunk goes by the
\* overflow path.
Enqueue(overflow) ==
    /\ wpc = "idle"
    /\ sent < MaxMsgs
    /\ wpc' = "check"
    /\ large' = overflow
    /\ UNCHANGED <<memVars, widx, pend, sent, readerVars, sockVars, wakeVars>>

\* check() of acquire_write.  The loop over the read flags loads one byte at
\* a time; only this process lowers a flag, so all-ones once seen is all-ones.
Writable(c) == written[c] = 0 \/ \A r \in Readers : rflag[c][r] = 1

\* The chunk is free: clear the written flag, let the caller write the
\* payload, clear the read flags.  No fence separates these stores.
AcquireWrite ==
    /\ wpc = "check"
    /\ Writable(widx)
    /\ pend' = Stores
    /\ wpc' = "stores"
    /\ UNCHANGED <<memVars, widx, sent, large, readerVars, sockVars, wakeVars>>

\* acquire_write gives up: TimeoutError, nothing was stored.
WriteTimeout ==
    /\ wpc = "check"
    /\ ~ Writable(widx)
    /\ wpc' = "idle"
    /\ UNCHANGED <<memVars, widx, pend, sent, large, readerVars, sockVars,
                   wakeVars>>

\* Fault: the read flags are reset before the written flag is cleared.
BeforeFlagsFirst(s) ==
    CASE s = <<"clear">> -> FlagStores
      [] s = <<"lo">>    -> {<<"clear">>}
      [] s = <<"hi">>    -> {<<"clear">>, <<"lo">>}
      [] OTHER           -> {}

\* Stores s must wait for when the processor keeps stores in program order.
Before(s) ==
    CASE s = <<"clear">> -> {}
      [] s = <<"lo">>    -> {<<"clear">>}
      [] s = <<"hi">>    -> {<<"clear">>, <<"lo">>}
      [] OTHER           -> {<<"clear">>, <<"lo">>, <<"hi">>}

\* One pending store becomes visible to the other processes.
Commit(s) ==
    /\ wpc = "stores"
    /\ s \in pend
    /\ WeakStores \/ Before(s) \cap pend = {}
    /\ pend' = pend \ {s}
    /\ written' = IF s = <<"clear">> THEN [written EXCEPT ![widx] = 0]
                  ELSE written
    /\ ovf' = IF s = <<"lo">> THEN [ovf EXCEPT ![widx] = large] ELSE ovf
    /\ lo' = IF s = <<"lo">> THEN [lo EXCEPT ![widx] = sent + 1] ELSE lo
    /\ hi' = IF s = <<"hi">> THEN [hi EXCEPT ![widx] = sent + 1] ELSE hi
    /\ rflag' = [rflag EXCEPT ![widx] =
                   [r \in Readers |-> IF s = <<"flag", r>> THEN 0
                                      ELSE rflag[widx][r]]]
    /\ UNCHANGED <<wpc, widx, sent, large, readerVars, sockVars, wakeVars>>

\* After the fence: raise the written flag, fence again, advance.
Raise ==
    /\ wpc = "stores"
    /\ pend = {}
    /\ written' = [written EXCEPT ![widx] = 1]
    /\ widx' = NextIdx(widx)
    /\ sent' = sent + 1
    /\ wpc' = "send"
    /\ UNCHANGED <<rflag, ovf, lo, hi, pend, large, readerVars, sockVars, wakeVars>>

\* Fault: the payload socket conflates, as the notification socket does.
SendOverflowConflated ==
    /\ wpc = "send"
    /\ sock' = IF large THEN [r \in Readers |-> <<sent>>] ELSE sock
    /\ wpc' = "notify"
    /\ large' = FALSE
    /\ UNCHANGED <<memVars, widx, pend, sent, readerVars, mixed, wakeVars>>

\* On the overflow path the payload follows on the local XPUB socket.
SendOverflow ==
    /\ wpc = "send"
    /\ sock' = IF large THEN [r \in Readers |-> Append(sock[r], sent)]
               ELSE sock
    /\ wpc' = "notify"
    /\ large' = FALSE
    /\ UNCHANGED <<memVars, widx, pend, sent, readerVars, mixed, wakeVars>>

\* notify(): a PUB socket with SNDHWM 1 may drop the ping for any reader.
\* The send to the readers on other nodes that ends enqueue() shares nothing
\* with the ring and is left out.
Notify(reached) ==
    /\ wpc = "notify"
    /\ note' = [r \in Readers |-> note[r] \/ r \in reached]
    /\ wpc' = "idle"
    /\ UNCHANGED <<memVars, widx, pend, sent, large, readerVars, sockVars,
                   down, ping>>

-----------------------------------------------------------------------------
(* A local reader: dequeue(), acquire_read() and SpinCondition.wait(). *)

Dequeue(r) ==
    /\ rpc[r] = "idle"
    /\ rpc' = [rpc EXCEPT ![r] = "loadFlag"]
    /\ UNCHANGED <<memVars, writerVars, ridx, rload, got, sockVars, wakeVars>>

\* check() of acquire_read, first load: the reader's own flag.
LoadReadFlag(r) ==
    /\ rpc[r] = "loadFlag"
    /\ rload' = [rload EXCEPT ![r] = rflag[ridx[r]][r]]
    /\ rpc' = [rpc EXCEPT ![r] = "loadWritten"]
    /\ UNCHANGED <<memVars, writerVars, ridx, got, sockVars, wakeVars>>

\* Fault: check() looks at the written flag only.
LoadWrittenFlagOnly(r) ==
    /\ rpc[r] = "loadWritten"
    /\ rpc' = [rpc EXCEPT ![r] = IF written[ridx[r]] = 1 THEN "body" ELSE "wait"]
    /\ rload' = [rload EXCEPT ![r] = 0]
    /\ UNCHANGED <<memVars, writerVars, ridx, got, sockVars, wakeVars>>

\* check(), second load: the written flag; then enter the body or wait.
LoadWrittenFlag(r) ==
    /\ rpc[r] = "loadWritten"
    /\ rpc' = [rpc EXCEPT ![r] =
                 IF written[ridx[r]] = 1 /\ rload[r] = 0 THEN "body"
                 ELSE "wait"]
    /\ rload' = [rload EXCEPT ![r] = 0]
    /\ UNCHANGED <<memVars, writerVars, ridx, got, sockVars, wakeVars>>

\* What a reader finds in chunk c: 0 stands for a torn payload.
Payload(c) == IF lo[c] = hi[c] THEN lo[c] ELSE 0

\* Fault (the code before the hotfix): without the finally clause a body that
\* raises neither releases the chunk nor advances.
ReleaseNoFinally(r, failed) ==
    /\ rpc[r] = "body"
    /\ failed => ~ ovf[ridx[r]]
    /\ got' = [got EXCEPT ![r] = IF failed THEN @ ELSE Payload(ridx[r])]
    /\ rpc' = [rpc EXCEPT ![r] = IF ovf[ridx[r]] THEN "recv" ELSE "idle"]
    /\ rflag' = [rflag EXCEPT ![ridx[r]][r] = IF failed THEN @ ELSE 1]
    /\ ridx' = [ridx EXCEPT ![r] = IF failed THEN @ ELSE NextIdx(@)]
    /\ UNCHANGED <<written, ovf, lo, hi, writerVars, rload, sockVars, wakeVars>>

\* The body of acquire_read ends, by return or by exception (`failed`, only
\* on the inline path, which unpickles in the body); the finally clause
\* releases the chunk and advances in both cases.
Release(r, failed) ==
    /\ rpc[r] = "body"
    /\ failed => ~ ovf[ridx[r]]
    /\ got' = [got EXCEPT ![r] = Payload(ridx[r])]
    /\ rpc' = [rpc EXCEPT ![r] = IF ovf[ridx[r]] THEN "recv" ELSE "idle"]
    /\ rflag' = [rflag EXCEPT ![ridx[r]][r] = 1]
    /\ ridx' = [ridx EXCEPT ![r] = NextIdx(ridx[r])]
    /\ UNCHANGED <<written, ovf, lo, hi, writerVars, rload, sockVars, wakeVars>>

\* The overflow payload is read from the socket after the chunk is released.
RecvOverflow(r) ==
    /\ rpc[r] = "recv"
    /\ sock[r] # <<>>
    /\ mixed' = [mixed EXCEPT ![r] = mixed[r] \/ Head(sock[r]) # got[r]]
    /\ sock' = [sock EXCEPT ![r] = Tail(@)]
    /\ rpc' = [rpc EXCEPT ![r] = "idle"]
    /\ UNCHANGED <<memVars, writerVars, ridx, rload, got, wakeVars>>

\* recv() polls with the caller's timeout and raises TimeoutError; the
\* chunk is already released, the payload still to come.
RecvTimeout(r) ==
    /\ r \in Impatient
    /\ rpc[r] = "recv"
    /\ sock[r] = <<>>
    /\ rpc' = [rpc EXCEPT ![r] = "idle"]
    /\ UNCHANGED <<memVars, writerVars, ridx, rload, got, sockVars, wakeVars>>

\* timeout_ms() raises TimeoutError past the deadline, before waiting.
ReadTimeout(r) ==
    /\ r \in Impatient
    /\ rpc[r] = "wait"
    /\ rpc' = [rpc EXCEPT ![r] = "idle"]
    /\ UNCHANGED <<memVars, writerVars, ridx, rload, got, sockVars, wakeVars>>

\* Fault: the reader retries without looking at shutting_down.
AfterWaitRetry(r) == "loadFlag"

\* `if self.shutting_down: raise RuntimeError("cancelled")`, else retry.
AfterWait(r) == IF down[r] THEN "cancelled" ELSE "loadFlag"

\* wait(), shortly after a read: yield the processor and return.
Spin(r) ==
    /\ rpc[r] = "wait"
    /\ rpc' = [rpc EXCEPT ![r] = AfterWait(r)]
    /\ UNCHANGED <<memVars, writerVars, ridx, rload, got, sockVars, wakeVars>>

\* wait(), idle mode: block in the poller.
Park(r) ==
    /\ rpc[r] = "wait"
    /\ rpc' = [rpc EXCEPT ![r] = "parked"]
    /\ UNCHANGED <<memVars, writerVars, ridx, rload, got, sockVars, wakeVars>>

\* The poller returns on a socket.  A cancellation ping is seen first and
\* never read, so it stays; otherwise the one notification is received.
WakeBySocket(r) ==
    /\ rpc[r] = "parked"
    /\ ping[r] \/ note[r]
    /\ rpc' = [rpc EXCEPT ![r] = AfterWait(r)]
    /\ note' = [note EXCEPT ![r] = note[r] /\ ping[r]]
    /\ UNCHANGED <<memVars, writerVars, ridx, rload, got, sockVars, down,
                   ping>>

\* Fault (the code before the hotfix): the poller has a timeout only if the
\* caller passed one.
WakeByCallerTimeout(r) ==
    /\ r \in Impatient
    /\ rpc[r] = "parked"
    /\ ~ ping[r] /\ ~ note[r]
    /\ rpc' = [rpc EXCEPT ![r] = AfterWait(r)]
    /\ UNCHANGED <<memVars, writerVars, ridx, rload, got, sockVars, wakeVars>>

\* The poller times out: timeout_ms() is at most the recheck interval.
WakeByRecheck(r) ==
    /\ rpc[r] = "parked"
    /\ ~ ping[r] /\ ~ note[r]
    /\ rpc' = [rpc EXCEPT ![r] = AfterWait(r)]
    /\ UNCHANGED <<memVars, writerVars, ridx, rload, got, sockVars, wakeVars>>

\* shutdown(), from the monitor thread of the reader's process.
Shutdown(r) ==
    /\ r \in Stoppable
    /\ ~ down[r]
    /\ down' = [down EXCEPT ![r] = TRUE]
    /\ UNCHANGED <<memVars, writerVars, readerVars, sockVars, note, ping>>

Cancel(r) ==
    /\ down[r]
    /\ ~ ping[r]
    /\ ping' = [ping EXCEPT ![r] = TRUE]
    /\ UNCHANGED <<memVars, writerVars, readerVars, sockVars, note, down>>
-----------------------------------------------------------------------------
WriterStep ==
    \/ AcquireWrite
    \/ \E s \in Stores : Commit(s)
    \/ Raise
    \/ SendOverflow
    \/ \E reached \in SUBSET Readers : Notify(reached)

ReaderStep(r) ==
    \/ Dequeue(r)
    \/ LoadReadFlag(r)
    \/ LoadWrittenFlag(r)
    \/ \E failed \in BOOLEAN : Release(r, failed)
    \/ RecvOverflow(r)
    \/ Spin(r)
    \/ Park(r)
    \/ WakeBySocket(r)
    \/ WakeByRecheck(r)

Next ==
    \/ \E overflow \in BOOLEAN : Enqueue(overflow)
    \/ WriterStep
    \/ WriteTimeout
    \/ \E r \in Readers :
         ReaderStep(r) \/ ReadTimeout(r) \/ RecvTimeout(r) \/ Shutdown(r)
           \/ Cancel(r)

Spec == Init /\ [][Next]_vars

(* The processes keep running: the writer finishes the enqueue() it began,  *)
(* and the busy loop of every worker calls dequeue() again and again.       *)
FairSpec ==
    /\ Spec
    /\ WF_vars(WriterStep)
    /\ \A r \in Readers : WF_vars(ReaderStep(r))
-----------------------------------------------------------------------------
TypeOK ==
    /\ written \in [Chunks -> {0, 1}]
    /\ rflag \in [Chunks -> [Readers -> {0, 1}]]
    /\ ovf \in [Chunks -> BOOLEAN]
    /\ lo \in [Chunks -> 0 .. MaxMsgs]
    /\ hi \in [Chunks -> 0 .. MaxMsgs]
    /\ wpc \in {"idle", "check", "stores", "send", "notify"}
    /\ widx \in Chunks
    /\ pend \subseteq Stores
    /\ sent \in 0 .. MaxMsgs
    /\ large \in BOOLEAN
    /\ rpc \in [Readers -> {"idle", "loadFlag", "loadWritten", "body", "recv",
                            "wait", "parked", "cancelled"}]
    /\ ridx \in [Readers -> Chunks]
    /\ rload \in [Readers -> {0, 1}]
    /\ got \in [Readers -> 0 .. MaxMsgs]
    /\ sock \in [Readers -> Seq(1 .. MaxMsgs)]
    /\ mixed \in [Readers -> BOOLEAN]
    /\ note \in [Readers -> BOOLEAN]
    /\ down \in [Readers -> BOOLEAN]
    /\ ping \in [Readers -> BOOLEAN]

(* Whenever acquire_read has let a reader into a chunk, the chunk holds the *)
(* whole of the next message that reader is to see: the writer is neither   *)
(* still filling it nor already reusing it, for as long as the body runs.   *)
BodySeesNextMessage ==
    \A r \in Readers : rpc[r] = "body" =>
        /\ lo[ridx[r]] = got[r] + 1
        /\ hi[ridx[r]] = got[r] + 1

(* A chunk is never given back to the writer while some reader has not seen *)
(* its message: acquire_write begins storing only when every reader has     *)
(* taken the message the chunk held one lap ago.                            *)
NoUnreadOverwrite ==
    wpc = "stores" => \A r \in Readers : got[r] + MaxChunks > sent

(* An overflow marker read in the ring is put together with its own payload *)
(* and never with that of another message, for a reader that waits for it   *)
(* (recv() timing out after the chunk is released leaves the payload behind *)
(* for the next overflow message).                                          *)
PayloadsPaired == \A r \in Readers \ Impatient : ~ mixed[r]

(* The ring implements the broadcast log: published messages are taken by   *)
(* every reader exactly once, in order, at most MaxChunks behind.           *)
Log == INSTANCE BroadcastLog WITH Capacity <- MaxChunks
RefinesLog == Log!LogSpec

(* Every published message reaches every reader that is not shut down, even *)
(* when all its notifications are lost and bodies raise exceptions: again   *)
(* and again, and so whenever the writer pauses, a reader has taken all     *)
(* there is.                                                                *)
Delivery == \A r \in Readers : []<>(got[r] = sent \/ down[r])

(* An enqueue() that has started ends, unless some reader was shut down and *)
(* no longer frees the ring.                                                *)
EnqueueEnds == (wpc # "idle") ~> (wpc = "idle" \/ \E r \in Readers : down[r])

(* A reader that is shut down leaves dequeue() with "cancelled", wherever   *)
(* shutdown() finds it: between its check and its wait, parked, waiting for *)
(* an overflow payload, or outside dequeue().                               *)
ShutdownWakes ==
    \A r \in Readers : down[r] ~> (rpc[r] = "cancelled")
=============================================================================
