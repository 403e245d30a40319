------------------------- MODULE ShmBroadcastProofs -------------------------
(***************************************************************************)
(* Proofs about the shared-memory ring for every set of readers, every     *)
(* number of chunks and every bound on the messages.  Type correctness     *)
(* holds in both store orders; the safety of the ring and its refinement   *)
(* of the broadcast log need the writer's stores to become visible in      *)
(* program order (~ WeakStores).                                           *)
(***************************************************************************)
EXTENDS ShmBroadcast, Integers, TLAPS

(* TypeOK is inductive once it is known that an enqueue() in progress still *)
(* has a message number left, and that one that is done has used one.       *)
TypeInv ==
    /\ TypeOK
    /\ wpc \in {"check", "stores"} => sent < MaxMsgs
    /\ wpc \in {"send", "notify"} => sent >= 1

(* The index of the next chunk, without the modulus. *)
LEMMA NextIdxValue ==
    ASSUME NEW i \in Chunks
    PROVE  /\ NextIdx(i) \in Chunks
           /\ NextIdx(i) = IF i = MaxChunks - 1 THEN 0 ELSE i + 1
BY RingAssumption DEF NextIdx, Chunks

LEMMA ZeroIsChunk == 0 \in Chunks
BY RingAssumption DEF Chunks

(* Stores that go to different bytes are different. *)
LEMMA StoresDistinct ==
    /\ <<"clear">> # <<"lo">> /\ <<"clear">> # <<"hi">> /\ <<"lo">> # <<"hi">>
    /\ \A r \in Readers : /\ <<"flag", r>> \notin {<<"clear">>, <<"lo">>, <<"hi">>}
                          /\ \A q \in Readers : <<"flag", r>> = <<"flag", q>> => r = q
<1>1. /\ <<"clear">>[1] # <<"lo">>[1] /\ <<"clear">>[1] # <<"hi">>[1]
      /\ <<"lo">>[1] # <<"hi">>[1]
  OBVIOUS
<1>2. ASSUME NEW r \in Readers
      PROVE  /\ <<"flag", r>>[1] # <<"clear">>[1] /\ <<"flag", r>>[1] # <<"lo">>[1]
             /\ <<"flag", r>>[1] # <<"hi">>[1] /\ <<"flag", r>>[2] = r
  OBVIOUS
<1>3. QED
  BY <1>1, <1>2
-----------------------------------------------------------------------------
LEMMA TypeInit == Init => TypeInv
<1> SUFFICES ASSUME Init PROVE TypeInv
  OBVIOUS
<1>1. /\ written \in [Chunks -> {0, 1}]
      /\ rflag \in [Chunks -> [Readers -> {0, 1}]]
      /\ ovf \in [Chunks -> BOOLEAN]
      /\ lo \in [Chunks -> 0 .. MaxMsgs]
      /\ hi \in [Chunks -> 0 .. MaxMsgs]
  BY RingAssumption DEF Init
<1>2. /\ rpc \in [Readers -> {"idle", "loadFlag", "loadWritten", "body", "recv",
                              "wait", "parked", "cancelled"}]
      /\ ridx \in [Readers -> Chunks]
      /\ rload \in [Readers -> {0, 1}]
      /\ got \in [Readers -> 0 .. MaxMsgs]
  BY RingAssumption, ZeroIsChunk DEF Init
<1>3. sock \in [Readers -> Seq(1 .. MaxMsgs)]
  BY DEF Init
<1>4. /\ mixed \in [Readers -> BOOLEAN]
      /\ note \in [Readers -> BOOLEAN]
      /\ down \in [Readers -> BOOLEAN]
      /\ ping \in [Readers -> BOOLEAN]
  BY DEF Init
<1>5. QED
  BY <1>1, <1>2, <1>3, <1>4, RingAssumption, ZeroIsChunk DEF Init, TypeInv, TypeOK

LEMMA TypeNext == TypeInv /\ [Next]_vars => TypeInv'
<1> SUFFICES ASSUME TypeInv, [Next]_vars PROVE TypeInv'
  OBVIOUS
<1> USE RingAssumption
<1>1. CASE \E overflow \in BOOLEAN : Enqueue(overflow)
  BY <1>1 DEF TypeInv, TypeOK, Enqueue, memVars, readerVars, sockVars, wakeVars
<1>2. CASE AcquireWrite
  BY <1>2 DEF TypeInv, TypeOK, AcquireWrite, memVars, readerVars, sockVars,
              wakeVars
<1>3. ASSUME NEW s \in Stores, Commit(s) PROVE TypeInv'
  <2>1. /\ written' \in [Chunks -> {0, 1}]
        /\ ovf' \in [Chunks -> BOOLEAN]
    BY <1>3 DEF TypeInv, TypeOK, Commit
  <2>2. /\ lo' \in [Chunks -> 0 .. MaxMsgs]
        /\ hi' \in [Chunks -> 0 .. MaxMsgs]
    BY <1>3 DEF TypeInv, TypeOK, Commit
  <2>3. rflag' \in [Chunks -> [Readers -> {0, 1}]]
    BY <1>3 DEF TypeInv, TypeOK, Commit
  <2>4. QED
    BY <1>3, <2>1, <2>2, <2>3 DEF TypeInv, TypeOK, Commit, readerVars, sockVars,
                                  wakeVars
<1>4. CASE Raise
  BY <1>4, NextIdxValue DEF TypeInv, TypeOK, Raise, readerVars, sockVars, wakeVars
<1>5. CASE SendOverflow
  <2>1. sock' \in [Readers -> Seq(1 .. MaxMsgs)]
    BY <1>5 DEF TypeInv, TypeOK, SendOverflow
  <2>2. /\ wpc' = "notify" /\ large' = FALSE /\ wpc = "send"
        /\ UNCHANGED <<memVars, widx, pend, sent, readerVars, mixed, wakeVars>>
    BY <1>5 DEF SendOverflow
  <2>3. QED
    BY <2>1, <2>2 DEF TypeInv, TypeOK, memVars, readerVars, wakeVars
<1>6. CASE \E reached \in SUBSET Readers : Notify(reached)
  BY <1>6 DEF TypeInv, TypeOK, Notify, memVars, readerVars, sockVars
<1>7. CASE WriteTimeout
  BY <1>7 DEF TypeInv, TypeOK, WriteTimeout, memVars, readerVars, sockVars, wakeVars
<1>8. ASSUME NEW r \in Readers,
              ReaderStep(r) \/ ReadTimeout(r) \/ RecvTimeout(r) \/ Shutdown(r)
                \/ Cancel(r)
       PROVE  TypeInv'
  <2>1. CASE Dequeue(r)
    BY <2>1 DEF TypeInv, TypeOK, Dequeue, memVars, writerVars, sockVars, wakeVars
  <2>2. CASE LoadReadFlag(r)
    BY <2>2 DEF TypeInv, TypeOK, LoadReadFlag, memVars, writerVars, sockVars,
                wakeVars
  <2>3. CASE LoadWrittenFlag(r)
    BY <2>3 DEF TypeInv, TypeOK, LoadWrittenFlag, memVars, writerVars, sockVars,
                wakeVars
  <2>4. CASE \E failed \in BOOLEAN : Release(r, failed)
    <3>1. Payload(ridx[r]) \in 0 .. MaxMsgs
      BY DEF Payload, TypeInv, TypeOK
    <3>2. QED
      BY <2>4, <3>1, NextIdxValue DEF TypeInv, TypeOK, Release, writerVars,
                                      sockVars, wakeVars
  <2>5. CASE RecvOverflow(r)
    <3>1. Tail(sock[r]) \in Seq(1 .. MaxMsgs)
      BY <2>5 DEF RecvOverflow, TypeInv, TypeOK
    <3>2. sock' \in [Readers -> Seq(1 .. MaxMsgs)]
      BY <2>5, <3>1 DEF RecvOverflow, TypeInv, TypeOK
    <3>3. mixed' \in [Readers -> BOOLEAN]
      <4>1. (mixed[r] \/ Head(sock[r]) # got[r]) \in BOOLEAN
        OBVIOUS
      <4>2. QED
        BY <2>5, <4>1, Zenon DEF RecvOverflow, TypeInv, TypeOK
    <3>4. rpc' \in [Readers -> {"idle", "loadFlag", "loadWritten", "body",
                                "recv", "wait", "parked", "cancelled"}]
      BY <2>5 DEF RecvOverflow, TypeInv, TypeOK
    <3>5. QED
      BY <2>5, <3>2, <3>3, <3>4 DEF RecvOverflow, TypeInv, TypeOK, memVars,
                                    writerVars, wakeVars
  <2>6. CASE Spin(r)
    BY <2>6 DEF TypeInv, TypeOK, Spin, AfterWait, memVars, writerVars, sockVars,
                wakeVars
  <2>7. CASE Park(r)
    BY <2>7 DEF TypeInv, TypeOK, Park, memVars, writerVars, sockVars, wakeVars
  <2>8. CASE WakeBySocket(r)
    <3>1. note' \in [Readers -> BOOLEAN]
      <4>1. (note[r] /\ ping[r]) \in BOOLEAN
        OBVIOUS
      <4>2. QED
        BY <2>8, <4>1, Zenon DEF WakeBySocket, TypeInv, TypeOK
    <3>2. QED
      BY <2>8, <3>1 DEF TypeInv, TypeOK, WakeBySocket, AfterWait, memVars,
                        writerVars, sockVars
  <2>9. CASE WakeByRecheck(r)
    BY <2>9 DEF TypeInv, TypeOK, WakeByRecheck, AfterWait, memVars, writerVars,
                sockVars, wakeVars
  <2>10. CASE ReadTimeout(r)
    BY <2>10 DEF TypeInv, TypeOK, ReadTimeout, memVars, writerVars, sockVars,
                 wakeVars
  <2>11. CASE RecvTimeout(r)
    BY <2>11 DEF TypeInv, TypeOK, RecvTimeout, memVars, writerVars, sockVars,
                 wakeVars
  <2>12. CASE Shutdown(r)
    BY <2>12 DEF TypeInv, TypeOK, Shutdown, memVars, writerVars, readerVars,
                 sockVars
  <2>13. CASE Cancel(r)
    BY <2>13 DEF TypeInv, TypeOK, Cancel, memVars, writerVars, readerVars,
                 sockVars
  <2>14. QED
    BY <1>8, <2>1, <2>2, <2>3, <2>4, <2>5, <2>6, <2>7, <2>8, <2>9, <2>10,
       <2>11, <2>12, <2>13 DEF ReaderStep
<1>9. CASE UNCHANGED vars
  BY <1>9 DEF TypeInv, TypeOK, vars, memVars, writerVars, readerVars, sockVars,
               wakeVars
<1>10. QED
  BY <1>1, <1>2, <1>3, <1>4, <1>5, <1>6, <1>7, <1>8, <1>9
     DEF Next, WriterStep

(* Type correctness: every variable of the ring, the sockets and the        *)
(* processes keeps its type, in either order of the writer's stores.        *)
THEOREM TypeCorrect == Spec => []TypeOK
<1>1. TypeInv => TypeOK
  BY DEF TypeInv
<1>2. QED
  BY TypeInit, TypeNext, <1>1, PTL DEF Spec
-----------------------------------------------------------------------------
(***************************************************************************)
(* The ring.  Msg(c) is the message chunk c was last published with, or a  *)
(* number below 1 if there is none; Holds(c) says the chunk is as the      *)
(* writer left it, with the flags of exactly the readers that have taken   *)
(* its message raised.  Only the chunk the writer is storing to may differ.*)
(***************************************************************************)
Msg(c) == IF c < widx THEN sent - widx + c + 1
          ELSE sent - widx + c + 1 - MaxChunks

Holds(c) ==
    IF Msg(c) >= 1
    THEN /\ written[c] = 1
         /\ lo[c] = Msg(c)
         /\ hi[c] = Msg(c)
         /\ \A r \in Readers : rflag[c][r] = IF got[r] >= Msg(c) THEN 1 ELSE 0
    ELSE written[c] = 0

Intact(c) == wpc # "stores" \/ c # widx \/ <<"clear">> \in pend

\* The position of a reader in the ring agrees with the messages it has seen.
Aligned ==
    \A r \in Readers :
        /\ got[r] <= sent
        /\ sent <= got[r] + MaxChunks
        /\ \/ got[r] - ridx[r] = sent - widx
           \/ got[r] - ridx[r] = sent - widx - MaxChunks

IntactHold == \A c \in Chunks : Intact(c) => Holds(c)

\* The chunk being filled: everything still to come, or what has committed.
Filling ==
    wpc = "stores" =>
        /\ \A r \in Readers : sent < got[r] + MaxChunks
        /\ <<"clear">> \in pend => pend = Stores
        /\ <<"clear">> \notin pend => written[widx] = 0
        /\ <<"lo">> \notin pend => lo[widx] = sent + 1
        /\ <<"hi">> \notin pend => hi[widx] = sent + 1
        /\ \A r \in Readers : <<"flag", r>> \notin pend => rflag[widx][r] = 0

\* A read flag loaded as 0 is still 0: only its owner raises it.
LoadedStays ==
    \A r \in Readers :
        rpc[r] = "loadWritten" /\ rload[r] = 0 => rflag[ridx[r]][r] = 0

\* A reader enters a body only for a message it has not seen.
BodyHasNext == \A r \in Readers : rpc[r] = "body" => got[r] < sent

RingInv ==
    /\ Aligned
    /\ IntactHold
    /\ Filling
    /\ LoadedStays
    /\ BodyHasNext

(* Steps that touch neither the ring nor what a reader knows of it. *)
LEMMA RingFrame ==
    ASSUME RingInv,
           UNCHANGED <<memVars, widx, pend, sent, ridx, rload, got>>,
           wpc' = "stores" <=> wpc = "stores",
           \A r \in Readers : rpc'[r] \in {"loadWritten", "body"} => rpc'[r] = rpc[r]
    PROVE  RingInv'
BY DEF RingInv, Aligned, IntactHold, Intact, Holds, Msg, Filling, LoadedStays,
       BodyHasNext, memVars

(* Different chunks hold different messages. *)
LEMMA MsgInjective ==
    ASSUME TypeOK, NEW c \in Chunks, NEW d \in Chunks, Msg(c) = Msg(d)
    PROVE  c = d
<1>1. widx \in 0 .. MaxChunks - 1 /\ sent \in Nat
  BY DEF TypeOK, Chunks
<1>2. QED
  BY <1>1, RingAssumption DEF Msg, Chunks

(* A reader that is behind finds its next message, whole, in its chunk, and *)
(* the writer is not storing there.                                         *)
LEMMA NextMessageReady ==
    ASSUME TypeOK, RingInv, NEW r \in Readers, got[r] < sent
    PROVE  /\ Msg(ridx[r]) = got[r] + 1
           /\ Intact(ridx[r])
           /\ Holds(ridx[r])
<1>1. /\ ridx[r] \in 0 .. MaxChunks - 1 /\ widx \in 0 .. MaxChunks - 1
      /\ got[r] \in Nat /\ sent \in Nat
  BY DEF TypeOK, Chunks
<1>2. /\ sent <= got[r] + MaxChunks
      /\ wpc = "stores" => sent < got[r] + MaxChunks
      /\ \/ got[r] - ridx[r] = sent - widx
         \/ got[r] - ridx[r] = sent - widx - MaxChunks
  BY DEF RingInv, Aligned, Filling
<1>3. Msg(ridx[r]) = got[r] + 1 /\ (wpc = "stores" => ridx[r] # widx)
  BY <1>1, <1>2, RingAssumption DEF Msg
<1>4. Intact(ridx[r])
  BY <1>3 DEF Intact
<1>5. ridx[r] \in Chunks
  BY <1>1 DEF Chunks
<1>6. QED
  BY <1>3, <1>4, <1>5 DEF RingInv, IntactHold
-----------------------------------------------------------------------------
LEMMA RingInit == Init => RingInv
<1> SUFFICES ASSUME Init PROVE RingInv
  OBVIOUS
<1>1. Aligned
  <2> SUFFICES ASSUME NEW r \in Readers
               PROVE  /\ got[r] <= sent
                      /\ sent <= got[r] + MaxChunks
                      /\ got[r] - ridx[r] = sent - widx
    BY DEF Aligned
  <2>1. got[r] = 0 /\ ridx[r] = 0 /\ sent = 0 /\ widx = 0
    BY DEF Init
  <2>2. QED
    BY <2>1, RingAssumption
<1>2. ASSUME NEW c \in Chunks PROVE Holds(c)
  <2>1. Msg(c) < 1 /\ ~ (Msg(c) >= 1)
    BY RingAssumption DEF Init, Msg, Chunks
  <2>2. QED
    BY <2>1 DEF Init, Holds
<1>3. Filling /\ LoadedStays /\ BodyHasNext
  BY DEF Init, Filling, LoadedStays, BodyHasNext
<1>4. QED
  BY <1>1, <1>2, <1>3 DEF RingInv, IntactHold

LEMMA AcquireWriteKeepsRing ==
    ASSUME TypeInv, RingInv, AcquireWrite PROVE RingInv'
<1> DEFINE unchanged == <<memVars, widx, sent, large, readerVars>>
<1>1. /\ UNCHANGED unchanged /\ pend' = Stores
      /\ wpc = "check" /\ wpc' = "stores"
  BY DEF AcquireWrite
<1>2. Holds(widx)
  BY <1>1 DEF TypeInv, TypeOK, RingInv, IntactHold, Intact
<1>3. \A r \in Readers : sent < got[r] + MaxChunks
  <2> SUFFICES ASSUME NEW r \in Readers PROVE sent < got[r] + MaxChunks
    OBVIOUS
  <2>0. /\ sent \in Nat /\ got[r] \in Nat /\ widx \in Nat
        /\ MaxChunks \in Nat /\ Msg(widx) = sent + 1 - MaxChunks
    BY RingAssumption DEF TypeInv, TypeOK, Chunks, Msg
  <2>1. CASE Msg(widx) >= 1
    <3>1. rflag[widx][r] = 1
      BY <1>2, <2>1 DEF AcquireWrite, Writable, Holds
    <3>2. got[r] >= Msg(widx)
      BY <1>2, <2>1, <3>1 DEF Holds
    <3>3. QED
      BY <2>0, <3>2
  <2>2. CASE ~ (Msg(widx) >= 1)
    BY <2>0, <2>2
  <2>3. QED
    BY <2>1, <2>2
<1>4. <<"clear">> \in Stores /\ <<"lo">> \in Stores /\ <<"hi">> \in Stores
      /\ \A r \in Readers : <<"flag", r>> \in Stores
  BY DEF Stores, FlagStores
<1>5. Filling'
  BY <1>1, <1>3, <1>4 DEF Filling, memVars, readerVars
<1>6. IntactHold'
  BY <1>1 DEF RingInv, IntactHold, Intact, Holds, Msg, memVars, readerVars
<1>7. QED
  BY <1>1, <1>5, <1>6 DEF RingInv, Aligned, LoadedStays, BodyHasNext, memVars,
                          readerVars

LEMMA CommitKeepsRing ==
    ASSUME TypeInv, RingInv, ~ WeakStores, NEW s \in Stores, Commit(s)
    PROVE  RingInv'
<1>1. /\ UNCHANGED <<wpc, widx, sent, readerVars>> /\ pend' = pend \ {s}
      /\ wpc = "stores" /\ s \in pend
  BY DEF Commit
<1>2. s = <<"clear">> \/ <<"clear">> \notin pend
  BY StoresDistinct DEF Commit, Before, Stores, FlagStores
<1>3. <<"clear">> \notin pend'
  BY <1>1, <1>2
<1>4. \A c \in Chunks : c # widx => /\ written'[c] = written[c]
                                   /\ lo'[c] = lo[c] /\ hi'[c] = hi[c]
                                   /\ rflag'[c] = rflag[c]
  BY DEF Commit, TypeInv, TypeOK
<1>5. IntactHold'
  <2> SUFFICES ASSUME NEW c \in Chunks, c # widx PROVE Holds(c)'
    BY <1>1, <1>3 DEF IntactHold, Intact
  <2>1. Holds(c)
    BY DEF RingInv, IntactHold, Intact
  <2>2. QED
    BY <1>1, <1>4, <2>1 DEF Holds, Msg, readerVars
<1>6. widx \in Chunks /\ sent \in Nat
  BY DEF TypeInv, TypeOK
<1>7. /\ written'[widx] = IF s = <<"clear">> THEN 0 ELSE written[widx]
      /\ lo'[widx] = IF s = <<"lo">> THEN sent + 1 ELSE lo[widx]
      /\ hi'[widx] = IF s = <<"hi">> THEN sent + 1 ELSE hi[widx]
      /\ \A r \in Readers : rflag'[widx][r] = IF s = <<"flag", r>> THEN 0
                                              ELSE rflag[widx][r]
  BY <1>6 DEF Commit, TypeInv, TypeOK
<1>8. Filling'
  <2>1. \A r \in Readers : sent' < got'[r] + MaxChunks
    BY <1>1 DEF RingInv, Filling, readerVars
  <2>2. written'[widx] = 0
    BY <1>1, <1>2, <1>7 DEF RingInv, Filling
  <2>3. <<"lo">> \notin pend' => lo'[widx] = sent + 1
    BY <1>1, <1>7 DEF RingInv, Filling
  <2>4. <<"hi">> \notin pend' => hi'[widx] = sent + 1
    BY <1>1, <1>7 DEF RingInv, Filling
  <2>5. \A r \in Readers : <<"flag", r>> \notin pend' => rflag'[widx][r] = 0
    BY <1>1, <1>7 DEF RingInv, Filling
  <2>6. QED
    BY <1>1, <1>3, <2>1, <2>2, <2>3, <2>4, <2>5 DEF Filling
<1>9. LoadedStays'
  <2> SUFFICES ASSUME NEW r \in Readers, rpc[r] = "loadWritten", rload[r] = 0
               PROVE  rflag'[ridx[r]][r] = 0
    BY <1>1 DEF LoadedStays, readerVars
  <2>1. rflag[ridx[r]][r] = 0 /\ ridx[r] \in Chunks
    BY DEF RingInv, LoadedStays, TypeInv, TypeOK
  <2>2. QED
    BY <1>4, <1>7, <2>1
<1>10. QED
  BY <1>1, <1>5, <1>8, <1>9 DEF RingInv, Aligned, BodyHasNext, readerVars

LEMMA RaiseKeepsRing ==
    ASSUME TypeInv, TypeInv', RingInv, Raise PROVE RingInv'
<1>1. /\ UNCHANGED <<rflag, lo, hi, readerVars>>
      /\ wpc = "stores" /\ wpc' = "send" /\ pend = {}
      /\ written' = [written EXCEPT ![widx] = 1]
      /\ widx' = NextIdx(widx) /\ sent' = sent + 1
  BY DEF Raise
<1>2. /\ widx \in 0 .. MaxChunks - 1 /\ sent \in Nat
      /\ widx' = IF widx = MaxChunks - 1 THEN 0 ELSE widx + 1
  BY <1>1, NextIdxValue DEF TypeInv, TypeOK, Chunks
<1>3. \A c \in Chunks : Msg(c)' = IF c = widx THEN sent + 1 ELSE Msg(c)
  BY <1>1, <1>2, RingAssumption DEF Msg, Chunks
<1>4. Aligned'
  <2> SUFFICES ASSUME NEW r \in Readers
               PROVE  /\ got[r] <= sent' /\ sent' <= got[r] + MaxChunks
                      /\ \/ got[r] - ridx[r] = sent' - widx'
                         \/ got[r] - ridx[r] = sent' - widx' - MaxChunks
    BY <1>1 DEF Aligned, readerVars
  <2>1. ridx[r] \in 0 .. MaxChunks - 1 /\ got[r] \in Nat
    BY DEF TypeInv, TypeOK, Chunks
  <2>2. /\ got[r] <= sent /\ sent < got[r] + MaxChunks
        /\ \/ got[r] - ridx[r] = sent - widx
           \/ got[r] - ridx[r] = sent - widx - MaxChunks
    BY <1>1 DEF RingInv, Aligned, Filling
  <2>3. QED
    BY <1>1, <1>2, <2>1, <2>2, RingAssumption
<1>5. IntactHold'
  <2> SUFFICES ASSUME NEW c \in Chunks PROVE Holds(c)'
    BY DEF IntactHold
  <2>1. CASE c = widx
    <3>1. /\ written'[c] = 1 /\ lo'[c] = sent + 1 /\ hi'[c] = sent + 1
          /\ \A r \in Readers : rflag'[c][r] = 0
      BY <1>1, <2>1 DEF RingInv, Filling, TypeInv, TypeOK
    <3>2. \A r \in Readers : ~ (got'[r] >= sent + 1)
      BY <1>1 DEF RingInv, Aligned, readerVars, TypeInv, TypeOK
    <3>3. Msg(c)' = sent + 1 /\ sent + 1 >= 1
      BY <1>2, <1>3, <2>1
    <3>4. QED
      BY <3>1, <3>2, <3>3 DEF Holds
  <2>2. CASE c # widx
    <3>1. Holds(c) /\ written'[c] = written[c] /\ Msg(c)' = Msg(c)
      BY <1>1, <1>3, <2>2 DEF RingInv, IntactHold, Intact, TypeInv, TypeOK
    <3>2. QED
      BY <1>1, <3>1 DEF Holds, readerVars
  <2>3. QED
    BY <2>1, <2>2
<1>6. BodyHasNext'
  BY <1>1, <1>2 DEF RingInv, BodyHasNext, readerVars, TypeInv, TypeOK
<1>7. QED
  BY <1>1, <1>4, <1>5, <1>6 DEF RingInv, Filling, LoadedStays, readerVars

LEMMA LoadReadFlagKeepsRing ==
    ASSUME TypeInv, RingInv, NEW r \in Readers, LoadReadFlag(r) PROVE RingInv'
<1>1. LoadedStays'
  BY DEF RingInv, LoadedStays, LoadReadFlag, TypeInv, TypeOK, memVars, writerVars
<1>2. BodyHasNext'
  BY DEF RingInv, BodyHasNext, LoadReadFlag, TypeInv, TypeOK, memVars, writerVars
<1>3. Aligned' /\ IntactHold' /\ Filling'
  BY DEF RingInv, Aligned, IntactHold, Intact, Holds, Msg, Filling, LoadReadFlag,
         memVars, writerVars
<1>4. QED
  BY <1>1, <1>2, <1>3 DEF RingInv

LEMMA LoadWrittenFlagKeepsRing ==
    ASSUME TypeInv, RingInv, NEW r \in Readers, LoadWrittenFlag(r) PROVE RingInv'
<1>1. /\ UNCHANGED <<memVars, writerVars, ridx, got>> /\ rpc[r] = "loadWritten"
      /\ \A q \in Readers \ {r} : rpc'[q] = rpc[q] /\ rload'[q] = rload[q]
      /\ rpc'[r] = IF written[ridx[r]] = 1 /\ rload[r] = 0 THEN "body" ELSE "wait"
  BY DEF LoadWrittenFlag, TypeInv, TypeOK
<1>2. LoadedStays'
  BY <1>1 DEF RingInv, LoadedStays, memVars
<1>3. ASSUME written[ridx[r]] = 1, rload[r] = 0 PROVE got[r] < sent
  <2>1. rflag[ridx[r]][r] = 0 /\ ridx[r] \in Chunks
    BY <1>1, <1>3 DEF RingInv, LoadedStays, TypeInv, TypeOK
  <2>2. Intact(ridx[r])
    BY <1>3 DEF RingInv, Filling, Intact
  <2>3. Msg(ridx[r]) >= 1 /\ ~ (got[r] >= Msg(ridx[r]))
    <3>1. Holds(ridx[r])
      BY <2>1, <2>2 DEF RingInv, IntactHold
    <3>2. QED
      BY <1>3, <2>1, <3>1 DEF Holds
  <2>4. /\ ridx[r] \in 0 .. MaxChunks - 1 /\ widx \in 0 .. MaxChunks - 1
        /\ sent \in Nat /\ got[r] \in Nat
    BY DEF TypeInv, TypeOK, Chunks
  <2>5. Msg(ridx[r]) \in Int /\ Msg(ridx[r]) <= sent
    BY <2>4, RingAssumption DEF Msg
  <2>6. QED
    BY <2>3, <2>4, <2>5
<1>4. BodyHasNext'
  BY <1>1, <1>3 DEF RingInv, BodyHasNext, writerVars
<1>5. Aligned' /\ IntactHold' /\ Filling'
  BY <1>1 DEF RingInv, Aligned, IntactHold, Intact, Holds, Msg, Filling, memVars,
              writerVars
<1>6. QED
  BY <1>2, <1>4, <1>5 DEF RingInv

LEMMA ReleaseKeepsRing ==
    ASSUME TypeInv, RingInv, NEW r \in Readers, NEW failed \in BOOLEAN,
           Release(r, failed)
    PROVE  RingInv' /\ got' = [got EXCEPT ![r] = got[r] + 1] /\ got[r] < sent
<1> DEFINE c == ridx[r]
<1>1. /\ UNCHANGED <<written, lo, hi, writerVars, rload>> /\ rpc[r] = "body"
      /\ rpc'[r] \in {"recv", "idle"} /\ ridx'[r] = NextIdx(c)
      /\ \A q \in Readers \ {r} : /\ rpc'[q] = rpc[q] /\ ridx'[q] = ridx[q]
                                 /\ got'[q] = got[q]
      /\ got' = [got EXCEPT ![r] = Payload(c)] /\ got'[r] = Payload(c)
      /\ rflag' = [rflag EXCEPT ![c][r] = 1]
  BY DEF Release, TypeInv, TypeOK
<1>2. got[r] < sent
  BY <1>1 DEF RingInv, BodyHasNext
<1>3. /\ c \in 0 .. MaxChunks - 1 /\ widx \in 0 .. MaxChunks - 1
      /\ sent \in Nat /\ got \in [Readers -> Nat] /\ c \in Chunks
      /\ rflag \in [Chunks -> [Readers -> {0, 1}]]
  BY DEF TypeInv, TypeOK, Chunks
<1>4. Msg(c) = got[r] + 1 /\ Intact(c) /\ Holds(c)
  BY <1>2, NextMessageReady DEF TypeInv
<1>5. Payload(c) = got[r] + 1
  BY <1>3, <1>4 DEF Holds, Payload
<1>6. \A d \in Chunks : Msg(d)' = Msg(d) /\ Msg(d) \in Int
  BY <1>1, <1>3, RingAssumption DEF Msg, writerVars, Chunks
<1>7. Aligned'
  <2>1. /\ got[r] + 1 <= sent /\ sent <= got[r] + 1 + MaxChunks
        /\ \/ got[r] + 1 - NextIdx(c) = sent - widx
           \/ got[r] + 1 - NextIdx(c) = sent - widx - MaxChunks
    <3>1. NextIdx(c) = IF c = MaxChunks - 1 THEN 0 ELSE c + 1
      BY <1>3, NextIdxValue
    <3>2. /\ sent <= got[r] + MaxChunks
          /\ \/ got[r] - c = sent - widx
             \/ got[r] - c = sent - widx - MaxChunks
      BY DEF RingInv, Aligned
    <3>3. QED
      BY <1>2, <1>3, <3>1, <3>2, RingAssumption
  <2>2. ASSUME NEW q \in Readers, q # r
        PROVE  /\ got[q] <= sent /\ sent <= got[q] + MaxChunks
               /\ \/ got[q] - ridx[q] = sent - widx
                  \/ got[q] - ridx[q] = sent - widx - MaxChunks
    BY DEF RingInv, Aligned
  <2>3. sent' = sent /\ widx' = widx
    BY <1>1 DEF writerVars
  <2>4. got'[r] = got[r] + 1 /\ ridx'[r] = NextIdx(c)
    BY <1>1, <1>5
  <2>5. SUFFICES ASSUME NEW q \in Readers
                 PROVE  /\ got'[q] <= sent /\ sent <= got'[q] + MaxChunks
                        /\ \/ got'[q] - ridx'[q] = sent - widx
                           \/ got'[q] - ridx'[q] = sent - widx - MaxChunks
    BY <2>3 DEF Aligned
  <2>6. CASE q = r
    <3>1. got'[q] = got[r] + 1 /\ ridx'[q] = NextIdx(c)
      BY <2>4, <2>6
    <3>2. NextIdx(c) \in Int /\ MaxChunks \in Int
      BY <1>3, NextIdxValue, RingAssumption DEF Chunks
    <3>3. got'[q] <= sent /\ sent <= got'[q] + MaxChunks
      BY <1>3, <2>1, <3>1, <3>2
    <3>4. got'[q] - ridx'[q] = got[r] + 1 - NextIdx(c)
      BY <1>3, <3>1, <3>2
    <3>5. QED
      BY <2>1, <3>3, <3>4
  <2>7. CASE q # r
    <3>1. got'[q] = got[q] /\ ridx'[q] = ridx[q]
      BY <1>1, <2>7
    <3>2. QED
      BY <2>2, <2>7, <3>1
  <2>8. QED
    BY <2>6, <2>7
<1>8. IntactHold'
  <2> SUFFICES ASSUME NEW d \in Chunks, Intact(d) PROVE Holds(d)'
    BY <1>1 DEF IntactHold, Intact, writerVars
  <2>1. Holds(d)
    BY DEF RingInv, IntactHold
  <2>2. ASSUME NEW q \in Readers, Msg(d) >= 1
        PROVE  rflag'[d][q] = IF got'[q] >= Msg(d) THEN 1 ELSE 0
    <3>1. rflag[d][q] = IF got[q] >= Msg(d) THEN 1 ELSE 0
      BY <2>1, <2>2 DEF Holds
    <3>2. CASE q # r
      BY <1>1, <1>3, <3>1, <3>2
    <3>3. CASE q = r /\ d = c
      BY <1>1, <1>3, <1>4, <1>5, <3>3
    <3>4. CASE q = r /\ d # c
      <4>1. Msg(d) # got[r] + 1
        BY <1>3, <1>4, <3>4, MsgInjective DEF TypeInv
      <4>2. rflag'[d][q] = rflag[d][q]
        BY <1>1, <1>3, <3>4
      <4>3. got'[q] >= Msg(d) <=> got[q] >= Msg(d)
        BY <1>1, <1>3, <1>5, <1>6, <3>4, <4>1
      <4>4. QED
        BY <3>1, <4>2, <4>3
    <3>5. QED
      BY <3>2, <3>3, <3>4
  <2>3. QED
    BY <1>1, <1>6, <2>1, <2>2 DEF Holds
<1>9. Filling'
  <2> SUFFICES ASSUME wpc = "stores" PROVE Filling'
    BY <1>1 DEF Filling, writerVars
  <2>1. c # widx
    <3>1. Msg(widx) = sent + 1 - MaxChunks /\ sent < got[r] + MaxChunks
      BY <1>3, RingAssumption DEF Msg, RingInv, Filling
    <3>2. QED
      BY <1>3, <1>4, <3>1, RingAssumption
  <2>2. rflag'[widx] = rflag[widx]
    BY <1>1, <1>3, <2>1
  <2>3. \A q \in Readers : sent < got'[q] + MaxChunks
    BY <1>1, <1>3, <1>5, RingAssumption DEF RingInv, Filling
  <2>4. QED
    BY <1>1, <2>2, <2>3 DEF RingInv, Filling, writerVars
<1>10. LoadedStays'
  <2> SUFFICES ASSUME NEW q \in Readers, rpc'[q] = "loadWritten", rload'[q] = 0
               PROVE  rflag'[ridx'[q]][q] = 0
    BY DEF LoadedStays
  <2>1. q # r
    BY <1>1
  <2>2. rflag[ridx[q]][q] = 0 /\ ridx[q] \in Chunks
    BY <1>1, <2>1 DEF RingInv, LoadedStays, TypeInv, TypeOK
  <2>3. QED
    BY <1>1, <1>3, <2>1, <2>2
<1>11. BodyHasNext'
  BY <1>1 DEF RingInv, BodyHasNext, writerVars
<1>12. QED
  BY <1>1, <1>2, <1>5, <1>7, <1>8, <1>9, <1>10, <1>11 DEF RingInv

(* Every step preserves the ring's invariant, and maps to a step of the     *)
(* broadcast log or leaves the log's variables unchanged.                   *)
LEMMA RingNext ==
    ASSUME TypeInv, TypeInv', RingInv, ~ WeakStores, [Next]_vars
    PROVE  RingInv' /\ [Log!LogNext]_(Log!logVars)
<1> DEFINE frame == /\ UNCHANGED <<memVars, widx, pend, sent, ridx, rload, got>>
                    /\ wpc' = "stores" <=> wpc = "stores"
                    /\ \A r \in Readers : rpc'[r] \in {"loadWritten", "body"}
                                           => rpc'[r] = rpc[r]
           Goal == RingInv' /\ [Log!LogNext]_(Log!logVars)
<1>1. frame => Goal
  BY RingFrame DEF Log!logVars
<1>2. UNCHANGED <<sent, got>> => [Log!LogNext]_(Log!logVars)
  BY DEF Log!logVars
<1>3. CASE AcquireWrite
  <2>1. UNCHANGED <<sent, got>>
    BY <1>3 DEF AcquireWrite, readerVars
  <2>2. QED
    BY <1>2, <1>3, <2>1, AcquireWriteKeepsRing
<1>4. ASSUME NEW s \in Stores, Commit(s) PROVE Goal
  <2>1. UNCHANGED <<sent, got>>
    BY <1>4 DEF Commit, readerVars
  <2>2. QED
    BY <1>2, <1>4, <2>1, CommitKeepsRing
<1>5. CASE Raise
  <2>1. Log!Publish
    BY <1>5 DEF Raise, RingInv, Filling, Log!Publish, readerVars
  <2>2. QED
    BY <1>5, <2>1, RaiseKeepsRing DEF Log!LogNext
<1>6. ASSUME NEW r \in Readers, NEW failed \in BOOLEAN, Release(r, failed)
      PROVE  Goal
  <2>1. RingInv' /\ got' = [got EXCEPT ![r] = got[r] + 1] /\ got[r] < sent
    BY <1>6, ReleaseKeepsRing
  <2>2. Log!Take(r)
    BY <1>6, <2>1 DEF Release, writerVars, Log!Take
  <2>3. QED
    BY <2>1, <2>2 DEF Log!LogNext
<1>7. ASSUME NEW r \in Readers, LoadReadFlag(r) PROVE Goal
  <2>1. UNCHANGED <<sent, got>>
    BY <1>7 DEF LoadReadFlag, writerVars
  <2>2. QED
    BY <1>2, <1>7, <2>1, LoadReadFlagKeepsRing
<1>8. ASSUME NEW r \in Readers, LoadWrittenFlag(r) PROVE Goal
  <2>1. UNCHANGED <<sent, got>>
    BY <1>8 DEF LoadWrittenFlag, writerVars
  <2>2. QED
    BY <1>2, <1>8, <2>1, LoadWrittenFlagKeepsRing
<1>9. CASE \/ \E overflow \in BOOLEAN : Enqueue(overflow)
           \/ SendOverflow \/ WriteTimeout
           \/ \E reached \in SUBSET Readers : Notify(reached)
           \/ UNCHANGED vars
  <2>1. frame
    BY <1>9 DEF Enqueue, SendOverflow, WriteTimeout, Notify, vars, memVars,
                writerVars, readerVars
  <2>2. QED
    BY <1>1, <2>1
<1>10. ASSUME NEW r \in Readers,
              \/ Dequeue(r) \/ RecvOverflow(r) \/ Spin(r) \/ Park(r)
              \/ WakeBySocket(r) \/ WakeByRecheck(r) \/ ReadTimeout(r)
              \/ RecvTimeout(r) \/ Shutdown(r) \/ Cancel(r)
       PROVE  Goal
  <2>1. /\ UNCHANGED <<memVars, widx, pend, sent, ridx, rload, got>>
        /\ UNCHANGED wpc
    BY <1>10 DEF Dequeue, RecvOverflow, Spin, Park, WakeBySocket, WakeByRecheck,
                 ReadTimeout, RecvTimeout, Shutdown, Cancel, writerVars, readerVars
  <2>2. \A q \in Readers : rpc'[q] \in {"loadWritten", "body"} => rpc'[q] = rpc[q]
    BY <1>10 DEF Dequeue, RecvOverflow, Spin, Park, WakeBySocket, WakeByRecheck,
                 ReadTimeout, RecvTimeout, Shutdown, Cancel, AfterWait, readerVars,
                 TypeInv, TypeOK
  <2>3. QED
    BY <1>1, <2>1, <2>2
<1>11. QED
  BY <1>3, <1>4, <1>5, <1>6, <1>7, <1>8, <1>9, <1>10
     DEF Next, WriterStep, ReaderStep

LEMMA RingInvariant == ~ WeakStores /\ Spec => [](TypeInv /\ RingInv)
<1> SUFFICES ASSUME ~ WeakStores PROVE Spec => [](TypeInv /\ RingInv)
  OBVIOUS
<1>1. Init => TypeInv /\ RingInv
  BY TypeInit, RingInit
<1>2. TypeInv /\ RingInv /\ [Next]_vars => (TypeInv /\ RingInv)'
  BY TypeNext, RingNext
<1>3. QED
  BY <1>1, <1>2, PTL DEF Spec
-----------------------------------------------------------------------------
(* A reader that acquire_read has let into a chunk finds the whole of its   *)
(* next message there for as long as its body runs, for any number of       *)
(* readers, chunks and messages, if stores are seen in program order.       *)
THEOREM BodySafe == ~ WeakStores => (Spec => []BodySeesNextMessage)
<1> SUFFICES ASSUME ~ WeakStores PROVE Spec => []BodySeesNextMessage
  OBVIOUS
<1>1. TypeInv /\ RingInv => BodySeesNextMessage
  <2> SUFFICES ASSUME TypeInv, RingInv, NEW r \in Readers, rpc[r] = "body"
               PROVE  lo[ridx[r]] = got[r] + 1 /\ hi[ridx[r]] = got[r] + 1
    BY DEF BodySeesNextMessage
  <2>1. got[r] < sent /\ got[r] \in Nat
    BY DEF RingInv, BodyHasNext, TypeInv, TypeOK
  <2>2. Msg(ridx[r]) = got[r] + 1 /\ Holds(ridx[r])
    BY <2>1, NextMessageReady DEF TypeInv
  <2>3. QED
    BY <2>1, <2>2 DEF Holds
<1>2. QED
  BY <1>1, RingInvariant, PTL

(* The writer never starts on a chunk whose message some reader has not     *)
(* taken, however full the ring is.                                         *)
THEOREM OverwriteSafe == ~ WeakStores => (Spec => []NoUnreadOverwrite)
<1> SUFFICES ASSUME ~ WeakStores PROVE Spec => []NoUnreadOverwrite
  OBVIOUS
<1>1. TypeInv /\ RingInv => NoUnreadOverwrite
  BY DEF NoUnreadOverwrite, RingInv, Filling
<1>2. QED
  BY <1>1, RingInvariant, PTL

(* The ring implements the broadcast log: every reader takes every message, *)
(* once and in order, and the writer is at most MaxChunks ahead.            *)
THEOREM RingRefinesLog == ~ WeakStores => (Spec => RefinesLog)
<1> SUFFICES ASSUME ~ WeakStores PROVE Spec => RefinesLog
  OBVIOUS
<1>1. Init => Log!LogInit
  BY DEF Init, Log!LogInit
<1>2. TypeInv /\ TypeInv' /\ RingInv /\ [Next]_vars => [Log!LogNext]_(Log!logVars)
  BY RingNext
<1>3. QED
  BY <1>1, <1>2, RingInvariant, PTL DEF Spec, RefinesLog, Log!LogSpec
-----------------------------------------------------------------------------
(***************************************************************************)
(* The overflow socket.  For a reader that waits for its payloads, the     *)
(* socket holds in order the payloads of the overflow messages it has not  *)
(* taken, and of the one it waits for; the ring says which these are.      *)
(***************************************************************************)
\* The payload of the last message published is still to be sent.
Owed == wpc = "send" /\ large

InSock(r, m) == \E i \in DOMAIN sock[r] : sock[r][i] = m

\* The marker is stored with the message.
Marked == wpc = "stores" /\ <<"lo">> \notin pend => ovf[widx] = large

Ordered(r) == \A i, j \in DOMAIN sock[r] : i < j => sock[r][i] < sock[r][j]

\* Only payloads to come are in the socket, and the one waited for.
ToCome(r) ==
    \A i \in DOMAIN sock[r] :
        /\ got[r] <= sock[r][i] /\ sock[r][i] <= sent
        /\ Owed => sock[r][i] < sent
        /\ sock[r][i] = got[r] => rpc[r] = "recv"

\* A reader waits for the payload of the message it has just taken, which is
\* there or about to be sent.
Awaited(r) ==
    /\ rpc[r] = "recv" => InSock(r, got[r]) \/ (Owed /\ got[r] = sent)
    /\ Owed /\ got[r] = sent => rpc[r] = "recv"

\* The markers of the messages not yet taken say which have a payload.
MarkersTrue(r) ==
    \A c \in Chunks : Msg(c) > got[r] =>
        (ovf[c] <=> InSock(r, Msg(c)) \/ (Owed /\ Msg(c) = sent))

PairedFor(r) == ~ mixed[r] /\ Ordered(r) /\ ToCome(r) /\ Awaited(r) /\ MarkersTrue(r)

PairInv == Marked /\ \A r \in Readers \ Impatient : PairedFor(r)

LEMMA SeqElements ==
    ASSUME NEW s \in Seq(1 .. MaxMsgs) PROVE \A i \in DOMAIN s : s[i] \in Nat
BY RingAssumption

LEMMA PairInit == Init => PairInv
<1> SUFFICES ASSUME Init PROVE PairInv
  OBVIOUS
<1>0. Marked
  BY DEF Init, Marked
<1> SUFFICES ASSUME NEW r \in Readers PROVE PairedFor(r)
  BY <1>0 DEF PairInv
<1>1. /\ wpc = "idle" /\ widx = 0 /\ sent = 0 /\ sock[r] = <<>> /\ rpc[r] = "idle"
      /\ got[r] = 0 /\ mixed[r] = FALSE
  BY DEF Init
<1>2. DOMAIN sock[r] = {}
  BY <1>1
<1>3. \A c \in Chunks : ~ (Msg(c) > got[r])
  BY <1>1, RingAssumption DEF Msg, Chunks
<1> QED
  BY <1>1, <1>2, <1>3 DEF PairedFor, Ordered, ToCome, Awaited, MarkersTrue, Owed, InSock

(* Steps that leave the ring, the socket and the waiting alone. *)
LEMMA PairFrame ==
    ASSUME PairInv, UNCHANGED <<ovf, widx, sent, got, sock, mixed>>,
           Owed' = Owed, Marked',
           \A r \in Readers : rpc'[r] = "recv" <=> rpc[r] = "recv"
    PROVE  PairInv'
<1> SUFFICES ASSUME NEW r \in Readers \ Impatient PROVE PairedFor(r)'
  BY DEF PairInv
<1>1. PairedFor(r)
  BY DEF PairInv
<1> QED
  BY <1>1 DEF PairedFor, Ordered, ToCome, Awaited, MarkersTrue, InSock, Msg

LEMMA CommitKeepsPairs ==
    ASSUME TypeInv, RingInv, PairInv, NEW s \in Stores, Commit(s)
    PROVE  PairInv'
<1>1. /\ UNCHANGED <<wpc, widx, sent, large, readerVars, sockVars>> /\ wpc = "stores"
      /\ s \in pend /\ pend' = pend \ {s}
      /\ ovf' = IF s = <<"lo">> THEN [ovf EXCEPT ![widx] = large] ELSE ovf
  BY DEF Commit
<1>2. Marked'
  BY <1>1 DEF PairInv, Marked, TypeInv, TypeOK
<1> SUFFICES ASSUME NEW r \in Readers \ Impatient PROVE PairedFor(r)'
  BY <1>2 DEF PairInv
<1>3. PairedFor(r)
  BY DEF PairInv
<1>4. \A c \in Chunks : c # widx => ovf'[c] = ovf[c]
  BY <1>1 DEF TypeInv, TypeOK
<1>5. ~ (Msg(widx) > got[r])
  <2>1. Msg(widx) = sent + 1 - MaxChunks /\ sent < got[r] + MaxChunks
    BY <1>1, RingAssumption DEF Msg, RingInv, Filling, TypeInv, TypeOK, Chunks
  <2> QED BY <2>1, RingAssumption DEF TypeInv, TypeOK
<1>6. MarkersTrue(r)'
  BY <1>1, <1>3, <1>4, <1>5 DEF PairedFor, MarkersTrue, InSock, Owed, Msg, readerVars, sockVars
<1> QED
  BY <1>1, <1>3, <1>6 DEF PairedFor, Ordered, ToCome, Awaited, InSock, Owed, readerVars, sockVars

LEMMA RaiseKeepsPairs ==
    ASSUME TypeInv, RingInv, PairInv, Raise
    PROVE  PairInv'
<1>1. /\ UNCHANGED <<ovf, large, readerVars, sockVars>> /\ wpc = "stores" /\ wpc' = "send"
      /\ pend = {} /\ widx' = NextIdx(widx) /\ sent' = sent + 1
  BY DEF Raise
<1>2. Marked'
  BY <1>1 DEF Marked
<1> SUFFICES ASSUME NEW r \in Readers \ Impatient PROVE PairedFor(r)'
  BY <1>2 DEF PairInv
<1>3. PairedFor(r) /\ ovf[widx] = large
  BY <1>1 DEF PairInv, Marked
<1>4. /\ widx \in 0 .. MaxChunks - 1 /\ sent \in Nat /\ got[r] \in Nat
      /\ sock[r] \in Seq(1 .. MaxMsgs)
  <2>1. sock \in [Readers -> Seq(1 .. MaxMsgs)] /\ got \in [Readers -> 0 .. MaxMsgs]
    BY DEF TypeInv, TypeOK
  <2>2. widx \in Chunks /\ sent \in Nat
    BY DEF TypeInv, TypeOK
  <2> QED BY <2>1, <2>2 DEF Chunks
<1>a. widx' = IF widx = MaxChunks - 1 THEN 0 ELSE widx + 1
  BY <1>1, <1>4, NextIdxValue DEF Chunks
<1>5. \A c \in Chunks : Msg(c)' = IF c = widx THEN sent + 1 ELSE Msg(c)
  BY <1>1, <1>4, <1>a, RingAssumption DEF Msg, Chunks
<1>6. \A c \in Chunks : Msg(c) \in Int /\ Msg(c) <= sent
  BY <1>4, RingAssumption DEF Msg, Chunks
<1>7. got[r] <= sent
  BY DEF RingInv, Aligned
<1>8. \A i \in DOMAIN sock[r] : sock[r][i] \in Nat /\ sock[r][i] <= sent
  BY <1>3, <1>4, RingAssumption DEF PairedFor, ToCome
<1>9. MarkersTrue(r)'
  <2> SUFFICES ASSUME NEW c \in Chunks, Msg(c)' > got[r]
               PROVE  ovf[c] <=> InSock(r, Msg(c)') \/ (large /\ Msg(c)' = sent + 1)
    BY <1>1 DEF MarkersTrue, InSock, Owed, readerVars, sockVars
  <2>1. CASE c = widx
    BY <1>3, <1>5, <1>8, <1>4, <2>1 DEF InSock
  <2>2. CASE c # widx
    BY <1>1, <1>3, <1>4, <1>5, <1>6, <2>2 DEF PairedFor, MarkersTrue, Owed
  <2> QED BY <2>1, <2>2
<1>10. ToCome(r)'
  BY <1>1, <1>3, <1>4, <1>8 DEF PairedFor, ToCome, readerVars, sockVars
<1>11. Awaited(r)'
  BY <1>1, <1>3, <1>4, <1>7 DEF PairedFor, Awaited, InSock, Owed, readerVars, sockVars
<1> QED
  BY <1>1, <1>3, <1>9, <1>10, <1>11 DEF PairedFor, Ordered, readerVars, sockVars

LEMMA SendOverflowKeepsPairs ==
    ASSUME TypeInv, RingInv, PairInv, SendOverflow
    PROVE  PairInv'
<1>1. /\ UNCHANGED <<ovf, widx, sent, readerVars, mixed>> /\ wpc = "send" /\ wpc' = "notify"
      /\ sock' = IF large THEN [r \in Readers |-> Append(sock[r], sent)] ELSE sock
  BY DEF SendOverflow, memVars
<1>2. Marked' /\ ~ Owed'
  BY <1>1 DEF Marked, Owed
<1> SUFFICES ASSUME NEW r \in Readers \ Impatient PROVE PairedFor(r)'
  BY <1>2 DEF PairInv
<1>3. PairedFor(r)
  BY DEF PairInv
<1>4. CASE ~ large
  BY <1>1, <1>2, <1>3, <1>4
     DEF PairedFor, Ordered, ToCome, Awaited, MarkersTrue, InSock, Owed, Msg, readerVars
<1>5. CASE large
  <2>1. sock[r] \in Seq(1 .. MaxMsgs) /\ sent \in Nat /\ got[r] \in Nat
    BY DEF TypeInv, TypeOK
  <2>2. sock'[r] = Append(sock[r], sent)
    BY <1>1, <1>5
  <2>3. /\ DOMAIN sock'[r] = 1 .. Len(sock[r]) + 1 /\ Len(sock[r]) \in Nat
        /\ DOMAIN sock[r] = 1 .. Len(sock[r])
        /\ sock'[r][Len(sock[r]) + 1] = sent
        /\ \A i \in 1 .. Len(sock[r]) : sock'[r][i] = sock[r][i]
    BY <2>1, <2>2
  <2>a. Owed
    BY <1>1, <1>5 DEF Owed
  <2>4. \A i \in 1 .. Len(sock[r]) : sock[r][i] \in Nat /\ sock[r][i] < sent
    <3>1. \A i \in 1 .. Len(sock[r]) : sock[r][i] \in Nat
      BY <2>1, <2>3, SeqElements
    <3>2. \A i \in 1 .. Len(sock[r]) : sock[r][i] < sent
      BY <1>3, <2>3, <2>a DEF PairedFor, ToCome
    <3> QED BY <3>1, <3>2
  <2>5. \A m : InSock(r, m)' <=> InSock(r, m) \/ m = sent
    <3>1. DOMAIN sock'[r] = DOMAIN sock[r] \cup {Len(sock[r]) + 1}
      BY <2>3
    <3>2. \A i \in DOMAIN sock[r] : sock'[r][i] = sock[r][i]
      BY <2>3
    <3>3. sock'[r][Len(sock[r]) + 1] = sent
      BY <2>3
    <3> QED BY ONLY <3>1, <3>2, <3>3 DEF InSock
  <2>6. Ordered(r)'
    <3> SUFFICES ASSUME NEW i \in DOMAIN sock'[r], NEW j \in DOMAIN sock'[r], i < j
                 PROVE  sock'[r][i] < sock'[r][j]
      BY DEF Ordered
    <3>1. i \in 1 .. Len(sock[r]) /\ sock'[r][i] = sock[r][i]
      BY <2>3
    <3>2. CASE j = Len(sock[r]) + 1
      BY <2>3, <2>4, <3>1, <3>2
    <3>3. CASE j # Len(sock[r]) + 1
      <4>1. j \in 1 .. Len(sock[r]) /\ sock'[r][j] = sock[r][j]
        BY <2>3, <3>3
      <4> QED BY <1>3, <2>3, <3>1, <4>1 DEF PairedFor, Ordered
    <3> QED BY <3>2, <3>3
  <2>7. got[r] <= sent
    BY DEF RingInv, Aligned
  <2>8. ToCome(r)'
    <3> SUFFICES ASSUME NEW i \in DOMAIN sock'[r]
                 PROVE  /\ got[r] <= sock'[r][i] /\ sock'[r][i] <= sent
                        /\ sock'[r][i] = got[r] => rpc[r] = "recv"
      BY <1>1, <1>2 DEF ToCome, readerVars
    <3>1. CASE i \in DOMAIN sock[r]
      BY <1>3, <2>3, <3>1 DEF PairedFor, ToCome
    <3>2. CASE i = Len(sock[r]) + 1
      BY <1>3, <2>1, <2>3, <2>7, <2>a, <3>2 DEF PairedFor, Awaited
    <3> QED BY <2>3, <3>1, <3>2
  <2>9. Awaited(r)'
    BY <1>1, <1>2, <1>3, <2>a, <2>5 DEF PairedFor, Awaited, readerVars
  <2>10. MarkersTrue(r)'
    BY <1>1, <1>2, <1>3, <2>a, <2>5 DEF PairedFor, MarkersTrue, Msg, readerVars
  <2> QED
    BY <1>1, <1>3, <2>6, <2>8, <2>9, <2>10 DEF PairedFor
<1> QED BY <1>4, <1>5

LEMMA ReleaseKeepsPairs ==
    ASSUME TypeInv, RingInv, PairInv, NEW q \in Readers, NEW failed \in BOOLEAN,
           Release(q, failed)
    PROVE  PairInv'
<1>1. /\ UNCHANGED <<ovf, writerVars, sockVars>> /\ rpc[q] = "body"
      /\ rpc'[q] = IF ovf[ridx[q]] THEN "recv" ELSE "idle"
      /\ \A r \in Readers \ {q} : rpc'[r] = rpc[r] /\ got'[r] = got[r]
  BY DEF Release, TypeInv, TypeOK
<1>2. got' = [got EXCEPT ![q] = got[q] + 1] /\ got[q] < sent
  BY ReleaseKeepsRing
<1>3. Marked' /\ Owed' = Owed
  BY <1>1 DEF PairInv, Marked, Owed, writerVars
<1> SUFFICES ASSUME NEW r \in Readers \ Impatient PROVE PairedFor(r)'
  BY <1>3 DEF PairInv
<1>4. PairedFor(r)
  BY DEF PairInv
<1>5. CASE r # q
  BY <1>1, <1>3, <1>4, <1>5
     DEF PairedFor, Ordered, ToCome, Awaited, MarkersTrue, InSock, Msg, writerVars, sockVars
<1>6. CASE r = q
  <2>1. /\ got[r] \in Nat /\ sent \in Nat /\ got'[r] = got[r] + 1 /\ ridx[r] \in Chunks
        /\ sock[r] \in Seq(1 .. MaxMsgs) /\ widx \in Nat
    BY <1>2, <1>6 DEF TypeInv, TypeOK, Chunks
  <2>2. Msg(ridx[r]) = got[r] + 1
    BY <1>2, <1>6, NextMessageReady DEF TypeInv
  <2>3. ovf[ridx[r]] <=> InSock(r, got[r] + 1) \/ (Owed /\ got[r] + 1 = sent)
    BY <1>4, <2>1, <2>2 DEF PairedFor, MarkersTrue
  <2>4. \A i \in DOMAIN sock[r] : sock[r][i] \in Nat /\ sock[r][i] # got[r]
    BY <1>1, <1>4, <1>6, <2>1, RingAssumption DEF PairedFor, ToCome
  <2>5. ToCome(r)'
    BY <1>1, <1>3, <1>4, <1>6, <2>1, <2>3, <2>4 DEF PairedFor, ToCome, InSock, writerVars, sockVars
  <2>6. Awaited(r)'
    BY <1>1, <1>3, <1>6, <2>1, <2>3 DEF Awaited, InSock, writerVars, sockVars
  <2>7. \A c \in Chunks : Msg(c) \in Int /\ Msg(c)' = Msg(c)
    BY <1>1, <2>1, RingAssumption DEF Msg, writerVars, Chunks
  <2>8. MarkersTrue(r)'
    BY <1>1, <1>3, <1>4, <2>1, <2>7 DEF PairedFor, MarkersTrue, InSock, writerVars, sockVars
  <2> QED
    BY <1>1, <1>4, <2>5, <2>6, <2>8 DEF PairedFor, Ordered, sockVars
<1> QED BY <1>5, <1>6

LEMMA RecvOverflowKeepsPairs ==
    ASSUME TypeInv, RingInv, PairInv, NEW q \in Readers, RecvOverflow(q)
    PROVE  PairInv'
<1>1. /\ UNCHANGED <<ovf, writerVars, got>> /\ rpc[q] = "recv" /\ rpc'[q] = "idle"
      /\ sock[q] # <<>> /\ sock'[q] = Tail(sock[q])
      /\ mixed'[q] = (mixed[q] \/ Head(sock[q]) # got[q])
      /\ \A r \in Readers \ {q} : rpc'[r] = rpc[r] /\ sock'[r] = sock[r] /\ mixed'[r] = mixed[r]
  BY DEF RecvOverflow, TypeInv, TypeOK, memVars
<1>2. Marked' /\ Owed' = Owed
  BY <1>1 DEF PairInv, Marked, Owed, writerVars
<1> SUFFICES ASSUME NEW r \in Readers \ Impatient PROVE PairedFor(r)'
  BY <1>2 DEF PairInv
<1>3. PairedFor(r)
  BY DEF PairInv
<1>4. CASE r # q
  BY <1>1, <1>2, <1>3, <1>4
     DEF PairedFor, Ordered, ToCome, Awaited, MarkersTrue, InSock, Msg, writerVars
<1>5. CASE r = q
  <2>1. /\ sock[r] \in Seq(1 .. MaxMsgs) /\ sent \in Nat /\ got[r] \in Nat
        /\ Len(sock[r]) \in Nat \ {0} /\ DOMAIN sock[r] = 1 .. Len(sock[r])
        /\ \A i \in 1 .. Len(sock[r]) : sock[r][i] \in Nat
    BY <1>1, <1>5, RingAssumption DEF TypeInv, TypeOK
  <2>2. /\ Head(sock[r]) = sock[r][1]
        /\ DOMAIN sock'[r] = 1 .. Len(sock[r]) - 1
        /\ \A i \in 1 .. Len(sock[r]) - 1 : sock'[r][i] = sock[r][i + 1]
    <3> DEFINE s == sock[r]
    <3>1. s \in Seq(1 .. MaxMsgs) /\ s # <<>> /\ sock'[r] = Tail(s)
      BY <1>1, <1>5, <2>1
    <3> HIDE DEF s
    <3>2. /\ Head(s) = s[1] /\ DOMAIN Tail(s) = 1 .. Len(s) - 1
          /\ \A i \in 1 .. Len(s) - 1 : Tail(s)[i] = s[i + 1]
      BY <3>1
    <3> QED BY <3>1, <3>2 DEF s
  <2>3. sock[r][1] = got[r]
    <3>1. got[r] <= sock[r][1] /\ (Owed => sock[r][1] < sent)
      BY <1>3, <2>1 DEF PairedFor, ToCome
    <3>2. InSock(r, got[r])
      BY <1>1, <1>3, <1>5, <2>1, <3>1 DEF PairedFor, Awaited
    <3> QED
      BY <1>3, <2>1, <3>1, <3>2 DEF PairedFor, Ordered, InSock
  <2>4. \A i \in 2 .. Len(sock[r]) : sock[r][i] > got[r]
    BY <1>3, <2>1, <2>3 DEF PairedFor, Ordered
  <2>5. \A m \in Int : m > got[r] => (InSock(r, m)' <=> InSock(r, m))
    <3> SUFFICES ASSUME NEW m \in Int, m > got[r] PROVE InSock(r, m)' <=> InSock(r, m)
      OBVIOUS
    <3>1. ASSUME NEW i \in DOMAIN sock[r], sock[r][i] = m PROVE InSock(r, m)'
      <4>1. i # 1 /\ i - 1 \in 1 .. Len(sock[r]) - 1
        BY <2>1, <2>3, <3>1
      <4> QED BY <2>1, <2>2, <3>1, <4>1 DEF InSock
    <3>2. ASSUME NEW i \in DOMAIN sock'[r], sock'[r][i] = m PROVE InSock(r, m)
      <4>1. i + 1 \in DOMAIN sock[r] /\ sock[r][i + 1] = m
        BY <2>1, <2>2, <3>2
      <4> QED BY <4>1 DEF InSock
    <3> QED BY <3>1, <3>2 DEF InSock
  <2>6. ~ mixed'[r]
    BY <1>1, <1>3, <1>5, <2>2, <2>3 DEF PairedFor
  <2>7. Ordered(r)'
    <3> SUFFICES ASSUME NEW i \in DOMAIN sock'[r], NEW j \in DOMAIN sock'[r], i < j
                 PROVE  sock'[r][i] < sock'[r][j]
      BY DEF Ordered
    <3>1. i + 1 \in DOMAIN sock[r] /\ j + 1 \in DOMAIN sock[r] /\ i + 1 < j + 1
      BY <2>1, <2>2
    <3>2. sock'[r][i] = sock[r][i + 1] /\ sock'[r][j] = sock[r][j + 1]
      BY <2>1, <2>2
    <3> QED BY <1>3, <3>1, <3>2 DEF PairedFor, Ordered
  <2>8. ToCome(r)'
    <3> SUFFICES ASSUME NEW i \in DOMAIN sock'[r]
                 PROVE  /\ got[r] <= sock'[r][i] /\ sock'[r][i] <= sent
                        /\ Owed => sock'[r][i] < sent
                        /\ sock'[r][i] # got[r]
      BY <1>1, <1>2 DEF ToCome, writerVars
    <3>1. sock'[r][i] = sock[r][i + 1] /\ i + 1 \in 2 .. Len(sock[r])
      BY <2>1, <2>2
    <3> QED BY <1>3, <2>1, <2>4, <3>1 DEF PairedFor, ToCome
  <2>9. Awaited(r)'
    BY <1>1, <1>2, <1>3, <1>5, <2>1, <2>3 DEF PairedFor, Awaited, ToCome, writerVars
  <2>10. \A c \in Chunks : Msg(c) \in Int /\ Msg(c)' = Msg(c)
    <3>1. widx \in Chunks
      BY DEF TypeInv, TypeOK
    <3> QED BY <1>1, <2>1, <3>1, RingAssumption DEF Msg, writerVars, Chunks
  <2>11. MarkersTrue(r)'
    BY <1>1, <1>2, <1>3, <2>5, <2>10 DEF PairedFor, MarkersTrue, writerVars
  <2> QED
    BY <2>6, <2>7, <2>8, <2>9, <2>11 DEF PairedFor
<1> QED BY <1>4, <1>5

LEMMA PairNext ==
    ASSUME TypeInv, RingInv, PairInv, [Next]_vars
    PROVE  PairInv'
<1> DEFINE frame == /\ UNCHANGED <<ovf, widx, sent, got, sock, mixed>>
                    /\ Owed' = Owed /\ Marked'
                    /\ \A r \in Readers : rpc'[r] = "recv" <=> rpc[r] = "recv"
<1>1. frame => PairInv'
  BY PairFrame
<1>2. CASE \/ \E overflow \in BOOLEAN : Enqueue(overflow)
           \/ WriteTimeout \/ AcquireWrite
           \/ \E reached \in SUBSET Readers : Notify(reached)
           \/ UNCHANGED vars
  <2>1. frame
    BY <1>2 DEF Enqueue, WriteTimeout, AcquireWrite, Notify, vars, memVars, writerVars,
                readerVars, sockVars, Owed, Marked, PairInv, Stores
  <2> QED BY <1>1, <2>1
<1>3. ASSUME NEW r \in Readers,
             \/ Dequeue(r) \/ LoadReadFlag(r) \/ LoadWrittenFlag(r) \/ Spin(r) \/ Park(r)
             \/ WakeBySocket(r) \/ WakeByRecheck(r) \/ ReadTimeout(r)
             \/ Shutdown(r) \/ Cancel(r)
      PROVE  PairInv'
  <2>1. UNCHANGED <<memVars, writerVars, got, sockVars>>
    BY <1>3 DEF Dequeue, LoadReadFlag, LoadWrittenFlag, Spin, Park, WakeBySocket,
                WakeByRecheck, ReadTimeout, Shutdown, Cancel, readerVars
  <2>2. \A q \in Readers : rpc'[q] = "recv" <=> rpc[q] = "recv"
    BY <1>3 DEF Dequeue, LoadReadFlag, LoadWrittenFlag, Spin, Park, WakeBySocket,
                WakeByRecheck, ReadTimeout, Shutdown, Cancel, AfterWait, readerVars,
                TypeInv, TypeOK
  <2>3. frame
    BY <2>1, <2>2 DEF memVars, writerVars, sockVars, Owed, Marked, PairInv
  <2> QED BY <1>1, <2>3
<1>4. ASSUME NEW r \in Readers, RecvTimeout(r) PROVE PairInv'
  <2>1. /\ UNCHANGED <<memVars, writerVars, got, sockVars>> /\ r \in Impatient
        /\ \A q \in Readers \ {r} : rpc'[q] = rpc[q]
    BY <1>4 DEF RecvTimeout, TypeInv, TypeOK
  <2>2. Marked' /\ Owed' = Owed
    BY <2>1 DEF memVars, writerVars, Owed, Marked, PairInv
  <2> SUFFICES ASSUME NEW q \in Readers \ Impatient PROVE PairedFor(q)'
    BY <2>2 DEF PairInv
  <2>3. PairedFor(q) /\ rpc'[q] = rpc[q]
    BY <2>1 DEF PairInv
  <2> QED
    BY <2>1, <2>2, <2>3 DEF PairedFor, Ordered, ToCome, Awaited, MarkersTrue, InSock, Msg,
                            memVars, writerVars, sockVars
<1> QED
  BY <1>2, <1>3, <1>4, CommitKeepsPairs, RaiseKeepsPairs, SendOverflowKeepsPairs,
     ReleaseKeepsPairs, RecvOverflowKeepsPairs DEF Next, WriterStep, ReaderStep

(* Over any number of chunks, a reader that waits for its overflow payloads *)
(* puts every marker together with its own payload: the socket is in step   *)
(* with the markers in the ring, also between the release of a chunk and    *)
(* the send of its payload.                                                 *)
THEOREM OverflowPaired == ~ WeakStores => (Spec => []PayloadsPaired)
<1> SUFFICES ASSUME ~ WeakStores PROVE Spec => []PayloadsPaired
  OBVIOUS
<1>1. Init => PairInv
  BY PairInit
<1>2. TypeInv /\ RingInv /\ PairInv /\ [Next]_vars => PairInv'
  BY PairNext
<1>3. PairInv => PayloadsPaired
  BY DEF PairInv, PairedFor, PayloadsPaired
<1> QED
  BY <1>1, <1>2, <1>3, RingInvariant, PTL DEF Spec
=============================================================================
