----------------------- MODULE DsparkSchedulerProofs -----------------------
(***************************************************************************)
(* Proofs about the scheduler for any number of requests, any prompts,     *)
(* budgets, limits and pools, synchronous or asynchronous.  What a queue   *)
(* loses (a stopped or aborted request) is taken out by position, so even  *)
(* the types rest on the queues holding exactly the live requests: types   *)
(* and queue order are proved together, as one inductive invariant (IInv). *)
(* On it rest, each an invariant of its own: what the scheduler has        *)
(* counted against the frames in flight (CountInv), and on that the bound  *)
(* on generated tokens (ExtraInv), the tokens that a chunk leaves to the   *)
(* requests behind it (LaneInv) and the cap on prefills (PrefillInv).      *)
(***************************************************************************)
EXTENDS DsparkScheduler, FiniteSetTheorems, TLAPS

(* Each queue holds the requests its statuses say, in arrival order, and    *)
(* every waiting request arrived after every running one.                   *)
Holds(q, statuses) ==
    /\ \A i \in 1 .. Len(q) : status[q[i]] \in statuses
    /\ \A r \in Reqs : status[r] \in statuses => \E i \in 1 .. Len(q) : q[i] = r

QueuesMatch ==
    /\ Holds(running, {"running"})
    /\ Holds(waiting, {"waiting", "preempted"})

InOrder ==
    /\ Increasing(running)
    /\ Increasing(waiting)
    /\ \A i \in 1 .. Len(running), j \in 1 .. Len(waiting) : running[i] < waiting[j]

(* Requests arrive in the order of their numbers. *)
NewAreLast == \A q, r \in Reqs : q < r /\ status[q] = "new" => status[r] = "new"

(* Only requests that arrived are in a step or in a frame. *)
Seen ==
    /\ \A r \in Reqs : sched[r] # 0 => status[r] # "new"
    /\ \A i \in 1 .. Len(frames) : \A r \in frames[i].reqs : status[r] # "new"

(* Slots are sought for a request of the running list. *)
WantInLoop == want # 0 => phase = "running" /\ idx <= Len(running)

(* Results are taken from the oldest frame. *)
UpdateHasFrame == phase = "update" => frames # <<>>

IInv ==
    /\ TypeOK /\ QueuesMatch /\ InOrder /\ NewAreLast /\ Seen
    /\ WantInLoop /\ UpdateHasFrame

Frame == [reqs : SUBSET Reqs, sampling : SUBSET Reqs, spec : [Reqs -> Nat]]
-----------------------------------------------------------------------------
(* Constants and arithmetic *)

LEMMA ConstTypes ==
    /\ N \in Nat
    /\ Prompt \in [Reqs -> Nat] /\ MaxTokens \in [Reqs -> Nat]
    /\ Budget \in Int /\ MaxSeqs \in Int /\ Cap \in Int /\ NumBlocks \in Int
    /\ BlockSize \in Int /\ BlockSize > 0 /\ ModelLen \in Int
    /\ Threshold \in Int /\ SpecTokens \in Nat /\ Watermark \in Int
BY SchedulerAssumption

LEMMA ReqsAreNumbers == \A r \in Reqs : r \in Int
BY ConstTypes DEF Reqs

LEMMA LesserType ==
    ASSUME NEW a \in Int, NEW b \in Int
    PROVE  Lesser(a, b) \in Int
BY DEF Lesser

LEMMA GreaterType ==
    ASSUME NEW a \in Nat, NEW b \in Int
    PROVE  Greater(a, b) \in Nat
BY DEF Greater

LEMMA SlotsType ==
    ASSUME NEW n \in Int
    PROVE  Slots(n) \in Int
<1>1. n + SpecTokens \in Int
  BY ConstTypes
<1>2. Lesser(n + SpecTokens, ModelLen) + BlockSize - 1 \in Int
  BY <1>1, ConstTypes, LesserType
<1>3. QED
  BY <1>2, ConstTypes DEF Slots, BlocksFor

LEMMA AllocateType ==
    ASSUME TypeOK, NEW r \in Reqs, NEW n \in Int
    PROVE  Allocate(r, n) \in [Reqs -> Nat]
<1>1. /\ blocks \in [Reqs -> Nat]
      /\ Greater(blocks[r], Slots(n)) \in Nat
  BY SlotsType, GreaterType DEF TypeOK
<1>2. QED
  BY <1>1 DEF Allocate

LEMMA NumTokensType ==
    ASSUME TypeOK, NEW r \in Reqs
    PROVE  NumTokens(r) \in Nat
BY ConstTypes DEF TypeOK, NumTokens

LEMMA CappedType ==
    ASSUME NEW n \in Int
    PROVE  Capped(n) \in Int
BY ConstTypes DEF Capped, ChunkCap

LEMMA LanesCount ==
    ASSUME TypeOK, NEW i \in Int
    PROVE  Cardinality(Lanes(i)) \in Nat
<1>1. Len(running) \in Int
  <2>1. running \in Seq(Reqs)
    BY DEF TypeOK
  <2>2. QED
    BY <2>1
<1>2. IsFiniteSet(i + 1 .. Len(running))
  BY <1>1, FS_Interval
<1>3. Lanes(i) \subseteq i + 1 .. Len(running)
  BY DEF Lanes
<1>4. IsFiniteSet(Lanes(i))
  BY <1>2, <1>3, FS_Subset
<1>5. QED
  BY <1>4, FS_CardinalityType

LEMMA NewTokensType ==
    ASSUME TypeOK, NEW i \in 1 .. Len(running)
    PROVE  NewTokens(i) \in Int
<1> DEFINE r == running[i]
           behind == NumTokens(r) + drafts[r] + holders[r] - computed[r]
           n == Lesser(Lesser(Capped(behind), budget), ModelLen - computed[r] - 1)
<1>1. r \in Reqs /\ i \in Int
  BY DEF TypeOK
<1>2. drafts[r] \in Int /\ holders[r] \in Int /\ computed[r] \in Int /\ budget \in Int
  BY <1>1 DEF TypeOK
<1>3. behind \in Int
  BY <1>1, <1>2, NumTokensType
<1>4. ModelLen - computed[r] - 1 \in Int
  BY <1>2, ConstTypes
<1>5. n \in Int
  BY <1>2, <1>3, <1>4, CappedType, LesserType
<1>6. Cardinality(Lanes(i)) \in Nat
  BY <1>1, LanesCount
<1>7. Greater(0, budget - Cardinality(Lanes(i))) \in Int
  BY <1>2, <1>6 DEF Greater
<1>8. DecodeFloor(i, n) \in Int
  BY <1>5, <1>7, LesserType DEF DecodeFloor
<1>9. QED
  BY <1>8 DEF NewTokens

LEMMA SpecPartType ==
    ASSUME TypeOK, NEW r \in Reqs, NEW n \in Int
    PROVE  SpecPart(r, n) \in Nat
<1>1. drafts[r] \in Int /\ holders[r] \in Int /\ computed[r] \in Int
  BY DEF TypeOK
<1>2. n + computed[r] - NumTokens(r) - holders[r] \in Int
  BY <1>1, NumTokensType
<1>3. Lesser(drafts[r], n + computed[r] - NumTokens(r) - holders[r]) \in Int
  BY <1>1, <1>2, LesserType
<1>4. QED
  BY <1>3, GreaterType DEF SpecPart

LEMMA AdmitTokensType ==
    ASSUME TypeOK, NEW r \in Reqs, NEW hit \in Int
    PROVE  AdmitTokens(r, hit) \in Int
<1>1. Unscheduled(r, hit) \in Int
  BY NumTokensType, ConstTypes DEF Unscheduled
<1>2. budget \in Int
  BY DEF TypeOK
<1>3. QED
  BY <1>1, <1>2, CappedType, LesserType DEF AdmitTokens
-----------------------------------------------------------------------------
(* Queues *)

(* A queue without the request at position k. *)
LEMMA RemoveAtValue ==
    ASSUME NEW q \in Seq(Reqs), NEW k \in 1 .. Len(q)
    PROVE  /\ RemoveAt(q, k) \in Seq(Reqs)
           /\ Len(RemoveAt(q, k)) = Len(q) - 1
           /\ \A i \in 1 .. Len(q) - 1 :
                 RemoveAt(q, k)[i] = IF i < k THEN q[i] ELSE q[i + 1]
<1> DEFINE a == SubSeq(q, 1, k - 1)
           b == SubSeq(q, k + 1, Len(q))
<1>1. Len(q) \in Nat /\ k \in Int /\ 1 <= k /\ k <= Len(q)
  OBVIOUS
<1>2. /\ a \in Seq(Reqs) /\ Len(a) = k - 1
      /\ \A i \in 1 .. k - 1 : a[i] = q[i]
  BY <1>1
<1>3. /\ b \in Seq(Reqs) /\ Len(b) = Len(q) - k
      /\ \A i \in 1 .. Len(q) - k : b[i] = q[i + k]
  BY <1>1
<1>4. RemoveAt(q, k) = a \o b
  BY DEF RemoveAt
<1> HIDE DEF a, b
<1>5. a \o b \in Seq(Reqs) /\ Len(a \o b) = Len(q) - 1
  <2>1. a \in Seq(Reqs) /\ b \in Seq(Reqs)
    BY <1>2, <1>3
  <2>2. a \o b \in Seq(Reqs) /\ Len(a \o b) = Len(a) + Len(b)
    BY <2>1
  <2>3. QED
    BY <1>1, <1>2, <1>3, <2>2
<1>6. ASSUME NEW i \in 1 .. Len(q) - 1
      PROVE  (a \o b)[i] = IF i < k THEN q[i] ELSE q[i + 1]
  <2>1. CASE i < k
    BY <1>1, <1>2, <1>3, <2>1
  <2>2. CASE ~ (i < k)
    <3>1. (a \o b)[i] = b[i - (k - 1)]
      BY <1>1, <1>2, <1>3, <2>2
    <3>2. i - (k - 1) \in 1 .. Len(q) - k /\ i - (k - 1) + k = i + 1
      BY <1>1, <2>2
    <3>3. b[i - (k - 1)] = q[i + 1]
      BY <1>3, <3>2
    <3>4. QED
      BY <2>2, <3>1, <3>3
  <2>3. QED
    BY <2>1, <2>2
<1>7. QED
  BY <1>4, <1>5, <1>6

(* A queue without its last request. *)
LEMMA FrontValue ==
    ASSUME NEW q \in Seq(Reqs), Len(q) \in 1 .. Len(q)
    PROVE  /\ SubSeq(q, 1, Len(q) - 1) \in Seq(Reqs)
           /\ Len(SubSeq(q, 1, Len(q) - 1)) = Len(q) - 1
           /\ \A i \in 1 .. Len(q) - 1 : SubSeq(q, 1, Len(q) - 1)[i] = q[i]
<1>1. Len(q) \in Nat /\ 1 <= Len(q)
  OBVIOUS
<1>2. \A i \in 1 .. Len(q) - 1 : q[i] \in Reqs
  BY <1>1
<1> DEFINE n == Len(q) - 1
<1>3. n \in Nat /\ n <= Len(q)
  BY <1>1
<1> HIDE DEF n
<1>4. Len(SubSeq(q, 1, n)) = n
  BY <1>3
<1>5. \A i \in 1 .. n : SubSeq(q, 1, n)[i] = q[i]
  BY <1>3
<1>6. SubSeq(q, 1, n) \in Seq(Reqs)
  BY <1>1, <1>3
<1>7. QED
  BY <1>4, <1>5, <1>6 DEF n

(* An increasing queue that loses one of its requests. *)
LEMMA WithoutValue ==
    ASSUME NEW q \in Seq(Reqs), Increasing(q), NEW r, \E i \in 1 .. Len(q) : q[i] = r
    PROVE  /\ Without(q, r) \in Seq(Reqs)
           /\ Increasing(Without(q, r))
           /\ \A i \in 1 .. Len(Without(q, r)) :
                 /\ Without(q, r)[i] # r
                 /\ \E j \in 1 .. Len(q) : q[j] = Without(q, r)[i]
           /\ \A j \in 1 .. Len(q) :
                 q[j] # r => \E i \in 1 .. Len(Without(q, r)) : Without(q, r)[i] = q[j]
<1> DEFINE k == CHOOSE i \in 1 .. Len(q) : q[i] = r
           w == Without(q, r)
<1>1. k \in 1 .. Len(q) /\ q[k] = r
  OBVIOUS
<1>2. w = RemoveAt(q, k)
  BY DEF Without
<1> HIDE DEF k, w
<1>3. Len(q) \in Nat /\ k \in Int /\ 1 <= k /\ k <= Len(q)
  BY <1>1
<1>4. /\ w \in Seq(Reqs) /\ Len(w) = Len(q) - 1
      /\ \A i \in 1 .. Len(q) - 1 : w[i] = IF i < k THEN q[i] ELSE q[i + 1]
  BY <1>1, <1>2, RemoveAtValue
<1>5. \A i \in 1 .. Len(q) : q[i] \in Int
  <2>1. \A i \in 1 .. Len(q) : q[i] \in Reqs
    OBVIOUS
  <2>2. QED
    BY <2>1, ReqsAreNumbers
<1>6. \A i, j \in 1 .. Len(q) : i < j => q[i] < q[j]
  BY DEF Increasing
<1>7. ASSUME NEW i \in 1 .. Len(w), NEW j \in 1 .. Len(w), i < j
      PROVE  w[i] < w[j]
  <2>1. i \in 1 .. Len(q) - 1 /\ j \in 1 .. Len(q) - 1 /\ i \in Int /\ j \in Int
    BY <1>3, <1>4
  <2>2. /\ i \in 1 .. Len(q) /\ i + 1 \in 1 .. Len(q)
        /\ j \in 1 .. Len(q) /\ j + 1 \in 1 .. Len(q)
    BY <1>3, <2>1
  <2>3. /\ w[i] = IF i < k THEN q[i] ELSE q[i + 1]
        /\ w[j] = IF j < k THEN q[j] ELSE q[j + 1]
    BY <1>4, <2>1
  <2>4. q[i] < q[j] /\ q[i] < q[j + 1] /\ q[i + 1] < q[j + 1]
    BY <1>6, <1>7, <2>1, <2>2
  <2>5. QED
    BY <1>3, <1>7, <2>1, <2>3, <2>4
<1>8. ASSUME NEW i \in 1 .. Len(w)
      PROVE  w[i] # r /\ \E j \in 1 .. Len(q) : q[j] = w[i]
  <2>1. CASE i < k
    <3>1. i \in 1 .. Len(q) /\ w[i] = q[i]
      BY <1>3, <1>4, <2>1
    <3>2. q[i] < q[k] /\ q[i] \in Int /\ q[k] \in Int
      BY <1>1, <1>5, <1>6, <2>1, <3>1
    <3>3. QED
      BY <1>1, <3>1, <3>2
  <2>2. CASE ~ (i < k)
    <3>1. i + 1 \in 1 .. Len(q) /\ w[i] = q[i + 1] /\ k < i + 1
      BY <1>3, <1>4, <2>2
    <3>2. q[k] < q[i + 1] /\ q[i + 1] \in Int /\ q[k] \in Int
      BY <1>1, <1>5, <1>6, <3>1
    <3>3. QED
      BY <1>1, <3>1, <3>2
  <2>3. QED
    BY <2>1, <2>2
<1>9. ASSUME NEW j \in 1 .. Len(q), q[j] # r
      PROVE  \E i \in 1 .. Len(w) : w[i] = q[j]
  <2>1. CASE j < k
    <3>1. j \in 1 .. Len(w) /\ w[j] = q[j]
      BY <1>3, <1>4, <2>1
    <3>2. QED
      BY <3>1
  <2>2. CASE k < j
    <3>1. j - 1 \in 1 .. Len(w) /\ ~ (j - 1 < k) /\ (j - 1) + 1 = j
      BY <1>3, <1>4, <2>2
    <3>2. w[j - 1] = q[j]
      BY <1>4, <3>1
    <3>3. QED
      BY <3>1, <3>2
  <2>3. j # k
    BY <1>1, <1>9
  <2>4. QED
    BY <1>3, <2>1, <2>2, <2>3
<1>10. Increasing(w)
  BY <1>7 DEF Increasing
<1>11. QED
  BY <1>4, <1>8, <1>9, <1>10 DEF w

(* Taking a request out of the queue its status names. *)
LEMMA DequeueQueues ==
    ASSUME IInv, NEW r \in Reqs, Dequeue(r),
           status[r] \in {"waiting", "running", "preempted"},
           status' = [status EXCEPT ![r] = "finished"]
    PROVE  /\ running' \in Seq(Reqs) /\ waiting' \in Seq(Reqs)
           /\ QueuesMatch'
           /\ InOrder'
<1>1. /\ running \in Seq(Reqs) /\ waiting \in Seq(Reqs)
      /\ Increasing(running) /\ Increasing(waiting)
  BY DEF IInv, TypeOK, InOrder
<1>2. \A q \in Reqs : status'[q] = IF q = r THEN "finished" ELSE status[q]
  BY DEF IInv, TypeOK
<1>3. /\ \A i \in 1 .. Len(running) : running[i] \in Reqs /\ status[running[i]] = "running"
      /\ \A q \in Reqs : status[q] = "running" => \E i \in 1 .. Len(running) : running[i] = q
      /\ \A i \in 1 .. Len(waiting) : waiting[i] \in Reqs
                                        /\ status[waiting[i]] \in {"waiting", "preempted"}
      /\ \A q \in Reqs : status[q] \in {"waiting", "preempted"}
                               => \E i \in 1 .. Len(waiting) : waiting[i] = q
  BY <1>1 DEF IInv, QueuesMatch, Holds
<1>4. \A i \in 1 .. Len(running), j \in 1 .. Len(waiting) : running[i] < waiting[j]
  BY DEF IInv, InOrder
<1>5. CASE status[r] = "running"
  <2>1. running' = Without(running, r) /\ waiting' = waiting
    BY <1>5 DEF Dequeue
  <2>2. \E i \in 1 .. Len(running) : running[i] = r
    BY <1>3, <1>5
  <2>3. /\ running' \in Seq(Reqs) /\ Increasing(running)'
        /\ \A i \in 1 .. Len(running') :
              running'[i] # r /\ \E j \in 1 .. Len(running) : running[j] = running'[i]
        /\ \A j \in 1 .. Len(running) :
              running[j] # r => \E i \in 1 .. Len(running') : running'[i] = running[j]
    <3>1. running \in Seq(Reqs) /\ Increasing(running)
      BY <1>1
    <3>2. /\ Without(running, r) \in Seq(Reqs) /\ Increasing(Without(running, r))
          /\ \A i \in 1 .. Len(Without(running, r)) :
                /\ Without(running, r)[i] # r
                /\ \E j \in 1 .. Len(running) : running[j] = Without(running, r)[i]
          /\ \A j \in 1 .. Len(running) : running[j] # r
                => \E i \in 1 .. Len(Without(running, r)) : Without(running, r)[i] = running[j]
      BY <2>2, <3>1, WithoutValue
    <3>3. QED
      BY <2>1, <3>2 DEF Increasing
  <2>4. Holds(running, {"running"})'
    <3>1. ASSUME NEW i \in 1 .. Len(running')
          PROVE  status'[running'[i]] = "running"
      <4>1. PICK j \in 1 .. Len(running) : running[j] = running'[i]
        BY <2>3
      <4>2. running'[i] # r
        BY <2>3
      <4>3. QED
        BY <1>2, <1>3, <4>1, <4>2
    <3>2. ASSUME NEW q \in Reqs, status'[q] = "running"
          PROVE  \E i \in 1 .. Len(running') : running'[i] = q
      <4>1. q # r /\ status[q] = "running"
        BY <1>2, <3>2
      <4>2. PICK j \in 1 .. Len(running) : running[j] = q
        BY <1>3, <4>1
      <4>3. QED
        BY <2>3, <4>1, <4>2
    <3>3. QED
      BY <3>1, <3>2 DEF Holds
  <2>5. Holds(waiting, {"waiting", "preempted"})'
    BY <1>2, <1>3, <1>5, <2>1 DEF Holds
  <2>6. \A i \in 1 .. Len(running'), j \in 1 .. Len(waiting') : running'[i] < waiting'[j]
    BY <1>4, <2>1, <2>3
  <2>7. Increasing(waiting)'
    BY <1>1, <2>1 DEF Increasing
  <2>8. QED
    BY <1>1, <2>1, <2>3, <2>4, <2>5, <2>6, <2>7 DEF QueuesMatch, InOrder
<1>6. CASE status[r] # "running"
  <2>1. waiting' = Without(waiting, r) /\ running' = running
    BY <1>6 DEF Dequeue
  <2>2. \E i \in 1 .. Len(waiting) : waiting[i] = r
    BY <1>3, <1>6
  <2>3. /\ waiting' \in Seq(Reqs) /\ Increasing(waiting)'
        /\ \A i \in 1 .. Len(waiting') :
              waiting'[i] # r /\ \E j \in 1 .. Len(waiting) : waiting[j] = waiting'[i]
        /\ \A j \in 1 .. Len(waiting) :
              waiting[j] # r => \E i \in 1 .. Len(waiting') : waiting'[i] = waiting[j]
    <3>1. waiting \in Seq(Reqs) /\ Increasing(waiting)
      BY <1>1
    <3>2. /\ Without(waiting, r) \in Seq(Reqs) /\ Increasing(Without(waiting, r))
          /\ \A i \in 1 .. Len(Without(waiting, r)) :
                /\ Without(waiting, r)[i] # r
                /\ \E j \in 1 .. Len(waiting) : waiting[j] = Without(waiting, r)[i]
          /\ \A j \in 1 .. Len(waiting) : waiting[j] # r
                => \E i \in 1 .. Len(Without(waiting, r)) : Without(waiting, r)[i] = waiting[j]
      BY <2>2, <3>1, WithoutValue
    <3>3. QED
      BY <2>1, <3>2 DEF Increasing
  <2>4. Holds(waiting, {"waiting", "preempted"})'
    <3>1. ASSUME NEW i \in 1 .. Len(waiting')
          PROVE  status'[waiting'[i]] \in {"waiting", "preempted"}
      <4>1. PICK j \in 1 .. Len(waiting) : waiting[j] = waiting'[i]
        BY <2>3
      <4>2. waiting'[i] # r
        BY <2>3
      <4>3. QED
        BY <1>2, <1>3, <4>1, <4>2
    <3>2. ASSUME NEW q \in Reqs, status'[q] \in {"waiting", "preempted"}
          PROVE  \E i \in 1 .. Len(waiting') : waiting'[i] = q
      <4>1. q # r /\ status[q] \in {"waiting", "preempted"}
        BY <1>2, <3>2
      <4>2. PICK j \in 1 .. Len(waiting) : waiting[j] = q
        BY <1>3, <4>1
      <4>3. QED
        BY <2>3, <4>1, <4>2
    <3>3. QED
      BY <3>1, <3>2 DEF Holds
  <2>5. Holds(running, {"running"})'
    BY <1>2, <1>3, <1>6, <2>1 DEF Holds
  <2>6. \A i \in 1 .. Len(running'), j \in 1 .. Len(waiting') : running'[i] < waiting'[j]
    BY <1>4, <2>1, <2>3
  <2>7. Increasing(running)'
    BY <1>1, <2>1 DEF Increasing
  <2>8. QED
    BY <1>1, <2>1, <2>3, <2>4, <2>5, <2>6, <2>7 DEF QueuesMatch, InOrder
<1>7. QED
  BY <1>5, <1>6

(* A queue that keeps its requests, in a step that changes no status. *)
LEMMA SameQueues ==
    ASSUME IInv, UNCHANGED <<running, waiting, status>>
    PROVE  QueuesMatch' /\ InOrder' /\ NewAreLast'
BY DEF IInv, QueuesMatch, Holds, InOrder, Increasing, NewAreLast

(* The frame whose results are being taken. *)
LEMMA TakenType ==
    ASSUME IInv, NEW r \in Reqs, Updating(r)
    PROVE  /\ frames[1] \in Frame /\ 1 \in 1 .. Len(frames)
           /\ Taken(r) \in Seq(Frame)
           /\ Len(Taken(r)) = Len(frames)
           /\ \A i \in 1 .. Len(frames) : Taken(r)[i].reqs \subseteq frames[i].reqs
           /\ status[r] # "new"
<1>1. frames \in Seq(Frame) /\ frames # <<>>
  BY DEF IInv, TypeOK, UpdateHasFrame, Updating, Frame
<1>2. 1 \in 1 .. Len(frames) /\ frames[1] \in Frame
  BY <1>1
<1>3. [frames[1] EXCEPT !.reqs = @ \ {r}] \in Frame
  BY <1>2 DEF Frame
<1>4. Taken(r) = [frames EXCEPT ![1] = [frames[1] EXCEPT !.reqs = @ \ {r}]]
  BY DEF Taken
<1>5. Taken(r) \in Seq(Frame) /\ Len(Taken(r)) = Len(frames)
  BY <1>1, <1>2, <1>3, <1>4
<1>6. \A i \in 1 .. Len(frames) : Taken(r)[i].reqs \subseteq frames[i].reqs
  BY <1>1, <1>2, <1>4 DEF Frame
<1>7. status[r] # "new"
  BY <1>2 DEF IInv, Seen, Updating
<1>8. QED
  BY <1>2, <1>5, <1>6, <1>7

LEMMA FrameReqs ==
    ASSUME TypeOK
    PROVE  \A i \in 1 .. Len(frames) : frames[i] \in Frame /\ frames[i].reqs \subseteq Reqs
<1>1. frames \in Seq(Frame)
  BY DEF TypeOK, Frame
<1>2. \A i \in 1 .. Len(frames) : frames[i] \in Frame
  BY <1>1
<1>3. QED
  BY <1>2 DEF Frame
-----------------------------------------------------------------------------
(* The invariant holds initially and each action keeps it. *)

LEMMA InitInv == Init => IInv
<1> SUFFICES ASSUME Init PROVE IInv
  OBVIOUS
<1>1. TypeOK
  <2>1. Zeros \in [Reqs -> Nat] /\ Zeros \in [Reqs -> Int]
    BY DEF Zeros
  <2>2. /\ <<>> \in Seq(Reqs)
        /\ <<>> \in Seq([reqs : SUBSET Reqs, sampling : SUBSET Reqs, spec : [Reqs -> Nat]])
    OBVIOUS
  <2>3. /\ status \in [Reqs -> {"new", "waiting", "running", "preempted", "finished"}]
        /\ chunk \in [Reqs -> BOOLEAN]
    BY DEF Init
  <2>4. /\ outputs \in [Reqs -> Nat] /\ drafts \in [Reqs -> Nat]
        /\ blocks \in [Reqs -> Nat] /\ spec \in [Reqs -> Nat]
        /\ computed \in [Reqs -> Int] /\ holders \in [Reqs -> Int]
        /\ sched \in [Reqs -> Int]
    BY <2>1 DEF Init
  <2>5. /\ running \in Seq(Reqs) /\ waiting \in Seq(Reqs)
        /\ frames \in Seq([reqs : SUBSET Reqs, sampling : SUBSET Reqs, spec : [Reqs -> Nat]])
        /\ inflight \subseteq Reqs
    BY <2>2 DEF Init
  <2>6. /\ phase = "idle" /\ idx = 1 /\ want = 0 /\ budget = 0 /\ prefill = FALSE
        /\ preempted = FALSE /\ admitted = 0
    BY DEF Init
  <2>7. prefill \in BOOLEAN /\ preempted \in BOOLEAN
    BY <2>6, Zenon
  <2>8. /\ phase \in {"idle", "running", "waiting", "finish", "update"}
        /\ idx \in Nat \ {0} /\ want \in Int /\ budget \in Int
        /\ admitted \in Nat
    BY <2>6
  <2>9. QED
    BY <2>3, <2>4, <2>5, <2>7, <2>8 DEF TypeOK
<1>2. QueuesMatch /\ InOrder
  BY DEF Init, QueuesMatch, Holds, InOrder, Increasing
<1>3. NewAreLast
  BY DEF Init, NewAreLast
<1>4. Seen /\ WantInLoop /\ UpdateHasFrame
  BY DEF Init, Zeros, Seen, WantInLoop, UpdateHasFrame
<1>5. QED
  BY <1>1, <1>2, <1>3, <1>4 DEF IInv

LEMMA ArriveInv == ASSUME IInv, NEW r \in Reqs, Arrive(r) PROVE IInv'
<1>1. /\ running \in Seq(Reqs) /\ waiting \in Seq(Reqs)
      /\ running' = running /\ waiting' = Append(waiting, r)
      /\ status[r] = "new" /\ r \in Int
      /\ \A q \in 1 .. r - 1 : status[q] # "new"
      /\ \A q \in Reqs : status'[q] = IF q = r THEN "waiting" ELSE status[q]
  BY ReqsAreNumbers DEF IInv, TypeOK, Arrive
<1>2. /\ Len(waiting') = Len(waiting) + 1 /\ Len(waiting) \in Nat
      /\ waiting'[Len(waiting) + 1] = r
      /\ \A i \in 1 .. Len(waiting) : waiting'[i] = waiting[i]
      /\ waiting' \in Seq(Reqs)
  BY <1>1
<1>3. TypeOK'
  BY <1>2 DEF IInv, TypeOK, Arrive, stepVars
<1>4. \A q \in Reqs : status[q] # "new" => q \in Int /\ q < r
  BY <1>1, ReqsAreNumbers DEF IInv, NewAreLast
<1>5. /\ \A i \in 1 .. Len(running) : running[i] \in Reqs /\ running[i] < r
                                        /\ status[running[i]] = "running"
      /\ \A i \in 1 .. Len(waiting) : waiting[i] \in Reqs /\ waiting[i] < r
                                        /\ status[waiting[i]] \in {"waiting", "preempted"}
  <2>1. /\ \A i \in 1 .. Len(running) : running[i] \in Reqs /\ status[running[i]] = "running"
        /\ \A i \in 1 .. Len(waiting) : waiting[i] \in Reqs
                                          /\ status[waiting[i]] \in {"waiting", "preempted"}
    BY <1>1 DEF IInv, QueuesMatch, Holds
  <2>2. QED
    BY <1>4, <2>1
<1>6. Holds(running, {"running"})'
  BY <1>1, <1>5 DEF IInv, QueuesMatch, Holds
<1>7. Holds(waiting, {"waiting", "preempted"})'
  <2>1. ASSUME NEW i \in 1 .. Len(waiting')
        PROVE  status'[waiting'[i]] \in {"waiting", "preempted"}
    <3>1. CASE i = Len(waiting) + 1
      <4>1. waiting'[i] = r /\ status'[r] = "waiting"
        BY <1>1, <1>2, <3>1
      <4>2. QED
        BY <4>1
    <3>2. CASE i # Len(waiting) + 1
      <4>1. i \in 1 .. Len(waiting)
        BY <1>2, <3>2
      <4>2. waiting'[i] = waiting[i] /\ waiting[i] # r /\ waiting[i] \in Reqs
        BY <1>1, <1>2, <1>5, <4>1
      <4>3. status'[waiting'[i]] = status[waiting[i]]
        BY <1>1, <4>2
      <4>4. QED
        BY <1>5, <4>1, <4>3
    <3>3. QED
      BY <3>1, <3>2
  <2>2. ASSUME NEW q \in Reqs, status'[q] \in {"waiting", "preempted"}
        PROVE  \E i \in 1 .. Len(waiting') : waiting'[i] = q
    <3>1. CASE q = r
      BY <1>2, <3>1
    <3>2. CASE q # r
      <4>1. status[q] \in {"waiting", "preempted"}
        BY <1>1, <2>2, <3>2
      <4>2. PICK i \in 1 .. Len(waiting) : waiting[i] = q
        BY <4>1 DEF IInv, QueuesMatch, Holds
      <4>3. QED
        BY <1>2, <4>2
    <3>3. QED
      BY <3>1, <3>2
  <2>3. QED
    BY <2>1, <2>2 DEF Holds
<1>8. InOrder'
  <2>1. Increasing(running)'
    BY <1>1 DEF IInv, InOrder, Increasing
  <2>2. Increasing(waiting)'
    <3>1. ASSUME NEW i \in 1 .. Len(waiting'), NEW j \in 1 .. Len(waiting'), i < j
          PROVE  waiting'[i] < waiting'[j]
      <4>1. i \in 1 .. Len(waiting) /\ waiting'[i] = waiting[i]
        BY <1>2, <3>1
      <4>2. CASE j = Len(waiting) + 1
        BY <1>2, <1>5, <4>1, <4>2
      <4>3. CASE j # Len(waiting) + 1
        <5>1. j \in 1 .. Len(waiting) /\ waiting'[j] = waiting[j]
          BY <1>2, <4>3
        <5>2. QED
          BY <3>1, <4>1, <5>1 DEF IInv, InOrder, Increasing
      <4>4. QED
        BY <4>2, <4>3
    <3>2. QED
      BY <3>1 DEF Increasing
  <2>3. ASSUME NEW i \in 1 .. Len(running'), NEW j \in 1 .. Len(waiting')
        PROVE  running'[i] < waiting'[j]
    <3>1. i \in 1 .. Len(running) /\ running'[i] = running[i]
      BY <1>1
    <3>2. CASE j = Len(waiting) + 1
      BY <1>2, <1>5, <3>1, <3>2
    <3>3. CASE j # Len(waiting) + 1
      <4>1. j \in 1 .. Len(waiting) /\ waiting'[j] = waiting[j]
        BY <1>2, <3>3
      <4>2. QED
        BY <3>1, <4>1 DEF IInv, InOrder
    <3>4. QED
      BY <3>2, <3>3
  <2>4. QED
    BY <2>1, <2>2, <2>3 DEF InOrder
<1>9. NewAreLast'
  <2>1. ASSUME NEW q \in Reqs, NEW u \in Reqs, q < u, status'[q] = "new"
        PROVE  status'[u] = "new"
    <3>1. q # r /\ status[q] = "new"
      BY <1>1, <2>1
    <3>2. u # r
      BY <1>1, <2>1, <3>1 DEF Reqs
    <3>3. status[u] = "new"
      BY <2>1, <3>1 DEF IInv, NewAreLast
    <3>4. QED
      BY <1>1, <3>2, <3>3
  <2>2. QED
    BY <2>1 DEF NewAreLast
<1>10. Seen' /\ WantInLoop' /\ UpdateHasFrame'
  <2>1. UNCHANGED <<frames, sched, want, phase, idx, running>>
    BY DEF Arrive, stepVars
  <2>2. \A i \in 1 .. Len(frames) : frames[i].reqs \subseteq Reqs
    BY FrameReqs DEF IInv
  <2>3. QED
    BY <1>1, <2>1, <2>2 DEF IInv, Seen, WantInLoop, UpdateHasFrame
<1>11. QED
  BY <1>3, <1>6, <1>7, <1>8, <1>9, <1>10 DEF IInv, QueuesMatch

(* Abort and Stop take the request out of its queue and drop it. *)
LEMMA FreeInv ==
    ASSUME IInv, NEW r \in Reqs, Dequeue(r), Free(r), UNCHANGED <<phase, stepVars>>,
           status[r] \in {"waiting", "running", "preempted"},
           phase \in {"idle", "update"},
           frames' \in Seq(Frame), Len(frames') = Len(frames),
           \A i \in 1 .. Len(frames) : frames'[i].reqs \subseteq frames[i].reqs
    PROVE  IInv'
<1>1. status' = [status EXCEPT ![r] = "finished"]
  BY DEF Free
<1>2. /\ running' \in Seq(Reqs) /\ waiting' \in Seq(Reqs)
      /\ QueuesMatch' /\ InOrder'
  BY <1>1, DequeueQueues
<1>3. TypeOK'
  <2>1. /\ status' \in [Reqs -> {"new", "waiting", "running", "preempted", "finished"}]
        /\ chunk' \in [Reqs -> BOOLEAN] /\ inflight' \subseteq Reqs
    BY DEF IInv, TypeOK, Free
  <2>2. /\ outputs' \in [Reqs -> Nat] /\ computed' \in [Reqs -> Int] /\ holders' \in [Reqs -> Int]
        /\ drafts' \in [Reqs -> Nat] /\ blocks' \in [Reqs -> Nat]
    BY DEF IInv, TypeOK, Free
  <2>3. UNCHANGED <<phase, stepVars>> /\ frames' \in Seq(Frame)
    OBVIOUS
  <2>4. QED
    BY <1>2, <2>1, <2>2, <2>3 DEF IInv, TypeOK, stepVars, Frame
<1>4. \A q \in Reqs : status'[q] = IF q = r THEN "finished" ELSE status[q]
  BY <1>1 DEF IInv, TypeOK
<1>5. NewAreLast'
  <2>1. ASSUME NEW q \in Reqs, NEW u \in Reqs, q < u, status'[q] = "new"
        PROVE  status'[u] = "new"
    <3>1. status[q] = "new"
      BY <1>4, <2>1
    <3>2. status[u] = "new"
      BY <2>1, <3>1 DEF IInv, NewAreLast
    <3>3. QED
      BY <1>4, <3>2
  <2>2. QED
    BY <2>1 DEF NewAreLast
<1>6. Seen'
  <2>1. \A i \in 1 .. Len(frames) : frames[i].reqs \subseteq Reqs
    BY FrameReqs DEF IInv
  <2>2. sched' = sched
    BY DEF stepVars
  <2>3. QED
    BY <1>4, <2>1, <2>2 DEF IInv, Seen
<1>7. WantInLoop' /\ UpdateHasFrame'
  <2>1. want' = want /\ phase' = phase
    BY DEF stepVars
  <2>2. want = 0
    BY DEF IInv, WantInLoop
  <2>3. frames \in Seq(Frame)
    BY DEF IInv, TypeOK, Frame
  <2>4. frames # <<>> => frames' # <<>>
    BY <2>3
  <2>5. QED
    BY <2>1, <2>2, <2>4 DEF IInv, WantInLoop, UpdateHasFrame
<1>8. QED
  BY <1>2, <1>3, <1>5, <1>6, <1>7 DEF IInv

LEMMA AbortInv == ASSUME IInv, NEW r \in Reqs, Abort(r) PROVE IInv'
<1>1. frames' = frames /\ frames \in Seq(Frame)
  BY DEF IInv, TypeOK, Abort, Frame
<1>2. QED
  BY <1>1, FreeInv DEF Abort

LEMMA StopInv == ASSUME IInv, NEW r \in Reqs, Stop(r) PROVE IInv'
<1>1. /\ Taken(r) \in Seq(Frame) /\ Len(Taken(r)) = Len(frames) /\ status[r] # "new"
      /\ \A i \in 1 .. Len(frames) : Taken(r)[i].reqs \subseteq frames[i].reqs
  BY TakenType DEF Stop
<1>2. status[r] \in {"waiting", "running", "preempted"}
  BY <1>1 DEF IInv, TypeOK, Stop
<1>3. frames' = Taken(r) /\ phase \in {"idle", "update"}
  BY DEF Stop, Updating
<1>4. QED
  BY <1>1, <1>2, <1>3, FreeInv DEF Stop

LEMMA LoopStepsInv ==
    ASSUME IInv, BeginStep \/ SkipRunning \/ PickRunning \/ EndRunning \/ EndWaiting
                 \/ BeginUpdate
    PROVE  IInv'
<1>1. UNCHANGED <<running, waiting, status, sched, frames>>
  BY DEF BeginStep, SkipRunning, PickRunning, EndRunning, EndWaiting, BeginUpdate,
         reqVars, stepVars
<1>2. QueuesMatch' /\ InOrder' /\ NewAreLast'
  BY <1>1, SameQueues
<1>3. Seen'
  BY <1>1 DEF IInv, Seen
<1>4. UNCHANGED <<outputs, computed, holders, drafts, chunk, blocks, inflight, spec,
                  prefill, preempted, admitted>>
  BY DEF BeginStep, SkipRunning, PickRunning, EndRunning, EndWaiting, BeginUpdate,
         reqVars, stepVars
<1>5. /\ idx' \in Nat \ {0} /\ want' \in Int /\ budget' \in Int
      /\ phase' \in {"idle", "running", "waiting", "finish", "update"}
      /\ WantInLoop' /\ UpdateHasFrame'
  <2>1. /\ idx \in Nat \ {0} /\ want \in Int /\ budget \in Int
        /\ phase \in {"idle", "running", "waiting", "finish", "update"}
        /\ WantInLoop /\ UpdateHasFrame
    BY DEF IInv, TypeOK
  <2>2. CASE BeginStep
    BY <2>1, <2>2, ConstTypes DEF BeginStep, WantInLoop, UpdateHasFrame
  <2>3. CASE SkipRunning
    BY <2>1, <2>3 DEF SkipRunning, InRunningLoop, WantInLoop, UpdateHasFrame
  <2>4. CASE PickRunning
    <3>1. idx \in 1 .. Len(running)
      <4>1. Len(running) \in Nat
        BY DEF IInv, TypeOK
      <4>2. QED
        BY <2>1, <2>4, <4>1 DEF PickRunning, InRunningLoop
    <3>2. NewTokens(idx) \in Int
      BY <3>1, NewTokensType DEF IInv
    <3>3. QED
      BY <2>1, <2>4, <3>2 DEF PickRunning, InRunningLoop, WantInLoop, UpdateHasFrame
  <2>5. CASE EndRunning
    BY <2>1, <2>5 DEF EndRunning, WantInLoop, UpdateHasFrame, stepVars
  <2>6. CASE EndWaiting
    BY <2>1, <2>6 DEF EndWaiting, WantInLoop, UpdateHasFrame, stepVars
  <2>7. CASE BeginUpdate
    BY <2>1, <2>7 DEF BeginUpdate, WantInLoop, UpdateHasFrame, stepVars
  <2>8. QED
    BY <2>2, <2>3, <2>4, <2>5, <2>6, <2>7
<1>6. TypeOK'
  BY <1>1, <1>4, <1>5 DEF IInv, TypeOK
<1>7. QED
  BY <1>2, <1>3, <1>5, <1>6 DEF IInv

LEMMA ScheduleRunningInv == ASSUME IInv, ScheduleRunning PROVE IInv'
<1> DEFINE r == running[idx]
<1>1. /\ running \in Seq(Reqs) /\ want # 0 /\ want \in Int /\ idx \in Nat \ {0}
      /\ computed \in [Reqs -> Int] /\ budget \in Int /\ phase = "running"
  BY DEF IInv, TypeOK, ScheduleRunning
<1>2. idx \in 1 .. Len(running)
  BY <1>1 DEF IInv, WantInLoop
<1>3. r \in Reqs /\ status[r] = "running"
  BY <1>1, <1>2 DEF IInv, QueuesMatch, Holds
<1>4. Allocate(r, computed[r] + want) \in [Reqs -> Nat]
  <2>1. computed[r] + want \in Int
    BY <1>1, <1>3
  <2>2. QED
    BY <1>3, <2>1, AllocateType DEF IInv
<1>5. SpecPart(r, want) \in Nat
  BY <1>1, <1>3, SpecPartType DEF IInv
<1>6. /\ blocks' \in [Reqs -> Nat]
      /\ sched' = [sched EXCEPT ![r] = want]
      /\ spec' = [spec EXCEPT ![r] = SpecPart(r, want)]
      /\ drafts' = [drafts EXCEPT ![r] = 0]
      /\ budget' = budget - want /\ idx' = idx + 1 /\ want' = 0
      /\ prefill' = (prefill \/ chunk[r])
      /\ UNCHANGED <<running, waiting, status, outputs, computed, holders, chunk,
                     inflight, frames, phase, preempted, admitted>>
  BY <1>4 DEF ScheduleRunning
<1> HIDE DEF r
<1>7. sched' \in [Reqs -> Int] /\ spec' \in [Reqs -> Nat] /\ drafts' \in [Reqs -> Nat]
  BY <1>1, <1>3, <1>5, <1>6 DEF IInv, TypeOK
<1>8. budget' \in Int /\ idx' \in Nat \ {0} /\ want' \in Int
  BY <1>1, <1>6
<1>9. prefill' \in BOOLEAN
  BY <1>6 DEF IInv, TypeOK
<1>10. TypeOK'
  BY <1>6, <1>7, <1>8, <1>9 DEF IInv, TypeOK
<1>11. QueuesMatch' /\ InOrder' /\ NewAreLast'
  BY <1>6, SameQueues
<1>12. Seen'
  <2>1. \A q \in Reqs : sched'[q] = IF q = r THEN want ELSE sched[q]
    BY <1>3, <1>6 DEF IInv, TypeOK
  <2>2. QED
    BY <1>3, <1>6, <2>1 DEF IInv, Seen
<1>13. WantInLoop' /\ UpdateHasFrame'
  BY <1>6 DEF IInv, WantInLoop, UpdateHasFrame
<1>14. QED
  BY <1>10, <1>11, <1>12, <1>13 DEF IInv

LEMMA PreemptInv == ASSUME IInv, Preempt PROVE IInv'
<1> DEFINE v == running[Len(running)]
           r == running[idx]
<1>1. /\ running \in Seq(Reqs) /\ waiting \in Seq(Reqs)
      /\ want # 0 /\ want \in Int /\ idx \in Nat \ {0}
      /\ phase = "running" /\ Len(running) \in Nat
  BY DEF IInv, TypeOK, Preempt
<1>2. idx \in 1 .. Len(running) /\ Len(running) \in 1 .. Len(running)
  BY <1>1 DEF IInv, WantInLoop
<1>3. r \in Reqs /\ v \in Reqs /\ v \in Int
  <2>1. r \in Reqs /\ v \in Reqs
    BY <1>1, <1>2
  <2>2. QED
    BY <2>1, ReqsAreNumbers
<1>4. /\ \A i \in 1 .. Len(running) : running[i] \in Reqs /\ status[running[i]] = "running"
      /\ \A i \in 1 .. Len(waiting) : waiting[i] \in Reqs
                                        /\ status[waiting[i]] \in {"waiting", "preempted"}
      /\ \A q \in Reqs : status[q] = "running" => \E i \in 1 .. Len(running) : running[i] = q
      /\ \A q \in Reqs : status[q] \in {"waiting", "preempted"}
                               => \E i \in 1 .. Len(waiting) : waiting[i] = q
  BY <1>1 DEF IInv, QueuesMatch, Holds
<1>5. \A i \in 1 .. Len(running) - 1 : running[i] # v /\ running[i] < v
  <2>1. ASSUME NEW i \in 1 .. Len(running) - 1
        PROVE  running[i] < v
    BY <1>1, <1>2 DEF IInv, InOrder, Increasing
  <2>2. ASSUME NEW i \in 1 .. Len(running) - 1
        PROVE  running[i] \in Int
    <3>1. i \in 1 .. Len(running)
      BY <1>1
    <3>2. QED
      BY <1>4, <3>1, ReqsAreNumbers
  <2>3. QED
    BY <1>3, <2>1, <2>2
<1>6. /\ running' = SubSeq(running, 1, Len(running) - 1)
      /\ waiting' = <<v>> \o waiting
      /\ status' = [status EXCEPT ![v] = "preempted"]
      /\ computed' = [computed EXCEPT ![v] = 0]
      /\ drafts' = [drafts EXCEPT ![v] = 0]
      /\ blocks' = [blocks EXCEPT ![v] = 0]
      /\ inflight' = inflight \ {v}
      /\ preempted' = TRUE
      /\ want' = IF v = r THEN 0 ELSE want
      /\ UNCHANGED <<outputs, holders, chunk, frames, phase, idx, budget, sched,
                     spec, prefill, admitted>>
  BY DEF Preempt, Preempted
<1> HIDE DEF v
<1>7. /\ running' \in Seq(Reqs) /\ Len(running') = Len(running) - 1
      /\ \A i \in 1 .. Len(running) - 1 : running'[i] = running[i]
  BY <1>1, <1>2, <1>6, FrontValue
<1>8. /\ waiting' \in Seq(Reqs) /\ Len(waiting') = Len(waiting) + 1
      /\ waiting'[1] = v /\ Len(waiting) \in Nat
      /\ \A i \in 1 .. Len(waiting) : waiting'[i + 1] = waiting[i]
  <2>1. <<v>> \in Seq(Reqs) /\ Len(<<v>>) = 1 /\ <<v>>[1] = v
    BY <1>3
  <2>2. QED
    BY <1>1, <1>6, <2>1
<1>9. ASSUME NEW i \in 2 .. Len(waiting')
      PROVE  i - 1 \in 1 .. Len(waiting) /\ waiting'[i] = waiting[i - 1]
  <2>1. i - 1 \in 1 .. Len(waiting) /\ (i - 1) + 1 = i
    BY <1>8
  <2>2. QED
    BY <1>8, <2>1
<1>10. \A q \in Reqs : status'[q] = IF q = v THEN "preempted" ELSE status[q]
  BY <1>6 DEF IInv, TypeOK
<1>11. want' \in Int /\ WantInLoop'
  <2>1. CASE v = r
    BY <1>6, <2>1 DEF WantInLoop
  <2>2. CASE v # r
    <3>1. idx # Len(running)
      BY <2>2 DEF v
    <3>2. idx <= Len(running')
      BY <1>1, <1>2, <1>7, <3>1
    <3>3. QED
      BY <1>1, <1>6, <2>2, <3>2 DEF WantInLoop
  <2>3. QED
    BY <2>1, <2>2
<1>12. TypeOK'
  <2>1. /\ status' \in [Reqs -> {"new", "waiting", "running", "preempted", "finished"}]
        /\ computed' \in [Reqs -> Int] /\ drafts' \in [Reqs -> Nat]
        /\ blocks' \in [Reqs -> Nat] /\ inflight' \subseteq Reqs
    <3>1. status' \in [Reqs -> {"new", "waiting", "running", "preempted", "finished"}]
      BY <1>3, <1>6 DEF IInv, TypeOK
    <3>2. computed' \in [Reqs -> Int]
      BY <1>3, <1>6 DEF IInv, TypeOK
    <3>3. drafts' \in [Reqs -> Nat] /\ blocks' \in [Reqs -> Nat]
      BY <1>3, <1>6 DEF IInv, TypeOK
    <3>4. inflight' \subseteq Reqs
      BY <1>6 DEF IInv, TypeOK
    <3>5. QED
      BY <3>1, <3>2, <3>3, <3>4
  <2>2. /\ outputs' \in [Reqs -> Nat] /\ holders' \in [Reqs -> Int] /\ chunk' \in [Reqs -> BOOLEAN]
        /\ frames' \in Seq([reqs : SUBSET Reqs, sampling : SUBSET Reqs, spec : [Reqs -> Nat]])
        /\ idx' \in Nat \ {0} /\ sched' \in [Reqs -> Int] /\ spec' \in [Reqs -> Nat]
    BY <1>6 DEF IInv, TypeOK
  <2>3. QED
    BY <1>6, <1>7, <1>8, <1>11, <2>1, <2>2 DEF IInv, TypeOK
<1>13. Holds(running, {"running"})'
  <2>1. ASSUME NEW i \in 1 .. Len(running')
        PROVE  status'[running'[i]] = "running"
    <3>1. i \in 1 .. Len(running) - 1 /\ i \in 1 .. Len(running)
      BY <1>1, <1>7
    <3>2. QED
      BY <1>4, <1>5, <1>7, <1>10, <3>1
  <2>2. ASSUME NEW q \in Reqs, status'[q] = "running"
        PROVE  \E i \in 1 .. Len(running') : running'[i] = q
    <3>1. q # v /\ status[q] = "running"
      BY <1>10, <2>2
    <3>2. PICK i \in 1 .. Len(running) : running[i] = q
      BY <1>4, <3>1
    <3>3. i # Len(running)
      BY <3>1, <3>2 DEF v
    <3>4. i \in 1 .. Len(running) - 1
      BY <1>1, <3>3
    <3>5. QED
      BY <1>7, <3>2, <3>4
  <2>3. QED
    BY <2>1, <2>2 DEF Holds
<1>14. Holds(waiting, {"waiting", "preempted"})'
  <2>1. ASSUME NEW i \in 1 .. Len(waiting')
        PROVE  status'[waiting'[i]] \in {"waiting", "preempted"}
    <3>1. CASE i = 1
      <4>1. waiting'[i] = v /\ status'[v] = "preempted"
        BY <1>3, <1>8, <1>10, <3>1
      <4>2. QED
        BY <4>1
    <3>2. CASE i # 1
      <4>1. i \in 2 .. Len(waiting')
        BY <1>8, <3>2
      <4>2. i - 1 \in 1 .. Len(waiting) /\ waiting'[i] = waiting[i - 1]
        BY <1>9, <4>1
      <4>3. status[waiting'[i]] \in {"waiting", "preempted"} /\ waiting'[i] \in Reqs
        BY <1>4, <4>2
      <4>4. status'[waiting'[i]] = "preempted" \/ status'[waiting'[i]] = status[waiting'[i]]
        BY <1>10, <4>3
      <4>5. QED
        BY <4>3, <4>4
    <3>3. QED
      BY <3>1, <3>2
  <2>2. ASSUME NEW q \in Reqs, status'[q] \in {"waiting", "preempted"}
        PROVE  \E i \in 1 .. Len(waiting') : waiting'[i] = q
    <3>1. CASE q = v
      BY <1>8, <3>1
    <3>2. CASE q # v
      <4>1. status[q] \in {"waiting", "preempted"}
        BY <1>10, <2>2, <3>2
      <4>2. PICK i \in 1 .. Len(waiting) : waiting[i] = q
        BY <1>4, <4>1
      <4>3. i + 1 \in 1 .. Len(waiting') /\ waiting'[i + 1] = q
        BY <1>8, <4>2
      <4>4. QED
        BY <4>3
    <3>3. QED
      BY <3>1, <3>2
  <2>3. QED
    BY <2>1, <2>2 DEF Holds
<1>15. InOrder'
  <2>1. Increasing(running)'
    <3>1. ASSUME NEW i \in 1 .. Len(running'), NEW j \in 1 .. Len(running'), i < j
          PROVE  running'[i] < running'[j]
      <4>1. /\ i \in 1 .. Len(running) /\ j \in 1 .. Len(running)
            /\ running'[i] = running[i] /\ running'[j] = running[j]
        <5>1. i \in 1 .. Len(running) - 1 /\ j \in 1 .. Len(running) - 1
          BY <1>7
        <5>2. i \in 1 .. Len(running) /\ j \in 1 .. Len(running)
          BY <1>1, <5>1
        <5>3. QED
          BY <1>7, <5>1, <5>2
      <4>2. QED
        BY <3>1, <4>1 DEF IInv, InOrder, Increasing
    <3>2. QED
      BY <3>1 DEF Increasing
  <2>2. \A j \in 1 .. Len(waiting) : v < waiting[j]
    BY <1>2 DEF IInv, InOrder, v
  <2>3. Increasing(waiting)'
    <3>1. ASSUME NEW i \in 1 .. Len(waiting'), NEW j \in 1 .. Len(waiting'), i < j
          PROVE  waiting'[i] < waiting'[j]
      <4>1. j \in 2 .. Len(waiting')
        BY <1>8, <3>1
      <4>2. j - 1 \in 1 .. Len(waiting) /\ waiting'[j] = waiting[j - 1]
        BY <1>9, <4>1
      <4>3. CASE i = 1
        BY <1>8, <2>2, <4>2, <4>3
      <4>4. CASE i # 1
        <5>1. i \in 2 .. Len(waiting')
          BY <1>8, <4>4
        <5>2. i - 1 \in 1 .. Len(waiting) /\ waiting'[i] = waiting[i - 1]
          BY <1>9, <5>1
        <5>3. i - 1 < j - 1
          BY <1>8, <3>1
        <5>4. QED
          BY <4>2, <5>2, <5>3 DEF IInv, InOrder, Increasing
      <4>5. QED
        BY <4>3, <4>4
    <3>2. QED
      BY <3>1 DEF Increasing
  <2>4. ASSUME NEW i \in 1 .. Len(running'), NEW j \in 1 .. Len(waiting')
        PROVE  running'[i] < waiting'[j]
    <3>1. i \in 1 .. Len(running) - 1 /\ i \in 1 .. Len(running) /\ running'[i] = running[i]
      BY <1>1, <1>7
    <3>2. CASE j = 1
      BY <1>5, <1>8, <3>1, <3>2
    <3>3. CASE j # 1
      <4>1. j \in 2 .. Len(waiting')
        BY <1>8, <3>3
      <4>2. j - 1 \in 1 .. Len(waiting) /\ waiting'[j] = waiting[j - 1]
        BY <1>9, <4>1
      <4>3. QED
        BY <3>1, <4>2 DEF IInv, InOrder
    <3>4. QED
      BY <3>2, <3>3
  <2>5. QED
    BY <2>1, <2>3, <2>4 DEF InOrder
<1>16. status[v] = "running"
  BY <1>2, <1>4 DEF v
<1>17. NewAreLast'
  <2>1. ASSUME NEW q \in Reqs, NEW u \in Reqs, q < u, status'[q] = "new"
        PROVE  status'[u] = "new"
    <3>1. status[q] = "new"
      BY <1>10, <2>1
    <3>2. status[u] = "new"
      BY <2>1, <3>1 DEF IInv, NewAreLast
    <3>3. QED
      BY <1>10, <1>16, <3>2
  <2>2. QED
    BY <2>1 DEF NewAreLast
<1>18. Seen' /\ UpdateHasFrame'
  <2>1. \A i \in 1 .. Len(frames) : frames[i].reqs \subseteq Reqs
    BY FrameReqs DEF IInv
  <2>2. QED
    BY <1>6, <1>10, <2>1 DEF IInv, Seen, UpdateHasFrame
<1>19. QED
  BY <1>11, <1>12, <1>13, <1>14, <1>15, <1>17, <1>18 DEF IInv, QueuesMatch

LEMMA AdmitInv == ASSUME IInv, NEW hit \in 0 .. ModelLen, Admit(hit) PROVE IInv'
<1> DEFINE r == Head(waiting)
           n == AdmitTokens(r, hit)
<1>1. /\ running \in Seq(Reqs) /\ waiting \in Seq(Reqs) /\ waiting # <<>>
      /\ phase = "waiting" /\ hit \in Nat /\ hit \in Int
  BY ConstTypes DEF IInv, TypeOK, Admit, InWaitingLoop
<1>2. /\ Len(waiting) \in Nat /\ 1 <= Len(waiting) /\ Len(running) \in Nat
      /\ r \in Reqs /\ r = waiting[1] /\ 1 \in 1 .. Len(waiting)
  BY <1>1
<1>3. n \in Int /\ hit + n \in Int
  <2>1. n \in Int
    BY <1>1, <1>2, AdmitTokensType DEF IInv
  <2>2. QED
    BY <1>1, <2>1
<1>4. Allocate(r, hit + n) \in [Reqs -> Nat]
  BY <1>2, <1>3, AllocateType DEF IInv
<1>5. /\ running' = Append(running, r)
      /\ waiting' = Tail(waiting)
      /\ status' = [status EXCEPT ![r] = "running"]
      /\ computed' = [computed EXCEPT ![r] = hit]
      /\ blocks' = Allocate(r, hit + n)
      /\ sched' = [sched EXCEPT ![r] = n]
      /\ spec' = [spec EXCEPT ![r] = IF Padded(r, hit) THEN SpecTokens ELSE 0]
      /\ budget' = budget - n
      /\ inflight' = IF hit + n < NumTokens(r) THEN inflight \cup {r} ELSE inflight
      /\ admitted' = admitted + 1
      /\ UNCHANGED <<outputs, holders, drafts, chunk, frames, phase, idx, want,
                     prefill, preempted>>
  BY DEF Admit
<1> HIDE DEF n, r
<1>6. /\ \A i \in 1 .. Len(running) : running[i] \in Reqs /\ status[running[i]] = "running"
      /\ \A i \in 1 .. Len(waiting) : waiting[i] \in Reqs
                                        /\ status[waiting[i]] \in {"waiting", "preempted"}
      /\ \A q \in Reqs : status[q] = "running" => \E i \in 1 .. Len(running) : running[i] = q
      /\ \A q \in Reqs : status[q] \in {"waiting", "preempted"}
                               => \E i \in 1 .. Len(waiting) : waiting[i] = q
  BY <1>1 DEF IInv, QueuesMatch, Holds
<1>7. /\ running' \in Seq(Reqs) /\ Len(running') = Len(running) + 1
      /\ running'[Len(running) + 1] = r
      /\ \A i \in 1 .. Len(running) : running'[i] = running[i]
  BY <1>1, <1>2, <1>5
<1>8. /\ waiting' \in Seq(Reqs) /\ Len(waiting') = Len(waiting) - 1
      /\ \A i \in 1 .. Len(waiting) - 1 : waiting'[i] = waiting[i + 1]
  BY <1>1, <1>2, <1>5
<1>9. \A q \in Reqs : status'[q] = IF q = r THEN "running" ELSE status[q]
  BY <1>5 DEF IInv, TypeOK
<1>10. ASSUME NEW i \in 1 .. Len(waiting')
       PROVE  /\ i + 1 \in 1 .. Len(waiting) /\ waiting'[i] = waiting[i + 1]
              /\ r < waiting'[i] /\ waiting'[i] \in Reqs /\ waiting'[i] # r
  <2>1. i + 1 \in 1 .. Len(waiting) /\ 1 < i + 1 /\ waiting'[i] = waiting[i + 1]
    BY <1>2, <1>8
  <2>2. r < waiting'[i]
    BY <1>2, <2>1 DEF IInv, InOrder, Increasing
  <2>3. r \in Int /\ waiting'[i] \in Reqs /\ waiting'[i] \in Int
    BY <1>2, <1>6, <2>1, ReqsAreNumbers
  <2>4. QED
    BY <2>1, <2>2, <2>3
<1>11. TypeOK'
  <2>1. /\ status' \in [Reqs -> {"new", "waiting", "running", "preempted", "finished"}]
        /\ computed' \in [Reqs -> Int] /\ sched' \in [Reqs -> Int]
    BY <1>1, <1>2, <1>3, <1>5 DEF IInv, TypeOK
  <2>2. spec' \in [Reqs -> Nat]
    BY <1>2, <1>5, ConstTypes DEF IInv, TypeOK
  <2>3. budget' \in Int /\ admitted' \in Nat
    BY <1>3, <1>5 DEF IInv, TypeOK
  <2>4. inflight' \subseteq Reqs
    BY <1>2, <1>5 DEF IInv, TypeOK
  <2>5. blocks' \in [Reqs -> Nat]
    BY <1>4, <1>5
  <2>6. QED
    BY <1>5, <1>7, <1>8, <2>1, <2>2, <2>3, <2>4, <2>5 DEF IInv, TypeOK
<1>12. Holds(running, {"running"})'
  <2>1. ASSUME NEW i \in 1 .. Len(running')
        PROVE  status'[running'[i]] = "running"
    <3>1. CASE i = Len(running) + 1
      BY <1>2, <1>7, <1>9, <3>1
    <3>2. CASE i # Len(running) + 1
      <4>1. i \in 1 .. Len(running) /\ running'[i] = running[i]
        BY <1>2, <1>7, <3>2
      <4>2. QED
        BY <1>6, <1>9, <4>1
    <3>3. QED
      BY <3>1, <3>2
  <2>2. ASSUME NEW q \in Reqs, status'[q] = "running"
        PROVE  \E i \in 1 .. Len(running') : running'[i] = q
    <3>1. CASE q = r
      BY <1>2, <1>7, <3>1
    <3>2. CASE q # r
      <4>1. status[q] = "running"
        BY <1>9, <2>2, <3>2
      <4>2. PICK i \in 1 .. Len(running) : running[i] = q
        BY <1>6, <4>1
      <4>3. i \in 1 .. Len(running') /\ running'[i] = q
        BY <1>2, <1>7, <4>2
      <4>4. QED
        BY <4>3
    <3>3. QED
      BY <3>1, <3>2
  <2>3. QED
    BY <2>1, <2>2 DEF Holds
<1>13. Holds(waiting, {"waiting", "preempted"})'
  <2>1. ASSUME NEW i \in 1 .. Len(waiting')
        PROVE  status'[waiting'[i]] \in {"waiting", "preempted"}
    <3>1. i + 1 \in 1 .. Len(waiting) /\ waiting'[i] = waiting[i + 1] /\ waiting'[i] # r
          /\ waiting'[i] \in Reqs
      BY <1>10
    <3>2. status'[waiting'[i]] = status[waiting[i + 1]]
      BY <1>9, <3>1
    <3>3. QED
      BY <1>6, <3>1, <3>2
  <2>2. ASSUME NEW q \in Reqs, status'[q] \in {"waiting", "preempted"}
        PROVE  \E i \in 1 .. Len(waiting') : waiting'[i] = q
    <3>1. q # r /\ status[q] \in {"waiting", "preempted"}
      BY <1>9, <2>2
    <3>2. PICK i \in 1 .. Len(waiting) : waiting[i] = q
      BY <1>6, <3>1
    <3>3. i # 1
      BY <1>2, <3>1, <3>2
    <3>4. i - 1 \in 1 .. Len(waiting') /\ (i - 1) + 1 = i /\ i - 1 \in 1 .. Len(waiting) - 1
      BY <1>2, <1>8, <3>3
    <3>5. waiting'[i - 1] = q
      BY <1>8, <3>2, <3>4
    <3>6. QED
      BY <3>4, <3>5
  <2>3. QED
    BY <2>1, <2>2 DEF Holds
<1>14. InOrder'
  <2>1. \A i \in 1 .. Len(running) : running[i] < r
    BY <1>2 DEF IInv, InOrder
  <2>2. Increasing(running)'
    <3>1. ASSUME NEW i \in 1 .. Len(running'), NEW j \in 1 .. Len(running'), i < j
          PROVE  running'[i] < running'[j]
      <4>1. i \in 1 .. Len(running) /\ running'[i] = running[i]
        BY <1>2, <1>7, <3>1
      <4>2. CASE j = Len(running) + 1
        BY <1>7, <2>1, <4>1, <4>2
      <4>3. CASE j # Len(running) + 1
        <5>1. j \in 1 .. Len(running) /\ running'[j] = running[j]
          BY <1>2, <1>7, <4>3
        <5>2. QED
          BY <3>1, <4>1, <5>1 DEF IInv, InOrder, Increasing
      <4>4. QED
        BY <4>2, <4>3
    <3>2. QED
      BY <3>1 DEF Increasing
  <2>3. Increasing(waiting)'
    <3>1. ASSUME NEW i \in 1 .. Len(waiting'), NEW j \in 1 .. Len(waiting'), i < j
          PROVE  waiting'[i] < waiting'[j]
      <4>1. /\ i + 1 \in 1 .. Len(waiting) /\ waiting'[i] = waiting[i + 1]
            /\ j + 1 \in 1 .. Len(waiting) /\ waiting'[j] = waiting[j + 1]
            /\ i + 1 < j + 1
        BY <1>8, <1>10, <3>1
      <4>2. QED
        BY <4>1 DEF IInv, InOrder, Increasing
    <3>2. QED
      BY <3>1 DEF Increasing
  <2>4. ASSUME NEW i \in 1 .. Len(running'), NEW j \in 1 .. Len(waiting')
        PROVE  running'[i] < waiting'[j]
    <3>1. j + 1 \in 1 .. Len(waiting) /\ waiting'[j] = waiting[j + 1] /\ r < waiting'[j]
      BY <1>10
    <3>2. CASE i = Len(running) + 1
      BY <1>7, <3>1, <3>2
    <3>3. CASE i # Len(running) + 1
      <4>1. i \in 1 .. Len(running) /\ running'[i] = running[i]
        BY <1>2, <1>7, <3>3
      <4>2. QED
        BY <3>1, <4>1 DEF IInv, InOrder
    <3>4. QED
      BY <3>2, <3>3
  <2>5. QED
    BY <2>2, <2>3, <2>4 DEF InOrder
<1>15. status[r] # "new"
  BY <1>2, <1>6
<1>16. NewAreLast'
  <2>1. ASSUME NEW q \in Reqs, NEW u \in Reqs, q < u, status'[q] = "new"
        PROVE  status'[u] = "new"
    <3>1. status[q] = "new"
      BY <1>9, <2>1
    <3>2. status[u] = "new"
      BY <2>1, <3>1 DEF IInv, NewAreLast
    <3>3. QED
      BY <1>9, <1>15, <3>2
  <2>2. QED
    BY <2>1 DEF NewAreLast
<1>17. Seen' /\ WantInLoop' /\ UpdateHasFrame'
  <2>1. \A i \in 1 .. Len(frames) : frames[i].reqs \subseteq Reqs
    BY FrameReqs DEF IInv
  <2>2. \A q \in Reqs : sched'[q] = IF q = r THEN n ELSE sched[q]
    BY <1>5 DEF IInv, TypeOK
  <2>3. Seen'
    BY <1>5, <1>9, <2>1, <2>2 DEF IInv, Seen
  <2>4. WantInLoop' /\ UpdateHasFrame'
    BY <1>1, <1>5 DEF IInv, WantInLoop, UpdateHasFrame
  <2>5. QED
    BY <2>3, <2>4
<1>18. QED
  BY <1>11, <1>12, <1>13, <1>14, <1>16, <1>17 DEF IInv, QueuesMatch

LEMMA FinishStepInv == ASSUME IInv, FinishStep PROVE IInv'
<1> DEFINE f == [reqs |-> Scheduled, sampling |-> Sampling, spec |-> spec]
<1>1. f \in Frame /\ frames \in Seq(Frame)
  BY DEF IInv, TypeOK, Frame, Scheduled, Sampling
<1>2. /\ frames' = Append(frames, f) /\ sched' = Zeros /\ spec' = Zeros
      /\ phase' = "idle" /\ idx' = 1 /\ budget' = 0 /\ admitted' = 0 /\ want' = want
      /\ prefill' = FALSE /\ preempted' = FALSE
      /\ inflight' = inflight \ Sampling
      /\ UNCHANGED <<running, waiting, status, outputs, blocks>>
      /\ phase = "finish"
  BY DEF FinishStep
<1>3. f.reqs = Scheduled
  OBVIOUS
<1> HIDE DEF f
<1>4. /\ frames' \in Seq(Frame) /\ Len(frames') = Len(frames) + 1 /\ Len(frames) \in Nat
      /\ frames'[Len(frames) + 1] = f
      /\ \A i \in 1 .. Len(frames) : frames'[i] = frames[i]
  BY <1>1, <1>2
<1>5. computed' \in [Reqs -> Int]
  BY DEF IInv, TypeOK, FinishStep
<1>6. chunk' \in [Reqs -> BOOLEAN]
  <2>1. ASSUME NEW r \in Reqs
        PROVE  (IF r \in Scheduled THEN StillChunk(r) ELSE chunk[r]) \in BOOLEAN
    <3>1. chunk[r] \in BOOLEAN
      BY DEF IInv, TypeOK
    <3>2. StillChunk(r) \in BOOLEAN
      <4>1. (computed[r] + sched[r] < NumTokens(r) + holders[r]) \in BOOLEAN
        OBVIOUS
      <4>2. QED
        BY <4>1 DEF StillChunk
    <3>3. QED
      BY <3>1, <3>2
  <2>2. QED
    BY <2>1 DEF FinishStep
<1>7. holders' \in [Reqs -> Int] /\ drafts' \in [Reqs -> Nat]
  <2>1. CASE Async
    <3>1. \A r \in Reqs : holders[r] + (IF r \in Sampling THEN 1 + spec[r] ELSE 0) \in Int
      BY DEF IInv, TypeOK
    <3>2. \A r \in Reqs : (IF r \in Sampling THEN SpecTokens ELSE drafts[r]) \in Nat
      BY ConstTypes DEF IInv, TypeOK
    <3>3. QED
      BY <2>1, <3>1, <3>2 DEF FinishStep, AsyncAfterSchedule
  <2>2. CASE ~ Async
    BY <2>2 DEF IInv, TypeOK, FinishStep, AsyncAfterSchedule
  <2>3. QED
    BY <2>1, <2>2
<1>8. TypeOK'
  <2>1. sched' \in [Reqs -> Int] /\ spec' \in [Reqs -> Nat]
    BY <1>2 DEF Zeros
  <2>2. /\ idx' \in Nat \ {0} /\ budget' \in Int /\ admitted' \in Nat
        /\ phase' \in {"idle", "running", "waiting", "finish", "update"}
    BY <1>2
  <2>3. prefill' \in BOOLEAN /\ preempted' \in BOOLEAN
    BY <1>2, Zenon
  <2>4. QED
    BY <1>2, <1>4, <1>5, <1>6, <1>7, <2>1, <2>2, <2>3 DEF IInv, TypeOK, Frame
<1>9. QueuesMatch' /\ InOrder' /\ NewAreLast'
  BY <1>2, SameQueues
<1>10. Seen'
  <2>1. ASSUME NEW i \in 1 .. Len(frames'), NEW r \in frames'[i].reqs
        PROVE  status[r] # "new"
    <3>1. CASE i = Len(frames) + 1
      BY <1>3, <1>4, <2>1, <3>1 DEF IInv, Seen, Scheduled
    <3>2. CASE i # Len(frames) + 1
      <4>1. i \in 1 .. Len(frames)
        BY <1>4, <3>2
      <4>2. QED
        BY <1>4, <2>1, <4>1 DEF IInv, Seen
    <3>3. QED
      BY <3>1, <3>2
  <2>2. \A r \in Reqs : sched'[r] = 0
    BY <1>2 DEF Zeros
  <2>3. QED
    BY <1>2, <2>1, <2>2 DEF Seen
<1>11. WantInLoop' /\ UpdateHasFrame'
  BY <1>2 DEF IInv, WantInLoop, UpdateHasFrame
<1>12. QED
  BY <1>8, <1>9, <1>10, <1>11 DEF IInv

(* The results of one request that goes on. *)
LEMMA ResultInv ==
    ASSUME IInv, NEW r \in Reqs, Updating(r), frames' = Taken(r),
           UNCHANGED <<running, waiting, status, chunk, blocks, inflight, phase, stepVars>>,
           outputs' \in [Reqs -> Nat], computed' \in [Reqs -> Int],
           holders' \in [Reqs -> Int], drafts' \in [Reqs -> Nat]
    PROVE  IInv'
<1>1. /\ frames' \in Seq(Frame) /\ Len(frames') = Len(frames) /\ 1 \in 1 .. Len(frames)
      /\ \A i \in 1 .. Len(frames) : frames'[i].reqs \subseteq frames[i].reqs
  BY TakenType
<1>2. TypeOK'
  BY <1>1 DEF IInv, TypeOK, stepVars, Frame
<1>3. QueuesMatch' /\ InOrder' /\ NewAreLast'
  BY SameQueues
<1>4. Seen'
  <2>1. UNCHANGED <<sched, status>>
    BY DEF stepVars
  <2>2. QED
    BY <1>1, <2>1 DEF IInv, Seen
<1>5. WantInLoop' /\ UpdateHasFrame'
  BY <1>1 DEF IInv, WantInLoop, UpdateHasFrame, stepVars
<1>6. QED
  BY <1>2, <1>3, <1>4, <1>5 DEF IInv

LEMMA NoOutputInv == ASSUME IInv, NEW r \in Reqs, NoOutput(r) PROVE IInv'
<1>1. drafts' \in [Reqs -> Nat]
  BY DEF IInv, TypeOK, NoOutput
<1>2. /\ outputs' \in [Reqs -> Nat] /\ computed' \in [Reqs -> Int] /\ holders' \in [Reqs -> Int]
      /\ UNCHANGED <<running, waiting, status, chunk, blocks, inflight, phase, stepVars>>
  BY DEF IInv, TypeOK, NoOutput
<1>3. QED
  BY <1>1, <1>2, ResultInv DEF NoOutput

LEMMA OutputInv ==
    ASSUME IInv, NEW r \in Reqs, NEW accepted \in 0 .. SpecTokens, Output(r, accepted)
    PROVE  IInv'
<1> DEFINE drafted == frames[1].spec[r]
<1>1. Updating(r)
  BY DEF Output
<1>2. drafted \in Nat /\ accepted \in Nat
  BY <1>1, TakenType, ConstTypes DEF Frame
<1>3. /\ outputs' = [outputs EXCEPT ![r] = @ + accepted + 1]
      /\ computed' = [computed EXCEPT ![r] = Rejected(@, drafted, accepted)]
      /\ holders' = [holders EXCEPT ![r] = Rejected(@, drafted, accepted)
                                            - IF Async THEN accepted + 1 ELSE 0]
      /\ drafts' = IF Async THEN drafts ELSE [drafts EXCEPT ![r] = SpecTokens]
      /\ frames' = Taken(r)
      /\ UNCHANGED <<running, waiting, status, chunk, blocks, inflight, phase, stepVars>>
  BY DEF Output
<1> HIDE DEF drafted
<1>4. outputs' \in [Reqs -> Nat]
  <2>1. outputs \in [Reqs -> Nat]
    BY DEF IInv, TypeOK
  <2>2. outputs[r] + accepted + 1 \in Nat
    BY <1>2, <2>1
  <2>3. QED
    BY <1>3, <2>1, <2>2
<1>5. drafts' \in [Reqs -> Nat]
  BY <1>3, ConstTypes DEF IInv, TypeOK
<1>6. \A n \in Int : Rejected(n, drafted, accepted) \in Int
  BY <1>2 DEF Rejected
<1>7. computed' \in [Reqs -> Int]
  BY <1>3, <1>6 DEF IInv, TypeOK
<1>8. holders' \in [Reqs -> Int]
  <2>1. holders \in [Reqs -> Int]
    BY DEF IInv, TypeOK
  <2>2. Rejected(holders[r], drafted, accepted) - (IF Async THEN accepted + 1 ELSE 0) \in Int
    BY <1>2, <1>6, <2>1
  <2>3. QED
    BY <1>3, <2>1, <2>2
<1>9. QED
  BY <1>1, <1>3, <1>4, <1>5, <1>7, <1>8, ResultInv

LEMMA EndUpdateInv == ASSUME IInv, EndUpdate PROVE IInv'
<1>1. /\ UNCHANGED <<running, waiting, reqVars, inflight, stepVars>>
      /\ frames' = Tail(frames) /\ phase' = "idle"
      /\ frames \in Seq(Frame) /\ frames # <<>> /\ phase = "update"
  BY DEF IInv, TypeOK, Frame, EndUpdate, UpdateHasFrame
<1>2. /\ frames' \in Seq(Frame) /\ Len(frames') = Len(frames) - 1 /\ Len(frames) \in Nat
      /\ \A i \in 1 .. Len(frames') : frames'[i] = frames[i + 1]
  BY <1>1
<1>3. TypeOK'
  BY <1>1, <1>2 DEF IInv, TypeOK, reqVars, stepVars, Frame
<1>4. QueuesMatch' /\ InOrder' /\ NewAreLast'
  BY <1>1, SameQueues DEF reqVars
<1>5. Seen'
  <2>1. \A i \in 1 .. Len(frames') : i + 1 \in 1 .. Len(frames)
    BY <1>2
  <2>2. UNCHANGED <<sched, status>>
    BY <1>1 DEF reqVars, stepVars
  <2>3. QED
    BY <1>2, <2>1, <2>2 DEF IInv, Seen
<1>6. WantInLoop' /\ UpdateHasFrame'
  <2>1. want' = want
    BY <1>1 DEF stepVars
  <2>2. QED
    BY <1>1, <2>1 DEF IInv, WantInLoop, UpdateHasFrame
<1>7. QED
  BY <1>3, <1>4, <1>5, <1>6 DEF IInv

LEMMA StutterInv == ASSUME IInv, UNCHANGED vars PROVE IInv'
BY DEF IInv, TypeOK, QueuesMatch, Holds, InOrder, Increasing, NewAreLast, Seen, WantInLoop,
       UpdateHasFrame, vars, reqVars, stepVars

LEMMA NextInv == IInv /\ [Next]_vars => IInv'
<1> SUFFICES ASSUME IInv, [Next]_vars PROVE IInv'
  OBVIOUS
<1>1. CASE BeginStep \/ SkipRunning \/ PickRunning \/ EndRunning \/ EndWaiting \/ BeginUpdate
  BY <1>1, LoopStepsInv
<1>2. CASE ScheduleRunning
  BY <1>2, ScheduleRunningInv
<1>3. CASE Preempt
  BY <1>3, PreemptInv
<1>4. ASSUME NEW hit \in 0 .. ModelLen, Admit(hit) PROVE IInv'
  BY <1>4, AdmitInv
<1>5. CASE FinishStep
  BY <1>5, FinishStepInv
<1>6. CASE EndUpdate
  BY <1>6, EndUpdateInv
<1>7. ASSUME NEW r \in Reqs, NoOutput(r) PROVE IInv'
  BY <1>7, NoOutputInv
<1>8. ASSUME NEW r \in Reqs, Stop(r) PROVE IInv'
  BY <1>8, StopInv
<1>9. ASSUME NEW r \in Reqs, NEW n \in 0 .. SpecTokens, Output(r, n) PROVE IInv'
  BY <1>9, OutputInv
<1>10. ASSUME NEW r \in Reqs, Arrive(r) PROVE IInv'
  BY <1>10, ArriveInv
<1>11. ASSUME NEW r \in Reqs, Abort(r) PROVE IInv'
  BY <1>11, AbortInv
<1>12. CASE UNCHANGED vars
  BY <1>12, StutterInv
<1>13. QED
  BY <1>1, <1>2, <1>3, <1>4, <1>5, <1>6, <1>7, <1>8, <1>9, <1>10, <1>11, <1>12
     DEF Next, Schedule, UpdateFromOutput

(* The running list followed by the waiting queue is in arrival order.      *)
LEMMA OrderOfQueues ==
    ASSUME TypeOK, QueuesMatch, InOrder
    PROVE  FirstComeFirstServed
<1>1. running \in Seq(Reqs) /\ waiting \in Seq(Reqs)
  BY DEF TypeOK
<1>2. Increasing(running \o waiting)
  <2> DEFINE q == running \o waiting
             m == Len(running)
  <2>1. /\ m \in Nat /\ Len(waiting) \in Nat
        /\ Len(q) = m + Len(waiting)
        /\ \A i \in 1 .. m : q[i] = running[i]
        /\ \A i \in m + 1 .. m + Len(waiting) : q[i] = waiting[i - m]
    BY <1>1
  <2>2. ASSUME NEW i \in 1 .. Len(q), NEW j \in 1 .. Len(q), i < j
        PROVE  q[i] < q[j]
    <3>1. CASE j <= m
      <4>1. i \in 1 .. m /\ j \in 1 .. m
        BY <2>1, <2>2, <3>1
      <4>2. QED
        BY <2>1, <2>2, <4>1 DEF InOrder, Increasing
    <3>2. CASE i <= m /\ m < j
      <4>1. i \in 1 .. m /\ j \in m + 1 .. m + Len(waiting) /\ j - m \in 1 .. Len(waiting)
        BY <2>1, <3>2
      <4>2. q[i] = running[i] /\ q[j] = waiting[j - m]
        BY <2>1, <4>1
      <4>3. QED
        BY <4>1, <4>2 DEF InOrder
    <3>3. CASE m < i
      <4>1. /\ i \in m + 1 .. m + Len(waiting) /\ i - m \in 1 .. Len(waiting)
            /\ j \in m + 1 .. m + Len(waiting) /\ j - m \in 1 .. Len(waiting)
            /\ i - m < j - m
        BY <2>1, <2>2, <3>3
      <4>2. q[i] = waiting[i - m] /\ q[j] = waiting[j - m]
        BY <2>1, <4>1
      <4>3. QED
        BY <4>1, <4>2 DEF InOrder, Increasing
    <3>4. QED
      BY <2>1, <3>1, <3>2, <3>3
  <2>3. QED
    BY <2>2 DEF Increasing
<1>3. Range(running) = {r \in Reqs : status[r] = "running"}
  <2>1. DOMAIN running = 1 .. Len(running) /\ \A i \in 1 .. Len(running) : running[i] \in Reqs
    BY <1>1
  <2>2. QED
    BY <2>1 DEF Range, QueuesMatch, Holds
<1>4. Range(waiting) = {r \in Reqs : status[r] \in {"waiting", "preempted"}}
  <2>1. DOMAIN waiting = 1 .. Len(waiting) /\ \A i \in 1 .. Len(waiting) : waiting[i] \in Reqs
    BY <1>1
  <2>2. QED
    BY <2>1 DEF Range, QueuesMatch, Holds
<1>5. QED
  BY <1>2, <1>3, <1>4 DEF FirstComeFirstServed
-----------------------------------------------------------------------------
(* The scheduler's queues, counters and frames keep their types: counters   *)
(* of output and draft tokens and of blocks are never negative.             *)
THEOREM SchedulerTypeCorrect == Spec => []TypeOK
<1>1. IInv => TypeOK
  BY DEF IInv
<1>2. QED
  BY InitInv, NextInv, <1>1, PTL DEF Spec

(* Between any two steps of the scheduler the running list and the waiting  *)
(* queue hold every live request once, in the order of arrival, through     *)
(* preemption, admission, aborts and stops of requests in either queue.     *)
THEOREM NeverOvertaken == Spec => []FirstComeFirstServed
<1>1. IInv => FirstComeFirstServed
  BY OrderOfQueues DEF IInv
<1>2. QED
  BY InitInv, NextInv, <1>1, PTL DEF Spec

-----------------------------------------------------------------------------
(***************************************************************************)
(* Counts.  What the scheduler has counted for a request and what the      *)
(* frames in flight will bring it agree, step by step: the invariant says  *)
(* of every phase what it knows of the step in progress (StepOK), and of   *)
(* every request how its counters relate to the frames (CountOf).          *)
(***************************************************************************)
Scheduling == phase \in {"running", "waiting", "finish"}

\* The request is in some frame, in the newest one, and gets tokens from it.
Flying(r) == \E i \in 1 .. Len(frames) : r \in frames[i].reqs
LastHas(r) == frames # <<>> /\ r \in frames[Len(frames)].reqs
LastSamples(r) == LastHas(r) /\ r \in frames[Len(frames)].sampling

\* Between calls nothing is left of a step; in one, what is scheduled runs, and
\* the running loop has not come to what follows.
StepOK ==
    /\ Len(frames) <= Depth
    /\ IF Scheduling THEN Len(frames) < Depth
       ELSE (\A r \in Reqs : sched[r] = 0) /\ admitted = 0 /\ ~ preempted /\ idx = 1
    /\ phase = "running" => admitted = 0
    /\ phase = "waiting" => ~ preempted
    /\ admitted <= Len(running)
    /\ \A r \in Reqs : sched[r] # 0 => status[r] = "running"
    /\ phase = "running" => \A i \in idx .. Len(running) : sched[running[i]] = 0
    /\ \A i \in Old + 1 .. Len(running) : sched[running[i]] > 0
    /\ \A i \in 1 .. Old : chunk[running[i]] /\ sched[running[i]] # 0 => prefill

\* A request that was never admitted has nothing.
Untouched(r) ==
    status[r] \in {"new", "waiting"} => holders[r] = 0 /\ outputs[r] = 0 /\ ~ Flying(r)

\* Placeholders are counted by asynchronous scheduling only.
Held(r) ==
    status[r] \in {"running", "preempted"} => holders[r] = IF Async THEN Outstanding(r) ELSE 0

\* A preempted request is not in the newest frame: its step was another.
LeftOut(r) ==
    status[r] = "preempted" /\ (Scheduling => ~ preempted) => ~ LastHas(r)

\* A chunk has tokens left to compute, and gets none from the newest frame.
Chunked(r) ==
    status[r] = "running" /\ chunk[r] =>
        computed[r] < NumTokens(r) + holders[r] /\ ~ LastSamples(r)

\* A decoding request is counted exactly.
Decoding(r) ==
    status[r] = "running" /\ ~ chunk[r] /\ sched[r] = 0 =>
        computed[r] = NumTokens(r) - 1 + Outstanding(r) /\ computed[r] >= Prompt[r]

\* What is scheduled past the tokens and placeholders is drafts, and only at
\* the model length is it less than nothing.
Shared(r) ==
    sched[r] # 0 =>
        /\ computed[r] + sched[r] >= NumTokens(r) + holders[r] =>
              spec[r] = computed[r] + sched[r] - NumTokens(r) - holders[r]
        /\ sched[r] < 0 => computed[r] + sched[r] = ModelLen - 1

CountOf(r) ==
    Untouched(r) /\ Held(r) /\ LeftOut(r) /\ Chunked(r) /\ Decoding(r) /\ Shared(r)

\* The tokens sought are no more than the request lacks.
Asked ==
    want # 0 => LET r == running[idx] IN
        /\ want <= NumTokens(r) + drafts[r] + holders[r] - computed[r]
        /\ ~ AtSentinel(r)
        /\ want < 0 => want = ModelLen - computed[r] - 1

CountInv == StepOK /\ Asked /\ \A r \in Reqs : CountOf(r)
-----------------------------------------------------------------------------
LEMMA DepthType == Depth \in Nat /\ Depth <= 2 /\ (Async <=> Depth = 2)
BY SchedulerAssumption DEF Async

(* Frames: what is outstanding for a request. *)
LEMMA FrameTypes ==
    ASSUME TypeOK
    PROVE  /\ frames \in Seq(Frame) /\ Len(frames) \in Nat
           /\ (frames = <<>>) <=> Len(frames) = 0
           /\ \A i \in 1 .. Len(frames) : frames[i] \in Frame
<1>1. frames \in Seq(Frame)
  BY DEF TypeOK, Frame
<1> QED BY <1>1

LEMMA OutstandingType ==
    ASSUME TypeOK, NEW r \in Reqs
    PROVE  Outstanding(r) \in Nat
<1>1. ASSUME NEW i \in {1, 2} PROVE Reserve(i, r) \in Nat
  <2>1. i <= Len(frames) => i \in 1 .. Len(frames)
    BY FrameTypes
  <2>2. i <= Len(frames) => frames[i].spec[r] \in Nat
    BY <2>1, FrameTypes DEF Frame
  <2> QED BY <2>2 DEF Reserve
<1>2. Reserve(1, r) \in Nat /\ Reserve(2, r) \in Nat
  BY <1>1
<1> QED BY <1>2 DEF Outstanding

(* While a step is scheduled there is one frame at most. *)
LEMMA OneFrame ==
    ASSUME TypeOK, NEW r \in Reqs, Len(frames) < Depth
    PROVE  /\ LastHas(r) <=> Flying(r)
           /\ Outstanding(r) > 0 => Async /\ LastSamples(r)
           /\ ~ Async => Outstanding(r) = 0
<1>1. Len(frames) = 0 \/ (Len(frames) = 1 /\ Async)
  <2> DEFINE n == Len(frames)
  <2>1. n \in Nat /\ n < Depth
    BY FrameTypes
  <2>2. Depth = 1 \/ Depth = 2
    BY SchedulerAssumption
  <2> HIDE DEF n
  <2>3. CASE Depth = 1
    BY <2>1, <2>3 DEF n
  <2>4. CASE Depth = 2
    <3>1. n = 0 \/ n = 1
      BY <2>1, <2>4
    <3>2. Async
      BY <2>4 DEF Async
    <3> QED BY <3>1, <3>2 DEF n
  <2> QED BY <2>2, <2>3, <2>4
<1>2. CASE Len(frames) = 0
  BY <1>2, FrameTypes DEF LastHas, Flying, Outstanding, Reserve
<1>3. CASE Len(frames) = 1 /\ Async
  BY <1>3, FrameTypes DEF LastHas, LastSamples, Flying, Outstanding, Reserve
<1> QED BY <1>1, <1>2, <1>3

LEMMA NotFlying ==
    ASSUME TypeOK, NEW r \in Reqs, ~ Flying(r)
    PROVE  Outstanding(r) = 0 /\ ~ LastHas(r)
<1>1. \A i \in {1, 2} : i <= Len(frames) => i \in 1 .. Len(frames)
  BY FrameTypes
<1>2. frames # <<>> => Len(frames) \in 1 .. Len(frames)
  BY FrameTypes
<1> QED BY <1>1, <1>2 DEF Flying, LastHas, Outstanding, Reserve

(* A request's result is taken from the oldest frame. *)
LEMMA TakenFrames ==
    ASSUME IInv, NEW r \in Reqs, Updating(r), frames' = Taken(r), NEW q \in Reqs
    PROVE  /\ Len(frames') = Len(frames)
           /\ Flying(q)' => Flying(q)
           /\ LastHas(q)' => LastHas(q)
           /\ LastSamples(q)' => LastSamples(q)
           /\ Outstanding(q)' = IF q = r /\ r \in frames[1].sampling
                                THEN Outstanding(q) - 1 - frames[1].spec[q]
                                ELSE Outstanding(q)
           /\ frames[1].spec[q] \in Nat
           /\ r \in frames[1].sampling => Outstanding(r) >= 1 + frames[1].spec[r]
<1>1. /\ frames \in Seq(Frame) /\ Len(frames) \in Nat /\ 1 \in 1 .. Len(frames)
      /\ frames[1] \in Frame
  BY FrameTypes, TakenType DEF IInv
<1>2. /\ Len(frames') = Len(frames) /\ DOMAIN frames' = DOMAIN frames
      /\ frames'[1] = [frames[1] EXCEPT !.reqs = @ \ {r}]
      /\ \A i \in 1 .. Len(frames) : i # 1 => frames'[i] = frames[i]
      /\ (frames' # <<>>) = (frames # <<>>)
  <2>1. Taken(r) = [frames EXCEPT ![1] = [frames[1] EXCEPT !.reqs = @ \ {r}]]
    BY DEF Taken
  <2>2. Len(frames') = Len(frames) /\ frames' \in Seq(Frame)
    BY TakenType
  <2> QED BY <1>1, <2>1, <2>2
<1>3. /\ frames'[1].reqs = frames[1].reqs \ {r}
      /\ frames'[1].sampling = frames[1].sampling
      /\ frames'[1].spec = frames[1].spec
  BY <1>1, <1>2 DEF Frame
<1>4. Flying(q)' => Flying(q)
  BY <1>1, <1>2, <1>3 DEF Flying
<1>5. (LastHas(q)' => LastHas(q)) /\ (LastSamples(q)' => LastSamples(q))
  <2>1. Len(frames) \in 1 .. Len(frames)
    BY <1>1
  <2>2. /\ frames'[Len(frames)].reqs \subseteq frames[Len(frames)].reqs
        /\ frames'[Len(frames)].sampling = frames[Len(frames)].sampling
    BY <1>2, <1>3, <2>1
  <2> QED BY <1>1, <1>2, <2>2 DEF LastHas, LastSamples
<1>6. \A i \in 1 .. Len(frames) : frames[i].spec[q] \in Nat /\ frames[i].spec[r] \in Nat
  BY FrameTypes DEF Frame, IInv
<1>7. Reserve(2, q)' = Reserve(2, q) /\ Reserve(2, q) \in Nat
  <2>1. 2 <= Len(frames) => 2 \in 1 .. Len(frames)
    BY <1>1
  <2> QED BY <1>2, <1>6, <2>1 DEF Reserve
<1>8. /\ Reserve(1, q) \in Nat
      /\ q # r => Reserve(1, q)' = Reserve(1, q)
      /\ q = r => Reserve(1, q)' = 0
      /\ q = r => Reserve(1, q) = IF r \in frames[1].sampling THEN 1 + frames[1].spec[r] ELSE 0
  <2>1. r \in frames[1].reqs
    BY DEF Updating
  <2> QED BY <1>1, <1>2, <1>3, <1>6, <2>1 DEF Reserve
<1>9. Outstanding(q)' = Reserve(1, q)' + Reserve(2, q)'
  BY DEF Outstanding
<1>10. r \in frames[1].sampling => Outstanding(r) >= 1 + frames[1].spec[r]
  <2>1. Reserve(2, r) \in Nat
    BY <1>6, <1>1 DEF Reserve
  <2>2. r \in frames[1].sampling => Reserve(1, r) = 1 + frames[1].spec[r]
    BY <1>1 DEF Reserve, Updating
  <2> QED BY <1>1, <1>6, <2>1, <2>2 DEF Outstanding
<1>11. frames[1].spec[q] \in Nat
  BY <1>1, <1>6
<1> QED
  BY <1>2, <1>4, <1>5, <1>7, <1>8, <1>9, <1>10, <1>11 DEF Outstanding

(* The oldest frame has no request left and is dropped. *)
LEMMA DroppedFrames ==
    ASSUME IInv, StepOK, EndUpdate, NEW q \in Reqs
    PROVE  /\ Len(frames') = Len(frames) - 1
           /\ Flying(q)' => Flying(q)
           /\ LastHas(q)' => LastHas(q)
           /\ LastSamples(q)' => LastSamples(q)
           /\ Outstanding(q)' = Outstanding(q)
<1>1. /\ frames \in Seq(Frame) /\ Len(frames) \in Nat \ {0} /\ frames' = Tail(frames)
      /\ frames[1].reqs = {} /\ Len(frames) <= 2
  <2>1. frames # <<>>
    BY DEF IInv, UpdateHasFrame, EndUpdate
  <2> QED BY <2>1, FrameTypes, DepthType DEF EndUpdate, IInv, StepOK
<1>2. /\ Len(frames') = Len(frames) - 1
      /\ \A i \in 1 .. Len(frames) - 1 : frames'[i] = frames[i + 1]
      /\ frames' \in Seq(Frame)
  BY <1>1
<1>3. \A i \in 1 .. Len(frames') : i + 1 \in 1 .. Len(frames)
  BY <1>1, <1>2
<1>4. Flying(q)' => Flying(q)
  BY <1>1, <1>2, <1>3 DEF Flying
<1>5. (LastHas(q)' => LastHas(q)) /\ (LastSamples(q)' => LastSamples(q))
  <2>1. frames' # <<>> => Len(frames') \in 1 .. Len(frames) - 1 /\ Len(frames') + 1 = Len(frames)
    BY <1>1, <1>2
  <2>2. frames' # <<>> => frames'[Len(frames')] = frames[Len(frames)]
    BY <1>2, <2>1
  <2> QED BY <1>1, <2>2 DEF LastHas, LastSamples
<1>6. Outstanding(q)' = Outstanding(q)
  <2>1. Reserve(1, q) = 0 /\ Reserve(2, q)' = 0
    BY <1>1, <1>2 DEF Reserve
  <2>2. Reserve(1, q)' = Reserve(2, q)
    BY <1>1, <1>2 DEF Reserve
  <2>3. Reserve(2, q) \in Nat
    BY <1>1, FrameTypes DEF Reserve, Frame, IInv
  <2> QED BY <2>1, <2>2, <2>3 DEF Outstanding
<1> QED BY <1>2, <1>4, <1>5, <1>6

(* The step that was scheduled becomes the newest frame. *)
LEMMA AddedFrame ==
    ASSUME IInv, StepOK, FinishStep, NEW q \in Reqs
    PROVE  /\ Len(frames') = Len(frames) + 1
           /\ LastHas(q)' <=> sched[q] # 0
           /\ LastSamples(q)' <=> q \in Sampling
           /\ Flying(q)' <=> Flying(q) \/ sched[q] # 0
           /\ Outstanding(q)' = IF q \in Sampling THEN Outstanding(q) + 1 + spec[q] ELSE Outstanding(q)
           /\ q \in Sampling <=> sched[q] # 0 /\ ~ StillChunk(q)
<1> DEFINE f == [reqs |-> Scheduled, sampling |-> Sampling, spec |-> spec]
<1>1. /\ f \in Frame /\ frames \in Seq(Frame) /\ frames' = Append(frames, f)
      /\ Len(frames) \in Nat /\ Len(frames) < Depth /\ Depth <= 2
  BY FrameTypes, DepthType DEF IInv, TypeOK, Frame, Scheduled, Sampling, FinishStep, StepOK, Scheduling
<1>2. f.reqs = Scheduled /\ f.sampling = Sampling /\ f.spec = spec
  OBVIOUS
<1> HIDE DEF f
<1>3. /\ Len(frames') = Len(frames) + 1 /\ frames'[Len(frames) + 1] = f
      /\ \A i \in 1 .. Len(frames) : frames'[i] = frames[i]
      /\ frames' # <<>>
  BY <1>1
<1>4. /\ q \in Scheduled <=> sched[q] # 0
      /\ q \in Sampling <=> sched[q] # 0 /\ ~ StillChunk(q)
  BY DEF Scheduled, Sampling
<1>5. (LastHas(q)' <=> sched[q] # 0) /\ (LastSamples(q)' <=> q \in Sampling)
  <2>1. LastHas(q)' <=> q \in f.reqs
    BY <1>3 DEF LastHas
  <2>2. LastSamples(q)' <=> q \in f.reqs /\ q \in f.sampling
    BY <1>3 DEF LastHas, LastSamples
  <2> QED BY <1>2, <1>4, <2>1, <2>2
<1>6. Flying(q)' <=> Flying(q) \/ sched[q] # 0
  <2>1. ASSUME NEW i \in 1 .. Len(frames), q \in frames[i].reqs PROVE Flying(q)'
    <3>1. i \in 1 .. Len(frames') /\ frames'[i] = frames[i]
      BY <1>1, <1>3
    <3> QED BY <2>1, <3>1 DEF Flying
  <2>2. ASSUME sched[q] # 0 PROVE Flying(q)'
    <3>1. Len(frames) + 1 \in 1 .. Len(frames') /\ q \in frames'[Len(frames) + 1].reqs
      BY <1>1, <1>2, <1>3, <1>4, <2>2
    <3> QED BY <3>1 DEF Flying
  <2>3. ASSUME NEW i \in 1 .. Len(frames'), q \in frames'[i].reqs
        PROVE  Flying(q) \/ sched[q] # 0
    <3>1. i \in 1 .. Len(frames) \/ i = Len(frames) + 1
      BY <1>1, <1>3
    <3> QED BY <1>2, <1>3, <1>4, <2>3, <3>1 DEF Flying
  <2> QED BY <2>1, <2>2, <2>3 DEF Flying
<1>7. spec[q] \in Nat /\ \A i \in 1 .. Len(frames) : frames[i].spec[q] \in Nat
  BY FrameTypes DEF IInv, TypeOK, Frame
<1>8. Outstanding(q)' = IF q \in Sampling THEN Outstanding(q) + 1 + spec[q] ELSE Outstanding(q)
  <2> DEFINE n == Len(frames)
             res == IF q \in Sampling THEN 1 + spec[q] ELSE 0
  <2>1. n \in Nat /\ n < Depth /\ Depth <= 2 /\ Depth \in Nat /\ res \in Nat
    BY <1>1, <1>7, DepthType
  <2>2. q \in f.reqs \cap f.sampling <=> q \in Sampling
    BY <1>2, <1>4 DEF Scheduled, Sampling
  <2>3. f.spec[q] = spec[q]
    BY <1>2
  <2>4. Outstanding(q) = Reserve(1, q) + Reserve(2, q)
        /\ Outstanding(q)' = Reserve(1, q)' + Reserve(2, q)'
    BY DEF Outstanding
  <2>5. CASE n = 0
    <3>1. Reserve(1, q) = 0 /\ Reserve(2, q) = 0
      BY <2>5 DEF Reserve
    <3>2. Reserve(2, q)' = 0 /\ Reserve(1, q)' = res
      BY <1>3, <2>2, <2>3, <2>5 DEF Reserve
    <3> QED BY <1>7, <2>1, <2>4, <3>1, <3>2
  <2>6. CASE n = 1
    <3>1. Reserve(1, q)' = Reserve(1, q) /\ Reserve(1, q) \in Nat
      BY <1>1, <1>3, <1>7, <2>6 DEF Reserve
    <3>2. Reserve(2, q)' = res /\ Reserve(2, q) = 0
      BY <1>3, <2>2, <2>3, <2>6 DEF Reserve
    <3> QED BY <1>7, <2>1, <2>4, <3>1, <3>2
  <2>7. n = 0 \/ n = 1
    <3> HIDE DEF n
    <3> QED BY <2>1
  <2> QED BY <2>5, <2>6, <2>7
<1> QED BY <1>3, <1>4, <1>5, <1>6, <1>8

LEMMA SameFrames ==
    ASSUME UNCHANGED frames, NEW q \in Reqs
    PROVE  /\ Flying(q)' <=> Flying(q)
           /\ LastHas(q)' <=> LastHas(q)
           /\ LastSamples(q)' <=> LastSamples(q)
           /\ Outstanding(q)' = Outstanding(q)
BY DEF Flying, LastHas, LastSamples, Outstanding, Reserve

-----------------------------------------------------------------------------
(* Each action keeps the counts. *)

(* The types of what CountOf relates. *)
LEMMA CountTypes ==
    ASSUME TypeOK, NEW q \in Reqs
    PROVE  /\ computed[q] \in Int /\ holders[q] \in Int /\ outputs[q] \in Nat
           /\ drafts[q] \in Nat /\ sched[q] \in Int /\ spec[q] \in Nat
           /\ Prompt[q] \in Nat /\ Prompt[q] >= 1
           /\ NumTokens(q) \in Nat /\ NumTokens(q) >= Prompt[q]
           /\ Outstanding(q) \in Nat
<1>1. Prompt[q] \in Nat /\ Prompt[q] >= 1
  BY SchedulerAssumption
<1>2. outputs[q] \in Nat
  BY DEF TypeOK
<1>3. NumTokens(q) \in Nat /\ NumTokens(q) >= Prompt[q]
  BY <1>1, <1>2 DEF NumTokens
<1> QED BY <1>1, <1>2, <1>3, OutstandingType DEF TypeOK

(* A running request is at one position of the running list. *)
LEMMA Positions ==
    ASSUME IInv
    PROVE  /\ running \in Seq(Reqs) /\ Len(running) \in Nat
           /\ \A i \in 1 .. Len(running) : running[i] \in Reqs /\ status[running[i]] = "running"
           /\ \A i, j \in 1 .. Len(running) : i # j => running[i] # running[j]
           /\ \A r \in Reqs : status[r] = "running" => \E i \in 1 .. Len(running) : running[i] = r
<1>1. /\ running \in Seq(Reqs) /\ Len(running) \in Nat
      /\ \A i \in 1 .. Len(running) : running[i] \in Reqs /\ running[i] \in Int
  BY ReqsAreNumbers DEF IInv, TypeOK
<1>2. \A i, j \in 1 .. Len(running) : i # j => running[i] # running[j]
  <2>1. ASSUME NEW i \in 1 .. Len(running), NEW j \in 1 .. Len(running), i < j
        PROVE  running[i] # running[j]
    <3>1. running[i] < running[j]
      BY <2>1 DEF IInv, InOrder, Increasing
    <3> QED BY <1>1, <3>1
  <2> QED BY <1>1, <2>1
<1> QED BY <1>1, <1>2 DEF IInv, QueuesMatch, Holds

LEMMA InitCounts == Init => CountInv
<1> SUFFICES ASSUME Init PROVE CountInv
  OBVIOUS
<1>1. frames = <<>> /\ Len(frames) = 0 /\ Len(running) = 0 /\ idx = 1 /\ want = 0 /\ admitted = 0
  BY DEF Init
<1>2. StepOK
  BY <1>1, DepthType DEF Init, StepOK, Scheduling, Zeros, Old
<1>3. Asked
  BY <1>1 DEF Asked
<1>4. ASSUME NEW q \in Reqs PROVE CountOf(q)
  <2>1. status[q] = "new" /\ holders[q] = 0 /\ outputs[q] = 0 /\ sched[q] = 0
    BY DEF Init, Zeros
  <2>2. ~ Flying(q)
    BY <1>1 DEF Flying
  <2> QED
    BY <2>1, <2>2 DEF CountOf, Untouched, Held, LeftOut, Chunked, Decoding, Shared
<1> QED BY <1>2, <1>3, <1>4 DEF CountInv

(* A step of the loops that schedules nothing. *)
LEMMA SameCounts ==
    ASSUME UNCHANGED <<reqVars, frames, sched, spec, preempted>>,
           Scheduling => Scheduling', NEW q \in Reqs, CountOf(q)
    PROVE  CountOf(q)'
<1>1. UNCHANGED <<status, outputs, computed, holders, drafts, chunk, frames, sched, spec, preempted>>
  BY DEF reqVars
<1>2. NumTokens(q)' = NumTokens(q)
  BY <1>1 DEF NumTokens
<1> QED
  BY <1>1, <1>2, SameFrames DEF CountOf, Untouched, Held, LeftOut, Chunked, Decoding, Shared

(* What a running request that is not scheduled yet lacks. *)
LEMMA BehindPositive ==
    ASSUME IInv, CountInv, Scheduling, NEW r \in Reqs, status[r] = "running", sched[r] = 0
    PROVE  NumTokens(r) + drafts[r] + holders[r] - computed[r] > 0
<1>1. CountOf(r) /\ StepOK
  BY DEF CountInv
<1>2. ~ Async => Outstanding(r) = 0
  BY <1>1, OneFrame DEF StepOK, IInv
<1>3. holders[r] = Outstanding(r)
  BY <1>1, <1>2 DEF CountOf, Held
<1> QED
  BY <1>1, <1>3, CountTypes DEF CountOf, Chunked, Decoding, IInv

LEMMA CappedBound ==
    ASSUME NEW n \in Int
    PROVE  Capped(n) <= n /\ (n > 0 => Capped(n) > 0)
<1>1. ChunkCap \in Int
  BY ConstTypes DEF ChunkCap
<1> QED BY <1>1 DEF Capped

(* The number of tokens sought for the request at position i. *)
LEMMA NewTokensBound ==
    ASSUME IInv, CountInv, Scheduling, NEW i \in 1 .. Len(running), sched[running[i]] = 0, budget > 0
    PROVE  /\ NewTokens(i) <= NumTokens(running[i]) + drafts[running[i]]
                                + holders[running[i]] - computed[running[i]]
           /\ NewTokens(i) < 0 => NewTokens(i) = ModelLen - computed[running[i]] - 1
           /\ NewTokens(i) <= budget
           /\ NewTokens(i) <= ModelLen - computed[running[i]] - 1
           /\ chunk[running[i]] /\ Lanes(i) # {} =>
                  NewTokens(i) <= Greater(0, budget - Cardinality(Lanes(i)))
           /\ /\ chunk[running[i]] /\ Lanes(i) # {} => Cardinality(Lanes(i)) < budget
              /\ computed[running[i]] + 1 < ModelLen
              => NewTokens(i) > 0
<1> DEFINE r == running[i]
           behind == NumTokens(r) + drafts[r] + holders[r] - computed[r]
           room == ModelLen - computed[r] - 1
           cap == Capped(behind)
           n == Lesser(Lesser(cap, budget), room)
           left == Greater(0, budget - Cardinality(Lanes(i)))
<1>1. r \in Reqs /\ status[r] = "running"
  BY Positions
<1>2. behind \in Int /\ room \in Int /\ budget \in Int
  <2>1. TypeOK /\ budget \in Int
    BY DEF IInv, TypeOK
  <2>2. /\ NumTokens(r) \in Int /\ drafts[r] \in Int /\ holders[r] \in Int
        /\ computed[r] \in Int
    BY <1>1, <2>1, CountTypes
  <2> HIDE DEF r
  <2>3. behind \in Int
    BY <2>2
  <2>4. room \in Int
    BY <2>2, ConstTypes
  <2> QED BY <2>1, <2>3, <2>4
<1>3. behind > 0
  BY <1>1, BehindPositive
<1>4. left \in Nat /\ (Cardinality(Lanes(i)) < budget => left > 0)
  <2>1. Cardinality(Lanes(i)) \in Nat
    BY LanesCount DEF IInv
  <2>2. budget - Cardinality(Lanes(i)) \in Int
    BY <1>2, <2>1
  <2>3. Cardinality(Lanes(i)) < budget => budget - Cardinality(Lanes(i)) > 0
    BY <1>2, <2>1
  <2> QED BY <2>2, <2>3, GreaterType DEF Greater
<1>5. NewTokens(i) = IF chunk[r] /\ Lanes(i) # {} THEN Lesser(n, left) ELSE n
  BY DEF NewTokens, DecodeFloor
<1>6. cap \in Int /\ cap <= behind /\ cap > 0
  BY <1>2, <1>3, CappedBound, CappedType
<1> HIDE DEF r, behind, room, left, cap
<1>7. n \in Int /\ n <= behind /\ n <= budget /\ n <= room /\ (n <= 0 => n = room)
  BY <1>2, <1>3, <1>6 DEF Lesser
<1>8. Lesser(n, left) <= n /\ Lesser(n, left) <= left /\ (Lesser(n, left) < 0 => Lesser(n, left) = n)
      /\ Lesser(n, left) \in Int /\ (n > 0 /\ left > 0 => Lesser(n, left) > 0)
  <2> HIDE DEF n
  <2> QED BY <1>4, <1>7 DEF Lesser
<1> HIDE DEF n
<1>9. /\ NewTokens(i) <= behind /\ (NewTokens(i) < 0 => NewTokens(i) = room)
      /\ NewTokens(i) <= budget /\ NewTokens(i) <= room
      /\ chunk[r] /\ Lanes(i) # {} => NewTokens(i) <= left
      /\ (chunk[r] /\ Lanes(i) # {} => Cardinality(Lanes(i)) < budget) /\ room > 0
             => NewTokens(i) > 0
  <2>1. CASE chunk[r] /\ Lanes(i) # {}
    BY <1>2, <1>4, <1>5, <1>7, <1>8, <2>1
  <2>2. CASE ~ (chunk[r] /\ Lanes(i) # {})
    BY <1>2, <1>5, <1>7, <2>2
  <2> QED BY <2>1, <2>2
<1>10. computed[r] + 1 < ModelLen => room > 0
  BY <1>1, CountTypes, ConstTypes DEF room, IInv
<1> QED BY <1>9, <1>10 DEF r, behind, room, left

LEMMA LoopStepsCounts ==
    ASSUME IInv, CountInv,
           BeginStep \/ SkipRunning \/ PickRunning \/ EndRunning \/ EndWaiting \/ BeginUpdate
    PROVE  CountInv'
<1>1. UNCHANGED <<running, reqVars, frames, sched, spec, prefill, preempted, admitted>>
  BY DEF BeginStep, SkipRunning, PickRunning, EndRunning, EndWaiting, BeginUpdate, stepVars
<1>2. Scheduling => Scheduling'
  BY DEF BeginStep, SkipRunning, PickRunning, EndRunning, EndWaiting, BeginUpdate, Scheduling,
         InRunningLoop
<1>3. \A q \in Reqs : CountOf(q)'
  <2> SUFFICES ASSUME NEW q \in Reqs PROVE CountOf(q)'
    OBVIOUS
  <2>1. CountOf(q)
    BY DEF CountInv
  <2> QED BY <1>1, <1>2, <2>1, SameCounts
<1>4. StepOK /\ TypeOK
  BY DEF CountInv, IInv
<1>5. UNCHANGED <<status, chunk, Old>>
  BY <1>1 DEF Old, reqVars
<1>6. /\ idx \in Nat /\ admitted \in Nat /\ Len(running) \in Nat /\ Len(frames) \in Nat
      /\ phase \in {"idle", "running", "waiting", "finish", "update"}
  BY <1>4, FrameTypes, Positions DEF TypeOK
<1>7. StepOK'
  <2>1. CASE BeginStep
    <3>1. /\ Len(frames) < Depth /\ phase = "idle" /\ phase' = "running" /\ idx' = idx
          /\ ~ Scheduling
      BY <2>1 DEF BeginStep, Scheduling
    <3>2. /\ \A r \in Reqs : sched[r] = 0
          /\ admitted = 0 /\ ~ preempted
      BY <1>4, <3>1 DEF StepOK
    <3>3. \A i \in 1 .. Len(running) : running[i] \in Reqs
      BY Positions
    <3>4. \A i \in idx .. Len(running) : i \in 1 .. Len(running)
      BY <1>4, <1>6 DEF TypeOK
    <3> QED BY <1>1, <1>4, <1>5, <3>1, <3>2, <3>3, <3>4 DEF StepOK, Scheduling
  <2>2. CASE SkipRunning
    <3>1. phase = "running" /\ idx' = idx + 1 /\ phase' = phase
      BY <2>2 DEF SkipRunning, InRunningLoop
    <3>2. \A i \in idx' .. Len(running) : i \in idx .. Len(running)
      BY <1>6, <3>1
    <3> QED BY <1>1, <1>4, <1>5, <3>1, <3>2 DEF StepOK, Scheduling
  <2>3. CASE PickRunning
    <3>1. phase = "running" /\ idx' = idx /\ phase' = phase
      BY <2>3 DEF PickRunning, InRunningLoop
    <3> QED BY <1>1, <1>4, <1>5, <3>1 DEF StepOK, Scheduling
  <2>4. CASE EndRunning
    <3>1. phase = "running" /\ phase' = IF preempted THEN "finish" ELSE "waiting"
      BY <2>4 DEF EndRunning
    <3> QED BY <1>1, <1>4, <1>5, <3>1 DEF StepOK, Scheduling
  <2>5. CASE EndWaiting
    <3>1. phase = "waiting" /\ phase' = "finish"
      BY <2>5 DEF EndWaiting
    <3> QED BY <1>1, <1>4, <1>5, <3>1 DEF StepOK, Scheduling
  <2>6. CASE BeginUpdate
    <3>1. phase = "idle" /\ phase' = "update" /\ idx' = idx
      BY <2>6 DEF BeginUpdate, stepVars
    <3> QED BY <1>1, <1>4, <1>5, <3>1 DEF StepOK, Scheduling
  <2> QED BY <2>1, <2>2, <2>3, <2>4, <2>5, <2>6
<1>8. Asked'
  <2>1. CASE PickRunning
    <3> DEFINE r == running[idx]
    <3>1. /\ phase = "running" /\ want' = NewTokens(idx) /\ ~ AtSentinel(r) /\ idx' = idx
          /\ idx \in 1 .. Len(running) /\ budget > 0
      BY <1>4, <1>6, <2>1 DEF PickRunning, InRunningLoop, TypeOK
    <3>2. sched[r] = 0
      BY <1>4, <1>6, <3>1 DEF StepOK
    <3>3. /\ NewTokens(idx) <= NumTokens(r) + drafts[r] + holders[r] - computed[r]
          /\ NewTokens(idx) < 0 => NewTokens(idx) = ModelLen - computed[r] - 1
      BY <3>1, <3>2, NewTokensBound DEF Scheduling
    <3>4. UNCHANGED <<outputs, drafts, holders, computed, running, idx>>
      BY <1>1, <3>1 DEF reqVars
    <3> HIDE DEF r
    <3>5. r' = r
      BY <3>4 DEF r
    <3>6. NumTokens(r)' = NumTokens(r) /\ AtSentinel(r)' = AtSentinel(r)
      BY <3>4, <3>5 DEF NumTokens, AtSentinel
    <3> QED BY <3>1, <3>3, <3>4, <3>5, <3>6 DEF Asked, r
  <2>2. CASE ~ PickRunning
    <3>1. want' = 0
      BY <2>2 DEF IInv, WantInLoop, BeginStep, SkipRunning, EndRunning, EndWaiting, BeginUpdate,
                  stepVars, InRunningLoop
    <3> QED BY <3>1 DEF Asked
  <2> QED BY <2>1, <2>2
<1> QED BY <1>3, <1>7, <1>8 DEF CountInv

(* The share of a running request is put down. *)
LEMMA ScheduleRunningCounts == ASSUME IInv, CountInv, ScheduleRunning PROVE CountInv'
<1> DEFINE r == running[idx]
<1>1. /\ phase = "running" /\ want # 0 /\ idx \in 1 .. Len(running) /\ idx \in Nat /\ want \in Int
      /\ StepOK /\ TypeOK /\ Asked
  <2>1. StepOK /\ TypeOK /\ Asked /\ WantInLoop
    BY DEF IInv, CountInv
  <2>2. want # 0 /\ want \in Int /\ idx \in Nat \ {0}
    BY <2>1 DEF ScheduleRunning, TypeOK
  <2> QED BY <2>1, <2>2, Positions DEF WantInLoop
<1>2. /\ r \in Reqs /\ status[r] = "running" /\ sched[r] = 0
      /\ \A i \in 1 .. Len(running) : i # idx => running[i] # r
      /\ \A i \in 1 .. Len(running) : running[i] \in Reqs
  <2>1. idx \in idx .. Len(running)
    BY <1>1
  <2> QED BY <1>1, <2>1, Positions DEF StepOK
<1>3. /\ sched' = [sched EXCEPT ![r] = want]
      /\ spec' = [spec EXCEPT ![r] = SpecPart(r, want)]
      /\ prefill' = (prefill \/ chunk[r])
      /\ idx' = idx + 1 /\ want' = 0
      /\ UNCHANGED <<running, waiting, status, outputs, computed, holders, chunk,
                     inflight, frames, phase, preempted, admitted>>
  BY DEF ScheduleRunning
<1> HIDE DEF r
<1>4. \A q \in Reqs : /\ sched'[q] = IF q = r THEN want ELSE sched[q]
                      /\ spec'[q] = IF q = r THEN SpecPart(r, want) ELSE spec[q]
  <2>1. \A q \in Reqs : sched'[q] = IF q = r THEN want ELSE sched[q]
    BY <1>1, <1>3 DEF TypeOK
  <2>2. \A q \in Reqs : spec'[q] = IF q = r THEN SpecPart(r, want) ELSE spec[q]
    BY <1>1, <1>3 DEF TypeOK
  <2> QED BY <2>1, <2>2
<1>5. want <= NumTokens(r) + drafts[r] + holders[r] - computed[r]
      /\ (want < 0 => want = ModelLen - computed[r] - 1)
  BY <1>1 DEF Asked, r
<1>6. computed[r] + want >= NumTokens(r) + holders[r] =>
         SpecPart(r, want) = computed[r] + want - NumTokens(r) - holders[r]
  <2> DEFINE past == want + computed[r] - NumTokens(r) - holders[r]
  <2>1. past \in Int /\ past <= drafts[r] /\ drafts[r] \in Nat
        /\ past = computed[r] + want - NumTokens(r) - holders[r]
    <3>1. /\ want \in Int /\ NumTokens(r) \in Int /\ drafts[r] \in Nat
          /\ holders[r] \in Int /\ computed[r] \in Int
      BY <1>1, <1>2, CountTypes
    <3> QED BY <1>5, <3>1
  <2>2. SpecPart(r, want) = Greater(0, Lesser(drafts[r], past))
    BY DEF SpecPart
  <2>3. computed[r] + want >= NumTokens(r) + holders[r] => past >= 0
    BY <1>1, <1>2, CountTypes
  <2> HIDE DEF past
  <2> QED BY <2>1, <2>2, <2>3 DEF Greater, Lesser
<1>7. \A q \in Reqs : CountOf(q)'
  <2> SUFFICES ASSUME NEW q \in Reqs PROVE CountOf(q)'
    OBVIOUS
  <2>1. CountOf(q)
    BY DEF CountInv
  <2>2. NumTokens(q)' = NumTokens(q) /\ (Scheduling' <=> Scheduling)
    BY <1>3 DEF NumTokens, Scheduling
  <2>3. CASE q = r
    <3>1. Shared(q)'
      <4>1. want < 0 => computed[r] + want = ModelLen - 1
        <5>1. computed[r] \in Int /\ want \in Int /\ ModelLen \in Int
          BY <1>1, <1>2, CountTypes, ConstTypes
        <5> QED BY <1>5, <5>1
      <4> QED BY <1>3, <1>4, <1>6, <2>2, <2>3, <4>1 DEF Shared
    <3>2. sched'[q] # 0
      BY <1>1, <1>4, <2>3
    <3> QED
      BY <1>3, <2>1, <2>2, <3>1, <3>2, SameFrames
         DEF CountOf, Untouched, Held, LeftOut, Chunked, Decoding
  <2>4. CASE q # r
    <3>1. sched'[q] = sched[q] /\ spec'[q] = spec[q]
      BY <1>4, <2>4
    <3> QED
      BY <1>3, <2>1, <2>2, <3>1, SameFrames
         DEF CountOf, Untouched, Held, LeftOut, Chunked, Decoding, Shared
  <2> QED BY <2>3, <2>4
<1>8. StepOK'
  <2>1. UNCHANGED Old /\ Scheduling' /\ Scheduling
    BY <1>1, <1>3 DEF Old, Scheduling
  <2>2. \A q \in Reqs : sched'[q] # 0 => status'[q] = "running"
    BY <1>1, <1>2, <1>3, <1>4 DEF StepOK
  <2>3. \A i \in idx' .. Len(running') : sched'[running'[i]] = 0
    <3>1. \A i \in idx + 1 .. Len(running) : i \in idx .. Len(running) /\ i \in 1 .. Len(running) /\ i # idx
      BY <1>1
    <3>2. \A i \in idx .. Len(running) : sched[running[i]] = 0
      BY <1>1 DEF StepOK
    <3>3. ASSUME NEW i \in idx + 1 .. Len(running) PROVE sched'[running[i]] = 0
      <4>1. running[i] \in Reqs /\ running[i] # r /\ sched[running[i]] = 0
        BY <1>2, <3>1, <3>2
      <4> QED BY <1>4, <4>1
    <3> QED BY <1>3, <3>3
  <2>4. admitted = 0 /\ Old = Len(running) /\ Len(running) \in Nat
    BY <1>1, Positions DEF StepOK, Old
  <2>5. \A i \in Old' + 1 .. Len(running') : sched'[running'[i]] > 0
    BY <1>3, <2>1, <2>4
  <2>6. \A i \in 1 .. Old' : chunk'[running'[i]] /\ sched'[running'[i]] # 0 => prefill'
    <3>1. \A i \in 1 .. Old : chunk[running[i]] /\ sched[running[i]] # 0 => prefill
      BY <1>1 DEF StepOK
    <3>2. Old' = Len(running) /\ running' = running /\ chunk' = chunk
          /\ prefill' = (prefill \/ chunk[r])
      BY <1>3, <2>1, <2>4
    <3>3. ASSUME NEW i \in 1 .. Len(running), chunk[running[i]], sched'[running[i]] # 0
          PROVE  prefill'
      <4>1. CASE running[i] = r
        BY <3>2, <3>3, <4>1
      <4>2. CASE running[i] # r
        <5>1. running[i] \in Reqs
          BY <1>2
        <5>2. sched'[running[i]] = sched[running[i]]
          BY <1>4, <4>2, <5>1
        <5> QED BY <2>4, <3>1, <3>2, <3>3, <5>2
      <4> QED BY <4>1, <4>2
    <3> QED BY <3>2, <3>3
  <2> QED BY <1>1, <1>3, <2>1, <2>2, <2>3, <2>4, <2>5, <2>6 DEF StepOK
<1>9. Asked'
  BY <1>3 DEF Asked
<1> QED BY <1>7, <1>8, <1>9 DEF CountInv

(* The last running request is preempted before its own share. *)
LEMMA PreemptCounts == ASSUME IInv, CountInv, Preempt PROVE CountInv'
<1> DEFINE v == running[Len(running)]
<1>1. /\ phase = "running" /\ want # 0 /\ idx \in 1 .. Len(running) /\ idx \in Nat
      /\ Len(running) \in Nat /\ running \in Seq(Reqs) /\ StepOK /\ TypeOK /\ Asked
  <2>1. StepOK /\ TypeOK /\ Asked /\ WantInLoop
    BY DEF IInv, CountInv
  <2>2. want # 0 /\ idx \in Nat \ {0}
    BY <2>1 DEF Preempt, TypeOK
  <2> QED BY <2>1, <2>2, Positions DEF WantInLoop
<1>2. /\ v \in Reqs /\ sched[v] = 0
      /\ \A i \in 1 .. Len(running) - 1 : i \in 1 .. Len(running) /\ running[i] # v
                                           /\ running[i] \in Reqs
  <2>1. Len(running) \in 1 .. Len(running) /\ Len(running) \in idx .. Len(running)
        /\ \A i \in 1 .. Len(running) - 1 : i \in 1 .. Len(running) /\ i # Len(running)
    BY <1>1
  <2> QED BY <1>1, <2>1, Positions DEF StepOK
<1>3. /\ running' = SubSeq(running, 1, Len(running) - 1)
      /\ status' = [status EXCEPT ![v] = "preempted"]
      /\ computed' = [computed EXCEPT ![v] = 0]
      /\ drafts' = [drafts EXCEPT ![v] = 0]
      /\ preempted' = TRUE
      /\ want' = IF v = running[idx] THEN 0 ELSE want
      /\ UNCHANGED <<outputs, holders, chunk, frames, phase, idx, budget, sched,
                     spec, prefill, admitted>>
  BY DEF Preempt
<1> HIDE DEF v
<1>4. /\ Len(running') = Len(running) - 1
      /\ \A i \in 1 .. Len(running) - 1 : running'[i] = running[i]
  <2>1. Len(running) \in 1 .. Len(running)
    BY <1>1
  <2> QED BY <1>1, <1>3, <2>1, FrontValue
<1>5. \A q \in Reqs : /\ status'[q] = IF q = v THEN "preempted" ELSE status[q]
                      /\ computed'[q] = IF q = v THEN 0 ELSE computed[q]
                      /\ drafts'[q] = IF q = v THEN 0 ELSE drafts[q]
  BY <1>1, <1>3 DEF TypeOK
<1>6. Scheduling' /\ Scheduling
  BY <1>1, <1>3 DEF Scheduling
<1>7. \A q \in Reqs : CountOf(q)'
  <2> SUFFICES ASSUME NEW q \in Reqs PROVE CountOf(q)'
    OBVIOUS
  <2>1. CountOf(q)
    BY DEF CountInv
  <2>2. NumTokens(q)' = NumTokens(q)
    BY <1>3 DEF NumTokens
  <2>3. LeftOut(q)'
    BY <1>3, <1>6 DEF LeftOut
  <2>4. CASE q = v
    <3>1. status[q] = "running"
      <4>1. Len(running) \in 1 .. Len(running)
        BY <1>1
      <4> QED BY <2>4, <4>1, Positions DEF v
    <3>2. status'[q] = "preempted" /\ sched'[q] = 0
      BY <1>2, <1>3, <1>5, <2>4
    <3> QED
      BY <1>3, <2>1, <2>2, <2>3, <3>1, <3>2, SameFrames
         DEF CountOf, Untouched, Held, Chunked, Decoding, Shared
  <2>5. CASE q # v
    <3>1. status'[q] = status[q] /\ computed'[q] = computed[q]
      BY <1>5, <2>5
    <3> QED
      BY <1>3, <2>1, <2>2, <2>3, <3>1, SameFrames
         DEF CountOf, Untouched, Held, Chunked, Decoding, Shared
  <2> QED BY <2>4, <2>5
<1>8. StepOK'
  <2>1. admitted = 0 /\ Old = Len(running) /\ Old' = Len(running') /\ admitted' = 0
    BY <1>1, <1>3, <1>4 DEF StepOK, Old
  <2>2. \A q \in Reqs : sched'[q] # 0 => status'[q] = "running"
    BY <1>1, <1>2, <1>3, <1>5 DEF StepOK
  <2>3. \A i \in idx' .. Len(running') : sched'[running'[i]] = 0
    <3>1. \A i \in idx .. Len(running) - 1 : i \in idx .. Len(running) /\ i \in 1 .. Len(running) - 1
      BY <1>1
    <3> QED BY <1>1, <1>3, <1>4, <3>1 DEF StepOK
  <2>4. \A i \in Old' + 1 .. Len(running') : FALSE
    BY <1>1, <1>4, <2>1
  <2>5. \A i \in 1 .. Old' : chunk'[running'[i]] /\ sched'[running'[i]] # 0 => prefill'
    <3>1. \A i \in 1 .. Old : chunk[running[i]] /\ sched[running[i]] # 0 => prefill
      BY <1>1 DEF StepOK
    <3> QED BY <1>1, <1>2, <1>3, <1>4, <2>1, <3>1
  <2>6. Len(running') >= 0
    BY <1>1, <1>4
  <2> QED BY <1>1, <1>3, <1>6, <2>1, <2>2, <2>3, <2>4, <2>5, <2>6 DEF StepOK
<1>9. Asked'
  <2>1. CASE running[idx] = v
    BY <1>3, <2>1 DEF Asked
  <2>2. CASE running[idx] # v
    <3> DEFINE r == running[idx]
    <3>1. idx \in 1 .. Len(running) - 1
      BY <1>1, <2>2 DEF v
    <3>2. r' = r /\ r \in Reqs /\ r # v /\ want' = want
      BY <1>2, <1>3, <1>4, <2>2, <3>1
    <3>3. computed'[r] = computed[r] /\ drafts'[r] = drafts[r] /\ holders' = holders /\ outputs' = outputs
      BY <1>3, <1>5, <3>2
    <3> HIDE DEF r
    <3>4. NumTokens(r)' = NumTokens(r) /\ AtSentinel(r)' = AtSentinel(r)
      BY <3>2, <3>3 DEF NumTokens, AtSentinel
    <3>5. /\ want <= NumTokens(r) + drafts[r] + holders[r] - computed[r]
          /\ ~ AtSentinel(r)
          /\ want < 0 => want = ModelLen - computed[r] - 1
      BY <1>1 DEF Asked, r
    <3> QED BY <3>2, <3>3, <3>4, <3>5 DEF Asked, r
  <2> QED BY <2>1, <2>2
<1> QED BY <1>7, <1>8, <1>9 DEF CountInv

(* The tokens of an admission. *)
LEMMA AdmitBound ==
    ASSUME IInv, CountInv, phase = "waiting", NEW r \in Reqs, NEW hit \in Hits(r),
           budget > 0, Admissible(r, hit)
    PROVE  /\ hit \in Nat /\ hit < NumTokens(r)
           /\ AdmitTokens(r, hit) \in Int /\ AdmitTokens(r, hit) > 0
           /\ hit + AdmitTokens(r, hit) >= NumTokens(r) =>
                 (IF Padded(r, hit) THEN SpecTokens ELSE 0)
                     = hit + AdmitTokens(r, hit) - NumTokens(r)
<1>1. /\ NumTokens(r) \in Nat /\ NumTokens(r) >= 1 /\ budget \in Int /\ SpecTokens \in Nat
      /\ StepOK /\ TypeOK
  <2>1. StepOK /\ TypeOK
    BY DEF IInv, CountInv
  <2>2. budget \in Int
    BY <2>1 DEF TypeOK
  <2> QED BY <2>1, <2>2, CountTypes, ConstTypes
<1>2. hit \in Nat /\ hit < NumTokens(r)
  BY <1>1 DEF Hits
<1> DEFINE u == Unscheduled(r, hit)
           n == AdmitTokens(r, hit)
<1>3. u \in Int /\ u > 0 /\ (~ Padded(r, hit) => u = NumTokens(r) - hit)
      /\ (Padded(r, hit) => u = 1 + SpecTokens)
  BY <1>1, <1>2 DEF Unscheduled
<1>4. n = Lesser(Capped(u), budget)
  BY DEF AdmitTokens
<1> HIDE DEF u, n
<1>5. Capped(u) \in Int /\ Capped(u) <= u /\ Capped(u) > 0
  BY <1>3, CappedBound, CappedType
<1>6. n \in Int /\ n > 0 /\ n <= u
  BY <1>1, <1>3, <1>4, <1>5 DEF Lesser
<1>7. Padded(r, hit) => n = 1 + SpecTokens /\ NumTokens(r) - hit = 1
  <2> SUFFICES ASSUME Padded(r, hit) PROVE n = 1 + SpecTokens /\ NumTokens(r) - hit = 1
    OBVIOUS
  <2>1. NumTokens(r) - hit = 1 /\ 1 + SpecTokens <= budget
    BY DEF Padded, Admissible
  <2>2. \E q \in Range(running) : ~ chunk[q]
    <3>1. PICK i \in 1 .. Old : sched[running[i]] # 0
      BY DEF Padded
    <3>2. ~ prefill
      BY DEF Padded
    <3>3. ~ chunk[running[i]]
      BY <1>1, <3>1, <3>2 DEF StepOK
    <3>4. Old <= Len(running) /\ Old \in Int /\ Len(running) \in Nat
      BY <1>1, Positions DEF Old, TypeOK
    <3>5. i \in 1 .. Len(running) /\ running \in Seq(Reqs)
      BY <3>1, <3>4, Positions
    <3>6. running[i] \in Range(running)
      BY <3>5 DEF Range
    <3> QED BY <3>3, <3>6
  <2>3. ChunkCap = Threshold
    BY <2>2 DEF ChunkCap
  <2>4. Capped(u) = u
    BY <1>3, <2>3, SchedulerAssumption, ConstTypes DEF Capped
  <2> QED BY <1>1, <1>3, <1>4, <2>1, <2>4 DEF Lesser
<1>8. hit + n >= NumTokens(r) =>
          (IF Padded(r, hit) THEN SpecTokens ELSE 0) = hit + n - NumTokens(r)
  BY <1>1, <1>2, <1>3, <1>6, <1>7
<1> QED BY <1>2, <1>6, <1>8 DEF n

LEMMA AdmitCounts == ASSUME IInv, CountInv, NEW hit \in 0 .. ModelLen, Admit(hit) PROVE CountInv'
<1> DEFINE r == Head(waiting)
           n == AdmitTokens(r, hit)
<1>1. /\ running \in Seq(Reqs) /\ Len(running) \in Nat /\ r \in Reqs /\ phase = "waiting"
      /\ status[r] \in {"waiting", "preempted"} /\ budget > 0 /\ hit \in Hits(r) /\ Admissible(r, hit)
      /\ StepOK /\ TypeOK
  <2>1. waiting \in Seq(Reqs) /\ waiting # <<>> /\ phase = "waiting" /\ budget > 0
    BY DEF IInv, TypeOK, Admit, InWaitingLoop
  <2>2. r = waiting[1] /\ 1 \in 1 .. Len(waiting) /\ r \in Reqs
    BY <2>1
  <2>3. status[r] \in {"waiting", "preempted"}
    BY <2>2 DEF IInv, QueuesMatch, Holds
  <2> QED BY <2>1, <2>2, <2>3, Positions DEF Admit, CountInv, IInv
<1>2. /\ running' = Append(running, r)
      /\ status' = [status EXCEPT ![r] = "running"]
      /\ computed' = [computed EXCEPT ![r] = hit]
      /\ sched' = [sched EXCEPT ![r] = n]
      /\ spec' = [spec EXCEPT ![r] = IF Padded(r, hit) THEN SpecTokens ELSE 0]
      /\ admitted' = admitted + 1
      /\ UNCHANGED <<outputs, holders, drafts, chunk, frames, phase, idx, want,
                     prefill, preempted>>
  BY DEF Admit
<1>3. /\ hit \in Nat /\ hit < NumTokens(r) /\ n \in Int /\ n > 0
      /\ hit + n >= NumTokens(r) =>
            (IF Padded(r, hit) THEN SpecTokens ELSE 0) = hit + n - NumTokens(r)
  BY <1>1, AdmitBound
<1> HIDE DEF r, n
<1>4. \A q \in Reqs : /\ status'[q] = IF q = r THEN "running" ELSE status[q]
                      /\ computed'[q] = IF q = r THEN hit ELSE computed[q]
                      /\ sched'[q] = IF q = r THEN n ELSE sched[q]
                      /\ spec'[q] = IF q = r THEN (IF Padded(r, hit) THEN SpecTokens ELSE 0) ELSE spec[q]
  BY <1>1, <1>2 DEF TypeOK
<1>5. /\ Len(running') = Len(running) + 1 /\ running'[Len(running) + 1] = r
      /\ \A i \in 1 .. Len(running) : running'[i] = running[i]
  BY <1>1, <1>2
<1>6. Scheduling' /\ Scheduling /\ ~ preempted
  BY <1>1, <1>2 DEF Scheduling, StepOK
<1>7. ~ LastHas(r) /\ ~ LastSamples(r) /\ Outstanding(r) = 0 /\ holders[r] = 0
  <2>1. CountOf(r)
    BY <1>1 DEF CountInv
  <2>2. ~ LastHas(r)
    <3>1. CASE status[r] = "waiting"
      BY <1>1, <2>1, <3>1, NotFlying DEF CountOf, Untouched
    <3>2. CASE status[r] = "preempted"
      BY <1>6, <2>1, <3>2 DEF CountOf, LeftOut
    <3> QED BY <1>1, <3>1, <3>2
  <2>3. ~ Flying(r)
    BY <1>1, <1>6, <2>2, OneFrame DEF StepOK
  <2>4. Outstanding(r) = 0
    BY <1>1, <2>3, NotFlying
  <2>5. holders[r] = 0
    BY <1>1, <2>1, <2>4 DEF CountOf, Untouched, Held
  <2> QED BY <2>2, <2>4, <2>5 DEF LastSamples
<1>8. \A q \in Reqs : CountOf(q)'
  <2> SUFFICES ASSUME NEW q \in Reqs PROVE CountOf(q)'
    OBVIOUS
  <2>1. CountOf(q)
    BY DEF CountInv
  <2>2. NumTokens(q)' = NumTokens(q)
    BY <1>2 DEF NumTokens
  <2>3. CASE q = r
    <3>1. status'[q] = "running" /\ computed'[q] = hit /\ sched'[q] = n /\ n # 0 /\ ~ (n < 0)
          /\ spec'[q] = (IF Padded(r, hit) THEN SpecTokens ELSE 0) /\ holders'[q] = 0
      BY <1>1, <1>2, <1>3, <1>4, <1>7, <2>3
    <3>2. Outstanding(q)' = 0 /\ ~ LastSamples(q)'
      BY <1>2, <1>7, <2>3, SameFrames
    <3>3. Chunked(q)'
      BY <1>1, <1>3, <2>2, <2>3, <3>1, <3>2, CountTypes DEF Chunked
    <3>4. Shared(q)'
      BY <1>1, <1>3, <2>2, <2>3, <3>1, CountTypes DEF Shared
    <3> QED
      BY <3>1, <3>2, <3>3, <3>4 DEF CountOf, Untouched, Held, LeftOut, Decoding
  <2>4. CASE q # r
    <3>1. status'[q] = status[q] /\ computed'[q] = computed[q] /\ sched'[q] = sched[q]
          /\ spec'[q] = spec[q]
      BY <1>4, <2>4
    <3>2. Untouched(q)' /\ Held(q)' /\ LeftOut(q)'
      BY <1>2, <1>6, <2>1, <2>2, <3>1, SameFrames DEF CountOf, Untouched, Held, LeftOut
    <3>3. Chunked(q)' /\ Decoding(q)' /\ Shared(q)'
      BY <1>2, <1>6, <2>1, <2>2, <3>1, SameFrames DEF CountOf, Chunked, Decoding, Shared
    <3> QED BY <3>2, <3>3 DEF CountOf
  <2> QED BY <2>3, <2>4
<1>9. StepOK'
  <2>1. Old' = Old /\ Old \in Int /\ admitted \in Nat /\ Old = Len(running) - admitted
    <3>1. admitted \in Nat
      BY <1>1 DEF TypeOK
    <3> QED BY <1>1, <1>2, <1>5, <3>1 DEF Old
  <2>2. \A i \in 1 .. Len(running) : running[i] \in Reqs /\ running[i] # r
    BY <1>1, Positions
  <2>3. \A q \in Reqs : sched'[q] # 0 => status'[q] = "running"
    BY <1>1, <1>4 DEF StepOK
  <2>4. \A i \in Old' + 1 .. Len(running') : sched'[running'[i]] > 0
    <3> SUFFICES ASSUME NEW i \in Old' + 1 .. Len(running') PROVE sched'[running'[i]] > 0
      OBVIOUS
    <3>1. CASE i = Len(running) + 1
      BY <1>1, <1>3, <1>4, <1>5, <3>1
    <3>2. CASE i # Len(running) + 1
      <4>1. i \in Old + 1 .. Len(running) /\ i \in 1 .. Len(running)
        BY <1>1, <1>5, <2>1, <3>2 DEF StepOK
      <4>2. sched[running[i]] > 0
        BY <1>1, <4>1 DEF StepOK
      <4> QED BY <1>4, <1>5, <2>2, <4>1, <4>2
    <3> QED BY <3>1, <3>2
  <2>5. \A i \in 1 .. Old' : chunk'[running'[i]] /\ sched'[running'[i]] # 0 => prefill'
    <3> SUFFICES ASSUME NEW i \in 1 .. Old' PROVE chunk'[running'[i]] /\ sched'[running'[i]] # 0 => prefill'
      OBVIOUS
    <3>1. i \in 1 .. Old /\ i \in 1 .. Len(running)
      BY <1>1, <2>1
    <3>2. chunk[running[i]] /\ sched[running[i]] # 0 => prefill
      BY <1>1, <3>1 DEF StepOK
    <3> QED BY <1>2, <1>4, <1>5, <2>2, <3>1, <3>2
  <2>6. admitted' <= Len(running')
    BY <1>1, <1>2, <1>5, <2>1 DEF StepOK
  <2> QED BY <1>1, <1>2, <1>6, <2>3, <2>4, <2>5, <2>6 DEF StepOK
<1>10. Asked'
  <2>1. want = 0
    BY <1>1 DEF IInv, WantInLoop
  <2> QED BY <1>2, <2>1 DEF Asked
<1> QED BY <1>8, <1>9, <1>10 DEF CountInv

(* A step in which no request is scheduled and no slots are sought. *)
LEMMA IdleOK ==
    ASSUME IInv, CountInv, phase \in {"idle", "update"}, phase' \in {"idle", "update"},
           UNCHANGED stepVars, Len(frames') <= Depth, running' \in Seq(Reqs)
    PROVE  StepOK' /\ Asked'
<1>1. /\ ~ Scheduling /\ ~ Scheduling' /\ StepOK /\ want = 0
      /\ UNCHANGED <<idx, want, sched, preempted, admitted>>
  BY DEF Scheduling, CountInv, IInv, WantInLoop, stepVars
<1>2. admitted' = 0 /\ ~ preempted' /\ idx' = 1 /\ want' = 0 /\ \A q \in Reqs : sched'[q] = 0
  BY <1>1 DEF StepOK
<1>3. Old' = Len(running')
  BY <1>2 DEF Old
<1>4. Len(running') \in Nat /\ \A i \in 1 .. Len(running') : running'[i] \in Reqs
  OBVIOUS
<1>5. Asked'
  BY <1>2 DEF Asked
<1>6. /\ \A i \in Old' + 1 .. Len(running') : FALSE
      /\ \A i \in 1 .. Old' : sched'[running'[i]] = 0
  BY <1>2, <1>3, <1>4
<1>7. admitted' <= Len(running') /\ phase' # "running" /\ phase' # "waiting"
  BY <1>2, <1>4
<1> QED BY <1>1, <1>2, <1>5, <1>6, <1>7 DEF StepOK

LEMMA FinishStepCounts == ASSUME IInv, CountInv, FinishStep PROVE CountInv'
<1>1. /\ StepOK /\ TypeOK /\ TypeOK' /\ phase = "finish" /\ Scheduling /\ ~ Scheduling'
  <2>1. phase = "finish" /\ phase' = "idle"
    BY DEF FinishStep
  <2> QED BY <2>1, FinishStepInv DEF CountInv, IInv, Scheduling
<1>2. /\ sched' = Zeros /\ idx' = 1 /\ admitted' = 0 /\ preempted' = FALSE /\ phase' = "idle"
      /\ UNCHANGED <<running, status, outputs, want>>
  BY DEF FinishStep
<1>3. \A q \in Reqs : sched'[q] = 0
  BY <1>2 DEF Zeros
<1>4. \A q \in Reqs : CountOf(q)'
  <2> SUFFICES ASSUME NEW q \in Reqs PROVE CountOf(q)'
    OBVIOUS
  <2>1. CountOf(q) /\ sched'[q] = 0
    BY <1>3 DEF CountInv
  <2>2. /\ LastHas(q)' <=> sched[q] # 0
        /\ LastSamples(q)' <=> q \in Sampling
        /\ Flying(q)' <=> Flying(q) \/ sched[q] # 0
        /\ Outstanding(q)' = IF q \in Sampling THEN Outstanding(q) + 1 + spec[q] ELSE Outstanding(q)
        /\ q \in Sampling <=> sched[q] # 0 /\ ~ StillChunk(q)
    BY <1>1, AddedFrame
  <2>3. /\ NumTokens(q)' = NumTokens(q) /\ status'[q] = status[q] /\ outputs'[q] = outputs[q]
        /\ computed'[q] = computed[q] + sched[q]
        /\ chunk'[q] = IF sched[q] # 0 THEN StillChunk(q) ELSE chunk[q]
        /\ holders'[q] = IF Async /\ q \in Sampling THEN holders[q] + 1 + spec[q] ELSE holders[q]
    <3>1. NumTokens(q)' = NumTokens(q) /\ status'[q] = status[q] /\ outputs'[q] = outputs[q]
      BY <1>2 DEF NumTokens
    <3>2. computed'[q] = computed[q] + sched[q]
      BY DEF FinishStep
    <3>3. chunk'[q] = IF sched[q] # 0 THEN StillChunk(q) ELSE chunk[q]
      BY DEF FinishStep, Scheduled
    <3>4. holders'[q] = IF Async /\ q \in Sampling THEN holders[q] + 1 + spec[q] ELSE holders[q]
      <4>1. holders[q] \in Int /\ spec[q] \in Nat
        BY <1>1, CountTypes
      <4>2. AsyncAfterSchedule
        BY DEF FinishStep
      <4>3. CASE Async
        BY <4>1, <4>2, <4>3 DEF AsyncAfterSchedule
      <4>4. CASE ~ Async
        BY <4>2, <4>4 DEF AsyncAfterSchedule
      <4> QED BY <4>3, <4>4
    <3> QED BY <3>1, <3>2, <3>3, <3>4
  <2>4. sched[q] # 0 => status[q] = "running"
    BY <1>1 DEF StepOK
  <2>5. ~ Async => Outstanding(q) = 0
    BY <1>1, OneFrame DEF StepOK
  <2>6. status[q] = "running" => holders[q] = Outstanding(q)
    BY <2>1, <2>5 DEF CountOf, Held
  <2>7. StillChunk(q) <=> computed[q] + sched[q] < NumTokens(q) + holders[q]
    BY DEF StillChunk
  <2>8. Untouched(q)'
    BY <2>1, <2>2, <2>3, <2>4 DEF CountOf, Untouched
  <2>9. Held(q)'
    <3>1. spec[q] \in Nat /\ Outstanding(q) \in Nat
      BY <1>1, CountTypes
    <3> QED BY <2>1, <2>2, <2>3, <3>1 DEF CountOf, Held
  <2>10. LeftOut(q)'
    BY <1>1, <2>2, <2>3, <2>4 DEF LeftOut
  <2>11. Chunked(q)'
    <3> SUFFICES ASSUME status[q] = "running", chunk'[q]
                 PROVE  computed'[q] < NumTokens(q)' + holders'[q] /\ ~ LastSamples(q)'
      BY <2>3 DEF Chunked
    <3>1. q \notin Sampling
      BY <2>2, <2>3
    <3>2. computed[q] + sched[q] < NumTokens(q) + holders[q]
      <4>1. CASE sched[q] # 0
        BY <2>3, <2>7, <4>1
      <4>2. CASE sched[q] = 0
        <5>1. computed[q] < NumTokens(q) + holders[q]
          BY <2>1, <2>3, <4>2 DEF CountOf, Chunked
        <5> QED BY <1>1, <4>2, <5>1, CountTypes
      <4> QED BY <4>1, <4>2
    <3> QED BY <2>2, <2>3, <3>1, <3>2
  <2>12. Decoding(q)'
    <3> SUFFICES ASSUME status[q] = "running", ~ chunk'[q]
                 PROVE  computed'[q] = NumTokens(q)' - 1 + Outstanding(q)' /\ computed'[q] >= Prompt[q]
      BY <2>3 DEF Decoding
    <3>1. CASE sched[q] = 0
      <4>1. computed[q] = NumTokens(q) - 1 + Outstanding(q) /\ computed[q] >= Prompt[q]
        BY <2>1, <2>3, <3>1 DEF CountOf, Decoding
      <4>2. q \notin Sampling
        BY <2>2, <3>1
      <4> QED BY <1>1, <2>2, <2>3, <3>1, <4>1, <4>2, CountTypes
    <3>2. CASE sched[q] # 0
      <4>1. q \in Sampling /\ computed[q] + sched[q] >= NumTokens(q) + holders[q]
        BY <1>1, <2>2, <2>3, <2>7, <3>2, CountTypes
      <4>2. spec[q] = computed[q] + sched[q] - NumTokens(q) - holders[q]
        BY <2>1, <3>2, <4>1 DEF CountOf, Shared
      <4> QED BY <1>1, <2>2, <2>3, <2>6, <4>1, <4>2, CountTypes
    <3> QED BY <3>1, <3>2
  <2>13. Shared(q)'
    BY <2>1 DEF Shared
  <2> QED BY <2>8, <2>9, <2>10, <2>11, <2>12, <2>13 DEF CountOf
<1>5. StepOK'
  <2>2. Len(frames') <= Depth
    <3>1. Len(frames') = Len(frames) + 1
      <4>1. frames \in Seq(Frame) /\ [reqs |-> Scheduled, sampling |-> Sampling, spec |-> spec] \in Frame
        BY <1>1 DEF TypeOK, Frame, Scheduled, Sampling
      <4> QED BY <4>1 DEF FinishStep
    <3>2. Len(frames) \in Nat /\ Len(frames) < Depth
      BY <1>1, FrameTypes DEF StepOK
    <3> QED BY <3>1, <3>2, DepthType
  <2>3. running \in Seq(Reqs) /\ Len(running) \in Nat /\ \A i \in 1 .. Len(running) : running[i] \in Reqs
    BY Positions
  <2>4. Old' = Len(running)
    BY <1>2, <2>3 DEF Old
  <2>5. /\ \A i \in Old' + 1 .. Len(running') : FALSE
        /\ \A i \in 1 .. Old' : sched'[running'[i]] = 0
    BY <1>2, <1>3, <2>3, <2>4
  <2> QED BY <1>1, <1>2, <1>3, <2>2, <2>3, <2>5 DEF StepOK
<1>6. Asked'
  BY <1>1, <1>2 DEF IInv, WantInLoop, Asked
<1> QED BY <1>4, <1>5, <1>6 DEF CountInv

(* Between two steps, or while results are taken. *)
LEMMA UpdateFacts ==
    ASSUME IInv, CountInv, NEW r \in Reqs, Updating(r)
    PROVE  /\ phase = "update" /\ ~ Scheduling /\ StepOK /\ TypeOK
           /\ r \in frames[1].reqs /\ Flying(r) /\ sched[r] = 0
           /\ status[r] \in {"running", "preempted", "finished"}
           /\ Len(frames) \in Nat /\ Len(frames) <= Depth /\ 1 \in 1 .. Len(frames)
<1>1. phase = "update" /\ r \in frames[1].reqs /\ ~ Scheduling
  BY DEF Updating, Scheduling
<1>2. StepOK /\ TypeOK /\ CountOf(r) /\ 1 \in 1 .. Len(frames) /\ status[r] # "new"
  BY TakenType DEF CountInv, IInv
<1>3. Flying(r)
  BY <1>1, <1>2 DEF Flying
<1>4. status[r] \in {"running", "preempted", "finished"}
  <2>1. status[r] \in {"new", "waiting", "running", "preempted", "finished"}
    BY <1>2 DEF TypeOK
  <2> QED BY <1>2, <1>3, <2>1 DEF CountOf, Untouched
<1>5. Len(frames) \in Nat /\ Len(frames) <= Depth /\ sched[r] = 0
  BY <1>1, <1>2, FrameTypes DEF StepOK
<1> QED BY <1>1, <1>2, <1>3, <1>4, <1>5

LEMMA NoOutputCounts == ASSUME IInv, CountInv, NEW r \in Reqs, NoOutput(r) PROVE CountInv'
<1>1. /\ Updating(r) /\ frames' = Taken(r) /\ phase' = phase
      /\ status[r] = "finished" \/ r \notin frames[1].sampling
      /\ UNCHANGED <<running, status, outputs, computed, holders, chunk, stepVars>>
  BY DEF NoOutput
<1>2. /\ phase = "update" /\ ~ Scheduling /\ ~ Scheduling' /\ StepOK /\ Len(frames') <= Depth
      /\ running' \in Seq(Reqs)
  <2>1. Len(frames') = Len(frames)
    BY <1>1, TakenFrames
  <2> QED BY <1>1, <2>1, UpdateFacts, Positions DEF Scheduling
<1>3. \A q \in Reqs : CountOf(q)'
  <2> SUFFICES ASSUME NEW q \in Reqs PROVE CountOf(q)'
    OBVIOUS
  <2>1. CountOf(q)
    BY DEF CountInv
  <2>2. /\ NumTokens(q)' = NumTokens(q) /\ status'[q] = status[q]
        /\ UNCHANGED <<sched, spec>> /\ (status[q] = "finished" \/ Outstanding(q)' = Outstanding(q))
    BY <1>1, TakenFrames DEF NumTokens, stepVars
  <2>3. /\ Flying(q)' => Flying(q)
        /\ LastHas(q)' => LastHas(q)
        /\ LastSamples(q)' => LastSamples(q)
    BY <1>1, TakenFrames
  <2> QED
    BY <1>1, <1>2, <2>1, <2>2, <2>3
       DEF CountOf, Untouched, Held, LeftOut, Chunked, Decoding, Shared
<1> QED BY <1>1, <1>2, <1>3, IdleOK DEF CountInv

(* A result with accepted tokens: what the frame reserved is accounted for. *)
LEMMA OutputCounts ==
    ASSUME IInv, CountInv, NEW r \in Reqs, NEW accepted \in 0 .. SpecTokens, Output(r, accepted)
    PROVE  CountInv'
<1> DEFINE drafted == frames[1].spec[r]
<1>1. /\ Updating(r) /\ frames' = Taken(r) /\ phase' = phase
      /\ status[r] # "finished" /\ r \in frames[1].sampling /\ accepted <= drafted
      /\ outputs' = [outputs EXCEPT ![r] = @ + accepted + 1]
      /\ computed' = [computed EXCEPT ![r] = Rejected(@, drafted, accepted)]
      /\ holders' = [holders EXCEPT ![r] = Rejected(@, drafted, accepted)
                                            - IF Async THEN accepted + 1 ELSE 0]
      /\ UNCHANGED <<running, status, chunk, stepVars>>
  BY DEF Output
<1>2. /\ phase = "update" /\ ~ Scheduling /\ ~ Scheduling' /\ StepOK /\ TypeOK
      /\ Len(frames') <= Depth /\ running' \in Seq(Reqs)
      /\ r \in frames[1].reqs /\ status[r] \in {"running", "preempted"} /\ sched[r] = 0
      /\ Len(frames) \in Nat /\ Len(frames) <= Depth /\ 1 \in 1 .. Len(frames)
  <2>1. Len(frames') = Len(frames)
    BY <1>1, TakenFrames
  <2> QED BY <1>1, <2>1, UpdateFacts, Positions DEF Scheduling
<1>3. drafted \in Nat /\ accepted \in Nat /\ Outstanding(r) >= 1 + drafted
  BY <1>1, TakenFrames, ConstTypes
<1> HIDE DEF drafted
<1>4. \A q \in Reqs :
          /\ outputs'[q] = IF q = r THEN outputs[r] + accepted + 1 ELSE outputs[q]
          /\ computed'[q] = IF q = r THEN Rejected(computed[r], drafted, accepted) ELSE computed[q]
          /\ holders'[q] = IF q = r THEN Rejected(holders[r], drafted, accepted)
                                          - (IF Async THEN accepted + 1 ELSE 0)
                           ELSE holders[q]
  BY <1>1, <1>2 DEF TypeOK
<1>5. CountOf(r)'
  <2>1. CountOf(r)
    BY DEF CountInv
  <2>2. /\ Flying(r)' => Flying(r)
        /\ LastHas(r)' => LastHas(r)
        /\ LastSamples(r)' => LastSamples(r)
        /\ Outstanding(r)' = Outstanding(r) - 1 - drafted
    BY <1>1, TakenFrames DEF drafted
  <2>3. NumTokens(r)' = NumTokens(r) + accepted + 1
    <3>1. NumTokens(r)' = Prompt[r] + outputs[r] + accepted + 1
      <4>1. outputs'[r] = outputs[r] + accepted + 1 /\ outputs[r] \in Nat /\ Prompt[r] \in Nat
        BY <1>2, <1>4, CountTypes
      <4> QED BY <1>3, <4>1 DEF NumTokens
    <3> QED BY <3>1 DEF NumTokens
  <2>4. status'[r] = status[r] /\ chunk'[r] = chunk[r] /\ UNCHANGED <<sched, spec, preempted>>
    BY <1>1 DEF stepVars
  <2>5. /\ computed[r] \in Int /\ holders[r] \in Int /\ Prompt[r] \in Nat /\ Prompt[r] >= 1
        /\ NumTokens(r) \in Nat /\ NumTokens(r) >= Prompt[r] /\ Outstanding(r) \in Nat
    BY <1>2, CountTypes
  <2>6. holders[r] = IF Async THEN Outstanding(r) ELSE 0
    BY <1>2, <2>1 DEF CountOf, Held
  <2>7. holders'[r] = IF Async THEN Outstanding(r)' ELSE 0
    <3>1. CASE Async
      <4>1. holders[r] = Outstanding(r) /\ holders[r] > 0
        BY <1>3, <2>5, <2>6, <3>1
      <4>2. Rejected(holders[r], drafted, accepted) = holders[r] - (drafted - accepted)
        BY <4>1 DEF Rejected
      <4>3. holders'[r] = holders[r] - (drafted - accepted) - (accepted + 1)
        BY <1>4, <3>1, <4>2
      <4> QED BY <1>3, <2>2, <2>5, <3>1, <4>1, <4>3
    <3>2. CASE ~ Async
      <4>1. holders[r] = 0
        BY <2>6, <3>2
      <4>2. Rejected(holders[r], drafted, accepted) = 0
        BY <4>1 DEF Rejected
      <4>3. holders'[r] = 0 - 0
        BY <1>4, <3>2, <4>2
      <4> QED BY <3>2, <4>3
    <3> QED BY <3>1, <3>2
  <2>8. computed'[r] = IF computed[r] > 0 THEN computed[r] - (drafted - accepted) ELSE computed[r]
    BY <1>4 DEF Rejected
  <2>9. Chunked(r)'
    <3> SUFFICES ASSUME status[r] = "running", chunk[r]
                 PROVE  computed'[r] < NumTokens(r)' + holders'[r] /\ ~ LastSamples(r)'
      BY <2>4 DEF Chunked
    <3>1. computed[r] < NumTokens(r) + holders[r] /\ ~ LastSamples(r)
      BY <2>1 DEF CountOf, Chunked
    <3>2. Async
      <4> SUFFICES ASSUME ~ Async PROVE FALSE
        OBVIOUS
      <4>1. Depth = 1
        BY SchedulerAssumption DEF Async
      <4> DEFINE n == Len(frames)
      <4>2. n = 1
        <5>1. n \in Nat /\ n <= Depth /\ 1 <= n
          BY <1>2
        <5> HIDE DEF n
        <5> QED BY <4>1, <5>1
      <4>3. frames # <<>>
        BY <4>2
      <4> QED BY <1>1, <1>2, <3>1, <4>2, <4>3 DEF LastSamples, LastHas
    <3>3. holders[r] = Outstanding(r) /\ holders'[r] = Outstanding(r) - 1 - drafted
      BY <2>2, <2>6, <2>7, <3>2
    <3>4. computed'[r] < NumTokens(r)' + holders'[r]
      <4>1. CASE computed[r] > 0
        BY <1>3, <2>3, <2>5, <2>8, <3>1, <3>3, <4>1
      <4>2. CASE ~ (computed[r] > 0)
        BY <1>3, <2>3, <2>5, <2>8, <3>3, <4>2
      <4> QED BY <4>1, <4>2
    <3> QED BY <2>2, <3>1, <3>4
  <2>10. Decoding(r)'
    <3> SUFFICES ASSUME status[r] = "running", ~ chunk[r]
                 PROVE  computed'[r] = NumTokens(r)' - 1 + Outstanding(r)' /\ computed'[r] >= Prompt[r]
      BY <2>4 DEF Decoding
    <3>1. computed[r] = NumTokens(r) - 1 + Outstanding(r)
      BY <1>2, <2>1 DEF CountOf, Decoding
    <3>2. computed[r] > 0
      BY <1>3, <2>5, <3>1
    <3>3. computed'[r] = computed[r] - (drafted - accepted)
      BY <2>8, <3>2
    <3> QED BY <1>3, <2>2, <2>3, <2>5, <3>1, <3>3
  <2>11. Held(r)' /\ Untouched(r)' /\ LeftOut(r)' /\ Shared(r)'
    <3>1. Held(r)'
      BY <2>7 DEF Held
    <3>2. Untouched(r)'
      BY <1>2, <2>4 DEF Untouched
    <3>3. LeftOut(r)'
      BY <1>2, <2>1, <2>2, <2>4 DEF CountOf, LeftOut
    <3>4. Shared(r)'
      BY <1>2, <2>4 DEF Shared
    <3> QED BY <3>1, <3>2, <3>3, <3>4
  <2> QED BY <2>9, <2>10, <2>11 DEF CountOf
<1>6. ASSUME NEW q \in Reqs, q # r PROVE CountOf(q)'
  <2>1. CountOf(q)
    BY DEF CountInv
  <2>2. /\ Flying(q)' => Flying(q)
        /\ LastHas(q)' => LastHas(q)
        /\ LastSamples(q)' => LastSamples(q)
        /\ Outstanding(q)' = Outstanding(q)
    BY <1>1, <1>6, TakenFrames
  <2>3. /\ outputs'[q] = outputs[q] /\ computed'[q] = computed[q] /\ holders'[q] = holders[q]
        /\ UNCHANGED <<sched, spec, status, chunk>>
    BY <1>1, <1>4, <1>6 DEF stepVars
  <2>4. NumTokens(q)' = NumTokens(q)
    BY <2>3 DEF NumTokens
  <2> QED
    BY <1>2, <2>1, <2>2, <2>3, <2>4
       DEF CountOf, Untouched, Held, LeftOut, Chunked, Decoding, Shared
<1>7. \A q \in Reqs : CountOf(q)'
  BY <1>5, <1>6
<1> QED BY <1>1, <1>2, <1>7, IdleOK DEF CountInv

(* A request is aborted or stops: nothing is left to count. *)
LEMMA FreeCounts ==
    ASSUME IInv, IInv', CountInv, NEW r \in Reqs, Free(r), UNCHANGED <<phase, stepVars>>,
           phase \in {"idle", "update"}, Len(frames') <= Depth,
           \A q \in Reqs \ {r} : /\ Flying(q)' => Flying(q)
                                 /\ LastHas(q)' => LastHas(q)
                                 /\ LastSamples(q)' => LastSamples(q)
                                 /\ Outstanding(q)' = Outstanding(q)
    PROVE  CountInv'
<1>1. StepOK /\ TypeOK /\ ~ Scheduling /\ ~ Scheduling' /\ UNCHANGED <<sched, spec>>
  BY DEF CountInv, IInv, Scheduling, stepVars
<1>2. StepOK' /\ Asked'
  <2>1. running' \in Seq(Reqs) /\ phase' \in {"idle", "update"} /\ UNCHANGED stepVars
    BY DEF IInv, TypeOK
  <2> QED BY <2>1, IdleOK
<1>3. \A q \in Reqs : sched'[q] = 0
  BY <1>1 DEF StepOK
<1>4. ASSUME NEW q \in Reqs, q # r PROVE CountOf(q)'
  <2>1. CountOf(q)
    BY DEF CountInv
  <2>2. /\ Flying(q)' => Flying(q)
        /\ LastHas(q)' => LastHas(q)
        /\ LastSamples(q)' => LastSamples(q)
        /\ Outstanding(q)' = Outstanding(q)
    BY <1>4
  <2>3. /\ outputs'[q] = outputs[q] /\ computed'[q] = computed[q] /\ holders'[q] = holders[q]
        /\ status'[q] = status[q] /\ chunk'[q] = chunk[q]
    BY <1>1, <1>4 DEF Free, TypeOK
  <2>4. NumTokens(q)' = NumTokens(q)
    BY <2>3 DEF NumTokens
  <2> QED
    BY <1>1, <1>3, <2>1, <2>2, <2>3, <2>4
       DEF CountOf, Untouched, Held, LeftOut, Chunked, Decoding, Shared
<1>5. CountOf(r)'
  <2>1. status'[r] = "finished"
    BY <1>1 DEF Free, TypeOK
  <2> QED BY <1>3, <2>1 DEF CountOf, Untouched, Held, LeftOut, Chunked, Decoding, Shared
<1>6. \A q \in Reqs : CountOf(q)'
  BY <1>4, <1>5
<1> QED BY <1>2, <1>6 DEF CountInv

LEMMA AbortCounts == ASSUME IInv, CountInv, NEW r \in Reqs, Abort(r) PROVE CountInv'
<1>1. /\ Free(r) /\ UNCHANGED <<phase, stepVars>> /\ phase \in {"idle", "update"}
      /\ frames' = frames /\ IInv' /\ StepOK
  BY AbortInv DEF Abort, CountInv
<1>2. \A q \in Reqs \ {r} : /\ Flying(q)' => Flying(q)
                            /\ LastHas(q)' => LastHas(q)
                            /\ LastSamples(q)' => LastSamples(q)
                            /\ Outstanding(q)' = Outstanding(q)
  <2> SUFFICES ASSUME NEW q \in Reqs \ {r}
               PROVE  /\ Flying(q)' => Flying(q)
                      /\ LastHas(q)' => LastHas(q)
                      /\ LastSamples(q)' => LastSamples(q)
                      /\ Outstanding(q)' = Outstanding(q)
    OBVIOUS
  <2> QED BY <1>1, SameFrames
<1>3. Len(frames') <= Depth
  BY <1>1 DEF StepOK
<1> QED BY <1>1, <1>2, <1>3, FreeCounts

LEMMA StopCounts == ASSUME IInv, CountInv, NEW r \in Reqs, Stop(r) PROVE CountInv'
<1>1. /\ Free(r) /\ UNCHANGED <<phase, stepVars>> /\ phase \in {"idle", "update"}
      /\ frames' = Taken(r) /\ IInv' /\ StepOK /\ Updating(r)
  BY StopInv DEF Stop, CountInv, Updating
<1>2. \A q \in Reqs \ {r} : /\ Flying(q)' => Flying(q)
                            /\ LastHas(q)' => LastHas(q)
                            /\ LastSamples(q)' => LastSamples(q)
                            /\ Outstanding(q)' = Outstanding(q)
  <2> SUFFICES ASSUME NEW q \in Reqs \ {r}
               PROVE  /\ Flying(q)' => Flying(q)
                      /\ LastHas(q)' => LastHas(q)
                      /\ LastSamples(q)' => LastSamples(q)
                      /\ Outstanding(q)' = Outstanding(q)
    OBVIOUS
  <2> QED BY <1>1, TakenFrames
<1>3. Len(frames') <= Depth
  BY <1>1, TakenFrames DEF StepOK
<1> QED BY <1>1, <1>2, <1>3, FreeCounts

LEMMA EndUpdateCounts == ASSUME IInv, CountInv, EndUpdate PROVE CountInv'
<1>1. /\ UNCHANGED <<running, reqVars, stepVars>> /\ phase = "update" /\ phase' = "idle"
      /\ StepOK /\ TypeOK /\ ~ Scheduling /\ ~ Scheduling'
  BY DEF EndUpdate, CountInv, IInv, Scheduling
<1>2. frames' = Tail(frames) /\ frames # <<>> /\ frames \in Seq(Frame)
  BY <1>1, FrameTypes DEF EndUpdate, IInv, UpdateHasFrame
<1>3. Len(frames') <= Depth
  <2>1. Len(frames') = Len(frames) - 1 /\ Len(frames) \in Nat
    BY <1>2
  <2> QED BY <1>1, <2>1, DepthType DEF StepOK
<1>4. \A q \in Reqs : CountOf(q)'
  <2> SUFFICES ASSUME NEW q \in Reqs PROVE CountOf(q)'
    OBVIOUS
  <2>1. CountOf(q)
    BY DEF CountInv
  <2>2. /\ Flying(q)' => Flying(q)
        /\ LastHas(q)' => LastHas(q)
        /\ LastSamples(q)' => LastSamples(q)
        /\ Outstanding(q)' = Outstanding(q)
    BY <1>1, DroppedFrames
  <2>3. UNCHANGED <<status, outputs, computed, holders, chunk, sched, spec>>
    BY <1>1 DEF reqVars, stepVars
  <2>4. NumTokens(q)' = NumTokens(q)
    BY <2>3 DEF NumTokens
  <2> QED
    BY <1>1, <2>1, <2>2, <2>3, <2>4
       DEF CountOf, Untouched, Held, LeftOut, Chunked, Decoding, Shared
<1>5. running' \in Seq(Reqs)
  BY <1>1, Positions
<1> QED BY <1>1, <1>3, <1>4, <1>5, IdleOK DEF CountInv

LEMMA ArriveCounts == ASSUME IInv, CountInv, NEW r \in Reqs, Arrive(r) PROVE CountInv'
<1>1. /\ UNCHANGED <<running, outputs, computed, holders, chunk, frames, phase, stepVars>>
      /\ phase = "idle" /\ status[r] = "new" /\ status' = [status EXCEPT ![r] = "waiting"]
      /\ StepOK /\ TypeOK /\ ~ Scheduling /\ ~ Scheduling'
  BY DEF Arrive, CountInv, IInv, Scheduling
<1>2. \A q \in Reqs : CountOf(q)'
  <2> SUFFICES ASSUME NEW q \in Reqs PROVE CountOf(q)'
    OBVIOUS
  <2>1. CountOf(q)
    BY DEF CountInv
  <2>2. status'[q] = IF q = r THEN "waiting" ELSE status[q]
    BY <1>1 DEF TypeOK
  <2>3. UNCHANGED <<outputs, computed, holders, chunk, sched, spec>>
    BY <1>1 DEF stepVars
  <2>4. NumTokens(q)' = NumTokens(q)
    BY <2>3 DEF NumTokens
  <2> QED
    BY <1>1, <2>1, <2>2, <2>3, <2>4, SameFrames
       DEF CountOf, Untouched, Held, LeftOut, Chunked, Decoding, Shared
<1>3. running' \in Seq(Reqs) /\ Len(frames') <= Depth
  BY <1>1, Positions DEF StepOK
<1> QED BY <1>1, <1>2, <1>3, IdleOK DEF CountInv

LEMMA StutterCounts == ASSUME CountInv, UNCHANGED vars PROVE CountInv'
BY DEF CountInv, StepOK, Asked, CountOf, Untouched, Held, LeftOut, Chunked, Decoding, Shared,
       Scheduling, Flying, LastHas, LastSamples, Old, NumTokens, AtSentinel, Outstanding, Reserve,
       vars, reqVars, stepVars

LEMMA NextCounts == IInv /\ CountInv /\ [Next]_vars => CountInv'
<1> SUFFICES ASSUME IInv, CountInv, [Next]_vars PROVE CountInv'
  OBVIOUS
<1>1. CASE BeginStep \/ SkipRunning \/ PickRunning \/ EndRunning \/ EndWaiting \/ BeginUpdate
  BY <1>1, LoopStepsCounts
<1>2. CASE ScheduleRunning
  BY <1>2, ScheduleRunningCounts
<1>3. CASE Preempt
  BY <1>3, PreemptCounts
<1>4. ASSUME NEW hit \in 0 .. ModelLen, Admit(hit) PROVE CountInv'
  BY <1>4, AdmitCounts
<1>5. CASE FinishStep
  BY <1>5, FinishStepCounts
<1>6. CASE EndUpdate
  BY <1>6, EndUpdateCounts
<1>7. ASSUME NEW r \in Reqs, NoOutput(r) PROVE CountInv'
  BY <1>7, NoOutputCounts
<1>8. ASSUME NEW r \in Reqs, Stop(r) PROVE CountInv'
  BY <1>8, StopCounts
<1>9. ASSUME NEW r \in Reqs, NEW n \in 0 .. SpecTokens, Output(r, n) PROVE CountInv'
  BY <1>9, OutputCounts
<1>10. ASSUME NEW r \in Reqs, Arrive(r) PROVE CountInv'
  BY <1>10, ArriveCounts
<1>11. ASSUME NEW r \in Reqs, Abort(r) PROVE CountInv'
  BY <1>11, AbortCounts
<1>12. CASE UNCHANGED vars
  BY <1>12, StutterCounts
<1> QED
  BY <1>1, <1>2, <1>3, <1>4, <1>5, <1>6, <1>7, <1>8, <1>9, <1>10, <1>11, <1>12
     DEF Next, Schedule, UpdateFromOutput

LEMMA CountsKept == Spec => [](IInv /\ CountInv)
<1>1. Init => IInv /\ CountInv
  BY InitInv, InitCounts
<1>2. (IInv /\ CountInv) /\ [Next]_vars => (IInv /\ CountInv)'
  BY NextInv, NextCounts
<1> QED BY <1>1, <1>2, PTL DEF Spec

(* Between two steps a decoding request has computed its tokens less the    *)
(* last plus what the frames in flight reserve, and its placeholders are    *)
(* that reserve, whatever was rejected, preempted or came late.             *)
THEOREM CountsFollowFrames == Spec => []CountsMatchFrames
<1>1. IInv /\ CountInv => CountsMatchFrames
  <2> SUFFICES ASSUME IInv, CountInv, phase = "idle", NEW r \in Reqs
               PROVE  /\ Async /\ status[r] \in {"running", "preempted"} => holders[r] = Outstanding(r)
                      /\ status[r] = "running" /\ ~ chunk[r] =>
                             computed[r] = NumTokens(r) - 1 + Outstanding(r)
    BY DEF CountsMatchFrames
  <2>1. CountOf(r) /\ StepOK
    BY DEF CountInv
  <2>2. sched[r] = 0
    BY <2>1 DEF StepOK, Scheduling
  <2> QED BY <2>1, <2>2 DEF CountOf, Held, Decoding
<1> QED BY <1>1, CountsKept, PTL

-----------------------------------------------------------------------------
(***************************************************************************)
(* No step too many: a request that is scheduled while a frame is to bring *)
(* it tokens was asked before whether that frame is sure to end it.        *)
(***************************************************************************)
Extra(r) == sched[r] # 0 /\ Outstanding(r) > 0 => outputs[r] + 1 < MaxTokens[r]

LEMMA NextExtra ==
    ASSUME IInv, CountInv, [Next]_vars, CountInv', NEW r \in Reqs, Extra(r)
    PROVE  Extra(r)'
<1>1. StepOK /\ TypeOK /\ CountOf(r) /\ StepOK'
  BY DEF CountInv, IInv
<1>2. CASE ~ Scheduling'
  BY <1>1, <1>2 DEF StepOK, Extra
<1>3. CASE UNCHANGED <<sched, outputs, frames>>
  BY <1>3, SameFrames DEF Extra
<1>4. CASE ScheduleRunning
  <2>1. UNCHANGED <<outputs, frames>> /\ sched' = [sched EXCEPT ![running[idx]] = want] /\ Scheduling
        /\ want # 0
    BY <1>4 DEF ScheduleRunning, Scheduling
  <2>2. CASE r = running[idx]
    <3> SUFFICES ASSUME Outstanding(r) > 0 PROVE outputs[r] + 1 < MaxTokens[r]
      BY <2>1, SameFrames DEF Extra
    <3>1. Async /\ LastSamples(r)
      BY <1>1, <2>1, OneFrame DEF StepOK
    <3>2. status[r] = "running" /\ sched[r] = 0
      <4>1. idx \in 1 .. Len(running) /\ idx \in idx .. Len(running) /\ phase = "running"
        <5>1. want # 0 /\ idx \in Nat \ {0} /\ phase = "running" /\ WantInLoop /\ Len(running) \in Nat
          BY <1>1, <1>4, Positions DEF ScheduleRunning, IInv, TypeOK
        <5> QED BY <5>1 DEF WantInLoop
      <4> QED BY <1>1, <2>2, <4>1, Positions DEF StepOK
    <3>3. ~ chunk[r] /\ holders[r] = Outstanding(r)
      BY <1>1, <3>1, <3>2 DEF CountOf, Chunked, Held
    <3>4. computed[r] = NumTokens(r) - 1 + Outstanding(r)
      BY <1>1, <3>2, <3>3 DEF CountOf, Decoding
    <3>5. ~ AtSentinel(r)
      BY <2>1, <2>2 DEF CountInv, Asked
    <3>6. computed[r] + 2 - holders[r] < Prompt[r] + MaxTokens[r]
      <4>1. holders[r] > 0
        BY <3>3
      <4>2. ~ (computed[r] + 2 - holders[r] >= Prompt[r] + MaxTokens[r])
        BY <3>5, <4>1 DEF AtSentinel
      <4> QED BY <1>1, <4>2, CountTypes, ConstTypes
    <3>7. NumTokens(r) + 1 < Prompt[r] + MaxTokens[r]
      <4>1. Prompt[r] + MaxTokens[r] \in Int
        BY ConstTypes
      <4> QED BY <1>1, <3>3, <3>4, <3>6, <4>1, CountTypes
    <3> QED
      <4>1. MaxTokens[r] \in Nat
        BY ConstTypes
      <4> QED BY <1>1, <3>7, <4>1, CountTypes DEF NumTokens
  <2>3. CASE r # running[idx]
    <3>1. sched'[r] = sched[r]
      BY <1>1, <2>1, <2>3 DEF TypeOK
    <3> QED BY <2>1, <3>1, SameFrames DEF Extra
  <2> QED BY <2>2, <2>3
<1>5. ASSUME NEW hit \in 0 .. ModelLen, Admit(hit) PROVE Extra(r)'
  <2>1. UNCHANGED <<outputs, frames>>
        /\ sched' = [sched EXCEPT ![Head(waiting)] = AdmitTokens(Head(waiting), hit)]
        /\ status' = [status EXCEPT ![Head(waiting)] = "running"] /\ phase = "waiting"
        /\ waiting \in Seq(Reqs) /\ waiting # <<>>
    BY <1>1, <1>5 DEF Admit, InWaitingLoop, TypeOK
  <2>2. CASE r = Head(waiting)
    <3>1. status[r] \in {"waiting", "preempted"}
      <4>1. r = waiting[1] /\ 1 \in 1 .. Len(waiting)
        BY <2>1, <2>2
      <4> QED BY <4>1 DEF IInv, QueuesMatch, Holds
    <3>2. ~ LastHas(r)
      <4>1. CASE status[r] = "waiting"
        BY <1>1, <4>1, NotFlying DEF CountOf, Untouched
      <4>2. CASE status[r] = "preempted"
        BY <1>1, <2>1, <4>2 DEF CountOf, LeftOut, StepOK
      <4> QED BY <3>1, <4>1, <4>2
    <3>3. ~ Flying(r)
      BY <1>1, <2>1, <3>2, OneFrame DEF StepOK, Scheduling
    <3>4. Outstanding(r)' = 0
      BY <1>1, <2>1, <3>3, NotFlying, SameFrames
    <3> QED BY <3>4 DEF Extra
  <2>3. CASE r # Head(waiting)
    <3>1. sched'[r] = sched[r]
      BY <1>1, <2>1, <2>3 DEF TypeOK
    <3> QED BY <2>1, <3>1, SameFrames DEF Extra
  <2> QED BY <2>2, <2>3
<1>6. CASE BeginStep \/ SkipRunning \/ PickRunning \/ EndRunning \/ EndWaiting \/ Preempt
           \/ UNCHANGED vars
  <2>1. UNCHANGED <<sched, outputs, frames>>
    BY <1>6 DEF BeginStep, SkipRunning, PickRunning, EndRunning, EndWaiting, Preempt,
                vars, reqVars, stepVars
  <2> QED BY <1>3, <2>1
<1>7. CASE \/ FinishStep \/ UpdateFromOutput \/ \E q \in Reqs : Arrive(q) \/ Abort(q)
  <2>1. phase' \in {"idle", "update"}
    BY <1>7 DEF FinishStep, UpdateFromOutput, BeginUpdate, EndUpdate, NoOutput, Stop, Output,
                Updating, Arrive, Abort
  <2> QED BY <1>2, <2>1 DEF Scheduling
<1> QED BY <1>4, <1>5, <1>6, <1>7 DEF Next, Schedule

(* With asynchronous scheduling a request is never given another step when  *)
(* the frames in flight are sure to bring it to its max_tokens.             *)
THEOREM NoStepTooMany == Spec => []NoExtraStep
<1> DEFINE ExtraInv == \A r \in Reqs : Extra(r)
<1>1. Init => ExtraInv
  BY DEF Init, Zeros, Extra
<1>2. ExtraInv /\ (IInv /\ CountInv) /\ (IInv /\ CountInv)' /\ [Next]_vars => ExtraInv'
  <2> SUFFICES ASSUME ExtraInv, IInv, CountInv, CountInv', [Next]_vars, NEW r \in Reqs
               PROVE  Extra(r)'
    OBVIOUS
  <2>1. Extra(r)
    OBVIOUS
  <2> QED BY <2>1, NextExtra
<1>3. ExtraInv /\ (IInv /\ CountInv) => NoExtraStep
  <2> SUFFICES ASSUME ExtraInv, IInv, CountInv, NEW r \in Reqs, sched[r] > 0, Outstanding(r) > 0
               PROVE  outputs[r] + Cardinality({i \in 1 .. Len(frames) : r \in frames[i].sampling})
                          < MaxTokens[r]
    BY DEF NoExtraStep
  <2> DEFINE S == {i \in 1 .. Len(frames) : r \in frames[i].sampling}
             n == Len(frames)
  <2>1. TypeOK /\ StepOK /\ sched[r] # 0
    BY DEF IInv, CountInv
  <2>2. n \in Nat /\ n < Depth /\ Depth \in Nat /\ Depth <= 2
    BY <2>1, FrameTypes, DepthType DEF StepOK
  <2>3. n <= 1
    <3> HIDE DEF n
    <3> QED BY <2>2
  <2>4. IsFiniteSet(1 .. n) /\ Cardinality(1 .. n) <= 1
    <3> HIDE DEF n
    <3>1. n \in Int /\ 1 \in Int
      BY <2>2
    <3>2. IsFiniteSet(1 .. n) /\ Cardinality(1 .. n) = IF 1 > n THEN 0 ELSE n - 1 + 1
      BY <3>1, FS_Interval
    <3> QED BY <2>3, <3>1, <3>2
  <2>5. S \in SUBSET (1 .. n)
    OBVIOUS
  <2> HIDE DEF S, n
  <2>6. Cardinality(S) \in Nat /\ Cardinality(S) <= 1
    <3>1. IsFiniteSet(S) /\ Cardinality(S) <= Cardinality(1 .. n)
      BY <2>4, <2>5, FS_Subset
    <3>2. Cardinality(S) \in Nat /\ Cardinality(1 .. n) \in Nat
      BY <2>4, <3>1, FS_CardinalityType
    <3> QED BY <2>4, <3>1, <3>2
  <2>7. outputs[r] + 1 < MaxTokens[r]
    BY <2>1 DEF Extra
  <2>8. outputs[r] + Cardinality(S) < MaxTokens[r]
    <3>1. MaxTokens[r] \in Nat /\ outputs[r] \in Nat
      BY <2>1, ConstTypes, CountTypes
    <3> QED BY <2>6, <2>7, <3>1
  <2> QED BY <2>8 DEF S
<1> HIDE DEF ExtraInv
<1> QED BY <1>1, <1>2, <1>3, CountsKept, PTL DEF Spec

-----------------------------------------------------------------------------
(***************************************************************************)
(* Lanes.  A chunk that got tokens has left one for each lane behind it,   *)
(* until the running loop is past the first of them.                       *)
(***************************************************************************)
Paid(i) == chunk[running[i]] /\ sched[running[i]] > 0
FirstLane(i, j) == j \in Lanes(i) /\ \A k \in Lanes(i) : j <= k

LanePaid(i, j) ==
    Paid(i) /\ FirstLane(i, j) =>
        /\ j >= idx => budget >= Cardinality(Lanes(i))
        /\ CanDecode(running[j]) => /\ j < idx => sched[running[j]] > 0
                                    /\ j = idx /\ want # 0 => want > 0

\* What the floor has left for the lanes behind the chunk at hand.
FloorKept ==
    want # 0 /\ chunk[running[idx]] /\ Lanes(idx) # {} =>
        want <= Greater(0, budget - Cardinality(Lanes(idx)))

LaneInv ==
    /\ FloorKept
    /\ phase = "running" =>
           \A i, j \in 1 .. Len(running) : i < idx => LanePaid(i, j)
    /\ NextLaneServed

LEMMA LaneFacts ==
    ASSUME TypeOK, NEW i \in Int
    PROVE  /\ IsFiniteSet(Lanes(i)) /\ Cardinality(Lanes(i)) \in Nat
           /\ \A j \in Lanes(i) : j \in Int /\ i < j /\ j <= Len(running) /\ Cardinality(Lanes(i)) >= 1
           /\ \A T \in SUBSET Lanes(i) : Cardinality(T) \in Nat
                  /\ Cardinality(T) <= Cardinality(Lanes(i))
           /\ \A T \in SUBSET Lanes(i) : T # Lanes(i) => Cardinality(T) < Cardinality(Lanes(i))
<1>1. Len(running) \in Int
  <2>1. running \in Seq(Reqs)
    BY DEF TypeOK
  <2> QED BY <2>1
<1>2. IsFiniteSet(i + 1 .. Len(running))
  BY <1>1, FS_Interval
<1>3. Lanes(i) \in SUBSET (i + 1 .. Len(running))
  BY DEF Lanes
<1>4. IsFiniteSet(Lanes(i))
  BY <1>2, <1>3, FS_Subset
<1>5. Cardinality(Lanes(i)) \in Nat /\ (Cardinality(Lanes(i)) = 0 <=> Lanes(i) = {})
  BY <1>4, FS_CardinalityType, FS_EmptySet
<1>6. ASSUME NEW T \in SUBSET Lanes(i)
      PROVE  /\ Cardinality(T) \in Nat /\ Cardinality(T) <= Cardinality(Lanes(i))
             /\ T # Lanes(i) => Cardinality(T) < Cardinality(Lanes(i))
  <2>1. /\ IsFiniteSet(T) /\ Cardinality(T) <= Cardinality(Lanes(i))
        /\ Cardinality(Lanes(i)) = Cardinality(T) => Lanes(i) = T
    BY <1>4, FS_Subset
  <2>2. Cardinality(T) \in Nat
    BY <2>1, FS_CardinalityType
  <2> QED BY <1>5, <2>1, <2>2
<1>7. \A j \in Lanes(i) : j \in Int /\ i < j /\ j <= Len(running)
  BY <1>1, <1>3
<1>8. \A j \in Lanes(i) : Cardinality(Lanes(i)) >= 1
  BY <1>5
<1> QED BY <1>4, <1>5, <1>6, <1>7, <1>8

LEMMA SameLanes ==
    ASSUME UNCHANGED <<running, holders, computed>>, NEW i
    PROVE  Lanes(i)' = Lanes(i)
BY DEF Lanes, AtSentinel

LEMMA SameCanDecode ==
    ASSUME UNCHANGED <<holders, computed>>, NEW r
    PROVE  CanDecode(r)' = CanDecode(r)
BY DEF CanDecode, AtSentinel

(* Lanes(i) of a chunk before position k, when none of them comes before k. *)
LEMMA LanesAfter ==
    ASSUME TypeOK, NEW i \in Int, NEW k \in Int, i < k,
           \A j \in Lanes(i) : k < j
    PROVE  Lanes(k) = Lanes(i)
<1>1. Len(running) \in Int
  <2>1. running \in Seq(Reqs)
    BY DEF TypeOK
  <2> QED BY <2>1
<1>2. ASSUME NEW j \in Lanes(k) PROVE j \in Lanes(i)
  <2>1. j \in i + 1 .. Len(running)
    BY <1>1, <1>2 DEF Lanes
  <2> QED BY <1>2, <2>1 DEF Lanes
<1>3. ASSUME NEW j \in Lanes(i) PROVE j \in Lanes(k)
  <2>1. j \in k + 1 .. Len(running)
    BY <1>1, <1>3 DEF Lanes
  <2> QED BY <1>3, <2>1 DEF Lanes
<1> QED BY <1>2, <1>3

(* When the loop comes to the first lane behind a paid chunk, the lane gets *)
(* tokens.                                                                  *)
LEMMA LaneGets ==
    ASSUME IInv, CountInv, LaneInv, InRunningLoop, NEW i \in 1 .. Len(running), i < idx,
           Paid(i), FirstLane(i, idx), CanDecode(running[idx])
    PROVE  ~ AtSentinel(running[idx]) /\ NewTokens(idx) > 0
<1>1. /\ phase = "running" /\ idx \in 1 .. Len(running) /\ idx \in Int /\ i \in Int
      /\ budget > 0 /\ budget \in Int /\ TypeOK /\ StepOK
  <2>1. TypeOK /\ StepOK
    BY DEF IInv, CountInv
  <2>2. idx \in Nat \ {0} /\ budget \in Int
    BY <2>1 DEF TypeOK
  <2> QED BY <2>1, <2>2, Positions DEF InRunningLoop
<1>2. LanePaid(i, idx)
  BY <1>1 DEF LaneInv
<1>3. budget >= Cardinality(Lanes(i)) /\ idx \in Lanes(i)
  BY <1>1, <1>2 DEF LanePaid, FirstLane
<1>4. Lanes(idx) \in SUBSET Lanes(i) /\ Lanes(idx) # Lanes(i)
  <2>1. Lanes(idx) \subseteq Lanes(i)
    <3>1. \A j \in idx + 1 .. Len(running) : j \in i + 1 .. Len(running)
      BY <1>1, Positions
    <3> QED BY <3>1 DEF Lanes
  <2>2. idx \notin Lanes(idx)
    BY <1>1, LaneFacts
  <2> QED BY <1>3, <2>1, <2>2
<1>5. Cardinality(Lanes(idx)) < Cardinality(Lanes(i)) /\ Cardinality(Lanes(i)) \in Nat
      /\ Cardinality(Lanes(idx)) \in Nat
  BY <1>1, <1>4, LaneFacts
<1>6. Cardinality(Lanes(idx)) < budget
  BY <1>1, <1>3, <1>5
<1>7. sched[running[idx]] = 0
  <2>1. idx \in idx .. Len(running)
    BY <1>1
  <2> QED BY <1>1, <2>1 DEF StepOK
<1>8. computed[running[idx]] + 1 < ModelLen /\ ~ AtSentinel(running[idx])
  BY DEF CanDecode
<1> QED BY <1>1, <1>6, <1>7, <1>8, NewTokensBound DEF Scheduling

LEMMA LoopStepsLanes ==
    ASSUME IInv, CountInv, LaneInv, BeginStep \/ SkipRunning \/ PickRunning
    PROVE  LaneInv'
<1>1. /\ UNCHANGED <<running, computed, holders, chunk, sched>>
      /\ phase' = "running"
  BY DEF BeginStep, SkipRunning, PickRunning, reqVars, InRunningLoop
<1>2. /\ TypeOK /\ StepOK /\ idx \in Nat /\ idx >= 1 /\ Len(running) \in Nat /\ budget \in Int
  BY Positions DEF IInv, CountInv, TypeOK
<1>3. FloorKept'
  <2>1. CASE BeginStep \/ SkipRunning
    <3>1. want' = 0
      BY <2>1 DEF BeginStep, SkipRunning, InRunningLoop, IInv, WantInLoop
    <3> QED BY <3>1 DEF FloorKept
  <2>2. CASE PickRunning
    <3>1. /\ want' = NewTokens(idx) /\ idx' = idx /\ budget' = budget /\ phase = "running"
          /\ idx \in 1 .. Len(running) /\ budget > 0
      BY <1>2, <2>2 DEF PickRunning, InRunningLoop
    <3>2. sched[running[idx]] = 0
      BY <1>2, <3>1 DEF StepOK
    <3>3. chunk[running[idx]] /\ Lanes(idx) # {} =>
              NewTokens(idx) <= Greater(0, budget - Cardinality(Lanes(idx)))
      BY <3>1, <3>2, NewTokensBound DEF Scheduling
    <3>4. Lanes(idx)' = Lanes(idx)
      <4>1. \A i : Lanes(i)' = Lanes(i)
        BY <1>1, SameLanes
      <4> QED BY <1>1, <3>1 DEF Lanes, AtSentinel
    <3> QED BY <1>1, <3>1, <3>3, <3>4 DEF FloorKept
  <2> QED BY <2>1, <2>2
<1>4. ASSUME NEW i \in 1 .. Len(running), NEW j \in 1 .. Len(running), i < idx'
      PROVE  LanePaid(i, j)'
  <2>1. /\ Lanes(i)' = Lanes(i) /\ CanDecode(running[j])' = CanDecode(running[j])
        /\ Paid(i)' = Paid(i) /\ FirstLane(i, j)' = FirstLane(i, j)
        /\ running'[j] = running[j] /\ sched'[running[j]] = sched[running[j]]
    <3>1. Lanes(i)' = Lanes(i)
      BY <1>1, SameLanes
    <3> QED BY <1>1, <3>1 DEF CanDecode, AtSentinel, Paid, FirstLane
  <2>2. CASE BeginStep
    <3>1. idx' = idx /\ idx = 1
      BY <1>2, <2>2 DEF BeginStep, StepOK, Scheduling
    <3> QED BY <1>4, <3>1
  <2>3. CASE SkipRunning
    <3>1. /\ InRunningLoop /\ idx' = idx + 1 /\ budget' = budget /\ want' = 0 /\ phase = "running"
          /\ AtSentinel(running[idx]) \/ NewTokens(idx) = 0
      BY <2>3 DEF SkipRunning, InRunningLoop
    <3>2. CASE i = idx
      <4>1. idx \in idx .. Len(running)
        BY <1>2, <3>2
      <4>2. sched[running[i]] = 0
        BY <1>2, <3>1, <3>2, <4>1 DEF StepOK
      <4>3. ~ Paid(i)
        BY <4>2 DEF Paid
      <4> QED BY <2>1, <4>3 DEF LanePaid
    <3>3. CASE i # idx
      <4>1. LanePaid(i, j) /\ i < idx
        BY <1>2, <1>4, <3>1, <3>3 DEF LaneInv
      <4>2. j = idx => ~ (Paid(i) /\ FirstLane(i, j) /\ CanDecode(running[j]))
        BY <3>1, <4>1, LaneGets
      <4>3. (j >= idx' => j >= idx) /\ (j < idx' => j < idx \/ j = idx)
        BY <1>2, <3>1
      <4> QED BY <2>1, <3>1, <4>1, <4>2, <4>3 DEF LanePaid
    <3> QED BY <3>2, <3>3
  <2>4. CASE PickRunning
    <3>1. InRunningLoop /\ idx' = idx /\ budget' = budget /\ want' = NewTokens(idx) /\ phase = "running"
      BY <2>4 DEF PickRunning, InRunningLoop
    <3>2. LanePaid(i, j) /\ i < idx
      BY <1>4, <3>1 DEF LaneInv
    <3>3. j = idx /\ Paid(i) /\ FirstLane(i, j) /\ CanDecode(running[j]) => NewTokens(idx) > 0
      BY <3>1, <3>2, LaneGets
    <3> QED BY <2>1, <3>1, <3>2, <3>3 DEF LanePaid
  <2> QED BY <2>2, <2>3, <2>4
<1>5. NextLaneServed'
  BY <1>1 DEF NextLaneServed
<1> QED BY <1>1, <1>3, <1>4, <1>5 DEF LaneInv

LEMMA ScheduleRunningLanes == ASSUME IInv, CountInv, LaneInv, ScheduleRunning PROVE LaneInv'
<1> DEFINE r == running[idx]
<1>1. /\ phase = "running" /\ want # 0 /\ want \in Int /\ idx \in 1 .. Len(running) /\ idx \in Nat
      /\ budget \in Int /\ Len(running) \in Nat /\ TypeOK /\ StepOK /\ Asked
  <2>1. TypeOK /\ StepOK /\ Asked /\ WantInLoop
    BY DEF IInv, CountInv
  <2>2. want # 0 /\ want \in Int /\ idx \in Nat \ {0} /\ budget \in Int
    BY <2>1 DEF ScheduleRunning, TypeOK
  <2> QED BY <2>1, <2>2, Positions DEF WantInLoop
<1>2. /\ r \in Reqs /\ status[r] = "running" /\ sched[r] = 0
      /\ \A i \in 1 .. Len(running) : i # idx => running[i] # r
      /\ \A i \in 1 .. Len(running) : running[i] \in Reqs
  <2>1. idx \in idx .. Len(running)
    BY <1>1
  <2> QED BY <1>1, <2>1, Positions DEF StepOK
<1>3. /\ sched' = [sched EXCEPT ![r] = want] /\ budget' = budget - want /\ idx' = idx + 1 /\ want' = 0
      /\ phase' = "running" /\ UNCHANGED <<running, computed, holders, chunk>>
  BY DEF ScheduleRunning
<1> HIDE DEF r
<1>4. \A q \in Reqs : sched'[q] = IF q = r THEN want ELSE sched[q]
  BY <1>1, <1>3 DEF TypeOK
<1>5. ASSUME NEW i \in 1 .. Len(running), NEW j \in 1 .. Len(running), i < idx'
      PROVE  LanePaid(i, j)'
  <2>1. /\ Lanes(i)' = Lanes(i) /\ CanDecode(running[j])' = CanDecode(running[j])
        /\ FirstLane(i, j)' = FirstLane(i, j)
    <3>1. Lanes(i)' = Lanes(i)
      BY <1>3, SameLanes
    <3> QED BY <1>3, <3>1 DEF CanDecode, AtSentinel, FirstLane
  <2>2. /\ Cardinality(Lanes(i)) \in Nat /\ Cardinality(Lanes(idx)) \in Nat
        /\ \A k \in Lanes(i) : k \in Int /\ i < k /\ k <= Len(running)
    BY <1>1, LaneFacts
  <2>3. CASE i = idx
    <3>1. Paid(i)' => chunk[r] /\ want > 0
      BY <1>2, <1>3, <1>4, <2>3 DEF Paid, r
    <3>2. FirstLane(i, j) => Lanes(idx) # {} /\ j > idx
      BY <2>2, <2>3 DEF FirstLane
    <3>3. Paid(i)' /\ FirstLane(i, j) => want <= budget - Cardinality(Lanes(idx))
      <4>1. Paid(i)' /\ FirstLane(i, j) => want <= Greater(0, budget - Cardinality(Lanes(idx)))
        BY <1>1, <3>1, <3>2 DEF LaneInv, FloorKept, r
      <4>2. budget - Cardinality(Lanes(idx)) \in Int
        BY <1>1, <2>2
      <4> QED BY <1>1, <3>1, <4>1, <4>2 DEF Greater
    <3>4. Paid(i)' /\ FirstLane(i, j) => budget - want >= Cardinality(Lanes(i))
      BY <1>1, <2>2, <2>3, <3>3
    <3>5. FirstLane(i, j) => ~ (j < idx')
      BY <1>1, <1>3, <3>2
    <3> QED BY <1>3, <2>1, <3>4, <3>5 DEF LanePaid
  <2>4. CASE i # idx
    <3>1. i < idx /\ LanePaid(i, j) /\ i \in Int /\ j \in Int
      BY <1>1, <1>3, <1>5, <2>4 DEF LaneInv
    <3>2. Paid(i)' = Paid(i)
      <4>1. running[i] \in Reqs /\ running[i] # r
        BY <1>2, <2>4
      <4> QED BY <1>3, <1>4, <4>1 DEF Paid
    <3> SUFFICES ASSUME Paid(i), FirstLane(i, j)
                 PROVE  /\ j >= idx + 1 => budget - want >= Cardinality(Lanes(i))
                        /\ CanDecode(running[j]) /\ j < idx + 1 => sched'[running[j]] > 0
      BY <1>3, <2>1, <3>2 DEF LanePaid
    <3>3. ASSUME j >= idx + 1 PROVE budget - want >= Cardinality(Lanes(i))
      <4>1. budget >= Cardinality(Lanes(i))
        BY <1>1, <3>1, <3>3 DEF LanePaid
      <4>2. \A k \in Lanes(i) : idx < k
        BY <1>1, <2>2, <3>1, <3>3 DEF FirstLane
      <4>3. Lanes(idx) = Lanes(i) /\ Lanes(idx) # {}
        BY <1>1, <3>1, <4>2, LanesAfter DEF FirstLane
      <4>4. chunk[r]
        <5>1. idx \notin Lanes(i)
          BY <1>1, <4>2
        <5>2. idx \in i + 1 .. Len(running)
          BY <1>1, <3>1
        <5>3. ~ AtSentinel(r)
          BY <1>1 DEF Asked, r
        <5>4. ~ (computed[r] >= Prompt[r])
          BY <5>1, <5>2, <5>3 DEF Lanes, r
        <5>5. CountOf(r)
          BY <1>2 DEF CountInv
        <5> QED BY <1>2, <5>4, <5>5 DEF CountOf, Decoding
      <4>5. want <= Greater(0, budget - Cardinality(Lanes(i)))
        BY <1>1, <4>3, <4>4 DEF LaneInv, FloorKept, r
      <4>6. budget - Cardinality(Lanes(i)) \in Int /\ budget - Cardinality(Lanes(i)) >= 0
        BY <1>1, <2>2, <4>1
      <4>7. want <= budget - Cardinality(Lanes(i))
        BY <1>1, <4>5, <4>6 DEF Greater
      <4> QED BY <1>1, <2>2, <4>7
    <3>4. ASSUME CanDecode(running[j]), j < idx + 1 PROVE sched'[running[j]] > 0
      <4>1. CASE j = idx
        <5>1. want > 0
          BY <1>1, <3>1, <3>4, <4>1 DEF LanePaid
        <5>2. sched'[r] = want
          BY <1>2, <1>4
        <5> QED BY <4>1, <5>1, <5>2 DEF r
      <4>2. CASE j # idx
        <5>1. j < idx
          BY <1>1, <3>1, <3>4, <4>2
        <5>2. sched[running[j]] > 0
          BY <3>1, <3>4, <5>1 DEF LanePaid
        <5>3. running[j] \in Reqs /\ running[j] # r
          BY <1>2, <4>2
        <5> QED BY <1>4, <5>2, <5>3
      <4> QED BY <4>1, <4>2
    <3> QED BY <3>3, <3>4
  <2> QED BY <2>3, <2>4
<1>6. FloorKept' /\ NextLaneServed'
  BY <1>3 DEF FloorKept, NextLaneServed
<1> QED BY <1>3, <1>5, <1>6 DEF LaneInv

LEMMA PreemptLanes == ASSUME IInv, CountInv, LaneInv, Preempt PROVE LaneInv'
<1> DEFINE n == Len(running)
           v == running[n]
<1>1. /\ phase = "running" /\ want # 0 /\ want \in Int /\ idx \in 1 .. n /\ idx \in Nat
      /\ budget \in Int /\ n \in Nat /\ TypeOK /\ running \in Seq(Reqs)
  <2>1. TypeOK /\ WantInLoop
    BY DEF IInv
  <2>2. want # 0 /\ want \in Int /\ idx \in Nat \ {0} /\ budget \in Int
    BY <2>1 DEF Preempt, TypeOK
  <2> QED BY <2>1, <2>2, Positions DEF WantInLoop
<1>2. /\ v \in Reqs
      /\ \A i \in 1 .. n - 1 : i \in 1 .. n /\ running[i] # v /\ running[i] \in Reqs
  <2>1. n \in 1 .. n /\ \A i \in 1 .. n - 1 : i \in 1 .. n /\ i # n
    BY <1>1
  <2> QED BY <1>1, <2>1, Positions
<1>3. /\ running' = SubSeq(running, 1, n - 1)
      /\ computed' = [computed EXCEPT ![v] = 0]
      /\ want' = IF v = running[idx] THEN 0 ELSE want
      /\ phase' = "running"
      /\ UNCHANGED <<holders, chunk, idx, budget, sched>>
  BY DEF Preempt
<1>4. Len(running') = n - 1 /\ \A i \in 1 .. n - 1 : running'[i] = running[i]
  <2>1. n \in 1 .. n
    BY <1>1
  <2> QED BY <1>1, <1>3, <2>1, FrontValue
<1> HIDE DEF n, v
<1>5. \A q \in Reqs : q # v => computed'[q] = computed[q]
  BY <1>1, <1>3 DEF TypeOK
<1>6. \A i \in 1 .. n - 1 : /\ AtSentinel(running[i])' = AtSentinel(running[i])
                            /\ CanDecode(running[i])' = CanDecode(running[i])
  BY <1>2, <1>3, <1>4, <1>5 DEF AtSentinel, CanDecode
<1>7. ASSUME NEW i \in 1 .. n - 1
      PROVE  Lanes(i)' = Lanes(i) \ {n}
  <2>1. \A k \in i + 1 .. n - 1 : k \in 1 .. n - 1
    BY <1>1
  <2> SUFFICES ASSUME NEW k PROVE k \in Lanes(i)' <=> k \in Lanes(i) /\ k # n
    OBVIOUS
  <2>2. k \in i + 1 .. n - 1 <=> k \in i + 1 .. n /\ k # n
    BY <1>1
  <2>3. k \in Lanes(i)' <=> /\ k \in i + 1 .. n - 1 /\ ~ AtSentinel(running[k])'
                           /\ computed'[running'[k]] >= Prompt[running'[k]]
    BY <1>4 DEF Lanes
  <2>4. k \in i + 1 .. n - 1 => /\ AtSentinel(running[k])' = AtSentinel(running[k])
                               /\ computed'[running'[k]] = computed[running[k]]
                               /\ running'[k] = running[k]
    BY <1>2, <1>4, <1>5, <1>6, <2>1
  <2>5. k \in Lanes(i) <=> /\ k \in i + 1 .. n /\ ~ AtSentinel(running[k])
                          /\ computed[running[k]] >= Prompt[running[k]]
    BY DEF Lanes, n
  <2> QED BY <2>2, <2>3, <2>4, <2>5
<1>8. ASSUME NEW i \in 1 .. n - 1
      PROVE  /\ Cardinality(Lanes(i))' \in Nat /\ Cardinality(Lanes(i)) \in Nat
             /\ Cardinality(Lanes(i))' <= Cardinality(Lanes(i))
  <2>1. Lanes(i)' \in SUBSET Lanes(i) /\ i \in Int
    BY <1>7
  <2> QED BY <1>1, <2>1, LaneFacts
<1>9. ASSUME NEW i \in 1 .. Len(running'), NEW j \in 1 .. Len(running'), i < idx'
      PROVE  LanePaid(i, j)'
  <2>1. i \in 1 .. n - 1 /\ j \in 1 .. n - 1 /\ i \in 1 .. n /\ j \in 1 .. n /\ j \in Int
    BY <1>2, <1>4, <1>9
  <2>2. LanePaid(i, j)
    BY <1>1, <1>3, <1>9, <2>1 DEF LaneInv, n
  <2>3. Paid(i)' = Paid(i)
    BY <1>3, <1>4, <2>1 DEF Paid
  <2>4. FirstLane(i, j)' => FirstLane(i, j)
    <3>1. j \in Lanes(i) \ {n} /\ (\A k \in Lanes(i) \ {n} : j <= k) =>
              j \in Lanes(i) /\ \A k \in Lanes(i) : j <= k
      BY <1>1, <2>1
    <3>2. FirstLane(i, j)' <=> j \in Lanes(i) \ {n} /\ \A k \in Lanes(i) \ {n} : j <= k
      BY <1>7, <2>1 DEF FirstLane
    <3> QED BY <3>1, <3>2 DEF FirstLane
  <2>5. CanDecode(running[j])' = CanDecode(running[j]) /\ running'[j] = running[j]
    BY <1>4, <1>6, <2>1
  <2>6. j = idx /\ want' # 0 => want' = want
    BY <1>3
  <2>7. budget >= Cardinality(Lanes(i)) => budget >= Cardinality(Lanes(i))'
    BY <1>1, <1>8, <2>1
  <2>8. sched' = sched /\ idx' = idx /\ budget' = budget /\ (want' # 0 => want # 0)
    BY <1>1, <1>3
  <2> QED BY <2>2, <2>3, <2>4, <2>5, <2>6, <2>7, <2>8 DEF LanePaid
<1>10. FloorKept'
  <2> PICK k \in Nat : k = idx
    BY <1>1
  <2>1. Lanes(idx)' = Lanes(k)'
    BY <1>3 DEF Lanes, AtSentinel
  <2> SUFFICES ASSUME want' # 0, chunk'[running'[idx']], Lanes(k)' # {}
               PROVE  want' <= Greater(0, budget' - Cardinality(Lanes(k))')
    BY <1>3, <2>1 DEF FloorKept
  <2>2. k \in 1 .. n - 1 /\ want' = want /\ running'[k] = running[k]
    <3>1. idx # n
      BY <1>3 DEF v
    <3> QED BY <1>1, <1>3, <1>4, <3>1
  <2> DEFINE c == Cardinality(Lanes(k))
             d == Cardinality(Lanes(k))'
  <2>3. chunk[running[k]] /\ Lanes(k) # {}
    BY <1>3, <1>7, <2>2
  <2>4. want <= Greater(0, budget - c)
    BY <1>1, <2>3 DEF LaneInv, FloorKept
  <2>5. d \in Nat /\ c \in Nat /\ d <= c
    BY <1>8, <2>2
  <2> HIDE DEF c, d
  <2>6. Greater(0, budget - c) <= Greater(0, budget - d) /\ Greater(0, budget - c) \in Int
        /\ Greater(0, budget - d) \in Int
    BY <1>1, <2>5 DEF Greater
  <2> QED BY <1>1, <1>3, <2>2, <2>4, <2>6 DEF d
<1>11. NextLaneServed'
  BY <1>3 DEF NextLaneServed
<1> QED BY <1>3, <1>9, <1>10, <1>11 DEF LaneInv

LEMMA EndRunningLanes == ASSUME IInv, CountInv, LaneInv, EndRunning PROVE LaneInv'
<1>1. /\ phase = "running" /\ want = 0 /\ want' = 0 /\ phase' # "running"
      /\ idx > Len(running) \/ budget <= 0
      /\ UNCHANGED <<running, computed, holders, chunk, sched, admitted>>
  BY DEF EndRunning, reqVars, stepVars
<1>2. /\ TypeOK /\ StepOK /\ idx \in Nat /\ Len(running) \in Nat /\ budget \in Int
  BY Positions DEF IInv, CountInv, TypeOK
<1>3. admitted = 0 /\ Old = Len(running) /\ Old' = Len(running)
  BY <1>1, <1>2 DEF StepOK, Old
<1>4. NextLaneServed'
  <2> SUFFICES ASSUME NEW i \in 1 .. Len(running), NEW j \in 1 .. Len(running),
                      Paid(i), FirstLane(i, j), CanDecode(running[j])
               PROVE  sched[running[j]] > 0
    <3>1. \A i : Lanes(i)' = Lanes(i)
      BY <1>1, SameLanes
    <3> QED BY <1>1, <1>3, <3>1 DEF NextLaneServed, Paid, FirstLane, CanDecode, AtSentinel
  <2>1. i < idx
    <3> SUFFICES ASSUME ~ (i < idx) PROVE FALSE
      OBVIOUS
    <3>1. i \in idx .. Len(running)
      BY <1>2
    <3>2. sched[running[i]] = 0
      BY <1>1, <1>2, <3>1 DEF StepOK
    <3> QED BY <3>2 DEF Paid
  <2>2. LanePaid(i, j)
    BY <1>1, <2>1 DEF LaneInv
  <2>3. j < idx
    <3> SUFFICES ASSUME ~ (j < idx) PROVE FALSE
      OBVIOUS
    <3>1. budget >= Cardinality(Lanes(i))
      BY <1>2, <2>2 DEF LanePaid
    <3>2. Cardinality(Lanes(i)) >= 1 /\ Cardinality(Lanes(i)) \in Nat
      BY <1>2, LaneFacts DEF FirstLane
    <3> QED BY <1>1, <1>2, <3>1, <3>2
  <2> QED BY <2>2, <2>3 DEF LanePaid
<1> QED BY <1>1, <1>4 DEF LaneInv, FloorKept

LEMMA AdmitLanes ==
    ASSUME IInv, CountInv, LaneInv, NEW hit \in 0 .. ModelLen, Admit(hit)
    PROVE  LaneInv'
<1> DEFINE r == Head(waiting)
           n == Len(running)
<1>1. /\ running \in Seq(Reqs) /\ n \in Nat /\ r \in Reqs /\ phase = "waiting"
      /\ status[r] \in {"waiting", "preempted"} /\ want = 0 /\ StepOK /\ TypeOK
  <2>1. waiting \in Seq(Reqs) /\ waiting # <<>> /\ phase = "waiting" /\ StepOK /\ TypeOK /\ WantInLoop
    BY DEF IInv, TypeOK, Admit, InWaitingLoop, CountInv
  <2>2. r = waiting[1] /\ 1 \in 1 .. Len(waiting) /\ r \in Reqs
    BY <2>1
  <2>3. status[r] \in {"waiting", "preempted"}
    BY <2>2 DEF IInv, QueuesMatch, Holds
  <2> QED BY <2>1, <2>2, <2>3, Positions DEF WantInLoop
<1>2. /\ running' = Append(running, r)
      /\ computed' = [computed EXCEPT ![r] = hit]
      /\ sched' = [sched EXCEPT ![r] = AdmitTokens(r, hit)]
      /\ admitted' = admitted + 1
      /\ UNCHANGED <<holders, chunk, phase, want>>
  BY DEF Admit
<1> HIDE DEF r, n
<1>3. /\ Len(running') = n + 1 /\ \A i \in 1 .. n : running'[i] = running[i]
  BY <1>1, <1>2 DEF n
<1>4. \A i \in 1 .. n : running[i] \in Reqs /\ running[i] # r
  BY <1>1, Positions DEF n
<1>5. \A i \in 1 .. n : /\ computed'[running[i]] = computed[running[i]]
                        /\ sched'[running[i]] = sched[running[i]]
  BY <1>1, <1>2, <1>4 DEF TypeOK
<1>6. \A i \in 1 .. n : /\ AtSentinel(running[i])' = AtSentinel(running[i])
                        /\ CanDecode(running[i])' = CanDecode(running[i])
  <2> SUFFICES ASSUME NEW i \in 1 .. n
               PROVE  /\ AtSentinel(running[i])' = AtSentinel(running[i])
                      /\ CanDecode(running[i])' = CanDecode(running[i])
    OBVIOUS
  <2>1. /\ running'[i] = running[i] /\ computed'[running[i]] = computed[running[i]]
        /\ holders' = holders
    BY <1>2, <1>3, <1>5
  <2> QED BY <2>1 DEF AtSentinel, CanDecode
<1>7. Old' = Old /\ Old \in Int /\ Old <= n
  <2>1. admitted \in Nat /\ admitted' = admitted + 1
    BY <1>1, <1>2 DEF TypeOK
  <2>2. Old = n - admitted /\ Old' = n + 1 - (admitted + 1)
    BY <1>3, <2>1 DEF Old, n
  <2> QED BY <1>1, <2>1, <2>2
<1>8. NextLaneServed'
  <2> SUFFICES ASSUME NEW i \in 1 .. Old, NEW j \in 1 .. Old,
                      Paid(i)', FirstLane(i, j)', CanDecode(running[j])'
               PROVE  sched'[running'[j]] > 0
    BY <1>7 DEF NextLaneServed, Paid, FirstLane
  <2>1. i \in 1 .. n /\ j \in 1 .. n
    BY <1>1, <1>7
  <2>2. Paid(i) /\ CanDecode(running[j])
    BY <1>2, <1>3, <1>5, <1>6, <2>1 DEF Paid
  <2>3. FirstLane(i, j)
    <3>1. ASSUME NEW k \in i + 1 .. n PROVE k \in Lanes(i)' <=> k \in Lanes(i)
      <4>1. k \in 1 .. n /\ k \in i + 1 .. n + 1
        BY <1>1, <2>1
      <4>2. /\ AtSentinel(running[k])' = AtSentinel(running[k])
            /\ computed'[running'[k]] = computed[running[k]]
            /\ running'[k] = running[k]
        BY <1>3, <1>5, <1>6, <4>1
      <4>3. k \in Lanes(i)' <=> /\ k \in i + 1 .. n + 1 /\ ~ AtSentinel(running[k])'
                                /\ computed'[running'[k]] >= Prompt[running'[k]]
        BY <1>3 DEF Lanes
      <4>4. k \in Lanes(i) <=> /\ k \in i + 1 .. n /\ ~ AtSentinel(running[k])
                               /\ computed[running[k]] >= Prompt[running[k]]
        BY DEF Lanes, n
      <4> QED BY <4>1, <4>2, <4>3, <4>4
    <3>2. j \in Lanes(i)' /\ (\A k \in Lanes(i)' : j <= k)
      BY DEF FirstLane
    <3>3. j \in i + 1 .. n
      <4>1. j \in i + 1 .. n + 1
        BY <1>3, <3>2 DEF Lanes
      <4> QED BY <1>1, <2>1, <4>1
    <3>4. \A k \in Lanes(i) : k \in i + 1 .. n
      BY DEF Lanes, n
    <3> QED BY <3>1, <3>2, <3>3, <3>4 DEF FirstLane
  <2>4. sched[running[j]] > 0
    BY <1>1, <2>2, <2>3 DEF LaneInv, NextLaneServed, Paid, FirstLane
  <2> QED BY <1>3, <1>5, <2>1, <2>4
<1> QED BY <1>1, <1>2, <1>8 DEF LaneInv, FloorKept

LEMMA NextLanes == IInv /\ CountInv /\ LaneInv /\ IInv' /\ [Next]_vars => LaneInv'
<1> SUFFICES ASSUME IInv, CountInv, LaneInv, IInv', [Next]_vars PROVE LaneInv'
  OBVIOUS
<1>1. CASE BeginStep \/ SkipRunning \/ PickRunning
  BY <1>1, LoopStepsLanes
<1>2. CASE ScheduleRunning
  BY <1>2, ScheduleRunningLanes
<1>3. CASE Preempt
  BY <1>3, PreemptLanes
<1>4. CASE EndRunning
  BY <1>4, EndRunningLanes
<1>5. ASSUME NEW hit \in 0 .. ModelLen, Admit(hit) PROVE LaneInv'
  BY <1>5, AdmitLanes
<1>6. CASE EndWaiting
  <2>1. /\ UNCHANGED <<running, computed, holders, chunk, sched, admitted, want>>
        /\ phase = "waiting" /\ phase' = "finish"
    BY <1>6 DEF EndWaiting, reqVars, stepVars
  <2>2. \A i : Lanes(i)' = Lanes(i)
    BY <2>1, SameLanes
  <2>3. want = 0
    BY <2>1 DEF IInv, WantInLoop
  <2>4. NextLaneServed'
    BY <2>1, <2>2 DEF LaneInv, NextLaneServed, CanDecode, AtSentinel, Old
  <2> QED BY <2>1, <2>3, <2>4 DEF LaneInv, FloorKept
<1>7. CASE FinishStep \/ UpdateFromOutput \/ \E q \in Reqs : Arrive(q) \/ Abort(q)
  <2>1. phase' \in {"idle", "update"}
    BY <1>7 DEF FinishStep, UpdateFromOutput, BeginUpdate, EndUpdate, NoOutput, Stop, Output,
                Updating, Arrive, Abort
  <2>2. want' = 0
    BY <2>1 DEF IInv, WantInLoop
  <2> QED BY <2>1, <2>2 DEF LaneInv, FloorKept, NextLaneServed
<1>8. CASE UNCHANGED vars
  <2>1. UNCHANGED <<running, computed, holders, chunk, phase, idx, want, budget, sched, admitted>>
    BY <1>8 DEF vars, reqVars, stepVars
  <2>2. \A i : Lanes(i)' = Lanes(i)
    BY <2>1, SameLanes
  <2>3. \A r : CanDecode(r)' = CanDecode(r)
    BY <2>1, SameCanDecode
  <2>4. FloorKept'
    BY <2>1, <2>2 DEF LaneInv, FloorKept
  <2>5. NextLaneServed'
    BY <2>1, <2>2, <2>3 DEF LaneInv, NextLaneServed, Old
  <2>6. ASSUME phase' = "running", NEW i \in 1 .. Len(running'), NEW j \in 1 .. Len(running'),
               i < idx'
        PROVE  LanePaid(i, j)'
    <3>1. LanePaid(i, j)
      BY <2>1, <2>6 DEF LaneInv
    <3> QED BY <2>1, <2>2, <2>3, <3>1 DEF LanePaid, Paid, FirstLane
  <2> QED BY <2>4, <2>5, <2>6 DEF LaneInv
<1> QED BY <1>1, <1>2, <1>3, <1>4, <1>5, <1>6, <1>7, <1>8 DEF Next, Schedule

(* Behind a chunk that got tokens, the first request that can decode gets   *)
(* some in the same step, whatever chunks and sentinels are between them.   *)
THEOREM FirstLaneServed == Spec => []NextLaneServed
<1>1. Init => LaneInv
  BY DEF Init, LaneInv, FloorKept, NextLaneServed
<1>2. LaneInv /\ (IInv /\ CountInv) /\ (IInv /\ CountInv)' /\ [Next]_vars => LaneInv'
  BY NextLanes
<1>3. LaneInv => NextLaneServed
  BY DEF LaneInv
<1> QED BY <1>1, <1>2, <1>3, CountsKept, PTL DEF Spec

-----------------------------------------------------------------------------
(***************************************************************************)
(* Prefills.  A request counts as a prefill while prompt tokens are left   *)
(* to compute; one admitted in this step by what its first share leaves.   *)
(* A rejected draft never takes a request back below its prompt, provided  *)
(* no prompt reaches the model length less the drafts.                     *)
(***************************************************************************)
Newcomer(r) == \E i \in Old + 1 .. Len(running) : running[i] = r
Prefilling(r) ==
    /\ status[r] = "running"
    /\ Newcomer(r) => computed[r] + sched[r] < NumTokens(r)
    /\ ~ Newcomer(r) => computed[r] < Prompt[r]
Prefills == {r \in Reqs : Prefilling(r)}

DraftsFew(r) ==
    /\ drafts[r] <= SpecTokens /\ spec[r] <= SpecTokens
    /\ \A i \in 1 .. Len(frames) : frames[i].spec[r] <= SpecTokens

\* A decoding request with frames in flight is counted exactly, scheduled or not.
Steady(r) ==
    status[r] = "running" /\ ~ chunk[r] /\ Outstanding(r) > 0 =>
        computed[r] = NumTokens(r) - 1 + Outstanding(r)

\* What the frames in flight drafted for a chunk lies past its prompt.
Cut(r) ==
    status[r] = "running" /\ chunk[r] =>
        \A i \in 1 .. Len(frames) :
            r \in frames[i].reqs \cap frames[i].sampling =>
                computed[r] - frames[i].spec[r] >= Prompt[r]

PrefillInv ==
    /\ \A r \in Reqs : DraftsFew(r) /\ Steady(r) /\ Cut(r)
    /\ Cardinality(Prefills) <= Cap

\* The gate holds for prompts that leave the drafts of a step room below the
\* model length; a longer one may be padded there and then cut back.
PromptsFit == \A r \in Reqs : Prompt[r] + SpecTokens < ModelLen
-----------------------------------------------------------------------------
LEMMA PrefillsFinite == IsFiniteSet(Prefills) /\ Cardinality(Prefills) \in Nat
<1>1. IsFiniteSet(Reqs)
  BY ConstTypes, FS_Interval DEF Reqs
<1>2. Prefills \in SUBSET Reqs
  BY DEF Prefills
<1>3. IsFiniteSet(Prefills)
  BY <1>1, <1>2, FS_Subset
<1> QED BY <1>3, FS_CardinalityType

LEMMA FewerPrefills ==
    ASSUME Cardinality(Prefills) <= Cap, \A r \in Reqs : Prefilling(r)' => Prefilling(r)
    PROVE  Cardinality(Prefills)' <= Cap
<1>1. Prefills' \in SUBSET Prefills
  BY DEF Prefills
<1>2. IsFiniteSet(Prefills') /\ Cardinality(Prefills') <= Cardinality(Prefills)
  BY <1>1, PrefillsFinite, FS_Subset
<1>3. Cardinality(Prefills') \in Nat /\ Cardinality(Prefills) \in Nat
  BY <1>2, PrefillsFinite, FS_CardinalityType
<1> QED BY <1>2, <1>3, ConstTypes

(* The gate counts the prefills by their positions. *)
LEMMA PrefillsCountedAll ==
    ASSUME IInv, StepOK
    PROVE  PrefillsCounted \in Nat /\ Cardinality(Prefills) <= PrefillsCounted
<1> DEFINE n == Len(running)
           A == {i \in 1 .. Old : computed[running[i]] < Prompt[running[i]]}
           B == {i \in Old + 1 .. n :
                     computed[running[i]] + sched[running[i]] < NumTokens(running[i])}
           f == [i \in A \cup B |-> running[i]]
<1>1. n \in Nat /\ Old \in Int /\ Old >= 0 /\ Old <= n
  <2>1. n \in Nat /\ admitted \in Nat /\ admitted <= n
    BY Positions DEF IInv, TypeOK, StepOK
  <2> QED BY <2>1 DEF Old
<1>2. PrefillsCounted = Cardinality(A) + Cardinality(B)
  BY DEF PrefillsCounted
<1>3. /\ IsFiniteSet(A) /\ IsFiniteSet(B) /\ A \cap B = {}
      /\ A \in SUBSET (1 .. n) /\ B \in SUBSET (1 .. n)
  <2>1. A \in SUBSET (1 .. n) /\ B \in SUBSET (1 .. n) /\ A \cap B = {}
    BY <1>1
  <2>2. IsFiniteSet(1 .. n)
    BY <1>1, FS_Interval
  <2> QED BY <2>1, <2>2, FS_Subset
<1>4. /\ IsFiniteSet(A \cup B) /\ Cardinality(A) \in Nat /\ Cardinality(B) \in Nat
      /\ Cardinality(A \cup B) = Cardinality(A) + Cardinality(B)
  <2>1. /\ IsFiniteSet(A \cup B)
        /\ Cardinality(A \cup B) = Cardinality(A) + Cardinality(B) - Cardinality(A \cap B)
    BY <1>3, FS_Union
  <2>2. Cardinality(A) \in Nat /\ Cardinality(B) \in Nat
    BY <1>3, FS_CardinalityType
  <2>3. Cardinality(A \cap B) = 0
    BY <1>3, FS_EmptySet
  <2> QED BY <2>1, <2>2, <2>3
<1>5. f \in [A \cup B -> Prefills]
  <2>1. ASSUME NEW i \in A \cup B PROVE running[i] \in Prefills
    <3>1. i \in 1 .. n /\ running[i] \in Reqs /\ status[running[i]] = "running"
      BY <1>3, Positions
    <3>2. CASE i \in A
      <4>1. ~ Newcomer(running[i])
        <5>1. \A j \in Old + 1 .. n : j \in 1 .. n /\ j # i
          BY <1>1, <3>2
        <5> QED BY <3>1, <5>1, Positions DEF Newcomer
      <4> QED BY <3>1, <3>2, <4>1 DEF Prefills, Prefilling
    <3>3. CASE i \in B
      <4>1. Newcomer(running[i])
        BY <3>3 DEF Newcomer
      <4> QED BY <3>1, <3>3, <4>1 DEF Prefills, Prefilling
    <3> QED BY <3>2, <3>3
  <2> QED BY <2>1
<1>6. \A r \in Prefills : \E i \in A \cup B : f[i] = r
  <2> SUFFICES ASSUME NEW r \in Prefills PROVE \E i \in A \cup B : f[i] = r
    OBVIOUS
  <2>1. r \in Reqs /\ Prefilling(r)
    BY DEF Prefills
  <2>2. CASE Newcomer(r)
    <3>1. PICK i \in Old + 1 .. n : running[i] = r
      BY <2>2 DEF Newcomer
    <3>2. i \in B
      BY <2>1, <2>2, <3>1 DEF Prefilling
    <3> QED BY <3>1, <3>2
  <2>3. CASE ~ Newcomer(r)
    <3>1. PICK i \in 1 .. n : running[i] = r
      BY <2>1, Positions DEF Prefilling
    <3>2. i \in 1 .. Old
      <4>1. i \notin Old + 1 .. n
        BY <2>3, <3>1 DEF Newcomer
      <4> QED BY <1>1, <4>1
    <3>3. i \in A
      BY <2>1, <2>3, <3>1, <3>2 DEF Prefilling
    <3> QED BY <3>1, <3>3
  <2> QED BY <2>2, <2>3
<1>7. f \in Surjection(A \cup B, Prefills)
  <2> HIDE DEF A, B, f
  <2> QED BY <1>5, <1>6 DEF Surjection
<1> HIDE DEF A, B, f
<1>8. Cardinality(Prefills) <= Cardinality(A \cup B)
  BY <1>4, <1>7, FS_Surjection
<1> QED BY <1>2, <1>4, <1>8

(* Before the waiting loop, and between two steps, there are no newcomers.  *)
LEMMA NoNewcomers ==
    ASSUME TypeOK, admitted = 0, NEW r
    PROVE  ~ Newcomer(r)
<1>1. Len(running) \in Nat
  BY DEF TypeOK
<1>2. Old = Len(running)
  BY <1>1 DEF Old
<1>3. Old + 1 .. Len(running) = {}
  BY <1>1, <1>2
<1> QED BY <1>3 DEF Newcomer

LEMMA NoNewcomersNext ==
    ASSUME TypeOK', admitted' = 0, NEW r
    PROVE  ~ Newcomer(r)'
<1>1. Len(running') \in Nat
  BY DEF TypeOK
<1>2. Old' = Len(running')
  BY <1>1 DEF Old
<1>3. Old' + 1 .. Len(running') = {}
  BY <1>1, <1>2
<1> QED BY <1>3 DEF Newcomer

-----------------------------------------------------------------------------
(* Each action keeps the prefills few. *)

LEMMA SamePrefills ==
    ASSUME PrefillInv, UNCHANGED <<running, status, outputs, computed, drafts, chunk, frames,
                                   sched, spec, admitted>>
    PROVE  PrefillInv'
<1>1. ASSUME NEW q \in Reqs PROVE DraftsFew(q)' /\ Steady(q)' /\ Cut(q)'
  <2>1. DraftsFew(q) /\ Steady(q) /\ Cut(q)
    BY DEF PrefillInv
  <2>2. Outstanding(q)' = Outstanding(q) /\ NumTokens(q)' = NumTokens(q)
    BY SameFrames DEF NumTokens
  <2> QED BY <2>1, <2>2 DEF DraftsFew, Steady, Cut
<1>2. \A q \in Reqs : Prefilling(q)' => Prefilling(q)
  BY DEF Prefilling, Newcomer, Old, NumTokens
<1>3. Cardinality(Prefills)' <= Cap
  BY <1>2, FewerPrefills DEF PrefillInv
<1> QED BY <1>1, <1>3 DEF PrefillInv

\* The frames' parts of request q are those of earlier frames.
FramesOf(q) ==
    \A i \in 1 .. Len(frames') : \E k \in 1 .. Len(frames) :
        /\ q \in frames'[i].reqs => q \in frames[k].reqs
        /\ frames'[i].sampling = frames[k].sampling
        /\ frames'[i].spec = frames[k].spec

LEMMA SameRequest ==
    ASSUME NEW q \in Reqs, FramesOf(q), DraftsFew(q), Cut(q),
           status'[q] = "running" => status[q] = "running" /\ chunk'[q] = chunk[q]
                                     /\ computed'[q] = computed[q],
           drafts'[q] <= SpecTokens, spec'[q] <= SpecTokens
    PROVE  DraftsFew(q)' /\ Cut(q)'
<1>1. ASSUME NEW i \in 1 .. Len(frames') PROVE frames'[i].spec[q] <= SpecTokens
  <2>1. PICK k \in 1 .. Len(frames) : frames'[i].spec = frames[k].spec
    BY DEF FramesOf
  <2> QED BY <2>1 DEF DraftsFew
<1>2. DraftsFew(q)'
  BY <1>1 DEF DraftsFew
<1>3. ASSUME status'[q] = "running", chunk'[q], NEW i \in 1 .. Len(frames'),
             q \in frames'[i].reqs \cap frames'[i].sampling
      PROVE  computed'[q] - frames'[i].spec[q] >= Prompt[q]
  <2>1. PICK k \in 1 .. Len(frames) : /\ q \in frames'[i].reqs => q \in frames[k].reqs
                                      /\ frames'[i].sampling = frames[k].sampling
                                      /\ frames'[i].spec = frames[k].spec
    BY DEF FramesOf
  <2>2. q \in frames[k].reqs \cap frames[k].sampling
    BY <1>3, <2>1
  <2> QED BY <1>3, <2>1, <2>2 DEF Cut
<1>4. Cut(q)'
  BY <1>3 DEF Cut
<1> QED BY <1>2, <1>4

LEMMA FramesOfSame ==
    ASSUME frames' = frames, NEW q PROVE FramesOf(q)
BY DEF FramesOf

LEMMA FramesOfTaken ==
    ASSUME IInv, NEW r \in Reqs, Updating(r), frames' = Taken(r), NEW q
    PROVE  FramesOf(q) /\ (q = r => \A i \in 1 .. Len(frames') : q \in frames'[i].reqs => i # 1)
<1>1. /\ frames \in Seq(Frame) /\ Len(frames) \in Nat /\ 1 \in 1 .. Len(frames)
      /\ frames[1] \in Frame
  BY FrameTypes, TakenType DEF IInv
<1>2. /\ Len(frames') = Len(frames)
      /\ frames'[1] = [frames[1] EXCEPT !.reqs = @ \ {r}]
      /\ \A i \in 1 .. Len(frames) : i # 1 => frames'[i] = frames[i]
  <2>1. Taken(r) = [frames EXCEPT ![1] = [frames[1] EXCEPT !.reqs = @ \ {r}]]
    BY DEF Taken
  <2>2. Len(frames') = Len(frames) /\ frames' \in Seq(Frame)
    BY TakenType
  <2> QED BY <1>1, <2>1, <2>2
<1>3. /\ frames'[1].reqs = frames[1].reqs \ {r}
      /\ frames'[1].sampling = frames[1].sampling
      /\ frames'[1].spec = frames[1].spec
  BY <1>1, <1>2 DEF Frame
<1>4. ASSUME NEW i \in 1 .. Len(frames')
      PROVE  \E k \in 1 .. Len(frames) :
                 /\ q \in frames'[i].reqs => q \in frames[k].reqs
                 /\ frames'[i].sampling = frames[k].sampling
                 /\ frames'[i].spec = frames[k].spec
  <2>1. i \in 1 .. Len(frames)
    BY <1>2
  <2>2. /\ q \in frames'[i].reqs => q \in frames[i].reqs
        /\ frames'[i].sampling = frames[i].sampling
        /\ frames'[i].spec = frames[i].spec
    BY <1>2, <1>3, <2>1
  <2> QED BY <2>1, <2>2
<1>5. FramesOf(q)
  BY <1>4 DEF FramesOf
<1> QED BY <1>3, <1>5

\* Between two steps and in an update every decoding request is counted.
LEMMA SteadyAtRest ==
    ASSUME CountInv', ~ Scheduling', NEW q \in Reqs
    PROVE  Steady(q)'
<1>1. StepOK' /\ CountOf(q)'
  BY DEF CountInv
<1>2. sched'[q] = 0
  BY <1>1 DEF StepOK
<1> QED BY <1>1, <1>2 DEF CountOf, Decoding, Steady

(* Nothing is scheduled: only the rest of a prompt counts. *)
LEMMA FewerAtRest ==
    ASSUME IInv, IInv', CountInv, CountInv', PrefillInv, ~ Scheduling, ~ Scheduling',
           \A q \in Reqs : status'[q] = "running" =>
               status[q] = "running" /\ (computed'[q] < Prompt[q] => computed[q] < Prompt[q])
    PROVE  Cardinality(Prefills)' <= Cap
<1>1. admitted = 0 /\ admitted' = 0
  BY DEF CountInv, StepOK
<1>2. ASSUME NEW q \in Reqs, Prefilling(q)' PROVE Prefilling(q)
  <2>1. ~ Newcomer(q) /\ ~ Newcomer(q)'
    BY <1>1, NoNewcomers, NoNewcomersNext DEF IInv
  <2>2. status[q] = "running" /\ computed[q] < Prompt[q]
    BY <1>2, <2>1 DEF Prefilling
  <2> QED BY <2>1, <2>2 DEF Prefilling
<1> QED BY <1>2, FewerPrefills DEF PrefillInv

LEMMA LoopStepsPrefills ==
    ASSUME PrefillInv, BeginStep \/ SkipRunning \/ PickRunning \/ EndRunning \/ EndWaiting
                       \/ BeginUpdate \/ UNCHANGED vars
    PROVE  PrefillInv'
<1>1. UNCHANGED <<running, status, outputs, computed, drafts, chunk, frames, sched, spec, admitted>>
  BY DEF BeginStep, SkipRunning, PickRunning, EndRunning, EndWaiting, BeginUpdate, vars, reqVars,
         stepVars
<1> QED BY <1>1, SamePrefills

LEMMA ScheduleRunningPrefills ==
    ASSUME IInv, IInv', CountInv, PrefillInv, ScheduleRunning
    PROVE  PrefillInv'
<1> DEFINE r == running[idx]
<1>1. /\ TypeOK /\ TypeOK' /\ StepOK /\ phase = "running" /\ admitted = 0 /\ r \in Reqs /\ want \in Int
  <2>1. TypeOK /\ TypeOK' /\ StepOK /\ WantInLoop
    BY DEF IInv, CountInv
  <2>2. phase = "running" /\ want # 0 /\ want \in Int /\ idx \in Nat \ {0}
    BY <2>1 DEF ScheduleRunning, TypeOK
  <2>3. idx \in 1 .. Len(running)
    BY <2>1, <2>2, Positions DEF WantInLoop
  <2> QED BY <2>1, <2>2, <2>3, Positions DEF StepOK
<1>2. /\ spec' = [spec EXCEPT ![r] = SpecPart(r, want)]
      /\ drafts' = [drafts EXCEPT ![r] = 0]
      /\ UNCHANGED <<running, status, outputs, computed, chunk, frames, admitted>>
  BY DEF ScheduleRunning
<1> HIDE DEF r
<1>3. ASSUME NEW q \in Reqs PROVE DraftsFew(q)' /\ Steady(q)' /\ Cut(q)'
  <2>1. DraftsFew(q) /\ Steady(q) /\ Cut(q) /\ DraftsFew(r)
    BY <1>1 DEF PrefillInv
  <2>2. drafts'[q] <= SpecTokens
    <3>1. drafts'[q] = IF q = r THEN 0 ELSE drafts[q]
      BY <1>1, <1>2 DEF TypeOK
    <3> QED BY <2>1, <3>1, ConstTypes DEF DraftsFew
  <2>3. spec'[q] <= SpecTokens
    <3>1. spec'[q] = IF q = r THEN SpecPart(r, want) ELSE spec[q]
      BY <1>1, <1>2 DEF TypeOK
    <3>2. SpecPart(r, want) <= SpecTokens
      <4> DEFINE past == want + computed[r] - NumTokens(r) - holders[r]
      <4>1. past \in Int /\ drafts[r] \in Nat /\ drafts[r] <= SpecTokens /\ SpecTokens \in Nat
        <5>1. drafts[r] <= SpecTokens
          BY <2>1 DEF DraftsFew
        <5>2. past \in Int /\ drafts[r] \in Nat
          BY <1>1, CountTypes
        <5> QED BY <5>1, <5>2, ConstTypes
      <4>2. SpecPart(r, want) = Greater(0, Lesser(drafts[r], past))
        BY DEF SpecPart
      <4> HIDE DEF past
      <4> QED BY <4>1, <4>2 DEF Greater, Lesser
    <3> QED BY <2>1, <3>1, <3>2 DEF DraftsFew
  <2>4. Steady(q)'
    <3>1. Outstanding(q)' = Outstanding(q) /\ NumTokens(q)' = NumTokens(q)
      BY <1>2, SameFrames DEF NumTokens
    <3> QED BY <1>2, <2>1, <3>1 DEF Steady
  <2>5. FramesOf(q)
    BY <1>2, FramesOfSame
  <2>6. status'[q] = "running" => status[q] = "running" /\ chunk'[q] = chunk[q]
                                  /\ computed'[q] = computed[q]
    BY <1>2
  <2> QED BY <2>1, <2>2, <2>3, <2>4, <2>5, <2>6, SameRequest
<1>4. Cardinality(Prefills)' <= Cap
  <2>1. ASSUME NEW q \in Reqs, Prefilling(q)' PROVE Prefilling(q)
    <3>1. ~ Newcomer(q) /\ ~ Newcomer(q)'
      BY <1>1, <1>2, NoNewcomers, NoNewcomersNext
    <3> QED BY <1>2, <2>1, <3>1 DEF Prefilling
  <2> QED BY <2>1, FewerPrefills DEF PrefillInv
<1> QED BY <1>3, <1>4 DEF PrefillInv

LEMMA PreemptPrefills ==
    ASSUME IInv, IInv', CountInv, PrefillInv, Preempt
    PROVE  PrefillInv'
<1> DEFINE v == running[Len(running)]
<1>1. /\ TypeOK /\ TypeOK' /\ StepOK /\ phase = "running" /\ admitted = 0 /\ v \in Reqs
  <2>1. TypeOK /\ TypeOK' /\ StepOK /\ WantInLoop
    BY DEF IInv, CountInv
  <2>2. phase = "running" /\ want # 0 /\ idx \in Nat \ {0}
    BY <2>1 DEF Preempt, TypeOK
  <2>3. Len(running) \in 1 .. Len(running)
    BY <2>1, <2>2, Positions DEF WantInLoop
  <2> QED BY <2>1, <2>2, <2>3, Positions DEF StepOK
<1>2. /\ status' = [status EXCEPT ![v] = "preempted"]
      /\ computed' = [computed EXCEPT ![v] = 0]
      /\ drafts' = [drafts EXCEPT ![v] = 0]
      /\ UNCHANGED <<outputs, chunk, frames, admitted, spec>>
  BY DEF Preempt
<1> HIDE DEF v
<1>3. ASSUME NEW q \in Reqs
      PROVE  status'[q] = "running" => status[q] = "running" /\ chunk'[q] = chunk[q]
                                       /\ computed'[q] = computed[q]
  BY <1>1, <1>2 DEF TypeOK
<1>4. ASSUME NEW q \in Reqs PROVE DraftsFew(q)' /\ Steady(q)' /\ Cut(q)'
  <2>1. DraftsFew(q) /\ Steady(q) /\ Cut(q)
    BY DEF PrefillInv
  <2>2. drafts'[q] <= SpecTokens /\ spec'[q] <= SpecTokens
    <3>1. drafts'[q] = IF q = v THEN 0 ELSE drafts[q]
      BY <1>1, <1>2 DEF TypeOK
    <3> QED BY <1>2, <2>1, <3>1, ConstTypes DEF DraftsFew
  <2>3. Steady(q)'
    <3>1. Outstanding(q)' = Outstanding(q) /\ NumTokens(q)' = NumTokens(q)
      BY <1>2, SameFrames DEF NumTokens
    <3> QED BY <1>3, <2>1, <3>1 DEF Steady
  <2>4. FramesOf(q)
    BY <1>2, FramesOfSame
  <2> QED BY <1>3, <2>1, <2>2, <2>3, <2>4, SameRequest
<1>5. Cardinality(Prefills)' <= Cap
  <2>1. ASSUME NEW q \in Reqs, Prefilling(q)' PROVE Prefilling(q)
    <3>1. ~ Newcomer(q) /\ ~ Newcomer(q)'
      BY <1>1, <1>2, NoNewcomers, NoNewcomersNext
    <3> QED BY <1>3, <2>1, <3>1 DEF Prefilling
  <2> QED BY <2>1, FewerPrefills DEF PrefillInv
<1> QED BY <1>4, <1>5 DEF PrefillInv

LEMMA AdmitPrefills ==
    ASSUME IInv, CountInv, PrefillInv, NEW hit \in 0 .. ModelLen, Admit(hit)
    PROVE  PrefillInv'
<1> DEFINE r == Head(waiting)
           n == Len(running)
<1>1. /\ running \in Seq(Reqs) /\ n \in Nat /\ r \in Reqs /\ phase = "waiting"
      /\ status[r] \in {"waiting", "preempted"} /\ StepOK /\ TypeOK /\ ~ preempted
  <2>1. waiting \in Seq(Reqs) /\ waiting # <<>> /\ phase = "waiting" /\ StepOK /\ TypeOK
    BY DEF IInv, TypeOK, Admit, InWaitingLoop, CountInv
  <2>2. r = waiting[1] /\ 1 \in 1 .. Len(waiting) /\ r \in Reqs
    BY <2>1
  <2>3. status[r] \in {"waiting", "preempted"}
    BY <2>2 DEF IInv, QueuesMatch, Holds
  <2> QED BY <2>1, <2>2, <2>3, Positions DEF StepOK
<1>2. /\ Gate
      /\ running' = Append(running, r)
      /\ status' = [status EXCEPT ![r] = "running"]
      /\ computed' = [computed EXCEPT ![r] = hit]
      /\ sched' = [sched EXCEPT ![r] = AdmitTokens(r, hit)]
      /\ spec' = [spec EXCEPT ![r] = IF Padded(r, hit) THEN SpecTokens ELSE 0]
      /\ admitted' = admitted + 1
      /\ UNCHANGED <<outputs, drafts, chunk, frames>>
  BY DEF Admit
<1> HIDE DEF r, n
<1>3. Len(running') = n + 1 /\ running'[n + 1] = r /\ \A i \in 1 .. n : running'[i] = running[i]
  BY <1>1, <1>2 DEF n
<1>4. \A q \in Reqs : q # r => /\ status'[q] = status[q] /\ computed'[q] = computed[q]
                               /\ sched'[q] = sched[q] /\ spec'[q] = spec[q]
  BY <1>1, <1>2 DEF TypeOK
<1>5. ~ Flying(r)
  <2>1. CountOf(r)
    BY <1>1 DEF CountInv
  <2>2. ~ LastHas(r)
    <3>1. CASE status[r] = "waiting"
      BY <1>1, <2>1, <3>1, NotFlying DEF CountOf, Untouched
    <3>2. CASE status[r] = "preempted"
      BY <1>1, <2>1, <3>2 DEF CountOf, LeftOut
    <3> QED BY <1>1, <3>1, <3>2
  <2> QED BY <1>1, <2>2, OneFrame DEF StepOK, Scheduling
<1>6. ASSUME NEW q \in Reqs PROVE DraftsFew(q)' /\ Steady(q)' /\ Cut(q)'
  <2>1. DraftsFew(q) /\ Steady(q) /\ Cut(q)
    BY DEF PrefillInv
  <2>2. Outstanding(q)' = Outstanding(q) /\ NumTokens(q)' = NumTokens(q) /\ FramesOf(q)
    BY <1>2, SameFrames, FramesOfSame DEF NumTokens
  <2>3. CASE q # r
    <3>1. drafts'[q] <= SpecTokens /\ spec'[q] <= SpecTokens
      BY <1>2, <1>4, <2>1, <2>3 DEF DraftsFew
    <3>2. DraftsFew(q)' /\ Cut(q)'
      BY <1>2, <1>4, <2>1, <2>2, <2>3, <3>1, SameRequest
    <3> QED BY <1>2, <1>4, <2>1, <2>2, <2>3, <3>2 DEF Steady
  <2>4. CASE q = r
    <3>1. DraftsFew(q)'
      <4>1. spec'[q] = IF Padded(r, hit) THEN SpecTokens ELSE 0
        BY <1>1, <1>2, <2>4 DEF TypeOK
      <4> QED BY <1>2, <2>1, <4>1, ConstTypes DEF DraftsFew
    <3>2. Steady(q)'
      <4>1. Outstanding(q)' = 0
        BY <1>1, <1>5, <2>2, <2>4, NotFlying
      <4> QED BY <4>1 DEF Steady
    <3>3. Cut(q)'
      BY <1>2, <1>5, <2>4 DEF Cut, Flying
    <3> QED BY <3>1, <3>2, <3>3
  <2> QED BY <2>3, <2>4
<1>7. Cardinality(Prefills)' <= Cap
  <2>1. admitted \in Nat /\ Old' = Old /\ Old \in Int /\ Old <= n
    <3>1. admitted \in Nat /\ admitted' = admitted + 1
      BY <1>1, <1>2 DEF TypeOK
    <3>2. Old = n - admitted /\ Old' = n + 1 - (admitted + 1)
      BY <1>3, <3>1 DEF Old, n
    <3> QED BY <1>1, <3>1, <3>2
  <2>2. ASSUME NEW q \in Reqs, q # r, Prefilling(q)' PROVE Prefilling(q)
    <3>1. Newcomer(q)' <=> Newcomer(q)
      <4>1. ASSUME NEW i \in Old + 1 .. n + 1, running'[i] = q
            PROVE  i \in Old + 1 .. n /\ running[i] = q
        <5>1. i # n + 1
          BY <1>3, <2>2, <4>1
        <5>2. i \in Old + 1 .. n /\ i \in 1 .. n
          <6>1. Old >= 0
            BY <1>1, <2>1 DEF StepOK, Old, n
          <6> QED BY <1>1, <2>1, <4>1, <5>1, <6>1
        <5> QED BY <1>3, <4>1, <5>2
      <4>2. ASSUME NEW i \in Old + 1 .. n, running[i] = q
            PROVE  i \in Old + 1 .. n + 1 /\ running'[i] = q
        <5>1. Old >= 0
          BY <1>1, <2>1 DEF StepOK, Old, n
        <5>2. i \in 1 .. n /\ i \in Old + 1 .. n + 1
          BY <1>1, <2>1, <5>1
        <5> QED BY <1>3, <4>2, <5>2
      <4> QED BY <1>3, <2>1, <4>1, <4>2 DEF Newcomer, n
    <3>2. status'[q] = status[q] /\ computed'[q] = computed[q] /\ sched'[q] = sched[q]
          /\ NumTokens(q)' = NumTokens(q)
      BY <1>2, <1>4, <2>2 DEF NumTokens
    <3> QED BY <2>2, <3>1, <3>2 DEF Prefilling
  <2>3. Prefills' \in SUBSET (Prefills \cup {r})
    BY <2>2 DEF Prefills
  <2>4. Cardinality(Prefills) < Cap
    <3>1. PrefillsCounted \in Nat /\ Cardinality(Prefills) <= PrefillsCounted
      BY <1>1, PrefillsCountedAll
    <3> QED BY <1>2, <3>1, PrefillsFinite, ConstTypes DEF Gate
  <2>5. /\ IsFiniteSet(Prefills \cup {r}) /\ Cardinality(Prefills \cup {r}) \in Nat
        /\ Cardinality(Prefills \cup {r}) <= Cap
    <3>1. /\ IsFiniteSet(Prefills \cup {r})
          /\ Cardinality(Prefills \cup {r})
               = IF r \in Prefills THEN Cardinality(Prefills) ELSE Cardinality(Prefills) + 1
      BY PrefillsFinite, FS_AddElement
    <3> QED BY <2>4, <3>1, PrefillsFinite, ConstTypes
  <2>6. Cardinality(Prefills') <= Cardinality(Prefills \cup {r}) /\ IsFiniteSet(Prefills')
    BY <2>3, <2>5, FS_Subset
  <2>7. Cardinality(Prefills') \in Nat
    BY <2>6, FS_CardinalityType
  <2> QED BY <2>5, <2>6, <2>7, ConstTypes
<1> QED BY <1>6, <1>7 DEF PrefillInv

LEMMA FinishStepPrefills ==
    ASSUME IInv, IInv', CountInv, CountInv', PrefillInv, PromptsFit, FinishStep
    PROVE  PrefillInv'
<1> DEFINE f == [reqs |-> Scheduled, sampling |-> Sampling, spec |-> spec]
<1>1. /\ TypeOK /\ TypeOK' /\ StepOK /\ StepOK' /\ Scheduling /\ ~ Scheduling'
  <2>1. phase = "finish" /\ phase' = "idle"
    BY DEF FinishStep
  <2> QED BY <2>1 DEF IInv, CountInv, Scheduling
<1>2. /\ spec' = Zeros /\ admitted' = 0 /\ frames' = Append(frames, f)
      /\ UNCHANGED <<running, status, outputs>>
      /\ \A q \in Reqs : computed'[q] = computed[q] + sched[q]
  BY DEF FinishStep
<1>3. /\ Len(frames') = Len(frames) + 1 /\ frames'[Len(frames) + 1].spec = spec
      /\ \A i \in 1 .. Len(frames) : frames'[i] = frames[i]
      /\ Len(frames) \in Nat /\ frames' # <<>>
  <2>1. f \in Frame /\ frames \in Seq(Frame) /\ f.spec = spec
    BY <1>1 DEF TypeOK, Frame, Scheduled, Sampling
  <2> HIDE DEF f
  <2> QED BY <1>2, <2>1
<1>4. ASSUME NEW q \in Reqs PROVE DraftsFew(q)' /\ Steady(q)' /\ Cut(q)'
  <2>1. DraftsFew(q) /\ Steady(q) /\ Cut(q) /\ CountOf(q) /\ CountOf(q)'
    BY DEF PrefillInv, CountInv
  <2>2. DraftsFew(q)'
    <3>1. drafts'[q] <= SpecTokens
      <4>1. drafts'[q] = SpecTokens \/ drafts'[q] = drafts[q]
        BY DEF FinishStep, AsyncAfterSchedule
      <4>2. drafts[q] <= SpecTokens
        BY <2>1 DEF DraftsFew
      <4> QED BY <4>1, <4>2, ConstTypes
    <3>2. spec'[q] <= SpecTokens
      BY <1>2, ConstTypes DEF Zeros
    <3>3. ASSUME NEW i \in 1 .. Len(frames') PROVE frames'[i].spec[q] <= SpecTokens
      <4>1. CASE i = Len(frames) + 1
        BY <1>3, <2>1, <4>1 DEF DraftsFew
      <4>2. CASE i # Len(frames) + 1
        <5>1. i \in 1 .. Len(frames)
          BY <1>3, <4>2
        <5> QED BY <1>3, <2>1, <5>1 DEF DraftsFew
      <4> QED BY <4>1, <4>2
    <3> QED BY <3>1, <3>2, <3>3 DEF DraftsFew
  <2>3. Steady(q)'
    BY <1>1, SteadyAtRest
  <2>4. Cut(q)'
    <3> SUFFICES ASSUME status[q] = "running", chunk'[q], NEW i \in 1 .. Len(frames'),
                        q \in frames'[i].reqs \cap frames'[i].sampling
                 PROVE  computed'[q] - frames'[i].spec[q] >= Prompt[q]
      BY <1>2 DEF Cut
    <3>1. ~ LastSamples(q)'
      BY <1>2, <2>1 DEF CountOf, Chunked
    <3>2. i \in 1 .. Len(frames) /\ frames'[i] = frames[i]
      <4>1. i # Len(frames) + 1
        BY <1>3, <3>1 DEF LastSamples, LastHas
      <4> QED BY <1>3, <4>1
    <3> DEFINE d == frames[i].spec[q]
    <3>3. d \in Nat /\ d <= SpecTokens
      BY <1>1, <2>1, <3>2, FrameTypes DEF DraftsFew, Frame
    <3>4. Outstanding(q) >= 1 + d /\ LastSamples(q)
      <4>1. Len(frames) = 1 /\ i = 1
        <5> DEFINE n == Len(frames)
        <5>1. n \in Nat /\ n < Depth /\ Depth <= 2 /\ Depth \in Nat /\ i \in 1 .. n
          BY <1>1, <1>3, <3>2, DepthType DEF StepOK
        <5> HIDE DEF n
        <5>2. n = 1 /\ i = 1
          BY <5>1
        <5> QED BY <5>2 DEF n
      <4>2. frames # <<>>
        <5>1. Len(frames) # Len(<<>>)
          BY <4>1
        <5> QED BY <5>1
      <4>3. Reserve(1, q) = 1 + d
        BY <3>2, <4>1 DEF Reserve
      <4>4. Reserve(2, q) = 0
        BY <4>1 DEF Reserve
      <4> QED BY <3>2, <3>3, <4>1, <4>2, <4>3, <4>4 DEF Outstanding, LastSamples, LastHas
    <3>5. ~ chunk[q]
      BY <2>1, <3>4 DEF CountOf, Chunked
    <3>6. computed[q] = NumTokens(q) - 1 + Outstanding(q)
      BY <1>1, <2>1, <3>3, <3>4, <3>5, CountTypes DEF Steady
    <3>7. computed'[q] = computed[q] + sched[q] /\ (sched[q] < 0 => computed[q] + sched[q] = ModelLen - 1)
      BY <1>2, <2>1 DEF CountOf, Shared
    <3>8. Prompt[q] + SpecTokens < ModelLen
      BY DEF PromptsFit
    <3> HIDE DEF d
    <3>9. computed'[q] - d >= Prompt[q]
      <4>1. CASE sched[q] < 0
        BY <1>1, <3>3, <3>7, <3>8, <4>1, CountTypes, ConstTypes
      <4>2. CASE sched[q] >= 0
        BY <1>1, <3>3, <3>4, <3>6, <3>7, <4>2, CountTypes
      <4> QED BY <1>1, <4>1, <4>2, CountTypes
    <3> QED BY <3>2, <3>9 DEF d
  <2> QED BY <2>2, <2>3, <2>4
<1>5. Cardinality(Prefills)' <= Cap
  <2>1. ASSUME NEW q \in Reqs, Prefilling(q)' PROVE Prefilling(q)
    <3>1. ~ Newcomer(q)'
      BY <1>1, <1>2, NoNewcomersNext
    <3>2. status[q] = "running" /\ computed[q] + sched[q] < Prompt[q]
      BY <1>2, <2>1, <3>1 DEF Prefilling
    <3>3. computed[q] + sched[q] < NumTokens(q)
      BY <1>1, <3>2, CountTypes
    <3>4. computed[q] < Prompt[q]
      <4>1. CountOf(q) /\ Prompt[q] + SpecTokens < ModelLen
        BY DEF CountInv, PromptsFit
      <4>2. sched[q] < 0 => computed[q] + sched[q] = ModelLen - 1
        BY <4>1 DEF CountOf, Shared
      <4> QED BY <1>1, <3>2, <4>1, <4>2, CountTypes, ConstTypes
    <3> QED BY <3>2, <3>3, <3>4 DEF Prefilling
  <2> QED BY <2>1, FewerPrefills DEF PrefillInv
<1> QED BY <1>4, <1>5 DEF PrefillInv

LEMMA NoOutputPrefills ==
    ASSUME IInv, IInv', CountInv, CountInv', PrefillInv, NEW r \in Reqs, NoOutput(r)
    PROVE  PrefillInv'
<1>1. /\ Updating(r) /\ frames' = Taken(r) /\ phase' = phase
      /\ UNCHANGED <<status, computed, chunk, spec>>
      /\ drafts' = drafts \/ drafts' = [drafts EXCEPT ![r] = 0]
  BY DEF NoOutput, stepVars
<1>2. ~ Scheduling /\ ~ Scheduling' /\ TypeOK
  BY <1>1, UpdateFacts DEF Scheduling
<1>3. ASSUME NEW q \in Reqs PROVE DraftsFew(q)' /\ Steady(q)' /\ Cut(q)'
  <2>1. DraftsFew(q) /\ Cut(q) /\ FramesOf(q) /\ Steady(q)'
    BY <1>1, <1>2, FramesOfTaken, SteadyAtRest DEF PrefillInv
  <2>2. drafts'[q] <= SpecTokens /\ spec'[q] <= SpecTokens
    <3>1. drafts'[q] = drafts[q] \/ drafts'[q] = 0
      BY <1>1, <1>2 DEF TypeOK
    <3> QED BY <1>1, <2>1, <3>1, ConstTypes DEF DraftsFew
  <2> QED BY <1>1, <2>1, <2>2, SameRequest
<1>4. Cardinality(Prefills)' <= Cap
  BY <1>1, <1>2, FewerAtRest
<1> QED BY <1>3, <1>4 DEF PrefillInv

LEMMA OutputPrefills ==
    ASSUME IInv, IInv', CountInv, CountInv', PrefillInv, NEW r \in Reqs,
           NEW accepted \in 0 .. SpecTokens, Output(r, accepted)
    PROVE  PrefillInv'
<1> DEFINE drafted == frames[1].spec[r]
<1>1. /\ Updating(r) /\ frames' = Taken(r) /\ phase' = phase
      /\ r \in frames[1].reqs /\ r \in frames[1].sampling /\ accepted <= drafted
      /\ computed' = [computed EXCEPT ![r] = Rejected(@, drafted, accepted)]
      /\ drafts' = drafts \/ drafts' = [drafts EXCEPT ![r] = SpecTokens]
      /\ UNCHANGED <<status, chunk, spec>>
  BY DEF Output, Updating, stepVars
<1>2. ~ Scheduling /\ ~ Scheduling' /\ TypeOK /\ 1 \in 1 .. Len(frames)
      /\ StepOK' /\ Len(frames) \in Nat /\ Len(frames) <= Depth
  BY <1>1, UpdateFacts DEF Scheduling, CountInv
<1>3. drafted \in Nat /\ accepted \in Nat
  BY <1>1, TakenFrames
<1> HIDE DEF drafted
<1>4. \A q \in Reqs : computed'[q] = IF q = r THEN Rejected(computed[r], drafted, accepted)
                                     ELSE computed[q]
  BY <1>1, <1>2 DEF TypeOK
<1>5. ASSUME NEW q \in Reqs PROVE DraftsFew(q)' /\ Steady(q)' /\ Cut(q)'
  <2>1. DraftsFew(q) /\ Cut(q) /\ FramesOf(q) /\ Steady(q)'
    BY <1>1, <1>2, FramesOfTaken, SteadyAtRest DEF PrefillInv
  <2>2. drafts'[q] <= SpecTokens /\ spec'[q] <= SpecTokens
    <3>1. drafts'[q] = drafts[q] \/ drafts'[q] = SpecTokens
      BY <1>1, <1>2 DEF TypeOK
    <3> QED BY <1>1, <2>1, <3>1, ConstTypes DEF DraftsFew
  <2>3. CASE q # r
    BY <1>1, <1>4, <2>1, <2>2, <2>3, SameRequest
  <2>4. CASE q = r
    <3>1. DraftsFew(q)'
      <4>1. ASSUME NEW i \in 1 .. Len(frames') PROVE frames'[i].spec[q] <= SpecTokens
        <5>1. PICK k \in 1 .. Len(frames) : frames'[i].spec = frames[k].spec
          BY <2>1 DEF FramesOf
        <5> QED BY <2>1, <5>1 DEF DraftsFew
      <4> QED BY <2>2, <4>1 DEF DraftsFew
    <3>2. Cut(q)'
      <4> SUFFICES ASSUME status'[q] = "running", chunk'[q], NEW i \in 1 .. Len(frames'),
                          q \in frames'[i].reqs \cap frames'[i].sampling
                   PROVE  FALSE
        BY DEF Cut
      <4>1. i # 1
        BY <1>1, <2>4, FramesOfTaken
      <4>2. Len(frames') = Len(frames)
        BY <1>1, TakenFrames
      <4>3. i = Len(frames')
        <5> DEFINE n == Len(frames)
        <5>1. n \in Nat /\ n <= 2 /\ i \in 1 .. n /\ i # 1
          BY <1>2, <4>1, <4>2, DepthType
        <5> HIDE DEF n
        <5>2. i = n
          BY <5>1
        <5> QED BY <4>2, <5>2 DEF n
      <4>4. frames' # <<>>
        BY <1>2, <4>2
      <4>5. LastSamples(q)'
        BY <4>3, <4>4 DEF LastSamples, LastHas
      <4>6. Chunked(q)'
        BY DEF CountInv, CountOf
      <4> QED BY <4>5, <4>6 DEF Chunked
    <3> QED BY <2>1, <3>1, <3>2
  <2> QED BY <2>3, <2>4
<1>6. ASSUME NEW q \in Reqs, status'[q] = "running", computed'[q] < Prompt[q]
      PROVE  computed[q] < Prompt[q]
  <2>1. CASE q # r
    BY <1>4, <1>6, <2>1
  <2>2. CASE q = r
    <3> SUFFICES ASSUME ~ (computed[r] < Prompt[r]) PROVE FALSE
      BY <2>2
    <3>1. computed[r] \in Int /\ Prompt[r] \in Nat /\ Prompt[r] >= 1
      BY <1>2, CountTypes
    <3>2. computed'[r] = computed[r] - (drafted - accepted)
      BY <1>4, <3>1 DEF Rejected
    <3>3. CASE chunk[r]
      <4>1. computed[r] - drafted >= Prompt[r]
        BY <1>1, <1>2, <1>6, <2>2, <3>3 DEF PrefillInv, Cut, drafted
      <4> QED BY <1>3, <1>6, <2>2, <3>1, <3>2, <4>1
    <3>4. CASE ~ chunk[r]
      <4>1. CountOf(r)' /\ sched'[r] = 0
        BY <1>2 DEF CountInv, StepOK
      <4>2. computed'[r] >= Prompt[r]
        BY <1>1, <1>6, <2>2, <3>4, <4>1 DEF CountOf, Decoding
      <4> QED BY <1>3, <1>6, <2>2, <3>1, <3>2, <4>2
    <3> QED BY <3>3, <3>4
  <2> QED BY <2>1, <2>2
<1>7. Cardinality(Prefills)' <= Cap
  BY <1>1, <1>2, <1>6, FewerAtRest
<1> QED BY <1>5, <1>7 DEF PrefillInv

LEMMA FreePrefills ==
    ASSUME IInv, IInv', CountInv, CountInv', PrefillInv, NEW r \in Reqs, Free(r),
           ~ Scheduling, ~ Scheduling', spec' = spec, \A q \in Reqs : FramesOf(q)
    PROVE  PrefillInv'
<1>1. TypeOK
  BY DEF IInv
<1>2. \A q \in Reqs : /\ drafts'[q] = drafts[q] \/ drafts'[q] = 0
                      /\ status'[q] = "running" => status[q] = "running" /\ chunk'[q] = chunk[q]
                                                   /\ computed'[q] = computed[q]
  BY <1>1 DEF Free, TypeOK
<1>3. ASSUME NEW q \in Reqs PROVE DraftsFew(q)' /\ Steady(q)' /\ Cut(q)'
  <2>1. DraftsFew(q) /\ Cut(q) /\ Steady(q)'
    BY SteadyAtRest DEF PrefillInv
  <2>2. drafts'[q] <= SpecTokens /\ spec'[q] <= SpecTokens
    BY <1>2, <2>1, ConstTypes DEF DraftsFew
  <2> QED BY <1>2, <2>1, <2>2, SameRequest
<1>4. Cardinality(Prefills)' <= Cap
  BY <1>2, FewerAtRest
<1> QED BY <1>3, <1>4 DEF PrefillInv

LEMMA AbortPrefills ==
    ASSUME IInv, IInv', CountInv, CountInv', PrefillInv, NEW r \in Reqs, Abort(r)
    PROVE  PrefillInv'
<1>1. Free(r) /\ ~ Scheduling /\ ~ Scheduling' /\ spec' = spec /\ frames' = frames
  BY DEF Abort, Scheduling, stepVars
<1>2. \A q \in Reqs : FramesOf(q)
  BY <1>1, FramesOfSame
<1> QED BY <1>1, <1>2, FreePrefills

LEMMA StopPrefills ==
    ASSUME IInv, IInv', CountInv, CountInv', PrefillInv, NEW r \in Reqs, Stop(r)
    PROVE  PrefillInv'
<1>1. Free(r) /\ ~ Scheduling /\ ~ Scheduling' /\ spec' = spec /\ frames' = Taken(r) /\ Updating(r)
  BY DEF Stop, Updating, Scheduling, stepVars
<1>2. \A q \in Reqs : FramesOf(q)
  BY <1>1, FramesOfTaken
<1> QED BY <1>1, <1>2, FreePrefills

LEMMA EndUpdatePrefills ==
    ASSUME IInv, IInv', CountInv, CountInv', PrefillInv, EndUpdate
    PROVE  PrefillInv'
<1>1. /\ UNCHANGED <<status, computed, drafts, chunk, spec>>
      /\ ~ Scheduling /\ ~ Scheduling' /\ frames' = Tail(frames) /\ phase = "update"
  BY DEF EndUpdate, Scheduling, reqVars, stepVars
<1>2. frames \in Seq(Frame) /\ frames # <<>>
  BY <1>1, FrameTypes DEF IInv, UpdateHasFrame
<1>3. /\ Len(frames') = Len(frames) - 1 /\ Len(frames) \in Nat
      /\ \A i \in 1 .. Len(frames') : frames'[i] = frames[i + 1]
  BY <1>1, <1>2
<1>4. ASSUME NEW q \in Reqs PROVE DraftsFew(q)' /\ Steady(q)' /\ Cut(q)'
  <2>1. DraftsFew(q) /\ Cut(q) /\ Steady(q)'
    BY <1>1, SteadyAtRest DEF PrefillInv
  <2>2. FramesOf(q)
    <3>1. ASSUME NEW i \in 1 .. Len(frames')
          PROVE  i + 1 \in 1 .. Len(frames) /\ frames'[i] = frames[i + 1]
      BY <1>3
    <3> QED BY <3>1 DEF FramesOf
  <2>3. drafts'[q] <= SpecTokens /\ spec'[q] <= SpecTokens
    BY <1>1, <2>1 DEF DraftsFew
  <2> QED BY <1>1, <2>1, <2>2, <2>3, SameRequest
<1>5. Cardinality(Prefills)' <= Cap
  BY <1>1, FewerAtRest
<1> QED BY <1>4, <1>5 DEF PrefillInv

LEMMA ArrivePrefills ==
    ASSUME IInv, IInv', CountInv, CountInv', PrefillInv, NEW r \in Reqs, Arrive(r)
    PROVE  PrefillInv'
<1>1. /\ UNCHANGED <<computed, drafts, chunk, spec, frames>>
      /\ ~ Scheduling /\ ~ Scheduling' /\ status' = [status EXCEPT ![r] = "waiting"] /\ TypeOK
  BY DEF Arrive, Scheduling, stepVars, IInv
<1>2. \A q \in Reqs : status'[q] = "running" => status[q] = "running"
  BY <1>1 DEF TypeOK
<1>3. ASSUME NEW q \in Reqs PROVE DraftsFew(q)' /\ Steady(q)' /\ Cut(q)'
  <2>1. DraftsFew(q) /\ Cut(q) /\ FramesOf(q) /\ Steady(q)'
    BY <1>1, FramesOfSame, SteadyAtRest DEF PrefillInv
  <2>2. drafts'[q] <= SpecTokens /\ spec'[q] <= SpecTokens
    BY <1>1, <2>1 DEF DraftsFew
  <2> QED BY <1>1, <1>2, <2>1, <2>2, SameRequest
<1>4. Cardinality(Prefills)' <= Cap
  BY <1>1, <1>2, FewerAtRest
<1> QED BY <1>3, <1>4 DEF PrefillInv

LEMMA InitPrefills == Init => PrefillInv
<1> SUFFICES ASSUME Init PROVE PrefillInv
  OBVIOUS
<1>1. IInv
  BY InitInv
<1>2. frames = <<>> /\ Len(frames) = 0
  BY DEF Init
<1>3. ASSUME NEW q \in Reqs PROVE DraftsFew(q) /\ Steady(q) /\ Cut(q) /\ ~ Prefilling(q)
  <2>1. status[q] = "new" /\ drafts[q] = 0 /\ spec[q] = 0
    BY DEF Init, Zeros
  <2> QED BY <1>2, <2>1, ConstTypes DEF DraftsFew, Steady, Cut, Prefilling
<1>4. Prefills = {}
  BY <1>3 DEF Prefills
<1>5. Cardinality(Prefills) <= Cap
  BY <1>4, FS_EmptySet, SchedulerAssumption
<1> QED BY <1>3, <1>5 DEF PrefillInv

LEMMA NextPrefills ==
    PromptsFit => (PrefillInv /\ (IInv /\ CountInv) /\ (IInv /\ CountInv)' /\ [Next]_vars
                       => PrefillInv')
<1> SUFFICES ASSUME PromptsFit, PrefillInv, IInv, IInv', CountInv, CountInv', [Next]_vars
             PROVE  PrefillInv'
  OBVIOUS
<1>1. CASE BeginStep \/ SkipRunning \/ PickRunning \/ EndRunning \/ EndWaiting \/ BeginUpdate
           \/ UNCHANGED vars
  BY <1>1, LoopStepsPrefills
<1>2. CASE ScheduleRunning
  BY <1>2, ScheduleRunningPrefills
<1>3. CASE Preempt
  BY <1>3, PreemptPrefills
<1>4. ASSUME NEW hit \in 0 .. ModelLen, Admit(hit) PROVE PrefillInv'
  BY <1>4, AdmitPrefills
<1>5. CASE FinishStep
  BY <1>5, FinishStepPrefills
<1>6. CASE EndUpdate
  BY <1>6, EndUpdatePrefills
<1>7. ASSUME NEW r \in Reqs, NoOutput(r) PROVE PrefillInv'
  BY <1>7, NoOutputPrefills
<1>8. ASSUME NEW r \in Reqs, Stop(r) PROVE PrefillInv'
  BY <1>8, StopPrefills
<1>9. ASSUME NEW r \in Reqs, NEW n \in 0 .. SpecTokens, Output(r, n) PROVE PrefillInv'
  BY <1>9, OutputPrefills
<1>10. ASSUME NEW r \in Reqs, Arrive(r) PROVE PrefillInv'
  BY <1>10, ArrivePrefills
<1>11. ASSUME NEW r \in Reqs, Abort(r) PROVE PrefillInv'
  BY <1>11, AbortPrefills
<1> QED
  BY <1>1, <1>2, <1>3, <1>4, <1>5, <1>6, <1>7, <1>8, <1>9, <1>10, <1>11
     DEF Next, Schedule, UpdateFromOutput

(* Between two steps at most Cap running requests have prompt tokens left,  *)
(* although the gate counts new requests otherwise than old ones and later  *)
(* rejections lower what was computed: provided every prompt and the drafts *)
(* of a step stay below the model length.                                   *)
THEOREM GateHolds == PromptsFit => (Spec => []PrefillsCapped)
<1>1. PrefillInv /\ (IInv /\ CountInv) => PrefillsCapped
  <2> SUFFICES ASSUME PrefillInv, IInv, CountInv, phase = "idle"
               PROVE  Cardinality({r \in Range(running) : computed[r] < Prompt[r]}) <= Cap
    BY DEF PrefillsCapped
  <2>1. admitted = 0 /\ TypeOK
    BY DEF IInv, CountInv, StepOK, Scheduling
  <2>2. Range(running) = {r \in Reqs : status[r] = "running"}
    BY OrderOfQueues DEF IInv, FirstComeFirstServed
  <2>3. {r \in Range(running) : computed[r] < Prompt[r]} = Prefills
    BY <2>1, <2>2, NoNewcomers DEF Prefills, Prefilling
  <2> QED BY <2>3 DEF PrefillInv
<1>2. ASSUME PromptsFit PROVE Spec => []PrefillsCapped
  <2>1. PrefillInv /\ (IInv /\ CountInv) /\ (IInv /\ CountInv)' /\ [Next]_vars => PrefillInv'
    BY <1>2, NextPrefills
  <2> QED BY <1>1, <2>1, InitPrefills, CountsKept, PTL DEF Spec
<1> QED BY <1>2
=============================================================================
