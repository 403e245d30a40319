-------------------------- MODULE ApiServerProofs --------------------------
(***************************************************************************)
(* Proofs about what the hotfixes add to the API server.  First the store  *)
(* of the Responses API, for any number of responses, readers and          *)
(* entries: the bound on what is retained, the integrity of what is, the   *)
(* pins of continuations, the finality of a cancellation, and readers that *)
(* miss nothing.  Then the streaming DSML parser, for any texts and any    *)
(* deltas: up to the events of the engines, the reasoning pass, the        *)
(* hand-over and what is held back lose nothing of what the model said;    *)
(* and, for deltas that are tidy while reasoning goes on, the events are   *)
(* those of one machine, without a call that is not complete and declared. *)
(***************************************************************************)
EXTENDS ResponsesStore, DsmlRecovery, SequenceTheorems, FiniteSetTheorems,
        WellFoundedInduction, TLAPS

-----------------------------------------------------------------------------
(* The invariant *)

ReadersOK(rs) ==
    /\ rs \in [Readers -> [st : {"idle", "clear", "yielded", "waiting", "ended"},
                           id : Ids \cup {NoId}, idx : Nat]]
    /\ \A r \in Readers : rs[r].st # "idle" => rs[r].id \in Ids

TypeOK ==
    /\ pc \in [Ids -> {"new", "rendering", "ready", "lazy", "generating", "stored", "over"}]
    /\ mode \in [Ids -> AllModes \cup {"none"}]
    /\ prev \in [Ids -> Ids \cup {NoId}]
    /\ store \subseteq Ids /\ msgs \subseteq Ids /\ events \subseteq Ids /\ tasks \subseteq Ids
    /\ order \subseteq Ids \X Ids
    /\ status \in [Ids -> {"none", "queued", "completed", "cancelled", "failed"}]
    /\ pins \in [Ids -> Nat]
    /\ run \in [Ids -> {"none", "running", "finished", "ended", "cancelled"}]
    /\ log \in [Ids -> Nat]
    /\ final \in [Ids -> BOOLEAN] /\ done \in [Ids -> BOOLEAN] /\ sig \in [Ids -> BOOLEAN]
    /\ ReadersOK(reader)

\* ord orders the keys: a strict total order.
Orders(ord, keys) ==
    /\ \A i \in keys : <<i, i>> \notin ord
    /\ \A i, j \in keys : i # j => <<i, j>> \in ord \/ <<j, i>> \in ord
    /\ \A i, j, l \in keys : <<i, j>> \in ord /\ <<j, l>> \in ord => <<i, l>> \in ord

\* What the handler of a request has reached says what there is of it.
LifeOf(i) ==
    /\ pc[i] = "new" => prev[i] = NoId
    /\ pc[i] # "over" => run[i] = "none" /\ i \notin tasks /\ ~ done[i] /\ ~ final[i]
    /\ pc[i] = "lazy" => mode[i] = "stream"
    /\ pc[i] \notin {"stored", "over"} => i \notin store
    /\ pc[i] \in {"new", "rendering", "ready", "lazy"} => i \notin msgs
    /\ pc[i] = "generating" /\ mode[i] # "transient" => i \in msgs
    /\ mode[i] = "transient" /\ pc[i] # "new" => i \notin msgs /\ i \notin store
    /\ run[i] # "none" => i \in tasks
    /\ done[i] \/ final[i] => run[i] # "running"

Life == \A i \in Ids : LifeOf(i)

\* The handlers that hold a pin on p.
Holders(p) == {i \in Ids : pc[i] = "rendering" /\ prev[i] = p}

PinsCounted == \A p \in Ids : pins[p] = Cardinality(Holders(p))

PinsKeep == \A h \in Ids : pc[h] = "rendering" /\ prev[h] # NoId => prev[h] \in store

StoreInv ==
    /\ TypeOK /\ Orders(order, store) /\ Life /\ BundlesWhole
    /\ PinsCounted /\ PinsKeep /\ StoreBounded

-----------------------------------------------------------------------------
(* The order of use *)

LEMMA TouchedOrders ==
    ASSUME Orders(order, store), NEW i
    PROVE  Orders(Touched(i), store \cup {i})
<1> QED BY DEF Orders, Touched

LEMMA TouchedSame ==
    ASSUME Orders(order, store), NEW i \in store
    PROVE  Orders(Touched(i), store)
<1> QED BY TouchedOrders DEF Orders

\* A finite set that is not empty has a first element in the order.
LEMMA FirstElement ==
    ASSUME NEW K, IsFiniteSet(K), K # {}, NEW ord, Orders(ord, K)
    PROVE  \E x \in K : \A y \in K \ {x} : <<x, y>> \in ord
<1> DEFINE Before(x) == {y \in K : <<y, x>> \in ord}
           R == StrictSubsetOrdering(K)
           T == {Before(x) : x \in K}
<1>1. IsWellFoundedOn(R, SUBSET K)
  BY FS_StrictSubsetOrderingWellFounded, FS_FiniteSubsetsOfFinite
<1>2. T \subseteq SUBSET K /\ T # {} OBVIOUS
<1>3. PICK S \in T : \A U \in T : ~ (<<U, S>> \in R)
  <2> HIDE DEF R, T
  <2> QED BY <1>1, <1>2, WFMin
<1>4. PICK x \in K : S = Before(x) OBVIOUS
<1>5. Before(x) = {}
  <2> SUFFICES ASSUME NEW y \in Before(x) PROVE FALSE OBVIOUS
  <2>1. Before(y) \subseteq Before(x) BY DEF Orders
  <2>2. y \notin Before(y) BY DEF Orders
  <2>3. <<Before(y), Before(x)>> \in R BY <2>1, <2>2 DEF StrictSubsetOrdering
  <2> QED BY <2>3, <1>3, <1>4
<1> QED BY <1>5 DEF Orders

-----------------------------------------------------------------------------
(* Eviction *)

LEMMA Sizes ==
    ASSUME NEW S, S \subseteq Ids
    PROVE  IsFiniteSet(S) /\ Cardinality(S) \in Nat
<1> QED BY StoreAssumption, FS_Subset, FS_CardinalityType

LEMMA EvictableTerminal == \A i : Evictable(i) <=> Terminal(i)'
<1> QED BY DEF Evictable, Terminal

\* What eviction leaves of the invariant, whatever else the step does: a
\* producer keeps its response, and a pin the one it is on.
LEMMA Evicting ==
    ASSUME NEW keys, keys \subseteq Ids, NEW ord, Orders(ord, keys), ord \subseteq Ids \X Ids,
           NEW m, NEW e, keys \subseteq m, m \subseteq Ids, e \subseteq keys,
           Evict(keys, ord, m, e),
           tasks' \subseteq keys, PinsCounted',
           \A h \in Ids : pc'[h] = "rendering" /\ prev'[h] # NoId => prev'[h] \in keys,
           \A i \in m \ keys : pc'[i] \in {"generating", "stored"}
    PROVE  /\ Orders(order, store)' /\ BundlesWhole' /\ PinsKeep' /\ StoreBounded'
           /\ store' \subseteq keys /\ events' \subseteq e /\ order' \subseteq Ids \X Ids
           /\ msgs' \subseteq m /\ msgs' \ store' = m \ keys
<1> DEFINE gone == Excess(keys, ord)
           K == {i \in store' : Evictable(i)}
<1>1. gone \subseteq keys /\ \A i \in gone : Evictable(i) BY DEF Excess
<1>2. /\ store' = keys \ gone
      /\ order' = {p \in ord : p[1] \notin gone /\ p[2] \notin gone}
      /\ msgs' = m \ gone /\ events' = e \ gone
  BY DEF Evict
<1> HIDE DEF gone
<1>3. Orders(order', store')
  <2>1. \A i, j \in store' : <<i, j>> \in order' <=> <<i, j>> \in ord BY <1>2
  <2>2. store' \subseteq keys BY <1>2
  <2> QED BY <2>1, <2>2 DEF Orders
<1>4. Cardinality(K) <= MaxEntries
  <2>1. K \subseteq Ids BY <1>2
  <2>2. CASE K = {} BY <2>2, FS_EmptySet, StoreAssumption
  <2>3. CASE K # {}
    <3>1. Orders(ord, K) BY <1>2 DEF Orders
    <3>2. PICK x \in K : \A y \in K \ {x} : <<x, y>> \in ord
      <4> HIDE DEF K
      <4>1. IsFiniteSet(K) BY <2>1, Sizes
      <4> QED BY <2>1, <2>3, <3>1, <4>1, FirstElement
    <3> DEFINE Later == {j \in keys : Evictable(j) /\ <<x, j>> \in ord}
    <3>3. K \ {x} \subseteq Later BY <3>2, <1>2
    <3>4. ~ (Cardinality(Later) >= MaxEntries) BY <1>2 DEF gone, Excess
    <3>5. Later \subseteq Ids OBVIOUS
    <3>6. Cardinality(K \ {x}) <= Cardinality(Later) BY <3>3, <3>5, Sizes, FS_Subset
    <3>7. Cardinality(K \ {x}) = Cardinality(K) - 1 BY <2>1, Sizes, FS_RemoveElement
    <3>8. Cardinality(K) \in Nat /\ Cardinality(Later) \in Nat /\ MaxEntries \in Nat
      BY <2>1, <3>5, Sizes, StoreAssumption
    <3> QED BY <3>4, <3>6, <3>7, <3>8
  <2> QED BY <2>2, <2>3
<1>5. StoreBounded' BY <1>4, EvictableTerminal DEF StoreBounded
<1>6. \A i \in keys \ store' : pins'[i] = 0 /\ i \notin tasks' BY <1>1, <1>2 DEF Evictable
<1>7. ASSUME NEW h \in Ids, pc'[h] = "rendering", prev'[h] # NoId PROVE prev'[h] \in store'
  <2>1. PICK p \in keys : p = prev'[h] BY <1>7
  <2>2. Holders(p)' \subseteq Ids /\ h \in Holders(p)' BY <1>7, <2>1 DEF Holders
  <2>3. Cardinality(Holders(p)') # 0 BY <2>2, Sizes, FS_EmptySet
  <2>4. pins'[p] # 0 BY <2>3 DEF PinsCounted
  <2> QED BY <2>1, <2>4, <1>6
<1>8. PinsKeep' BY <1>7 DEF PinsKeep
<1>9. BundlesWhole' BY <1>1, <1>2, <1>6 DEF BundlesWhole
<1> QED BY <1>1, <1>2, <1>3, <1>5, <1>8, <1>9

-----------------------------------------------------------------------------
(* Steps that evict nothing *)

LEMMA StoreInit == Init => StoreInv
<1> SUFFICES ASSUME Init PROVE StoreInv OBVIOUS
<1>1. TypeOK BY DEF Init, TypeOK, ReadersOK, Idle
<1>2. Orders(order, store) /\ Life /\ BundlesWhole
  BY DEF Init, Orders, Life, LifeOf, BundlesWhole
<1>3. \A p \in Ids : Holders(p) = {} BY DEF Init, Holders
<1>4. PinsCounted /\ PinsKeep BY <1>3, FS_EmptySet DEF Init, PinsCounted, PinsKeep
<1>5. StoreBounded
  <2>1. {i \in store : Terminal(i)} = {} BY DEF Init
  <2> QED BY <2>1, FS_EmptySet, StoreAssumption DEF StoreBounded
<1> QED BY <1>1, <1>2, <1>4, <1>5 DEF StoreInv

LEMMA WokenOK == ASSUME ReadersOK(reader), NEW i PROVE ReadersOK(Woken(i))
<1> QED BY DEF ReadersOK, Woken

LEMMA QuietStore ==
    ASSUME StoreInv, UNCHANGED <<prev, store, status, pins, tasks>>,
           \A i \in Ids : pc'[i] = "rendering" <=> pc[i] = "rendering"
    PROVE  PinsCounted' /\ PinsKeep' /\ StoreBounded'
<1>1. \A p : Holders(p)' = Holders(p) BY DEF Holders
<1>2. \A i : Terminal(i)' = Terminal(i) BY DEF Terminal
<1> QED BY <1>1, <1>2 DEF StoreInv, PinsCounted, PinsKeep, StoreBounded

LEMMA GiveUpInv == ASSUME StoreInv, NEW i \in Ids, GiveUp(i) PROVE StoreInv'
<1>1. TypeOK' BY DEF StoreInv, TypeOK, GiveUp, stores, streams
<1>2. Life' /\ BundlesWhole' /\ Orders(order, store)'
  BY DEF StoreInv, TypeOK, GiveUp, stores, streams, Life, LifeOf, BundlesWhole
<1>3. PinsCounted' /\ PinsKeep' /\ StoreBounded' BY QuietStore DEF GiveUp, stores, StoreInv, TypeOK
<1> QED BY <1>1, <1>2, <1>3 DEF StoreInv

LEMMA LaunchForegroundInv == ASSUME StoreInv, NEW i \in Ids, LaunchForeground(i) PROVE StoreInv'
<1>1. TypeOK' BY DEF StoreInv, TypeOK, LaunchForeground, RetainedNow, streams
<1>2. Life' /\ BundlesWhole' /\ Orders(order, store)'
  BY DEF StoreInv, TypeOK, LaunchForeground, RetainedNow, streams, Life, LifeOf, BundlesWhole
<1>3. PinsCounted' /\ PinsKeep' /\ StoreBounded' BY QuietStore DEF LaunchForeground, StoreInv, TypeOK
<1> QED BY <1>1, <1>2, <1>3 DEF StoreInv

LEMMA StartStreamInv == ASSUME StoreInv, NEW i \in Ids, StartStream(i) PROVE StoreInv'
<1>1. TypeOK' BY DEF StoreInv, TypeOK, StartStream, streams
<1>2. Life' /\ BundlesWhole' /\ Orders(order, store)'
  BY DEF StoreInv, TypeOK, StartStream, streams, Life, LifeOf, BundlesWhole
<1>3. PinsCounted' /\ PinsKeep' /\ StoreBounded' BY QuietStore DEF StartStream, StoreInv, TypeOK
<1> QED BY <1>1, <1>2, <1>3 DEF StoreInv

LEMMA ForegroundEndInv == ASSUME StoreInv, NEW i \in Ids, ForegroundEnd(i) PROVE StoreInv'
<1>1. TypeOK' BY DEF StoreInv, TypeOK, ForegroundEnd, streams
<1>2. Life' /\ BundlesWhole' /\ Orders(order, store)'
  BY DEF StoreInv, TypeOK, ForegroundEnd, streams, Life, LifeOf, BundlesWhole
<1>3. PinsCounted' /\ PinsKeep' /\ StoreBounded' BY QuietStore DEF ForegroundEnd, StoreInv, TypeOK
<1> QED BY <1>1, <1>2, <1>3 DEF StoreInv

LEMMA RetrieveInv == ASSUME StoreInv, NEW i \in Ids, Retrieve(i) PROVE StoreInv'
<1>1. TypeOK' BY StoreAssumption DEF StoreInv, TypeOK, ReadersOK, Retrieve, Touched, streams
<1>2. Orders(order, store)' BY TouchedSame DEF Retrieve, StoreInv
<1>3. Life' /\ BundlesWhole' BY DEF StoreInv, Retrieve, streams, Life, LifeOf, BundlesWhole
<1>4. PinsCounted' /\ PinsKeep' /\ StoreBounded' BY QuietStore DEF Retrieve
<1> QED BY <1>1, <1>2, <1>3, <1>4 DEF StoreInv

LEMMA ProduceInv == ASSUME StoreInv, NEW i \in Ids, Produce(i) PROVE StoreInv'
<1>1. TypeOK' BY WokenOK DEF StoreInv, TypeOK, Produce, Signal, stores
<1>2. Life' /\ BundlesWhole' /\ Orders(order, store)'
  BY DEF StoreInv, Produce, stores, Life, LifeOf, BundlesWhole
<1>3. PinsCounted' /\ PinsKeep' /\ StoreBounded' BY QuietStore DEF Produce, stores
<1> QED BY <1>1, <1>2, <1>3 DEF StoreInv

LEMMA TaskEndsInv == ASSUME StoreInv, NEW i \in Ids, TaskEnds(i) PROVE StoreInv'
<1>0. PICK how \in {"ended", "cancelled"} : run' = [run EXCEPT ![i] = how] BY DEF TaskEnds
<1>1. TypeOK'
  <2>1. CASE mode[i] = "live"
    <3>1. reader' = Woken(i) /\ sig' = [sig EXCEPT ![i] = TRUE]
      BY <2>1 DEF TaskEnds, Signal
    <3>2. ReadersOK(reader') BY <3>1, WokenOK DEF StoreInv, TypeOK
    <3> QED BY <1>0, <3>1, <3>2 DEF StoreInv, TypeOK, TaskEnds, stores
  <2>2. CASE mode[i] # "live"
    BY <1>0, <2>2 DEF StoreInv, TypeOK, TaskEnds, stores
  <2> QED BY <2>1, <2>2
<1>2. Life' BY <1>0 DEF StoreInv, TypeOK, TaskEnds, stores, Life, LifeOf
<1>3. BundlesWhole' /\ Orders(order, store)' BY DEF StoreInv, TaskEnds, stores, BundlesWhole
<1>4. PinsCounted' /\ PinsKeep' /\ StoreBounded' BY QuietStore DEF TaskEnds, stores
<1> QED BY <1>1, <1>2, <1>3, <1>4 DEF StoreInv

LEMMA ReaderInv ==
    ASSUME StoreInv, NEW r \in Readers, ReadFromClear(r) \/ ReadOn(r) \/ Leave(r)
    PROVE  StoreInv'
<1>0. UNCHANGED <<pc, mode, prev, stores, status, pins, tasks, run, log, final, done>>
  BY DEF ReadFromClear, ReadOn, Leave, streams
<1>1. TypeOK'
  <2>0. reader[r].st # "idle" => reader[r].id \in Ids BY DEF StoreInv, TypeOK, ReadersOK
  <2>1. CASE ReadFromClear(r)
    BY <1>0, <2>0, <2>1 DEF StoreInv, TypeOK, ReadersOK, ReadFromClear, AfterScan, stores
  <2>2. CASE ReadOn(r)
    BY <1>0, <2>0, <2>2 DEF StoreInv, TypeOK, ReadersOK, ReadOn, AfterScan, stores, streams
  <2>3. CASE Leave(r)
    BY <1>0, <2>3 DEF StoreInv, TypeOK, ReadersOK, Leave, Idle, stores, streams
  <2> QED BY <2>1, <2>2, <2>3
<1>2. Life' /\ BundlesWhole' /\ Orders(order, store)'
  BY <1>0 DEF StoreInv, stores, Life, LifeOf, BundlesWhole
<1>3. PinsCounted' /\ PinsKeep' /\ StoreBounded' BY <1>0, QuietStore DEF stores
<1> QED BY <1>1, <1>2, <1>3 DEF StoreInv

LEMMA CreateInv == ASSUME StoreInv, NEW i \in Ids, Create(i) PROVE StoreInv'
<1>0. /\ pc[i] = "new" /\ prev[i] = NoId /\ \A p \in Ids : i \notin Holders(p)
      /\ i \notin store /\ i \notin msgs
      /\ UNCHANGED <<store, status, msgs, events, tasks, run, streams, reader>>
  BY DEF Create, StoreInv, Life, LifeOf, Holders
<1>m. PICK m \in Modes : mode' = [mode EXCEPT ![i] = m] BY DEF Create
<1>1. CASE /\ pc' = [pc EXCEPT ![i] = "rendering"] \/ pc' = [pc EXCEPT ![i] = "over"]
           /\ UNCHANGED <<prev, store, order, pins>>
  <2>1. TypeOK' BY <1>0, <1>m, <1>1, StoreAssumption DEF StoreInv, TypeOK, streams
  <2>2. Life' /\ BundlesWhole' /\ Orders(order, store)'
    BY <1>0, <1>m, <1>1 DEF StoreInv, TypeOK, streams, Life, LifeOf, BundlesWhole
  <2>3. \A p \in Ids : Holders(p)' = Holders(p)
    BY <1>0, <1>1, StoreAssumption DEF Holders, StoreInv, TypeOK
  <2>4. \A j : Terminal(j)' = Terminal(j) BY <1>0, <1>1 DEF Terminal
  <2>5. PinsCounted' /\ PinsKeep' /\ StoreBounded'
    BY <2>3, <2>4, <1>0, <1>1 DEF StoreInv, TypeOK, PinsCounted, PinsKeep, StoreBounded
  <2> QED BY <2>1, <2>2, <2>5 DEF StoreInv
<1>2. ASSUME NEW p \in store,
             pc' = [pc EXCEPT ![i] = "rendering"], prev' = [prev EXCEPT ![i] = p],
             order' = Touched(p), pins' = [pins EXCEPT ![p] = @ + 1]
      PROVE  StoreInv'
  <2>p. p \in Ids BY DEF StoreInv, TypeOK
  <2>1. TypeOK' BY <1>0, <1>m, <1>2, <2>p, StoreAssumption DEF StoreInv, TypeOK, streams, Touched
  <2>2. Orders(order, store)' BY <1>0, <1>2, TouchedSame DEF StoreInv
  <2>3. Life' /\ BundlesWhole'
    BY <1>0, <1>m, <1>2 DEF StoreInv, TypeOK, streams, Life, LifeOf, BundlesWhole
  <2>4. Holders(p)' = Holders(p) \cup {i} /\ \A q \in Ids : q # p => Holders(q)' = Holders(q)
    BY <1>0, <1>2, <2>p DEF Holders, StoreInv, TypeOK
  <2>5. Cardinality(Holders(p)') = Cardinality(Holders(p)) + 1
    <3>1. Holders(p) \subseteq Ids BY DEF Holders
    <3> QED BY <3>1, <2>4, <2>p, <1>0, Sizes, FS_AddElement
  <2>6. PinsCounted' /\ PinsKeep'
    BY <1>0, <1>2, <2>p, <2>4, <2>5 DEF StoreInv, TypeOK, PinsCounted, PinsKeep
  <2>7. StoreBounded'
    <3> DEFINE Old == {j \in store : Terminal(j)}
               New == {j \in store' : Terminal(j)'}
    <3>1. New \subseteq Old BY <1>0, <1>2, <2>p DEF Terminal, StoreInv, TypeOK
    <3>2. Old \subseteq Ids /\ New \subseteq Ids BY <1>0 DEF StoreInv, TypeOK
    <3>3. Cardinality(New) <= Cardinality(Old) BY <3>1, <3>2, Sizes, FS_Subset
    <3>4. Cardinality(New) \in Nat /\ Cardinality(Old) \in Nat /\ MaxEntries \in Nat
      BY <3>2, Sizes, StoreAssumption
    <3>5. Cardinality(Old) <= MaxEntries BY DEF StoreInv, StoreBounded
    <3> QED BY <3>3, <3>4, <3>5 DEF StoreBounded
  <2> QED BY <2>1, <2>2, <2>3, <2>6, <2>7 DEF StoreInv
<1> QED BY <1>1, <1>2 DEF Create

-----------------------------------------------------------------------------
(* Steps that evict *)

LEMMA SamePins ==
    ASSUME StoreInv, UNCHANGED <<prev, pins>>,
           \A i \in Ids : pc'[i] = "rendering" <=> pc[i] = "rendering"
    PROVE  PinsCounted' /\ \A h \in Ids : pc'[h] = "rendering" /\ prev'[h] # NoId => prev'[h] \in store
<1>1. \A p : Holders(p)' = Holders(p) BY DEF Holders
<1> QED BY <1>1 DEF StoreInv, PinsCounted, PinsKeep

LEMMA RenderedInv == ASSUME StoreInv, NEW i \in Ids, Rendered(i) PROVE StoreInv'
<1>n. PICK next \in {"ready", "over"} : pc' = [pc EXCEPT ![i] = next] BY DEF Rendered
<1>0. /\ pc[i] = "rendering" /\ i \notin store /\ i \notin msgs /\ Release(i)
      /\ UNCHANGED <<mode, prev, status, tasks, run, streams, reader>>
      /\ pc \in [Ids -> {"new", "rendering", "ready", "lazy", "generating", "stored", "over"}]
  BY DEF Rendered, StoreInv, TypeOK, Life, LifeOf
<1>1. CASE prev[i] = NoId
  <2>0. UNCHANGED <<store, order, msgs, events, pins>> BY <1>0, <1>1 DEF Release, stores
  <2>1. TypeOK' BY <1>n, <1>0, <2>0 DEF StoreInv, TypeOK, streams
  <2>2. Life' /\ BundlesWhole' /\ Orders(order, store)'
    BY <1>n, <1>0, <2>0 DEF StoreInv, Life, LifeOf, BundlesWhole, streams
  <2>3. \A p \in Ids : Holders(p)' = Holders(p)
    BY <1>n, <1>0, <1>1, StoreAssumption DEF Holders
  <2>4. \A j : Terminal(j)' = Terminal(j) BY <1>0, <2>0 DEF Terminal
  <2>5. PinsCounted' /\ PinsKeep' /\ StoreBounded'
    BY <2>3, <2>4, <2>0, <1>n, <1>0 DEF StoreInv, PinsCounted, PinsKeep, StoreBounded
  <2> QED BY <2>1, <2>2, <2>5 DEF StoreInv
<1>2. CASE prev[i] # NoId
  <2>p. prev[i] \in Ids /\ i \in Holders(prev[i]) BY <1>0, <1>2 DEF StoreInv, TypeOK, Holders
  <2>0. pins' = [pins EXCEPT ![prev[i]] = @ - 1] /\ Evict(store, order, msgs, events)
    BY <1>0, <1>2 DEF Release
  <2>1. Holders(prev[i])' = Holders(prev[i]) \ {i} /\ \A q \in Ids : q # prev[i] => Holders(q)' = Holders(q)
    BY <1>n, <1>0 DEF Holders
  <2>2. Holders(prev[i]) \subseteq Ids BY DEF Holders
  <2>3. Cardinality(Holders(prev[i])') = Cardinality(Holders(prev[i])) - 1
    BY <2>p, <2>1, <2>2, Sizes, FS_RemoveElement
  <2>4. PinsCounted' BY <2>0, <2>1, <2>3, <2>p, <1>0 DEF StoreInv, TypeOK, PinsCounted
  <2>5. \A h \in Ids : pc'[h] = "rendering" /\ prev'[h] # NoId => prev'[h] \in store
    BY <1>n, <1>0 DEF StoreInv, PinsKeep
  <2>f. /\ store \subseteq Ids /\ Orders(order, store) /\ order \subseteq Ids \X Ids
        /\ store \subseteq msgs /\ msgs \subseteq Ids /\ events \subseteq store /\ tasks' \subseteq store
    BY <1>0 DEF StoreInv, TypeOK, BundlesWhole
  <2>6. /\ Orders(order, store)' /\ BundlesWhole' /\ PinsKeep' /\ StoreBounded'
        /\ store' \subseteq store /\ events' \subseteq events /\ order' \subseteq Ids \X Ids
        /\ msgs' \subseteq msgs /\ msgs' \ store' = msgs \ store
    <3>1. \A j \in msgs \ store : pc'[j] \in {"generating", "stored"}
      BY <1>n, <1>0 DEF StoreInv, TypeOK, BundlesWhole
    <3> QED BY <3>1, <2>0, <2>4, <2>5, <2>f, Evicting
  <2>8. pins' \in [Ids -> Nat]
    <3>1. \A q \in Ids : pins'[q] \in Nat BY <2>4, Sizes DEF PinsCounted, Holders
    <3> QED BY <3>1, <2>0 DEF StoreInv, TypeOK
  <2>9. TypeOK' BY <1>n, <1>0, <2>6, <2>8 DEF StoreInv, TypeOK, streams
  <2>10. Life' BY <1>n, <1>0, <2>6 DEF StoreInv, Life, LifeOf, streams
  <2> QED BY <2>4, <2>6, <2>9, <2>10 DEF StoreInv
<1> QED BY <1>1, <1>2

\* What the store is when a step touches a key and evicts.
LEMMA TouchedTypes ==
    ASSUME StoreInv, NEW i \in Ids
    PROVE  /\ store \cup {i} \subseteq Ids /\ Orders(Touched(i), store \cup {i})
           /\ Touched(i) \subseteq Ids \X Ids
           /\ store \subseteq msgs /\ msgs \subseteq Ids /\ events \subseteq store /\ tasks \subseteq store
           /\ \A j \in msgs \ store : pc[j] \in {"generating", "stored"}
<1>1. Orders(Touched(i), store \cup {i}) BY TouchedOrders DEF StoreInv
<1>2. Touched(i) \subseteq Ids \X Ids BY DEF StoreInv, TypeOK, Touched
<1> QED BY <1>1, <1>2 DEF StoreInv, TypeOK, BundlesWhole

LEMMA LaunchBackgroundInv == ASSUME StoreInv, NEW i \in Ids, LaunchBackground(i) PROVE StoreInv'
<1> DEFINE e == IF mode[i] = "live" THEN events \cup {i} ELSE events
<1>0. /\ pc[i] = "ready" /\ mode[i] \in {"background", "live"}
      /\ pc' = [pc EXCEPT ![i] = "over"] /\ status' = [status EXCEPT ![i] = "queued"]
      /\ tasks' = tasks \cup {i} /\ run' = [run EXCEPT ![i] = "running"]
      /\ UNCHANGED <<mode, prev, pins, log, final, done, sig>>
      /\ Evict(store \cup {i}, Touched(i), msgs \cup {i}, e)
  BY DEF LaunchBackground, RetainedNow, streams
<1>1. PinsCounted' /\ \A h \in Ids : pc'[h] = "rendering" /\ prev'[h] # NoId => prev'[h] \in store
  BY <1>0, SamePins DEF StoreInv, TypeOK
<1>2. /\ Orders(order, store)' /\ BundlesWhole' /\ PinsKeep' /\ StoreBounded'
      /\ store' \subseteq store \cup {i} /\ events' \subseteq e /\ order' \subseteq Ids \X Ids
      /\ msgs' \subseteq msgs \cup {i} /\ msgs' \ store' = (msgs \cup {i}) \ (store \cup {i})
  <2>1. \A j \in (msgs \cup {i}) \ (store \cup {i}) : pc'[j] \in {"generating", "stored"}
    BY <1>0, TouchedTypes DEF StoreInv, TypeOK
  <2>2. /\ store \cup {i} \subseteq Ids /\ Orders(Touched(i), store \cup {i})
        /\ Touched(i) \subseteq Ids \X Ids
        /\ store \cup {i} \subseteq msgs \cup {i} /\ msgs \cup {i} \subseteq Ids
        /\ e \subseteq store \cup {i} /\ tasks' \subseteq store \cup {i}
    BY <1>0, TouchedTypes
  <2>3. \A h \in Ids : pc'[h] = "rendering" /\ prev'[h] # NoId => prev'[h] \in store \cup {i} BY <1>1
  <2>4. PICK keys, m, f : keys = store \cup {i} /\ m = msgs \cup {i} /\ f = e OBVIOUS
  <2> HIDE DEF e
  <2>5. /\ keys \subseteq Ids /\ Orders(Touched(i), keys) /\ Touched(i) \subseteq Ids \X Ids
        /\ keys \subseteq m /\ m \subseteq Ids /\ f \subseteq keys /\ tasks' \subseteq keys
        /\ \A h \in Ids : pc'[h] = "rendering" /\ prev'[h] # NoId => prev'[h] \in keys
        /\ \A j \in m \ keys : pc'[j] \in {"generating", "stored"}
        /\ Evict(keys, Touched(i), m, f)
    BY <1>0, <2>1, <2>2, <2>3, <2>4
  <2>6. /\ Orders(order, store)' /\ BundlesWhole' /\ PinsKeep' /\ StoreBounded'
        /\ store' \subseteq keys /\ events' \subseteq f /\ order' \subseteq Ids \X Ids
        /\ msgs' \subseteq m /\ msgs' \ store' = m \ keys
    BY <1>1, <2>5, Evicting, SMTT(30)
  <2>7. store' \subseteq store \cup {i} /\ events' \subseteq e
    BY <2>4, <2>6
  <2>8. msgs' \subseteq msgs \cup {i}
    BY <2>4, <2>6
  <2>9. msgs' \ store' = (msgs \cup {i}) \ (store \cup {i})
    BY <2>4, <2>6
  <2> QED BY <2>6, <2>7, <2>8, <2>9
<1>3. TypeOK'
  <2>1. ReadersOK(reader')
    <3>1. CASE UNCHANGED reader BY <3>1 DEF StoreInv, TypeOK
    <3>2. ASSUME NEW r \in Readers, reader' = [reader EXCEPT ![r] = [st |-> "clear", id |-> i, idx |-> 0]]
          PROVE  ReadersOK(reader')
      BY <3>2 DEF StoreInv, TypeOK, ReadersOK
    <3> QED BY <3>1, <3>2 DEF LaunchBackground
  <2> QED BY <1>0, <1>2, <2>1 DEF StoreInv, TypeOK
<1>4. Life' BY <1>0, <1>2 DEF StoreInv, TypeOK, Life, LifeOf
<1> QED BY <1>1, <1>2, <1>3, <1>4 DEF StoreInv

LEMMA ForegroundResultInv == ASSUME StoreInv, NEW i \in Ids, ForegroundResult(i) PROVE StoreInv'
<1>0. /\ pc[i] = "generating" /\ pc' = [pc EXCEPT ![i] = "stored"] /\ i \notin store
      /\ UNCHANGED <<mode, prev, pins, tasks, run, log, final, done, sig, reader>>
  BY DEF ForegroundResult, StoreInv, Life, LifeOf, streams
<1>1. CASE mode[i] = "transient"
  <2>0. UNCHANGED <<store, order, msgs, events, status>> BY <1>1 DEF ForegroundResult, stores
  <2>1. TypeOK' BY <1>0, <2>0 DEF StoreInv, TypeOK
  <2>2. Life' /\ BundlesWhole' /\ Orders(order, store)'
    BY <1>0, <2>0 DEF StoreInv, TypeOK, Life, LifeOf, BundlesWhole
  <2>3. PinsCounted' /\ PinsKeep' /\ StoreBounded' BY <1>0, <2>0, QuietStore DEF StoreInv, TypeOK
  <2> QED BY <2>1, <2>2, <2>3 DEF StoreInv
<1>2. CASE mode[i] # "transient"
  <2>0. /\ i \in msgs
        /\ status' = [status EXCEPT ![i] = "completed"]
        /\ Evict(store \cup {i}, Touched(i), msgs, events)
    BY <1>0, <1>2 DEF ForegroundResult, StoreResult, CancelledStays, StoreInv, Life, LifeOf
  <2>1. PinsCounted' /\ \A h \in Ids : pc'[h] = "rendering" /\ prev'[h] # NoId => prev'[h] \in store
    BY <1>0, SamePins DEF StoreInv, TypeOK
  <2>2. /\ Orders(order, store)' /\ BundlesWhole' /\ PinsKeep' /\ StoreBounded'
        /\ store' \subseteq store \cup {i} /\ events' \subseteq events /\ order' \subseteq Ids \X Ids
        /\ msgs' \subseteq msgs /\ msgs' \ store' = msgs \ (store \cup {i})
    <3>1. \A j \in msgs \ (store \cup {i}) : pc'[j] \in {"generating", "stored"}
      BY <1>0, TouchedTypes DEF StoreInv, TypeOK
    <3>2. /\ store \cup {i} \subseteq Ids /\ Orders(Touched(i), store \cup {i})
          /\ Touched(i) \subseteq Ids \X Ids
          /\ store \cup {i} \subseteq msgs /\ msgs \subseteq Ids
          /\ events \subseteq store \cup {i} /\ tasks' \subseteq store \cup {i}
      <4>1. /\ store \cup {i} \subseteq Ids /\ Orders(Touched(i), store \cup {i})
            /\ Touched(i) \subseteq Ids \X Ids
        BY TouchedTypes
      <4>2. i \in msgs /\ store \subseteq msgs /\ msgs \subseteq Ids
        BY <1>0, <2>0, TouchedTypes DEF StoreInv, TypeOK
      <4>3. events \subseteq store \cup {i} /\ tasks' \subseteq store \cup {i}
        BY <1>0, <2>0, TouchedTypes
      <4> QED BY <4>1, <4>2, <4>3
    <3>3. \A h \in Ids : pc'[h] = "rendering" /\ prev'[h] # NoId => prev'[h] \in store \cup {i} BY <2>1
    <3>4. PICK keys, ord : keys = store \cup {i} /\ ord = Touched(i) OBVIOUS
    <3>5. /\ keys \subseteq Ids /\ Orders(ord, keys) /\ ord \subseteq Ids \X Ids
          /\ keys \subseteq msgs /\ msgs \subseteq Ids /\ events \subseteq keys /\ tasks' \subseteq keys
      BY <3>2, <3>4
    <3>6. /\ \A h \in Ids : pc'[h] = "rendering" /\ prev'[h] # NoId => prev'[h] \in keys
          /\ \A j \in msgs \ keys : pc'[j] \in {"generating", "stored"}
          /\ Evict(keys, ord, msgs, events)
      BY <2>0, <3>1, <3>3, <3>4
    <3>7. /\ Orders(order, store)' /\ BundlesWhole' /\ PinsKeep' /\ StoreBounded'
          /\ store' \subseteq keys /\ events' \subseteq events /\ order' \subseteq Ids \X Ids
          /\ msgs' \subseteq msgs /\ msgs' \ store' = msgs \ keys
      BY <2>1, <3>5, <3>6, Evicting, SMTT(30)
    <3> QED BY <3>4, <3>7
  <2>3. TypeOK' BY <1>0, <2>0, <2>2 DEF StoreInv, TypeOK
  <2>4. Life' BY <1>0, <1>2, <2>0, <2>2 DEF StoreInv, TypeOK, Life, LifeOf
  <2> QED BY <2>1, <2>2, <2>3, <2>4 DEF StoreInv
<1> QED BY <1>1, <1>2

\* A step on a stored response that keeps the handlers and the pins as they
\* are, touches it or not, and evicts.
LEMMA EvictingStored ==
    ASSUME StoreInv, NEW i \in store, NEW ord, ord \in {order, Touched(i)},
           Evict(store, ord, msgs, events), UNCHANGED <<pc, prev, pins>>, tasks' \subseteq tasks
    PROVE  /\ Orders(order, store)' /\ BundlesWhole' /\ PinsCounted' /\ PinsKeep' /\ StoreBounded'
           /\ store' \subseteq store /\ events' \subseteq events /\ order' \subseteq Ids \X Ids
           /\ msgs' \subseteq msgs /\ msgs' \ store' = msgs \ store
<1>0. i \in Ids /\ store \subseteq Ids BY DEF StoreInv, TypeOK
<1>1. PinsCounted' /\ \A h \in Ids : pc'[h] = "rendering" /\ prev'[h] # NoId => prev'[h] \in store BY SamePins
<1>2. Orders(ord, store) /\ ord \subseteq Ids \X Ids
  <2>1. CASE ord = order BY <2>1 DEF StoreInv, TypeOK
  <2>2. CASE ord = Touched(i) BY <2>2, <1>0, TouchedTypes, TouchedSame DEF StoreInv
  <2> QED BY <2>1, <2>2
<1>3. \A j \in msgs \ store : pc'[j] \in {"generating", "stored"} BY <1>0, TouchedTypes
<1>4. tasks' \subseteq store /\ store \subseteq msgs /\ msgs \subseteq Ids /\ events \subseteq store
  BY <1>0, TouchedTypes
<1> QED BY <1>0, <1>1, <1>2, <1>3, <1>4, Evicting

LEMMA CancelInv == ASSUME StoreInv, NEW i \in Ids, Cancel(i) PROVE StoreInv'
<1>0. /\ i \in store /\ status' = [status EXCEPT ![i] = "cancelled"]
      /\ UNCHANGED <<pc, mode, prev, pins, tasks, run, log, final, done, sig, reader>>
      /\ Evict(store, Touched(i), msgs, events)
  BY DEF Cancel, streams
<1>1. /\ Orders(order, store)' /\ BundlesWhole' /\ PinsCounted' /\ PinsKeep' /\ StoreBounded'
      /\ store' \subseteq store /\ events' \subseteq events /\ order' \subseteq Ids \X Ids
      /\ msgs' \subseteq msgs /\ msgs' \ store' = msgs \ store
  BY <1>0, EvictingStored
<1>2. TypeOK' BY <1>0, <1>1 DEF StoreInv, TypeOK
<1>3. Life' BY <1>0, <1>1 DEF StoreInv, Life, LifeOf
<1> QED BY <1>1, <1>2, <1>3 DEF StoreInv

LEMMA TaskResultInv == ASSUME StoreInv, NEW i \in Ids, TaskResult(i) PROVE StoreInv'
<1>0. /\ run[i] = "running" /\ run' = [run EXCEPT ![i] = "finished"] /\ i \in tasks /\ i \in store
      /\ pc[i] = "over" /\ StoreResult(i) /\ store \cup {i} = store
      /\ UNCHANGED <<pc, mode, prev, pins, tasks, done>>
  BY DEF TaskResult, StoreInv, TypeOK, Life, LifeOf, BundlesWhole
<1>1. /\ Orders(order, store)' /\ BundlesWhole' /\ PinsCounted' /\ PinsKeep' /\ StoreBounded'
      /\ store' \subseteq store /\ events' \subseteq events /\ order' \subseteq Ids \X Ids
      /\ msgs' \subseteq msgs /\ msgs' \ store' = msgs \ store
      /\ status' \in [Ids -> {"none", "queued", "completed", "cancelled", "failed"}]
  <2>1. CASE CancelledStays(i)
    <3>1. UNCHANGED <<store, order, msgs, events, status>> BY <1>0, <2>1 DEF StoreResult, stores
    <3>2. PinsCounted' /\ PinsKeep' /\ StoreBounded' BY <1>0, <3>1, QuietStore
    <3> QED BY <1>0, <3>1, <3>2 DEF StoreInv, TypeOK, BundlesWhole
  <2>2. CASE ~ CancelledStays(i)
    <3>1. status' = [status EXCEPT ![i] = "completed"] /\ Evict(store, Touched(i), msgs, events)
      BY <1>0, <2>2 DEF StoreResult
    <3>2. status' \in [Ids -> {"none", "queued", "completed", "cancelled", "failed"}]
      BY <3>1 DEF StoreInv, TypeOK
    <3> QED BY <1>0, <3>1, <3>2, EvictingStored
  <2> QED BY <2>1, <2>2
<1>2. /\ log' \in [Ids -> Nat] /\ final' \in [Ids -> BOOLEAN] /\ sig' \in [Ids -> BOOLEAN]
      /\ ReadersOK(reader')
      /\ \A j \in Ids : final'[j] # final[j] => j = i
  <2>1. CASE mode[i] = "live"
    <3>1. /\ log' = [log EXCEPT ![i] = @ + 1] /\ final' = [final EXCEPT ![i] = TRUE]
          /\ sig' = [sig EXCEPT ![i] = TRUE] /\ reader' = Woken(i)
      BY <2>1 DEF TaskResult, Signal
    <3>2. ReadersOK(reader') BY <3>1, WokenOK DEF StoreInv, TypeOK
    <3>3. log' \in [Ids -> Nat] /\ final' \in [Ids -> BOOLEAN] /\ sig' \in [Ids -> BOOLEAN]
      BY <3>1 DEF StoreInv, TypeOK
    <3>4. \A j \in Ids : final'[j] # final[j] => j = i BY <3>1 DEF StoreInv, TypeOK
    <3> QED BY <3>2, <3>3, <3>4
  <2>2. CASE mode[i] # "live"
    <3>1. UNCHANGED <<log, final, sig, reader>> BY <2>2 DEF TaskResult
    <3> QED BY <3>1 DEF StoreInv, TypeOK
  <2> QED BY <2>1, <2>2
<1>3. TypeOK' BY <1>0, <1>1, <1>2 DEF StoreInv, TypeOK
<1>4. Life' BY <1>0, <1>1, <1>2 DEF StoreInv, TypeOK, Life, LifeOf
<1> QED BY <1>1, <1>3, <1>4 DEF StoreInv

LEMMA TaskDoneInv == ASSUME StoreInv, NEW i \in Ids, TaskDone(i) PROVE StoreInv'
<1>0. /\ run[i] \in {"ended", "cancelled"} /\ run' = [run EXCEPT ![i] = "none"]
      /\ i \in tasks /\ i \in store /\ tasks' = tasks \ {i} /\ pc[i] = "over"
      /\ UNCHANGED <<pc, mode, prev, pins, log, final>>
      /\ Evict(store, Touched(i), msgs, events)
  BY DEF TaskDone, OrderOnDone, StoreInv, TypeOK, Life, LifeOf, BundlesWhole
<1>1. /\ Orders(order, store)' /\ BundlesWhole' /\ PinsCounted' /\ PinsKeep' /\ StoreBounded'
      /\ store' \subseteq store /\ events' \subseteq events /\ order' \subseteq Ids \X Ids
      /\ msgs' \subseteq msgs /\ msgs' \ store' = msgs \ store
  BY <1>0, EvictingStored
<1>2. /\ done' \in [Ids -> BOOLEAN] /\ sig' \in [Ids -> BOOLEAN]
      /\ ReadersOK(reader')
      /\ \A j \in Ids : done'[j] # done[j] => j = i
  <2>1. CASE i \in events
    <3>1. /\ done' = [done EXCEPT ![i] = TRUE]
          /\ sig' = [sig EXCEPT ![i] = TRUE] /\ reader' = Woken(i)
      BY <2>1 DEF TaskDone, FinishStream, Signal
    <3>2. ReadersOK(reader') BY <3>1, WokenOK DEF StoreInv, TypeOK
    <3> QED BY <3>1, <3>2 DEF StoreInv, TypeOK
  <2>2. CASE i \notin events BY <2>2 DEF TaskDone, FinishStream, StoreInv, TypeOK
  <2> QED BY <2>1, <2>2
<1>s. status' \in [Ids -> {"none", "queued", "completed", "cancelled", "failed"}]
  BY DEF TaskDone, StatusOnDone, StoreInv, TypeOK
<1>3. TypeOK' BY <1>0, <1>1, <1>2, <1>s DEF StoreInv, TypeOK
<1>4. Life' BY <1>0, <1>1, <1>2 DEF StoreInv, TypeOK, Life, LifeOf
<1> QED BY <1>1, <1>3, <1>4 DEF StoreInv

-----------------------------------------------------------------------------
(* The theorems *)

LEMMA StoreStep == StoreInv /\ [Next]_vars => StoreInv'
<1> SUFFICES ASSUME StoreInv, [Next]_vars PROVE StoreInv' OBVIOUS
<1>1. ASSUME NEW i \in Ids,
             \/ Create(i) \/ Rendered(i) \/ GiveUp(i)
             \/ LaunchForeground(i) \/ LaunchBackground(i) \/ StartStream(i)
             \/ ForegroundResult(i) \/ ForegroundEnd(i)
             \/ Retrieve(i) \/ Cancel(i)
             \/ Produce(i) \/ TaskResult(i) \/ TaskEnds(i) \/ TaskDone(i)
      PROVE  StoreInv'
  BY <1>1, CreateInv, RenderedInv, GiveUpInv, LaunchForegroundInv, LaunchBackgroundInv,
     StartStreamInv, ForegroundResultInv, ForegroundEndInv, RetrieveInv, CancelInv,
     ProduceInv, TaskResultInv, TaskEndsInv, TaskDoneInv
<1>2. ASSUME NEW r \in Readers, ReadFromClear(r) \/ ReadOn(r) \/ Leave(r) PROVE StoreInv'
  BY <1>2, ReaderInv
<1>3. CASE UNCHANGED vars
  <2>0. UNCHANGED <<pc, mode, prev, store, order, msgs, events, status, pins, tasks, run,
                    log, final, done, sig, reader>>
    BY <1>3 DEF vars, stores, streams
  <2>1. TypeOK' BY <2>0 DEF StoreInv, TypeOK
  <2>2. Life' /\ BundlesWhole' /\ Orders(order, store)'
    BY <2>0 DEF StoreInv, Life, LifeOf, BundlesWhole
  <2>3. PinsCounted' /\ PinsKeep' /\ StoreBounded' BY <2>0, QuietStore
  <2> QED BY <2>1, <2>2, <2>3 DEF StoreInv
<1> QED BY <1>1, <1>2, <1>3 DEF Next

LEMMA StoreInvariant == Spec => []StoreInv
<1> QED BY StoreInit, StoreStep, PTL DEF Spec

\* Every variable keeps its type: no pin count goes below zero, and a reader
\* that was opened keeps the stream it captured.
THEOREM StoreTypeCorrect == Spec => []TypeOK
<1>1. StoreInv => TypeOK BY DEF StoreInv
<1> QED BY <1>1, StoreInvariant, PTL

\* At every suspension at most MaxEntries responses are retained that nobody
\* needs: every step that frees one, or makes one terminal, has evicted.
THEOREM RetentionBounded == Spec => []StoreBounded
<1>1. StoreInv => StoreBounded BY DEF StoreInv
<1> QED BY <1>1, StoreInvariant, PTL

\* Responses, messages, event states and tasks stay together: nothing is left
\* of a response that was evicted, and nothing of a kept one is missing.
THEOREM BundlesIntact == Spec => []BundlesWhole
<1>1. StoreInv => BundlesWhole BY DEF StoreInv
<1> QED BY <1>1, StoreInvariant, PTL

\* A continued response and its messages are in the store as long as the
\* prompt is rendered, and every pin has its handler.
THEOREM ContinuationsKept == Spec => []PinsHeld
<1>1. StoreInv => PinsHeld
  BY DEF StoreInv, PinsKeep, PinsCounted, Holders, BundlesWhole, PinsHeld
<1> QED BY <1>1, StoreInvariant, PTL

\* No result, callback or second cancellation takes a stored response out of
\* its cancelled state.
THEOREM CancellationFinal == Spec => CancelledIsFinal
<1> DEFINE Kept == \A i \in store \cap store' : status[i] = "cancelled" => status'[i] = "cancelled"
<1>1. StoreInv /\ Next => Kept
  <2> SUFFICES ASSUME StoreInv, Next, NEW j \in store, status[j] = "cancelled"
               PROVE  status'[j] = "cancelled"
    OBVIOUS
  <2>0. j \in Ids /\ status \in [Ids -> {"none", "queued", "completed", "cancelled", "failed"}]
    BY DEF StoreInv, TypeOK
  <2>1. ASSUME NEW i \in Ids, LaunchBackground(i) PROVE status'[j] = status[j]
    <3>1. i # j BY <2>1 DEF LaunchBackground, StoreInv, Life, LifeOf
    <3> QED BY <2>0, <2>1, <3>1 DEF LaunchBackground
  <2>2. ASSUME NEW i \in Ids, StoreResult(i) PROVE status'[j] = status[j]
    BY <2>0, <2>2 DEF StoreResult, CancelledStays
  <2>3. ASSUME NEW i \in Ids, Cancel(i) PROVE status'[j] = status[j]
    BY <2>0, <2>3 DEF Cancel
  <2>4. ASSUME NEW i \in Ids, TaskDone(i) PROVE status'[j] = status[j]
    BY <2>0, <2>4 DEF TaskDone, StatusOnDone
  <2>5. ASSUME NEW i \in Ids, ForegroundResult(i) PROVE status'[j] = status[j]
    BY <2>2, <2>5 DEF ForegroundResult
  <2>6. ASSUME NEW i \in Ids, TaskResult(i) PROVE status'[j] = status[j]
    BY <2>2, <2>6 DEF TaskResult
  <2>7. \/ \E i \in Ids : \/ LaunchBackground(i) \/ ForegroundResult(i) \/ Cancel(i)
                          \/ TaskResult(i) \/ TaskDone(i)
        \/ UNCHANGED status
    BY DEF Next, Create, Rendered, GiveUp, LaunchForeground, StartStream, ForegroundEnd,
           Retrieve, Produce, TaskEnds, ReadFromClear, ReadOn, Leave
  <2> QED BY <2>1, <2>3, <2>4, <2>5, <2>6, <2>7
<1>2. StoreInv /\ [Next]_vars => [Kept]_vars BY <1>1
<1> QED BY <1>2, StoreInvariant, PTL DEF Spec, CancelledIsFinal

\* What a step does to a reader.
LEMMA ReaderSteps ==
    ASSUME Next
    PROVE  \/ UNCHANGED reader
           \/ \E i \in Ids : reader' = Woken(i)
           \/ \E r \in Readers, i \in Ids, n \in Nat :
                 reader' = [reader EXCEPT ![r] = [st |-> "clear", id |-> i, idx |-> n]]
           \/ \E r \in Readers : ReadFromClear(r) \/ ReadOn(r) \/ Leave(r)
<1> DEFINE Opened == \E r \in Readers, i \in Ids, n \in Nat :
                       reader' = [reader EXCEPT ![r] = [st |-> "clear", id |-> i, idx |-> n]]
<1>1. ASSUME NEW i \in Ids, Create(i) \/ Rendered(i) \/ GiveUp(i) \/ LaunchForeground(i)
             \/ StartStream(i) \/ ForegroundResult(i) \/ ForegroundEnd(i) \/ Cancel(i)
      PROVE  UNCHANGED reader
  BY <1>1 DEF Create, Rendered, GiveUp, LaunchForeground, StartStream, ForegroundResult,
              ForegroundEnd, Cancel
<1>2. ASSUME NEW i \in Ids, LaunchBackground(i) PROVE UNCHANGED reader \/ Opened
  <2>1. CASE UNCHANGED reader BY <2>1
  <2>2. ASSUME NEW r \in Readers, reader' = [reader EXCEPT ![r] = [st |-> "clear", id |-> i, idx |-> 0]]
        PROVE  Opened
    BY <2>2
  <2> QED BY <1>2, <2>1, <2>2 DEF LaunchBackground
<1>3. ASSUME NEW i \in Ids, Retrieve(i) PROVE UNCHANGED reader \/ Opened
  <2>1. CASE UNCHANGED reader BY <2>1
  <2>2. ASSUME NEW r \in Readers, NEW n \in 0 .. MaxEvents + 1,
               reader' = [reader EXCEPT ![r] = [st |-> "clear", id |-> i, idx |-> n]]
        PROVE  Opened
    <3>1. n \in Nat BY StoreAssumption
    <3> QED BY <2>2, <3>1
  <2> QED BY <1>3, <2>1, <2>2 DEF Retrieve
<1>4. ASSUME NEW i \in Ids, Produce(i) \/ TaskResult(i) \/ TaskEnds(i) \/ TaskDone(i)
      PROVE  UNCHANGED reader \/ reader' = Woken(i)
  BY <1>4 DEF Produce, TaskResult, TaskEnds, TaskDone, FinishStream, Signal
<1> QED BY <1>1, <1>2, <1>3, <1>4 DEF Next

\* What a stream that is over still does: nothing.
LEMMA OverStays ==
    ASSUME StoreInv, Next, NEW i \in Ids, done[i] \/ final[i]
    PROVE  (done'[i] \/ final'[i]) /\ log'[i] = log[i]
<1>1. run[i] # "running" BY DEF StoreInv, Life, LifeOf
<1>0. log \in [Ids -> Nat] /\ done \in [Ids -> BOOLEAN] /\ final \in [Ids -> BOOLEAN]
  BY DEF StoreInv, TypeOK
<1>2. ASSUME NEW j \in Ids, Produce(j) \/ TaskResult(j)
      PROVE  (done'[i] \/ final'[i]) /\ log'[i] = log[i]
  BY <1>0, <1>1, <1>2 DEF Produce, TaskResult
<1>3. ASSUME NEW j \in Ids, TaskDone(j) PROVE (done'[i] \/ final'[i]) /\ log'[i] = log[i]
  BY <1>0, <1>3 DEF TaskDone, FinishStream
<1>4. \/ \E j \in Ids : Produce(j) \/ TaskResult(j) \/ TaskDone(j)
      \/ UNCHANGED <<done, final, log>>
  BY DEF Next, Create, Rendered, GiveUp, LaunchForeground, LaunchBackground, StartStream,
         ForegroundResult, ForegroundEnd, Retrieve, Cancel, TaskEnds, ReadFromClear, ReadOn,
         Leave, streams
<1> QED BY <1>2, <1>3, <1>4

LEMMA UnreadStep == StoreInv /\ NothingUnread /\ [Next]_vars => NothingUnread'
<1> SUFFICES ASSUME StoreInv, NothingUnread, [Next]_vars PROVE NothingUnread' OBVIOUS
<1>0. CASE UNCHANGED vars BY <1>0 DEF vars, streams, NothingUnread
<1>1. CASE Next
  <2> SUFFICES ASSUME NEW r \in Readers, reader'[r].st = "ended"
               PROVE  LET i == reader'[r].id IN (done'[i] \/ final'[i]) /\ reader'[r].idx >= log'[i]
    BY DEF NothingUnread
  <2>0. /\ reader \in [Readers -> [st : {"idle", "clear", "yielded", "waiting", "ended"},
                                   id : Ids \cup {NoId}, idx : Nat]]
        /\ log \in [Ids -> Nat]
    BY DEF StoreInv, TypeOK, ReadersOK
  <2>1. \/ reader'[r] = reader[r]
        \/ ReadFromClear(r) \/ ReadOn(r)
    <3>1. CASE \E i \in Ids : reader' = Woken(i) BY <3>1 DEF Woken
    <3>2. CASE \E q \in Readers, i \in Ids, n \in Nat :
                 reader' = [reader EXCEPT ![q] = [st |-> "clear", id |-> i, idx |-> n]]
      BY <3>2, <2>0
    <3>3. ASSUME NEW q \in Readers, ReadFromClear(q) \/ ReadOn(q) \/ Leave(q)
          PROVE  reader'[r] = reader[r] \/ ReadFromClear(r) \/ ReadOn(r)
      <4>1. CASE q # r
        <5>1. \E x : reader' = [reader EXCEPT ![q] = x] BY <3>3 DEF ReadFromClear, ReadOn, Leave
        <5> QED BY <5>1, <4>1, <2>0
      <4>2. CASE q = r
        <5>1. ~ Leave(r) BY <2>0 DEF Leave, Idle
        <5> QED BY <3>3, <4>2, <5>1
      <4> QED BY <4>1, <4>2
    <3> QED BY <1>1, <3>1, <3>2, <3>3, ReaderSteps
  <2>2. /\ reader'[r].id = reader[r].id /\ reader'[r].idx = reader[r].idx
        /\ reader[r].st # "idle"
        /\ done[reader[r].id] \/ final[reader[r].id]
        /\ reader[r].idx >= log[reader[r].id]
    <3>1. CASE reader'[r] = reader[r] BY <3>1 DEF NothingUnread
    <3>2. CASE ReadFromClear(r)
      BY <3>2, <2>0 DEF ReadFromClear, AfterScan, StoreInv, TypeOK, ReadersOK
    <3>3. CASE ReadOn(r)
      <4> DEFINE i == reader[r].id
      <4>1. reader[r].st = "yielded" /\ i \in Ids BY <3>3 DEF ReadOn, StoreInv, TypeOK, ReadersOK
      <4>2. reader[r].idx \in Nat /\ log[i] \in Nat BY <2>0, <4>1
      <4>3. CASE final[i] /\ reader[r].idx = log[i]
        <5>1. reader'[r] = [reader[r] EXCEPT !.st = "ended"] BY <3>3, <2>0, <4>3 DEF ReadOn
        <5> QED BY <5>1, <2>0, <4>1, <4>2, <4>3
      <4>4. CASE ~ (final[i] /\ reader[r].idx = log[i])
        <5>1. reader'[r] = AfterScan(r, sig[i]) BY <3>3, <2>0, <4>4 DEF ReadOn
        <5> QED BY <5>1, <2>0, <4>1, <4>2 DEF AfterScan
      <4> QED BY <4>3, <4>4
    <3> QED BY <2>1, <3>1, <3>2, <3>3
  <2>3. reader[r].id \in Ids BY <2>2 DEF StoreInv, TypeOK, ReadersOK
  <2> QED BY <1>1, <2>2, <2>3, OverStays
<1> QED BY <1>0, <1>1

\* A reader that returned has read every event of its stream, also when the
\* end came between two of its reads or another reader cleared the flag.
THEOREM ReadersReadAll == Spec => []NothingUnread
<1>1. Init => NothingUnread BY DEF Init, NothingUnread, Idle
<1> QED BY <1>1, UnreadStep, StoreInvariant, PTL DEF Spec

-----------------------------------------------------------------------------
(* Induction over sequences *)

LEMMA Least ==
    ASSUME NEW S \in SUBSET Nat, S # {}
    PROVE  \E n \in S : \A m \in S : n <= m
<1>1. PICK b \in S : TRUE OBVIOUS
<1> DEFINE K == {x \in S : x <= b}
           R == StrictSubsetOrdering(0 .. b)
           T == {0 .. x : x \in K}
<1>2. IsWellFoundedOn(R, SUBSET (0 .. b))
  <2>1. IsFiniteSet(0 .. b) BY FS_Interval
  <2> QED BY <2>1, FS_StrictSubsetOrderingWellFounded, FS_FiniteSubsetsOfFinite
<1>3. T \subseteq SUBSET (0 .. b) /\ T # {} OBVIOUS
<1>4. PICK U \in T : \A W \in T : ~ (<<W, U>> \in R)
  <2> HIDE DEF R, T
  <2> QED BY <1>2, <1>3, WFMin
<1>5. PICK n \in K : U = 0 .. n OBVIOUS
<1>6. ASSUME NEW m \in S, m < n PROVE FALSE
  <2>1. m \in K /\ 0 .. m \in T BY <1>6
  <2>2. 0 .. m \subseteq 0 .. n /\ n \in 0 .. n /\ n \notin 0 .. m BY <1>6
  <2>3. 0 .. m \subseteq 0 .. b /\ 0 .. n \subseteq 0 .. b BY <2>1
  <2>4. <<0 .. m, 0 .. n>> \in R BY <2>2, <2>3 DEF StrictSubsetOrdering
  <2> QED BY <1>4, <1>5, <2>1, <2>4
<1> QED BY <1>6

\* A set of sequences that is closed under Append has all of them.
LEMMA BySteps ==
    ASSUME NEW T, NEW P, <<>> \in P,
           \A s \in Seq(T), x \in T : s \in P => Append(s, x) \in P
    PROVE  Seq(T) \subseteq P
<1> SUFFICES ASSUME NEW r \in Seq(T), r \notin P PROVE FALSE OBVIOUS
<1> DEFINE L == {n \in Nat : \E s \in Seq(T) : s \notin P /\ Len(s) = n}
<1>1. Len(r) \in L BY LenProperties
<1>2. PICK n \in L : \A m \in L : n <= m
  <2>1. L \in SUBSET Nat OBVIOUS
  <2> HIDE DEF L
  <2> QED BY <1>1, <2>1, Least
<1>3. PICK s \in Seq(T) : s \notin P /\ Len(s) = n BY <1>2
<1>4. s # <<>> BY <1>3
<1>5. PICK q \in Seq(T), x \in T : s = Append(q, x) BY <1>4, SequenceEmptyOrAppend
<1>6. q \notin P BY <1>3, <1>5
<1>7. Len(q) \in L /\ Len(q) = n - 1 /\ Len(q) \in Nat
  BY <1>3, <1>5, <1>6, LenProperties, AppendProperties
<1> QED BY <1>2, <1>7

-----------------------------------------------------------------------------
(* The elements that belong to a set *)

OnlyStep(s, S, f, n) ==
    IF n = 0 THEN <<>>
    ELSE IF s[n] \in S THEN Append(f[n - 1], s[n]) ELSE f[n - 1]

\* f is the function by which Only() is computed.
OnlyFun(s, S, f) == f = [n \in 0 .. Len(s) |-> OnlyStep(s, S, f, n)]

LEMMA OnlyFunUnique ==
    ASSUME NEW s, Len(s) \in Nat, NEW S, NEW f, OnlyFun(s, S, f), NEW g, OnlyFun(s, S, g)
    PROVE  f = g
<1> DEFINE Bad == {n \in 0 .. Len(s) : f[n] # g[n]}
<1>1. /\ DOMAIN f = 0 .. Len(s) /\ f = [n \in DOMAIN f |-> f[n]]
      /\ \A n \in 0 .. Len(s) : f[n] = OnlyStep(s, S, f, n)
  BY DEF OnlyFun
<1>2. /\ DOMAIN g = 0 .. Len(s) /\ g = [n \in DOMAIN g |-> g[n]]
      /\ \A n \in 0 .. Len(s) : g[n] = OnlyStep(s, S, g, n)
  BY DEF OnlyFun
<1>3. Bad = {}
  <2> SUFFICES ASSUME Bad # {} PROVE FALSE OBVIOUS
  <2>1. PICK n \in Bad : \A m \in Bad : n <= m
    <3>1. Bad \in SUBSET Nat OBVIOUS
    <3> HIDE DEF Bad
    <3> QED BY <3>1, Least
  <2>2. n # 0 BY <1>1, <1>2 DEF OnlyStep
  <2>3. n - 1 \in 0 .. Len(s) /\ n - 1 \notin Bad BY <2>1, <2>2
  <2>4. f[n - 1] = g[n - 1] BY <2>3
  <2> QED BY <1>1, <1>2, <2>4, <2>2 DEF OnlyStep
<1> QED BY <1>1, <1>2, <1>3

\* The result of a step depends on the step before.
LEMMA OnlyFunGrows ==
    ASSUME NEW T, NEW s \in Seq(T), NEW x \in T, NEW S, NEW f, OnlyFun(s, S, f)
    PROVE  \E g : /\ OnlyFun(Append(s, x), S, g)
                  /\ g[Len(s) + 1] = IF x \in S THEN Append(f[Len(s)], x) ELSE f[Len(s)]
<1> DEFINE a == Append(s, x)
           N == Len(s)
           g == [n \in 0 .. N + 1 |-> IF n <= N THEN f[n]
                                      ELSE IF x \in S THEN Append(f[N], x) ELSE f[N]]
<1>1. /\ N \in Nat /\ Len(a) = N + 1 /\ a[N + 1] = x
      /\ \A n \in 1 .. N : a[n] = s[n]
  BY LenProperties, AppendProperties
<1>2. \A n \in 0 .. N : f[n] = OnlyStep(s, S, f, n) BY DEF OnlyFun
<1> HIDE DEF a, N
<1>3. \A n \in 0 .. N + 1 : g[n] = OnlyStep(a, S, g, n)
  <2> SUFFICES ASSUME NEW n \in 0 .. N + 1 PROVE g[n] = OnlyStep(a, S, g, n) OBVIOUS
  <2>1. CASE n = 0 BY <2>1, <1>1, <1>2 DEF OnlyStep
  <2>2. CASE n \in 1 .. N
    <3>1. g[n] = f[n] /\ g[n - 1] = f[n - 1] BY <2>2, <1>1
    <3>2. n \in 0 .. N /\ n # 0 /\ a[n] = s[n] BY <2>2, <1>1
    <3> HIDE DEF g
    <3> QED BY <3>1, <3>2, <1>2 DEF OnlyStep
  <2>3. CASE n = N + 1
    <3>1. n # 0 /\ a[n] = x /\ n - 1 = N /\ g[n - 1] = f[N] BY <2>3, <1>1
    <3>2. g[n] = IF x \in S THEN Append(f[N], x) ELSE f[N] BY <2>3, <1>1
    <3> HIDE DEF g
    <3> QED BY <3>1, <3>2 DEF OnlyStep
  <2> QED BY <2>1, <2>2, <2>3, <1>1
<1>4. g = [n \in 0 .. Len(a) |-> OnlyStep(a, S, g, n)] BY <1>3, <1>1
<1>5. g[N + 1] = IF x \in S THEN Append(f[N], x) ELSE f[N] BY <1>1
<1>6. OnlyFun(a, S, g)
  <2> HIDE DEF g
  <2> QED BY <1>4 DEF OnlyFun
<1> QED BY <1>5, <1>6 DEF a, N

LEMMA OnlyFunExists ==
    ASSUME NEW T, NEW S
    PROVE  \A s \in Seq(T) : \E f : OnlyFun(s, S, f)
<1> DEFINE P == {s \in Seq(T) : \E f : OnlyFun(s, S, f)}
<1>1. <<>> \in P
  <2> DEFINE f == [n \in 0 .. 0 |-> <<>>]
  <2>1. f = [n \in 0 .. Len(<<>>) |-> OnlyStep(<<>>, S, f, n)] BY DEF OnlyStep
  <2>2. OnlyFun(<<>>, S, f)
    <3> HIDE DEF f
    <3> QED BY <2>1 DEF OnlyFun
  <2> HIDE DEF f
  <2> QED BY <2>2, EmptySeq
<1>2. ASSUME NEW s \in Seq(T), NEW x \in T, s \in P PROVE Append(s, x) \in P
  <2>1. PICK f : OnlyFun(s, S, f) BY <1>2
  <2>2. \E g : OnlyFun(Append(s, x), S, g) BY <2>1, OnlyFunGrows
  <2> QED BY <2>2, AppendProperties
<1>3. Seq(T) \subseteq P
  <2> HIDE DEF P
  <2> QED BY <1>1, <1>2, BySteps
<1> QED BY <1>3

LEMMA OnlyIs ==
    ASSUME NEW s, Len(s) \in Nat, NEW S, NEW f, OnlyFun(s, S, f)
    PROVE  Only(s, S) = f[Len(s)]
<1> DEFINE c == CHOOSE g : g = [n \in 0 .. Len(s) |->
                     IF n = 0 THEN <<>> ELSE IF s[n] \in S THEN Append(g[n - 1], s[n]) ELSE g[n - 1]]
<1>1. Only(s, S) = c[Len(s)] BY DEF Only
<1>2. f = [n \in 0 .. Len(s) |->
                     IF n = 0 THEN <<>> ELSE IF s[n] \in S THEN Append(f[n - 1], s[n]) ELSE f[n - 1]]
  BY DEF OnlyFun, OnlyStep
<1>3. c = [n \in 0 .. Len(s) |->
                     IF n = 0 THEN <<>> ELSE IF s[n] \in S THEN Append(c[n - 1], s[n]) ELSE c[n - 1]]
  BY <1>2
<1>4. OnlyFun(s, S, c)
  <2> HIDE DEF c
  <2> QED BY <1>3 DEF OnlyFun, OnlyStep
<1>5. c = f
  <2> HIDE DEF c
  <2> QED BY <1>4, OnlyFunUnique
<1> QED BY <1>1, <1>5

LEMMA OnlyEmpty == ASSUME NEW S PROVE Only(<<>>, S) = <<>>
<1>1. PICK f : OnlyFun(<<>>, S, f) BY OnlyFunExists, EmptySeq
<1>2. f[0] = <<>> BY <1>1 DEF OnlyFun, OnlyStep
<1> QED BY <1>1, <1>2, OnlyIs

LEMMA OnlyAppend ==
    ASSUME NEW T, NEW s \in Seq(T), NEW x \in T, NEW S
    PROVE  /\ x \in S => Only(Append(s, x), S) = Append(Only(s, S), x)
           /\ x \notin S => Only(Append(s, x), S) = Only(s, S)
<1>1. PICK f : OnlyFun(s, S, f) BY OnlyFunExists
<1>2. PICK g : /\ OnlyFun(Append(s, x), S, g)
               /\ g[Len(s) + 1] = IF x \in S THEN Append(f[Len(s)], x) ELSE f[Len(s)]
  BY <1>1, OnlyFunGrows
<1>3. Len(s) \in Nat /\ Len(Append(s, x)) = Len(s) + 1 /\ Len(Append(s, x)) \in Nat
  BY LenProperties, AppendProperties
<1>4. Only(s, S) = f[Len(s)] BY <1>1, <1>3, OnlyIs
<1>5. Only(Append(s, x), S) = g[Len(Append(s, x))] BY <1>2, <1>3, OnlyIs
<1> QED BY <1>2, <1>3, <1>4, <1>5

LEMMA OnlyType ==
    ASSUME NEW T, NEW S
    PROVE  \A s \in Seq(T) : Only(s, S) \in Seq(T)
<1> DEFINE P == {s \in Seq(T) : Only(s, S) \in Seq(T)}
<1>1. <<>> \in P BY OnlyEmpty, EmptySeq
<1>2. ASSUME NEW s \in Seq(T), NEW x \in T, s \in P PROVE Append(s, x) \in P
  BY <1>2, OnlyAppend, AppendProperties
<1>3. Seq(T) \subseteq P
  <2> HIDE DEF P
  <2> QED BY <1>1, <1>2, BySteps
<1> QED BY <1>3

LEMMA OnlyConcat ==
    ASSUME NEW T, NEW s \in Seq(T), NEW S
    PROVE  \A t \in Seq(T) : Only(s \o t, S) = Only(s, S) \o Only(t, S)
<1> DEFINE P == {t \in Seq(T) : Only(s \o t, S) = Only(s, S) \o Only(t, S)}
<1>1. <<>> \in P
  <2>1. s \o <<>> = s BY ConcatEmptySeq
  <2>2. Only(s, S) \o <<>> = Only(s, S) BY ConcatEmptySeq, OnlyType
  <2> QED BY <2>1, <2>2, OnlyEmpty, EmptySeq
<1>2. ASSUME NEW t \in Seq(T), NEW x \in T, t \in P PROVE Append(t, x) \in P
  <2>1. s \o Append(t, x) = Append(s \o t, x) /\ s \o t \in Seq(T) /\ Append(t, x) \in Seq(T)
    <3>1. Append(t, x) = t \o <<x>> /\ s \o t \in Seq(T) /\ <<x>> \in Seq(T)
      BY AppendIsConcat, ConcatProperties
    <3>2. Append(s \o t, x) = (s \o t) \o <<x>> BY <3>1, AppendIsConcat
    <3>3. (s \o t) \o <<x>> = s \o (t \o <<x>>) BY <3>1, ConcatAssociative
    <3> QED BY <3>1, <3>2, <3>3, AppendProperties
  <2> DEFINE a == Only(s, S)
             b == Only(t, S)
  <2>2. a \in Seq(T) /\ b \in Seq(T) BY OnlyType
  <2>3. Only(s \o t, S) = a \o b BY <1>2
  <2>4. CASE x \in S
    <3>0. Only(Append(s \o t, x), S) = Append(Only(s \o t, S), x) BY <2>1, <2>4, OnlyAppend
    <3>1. Only(Append(s \o t, x), S) = Append(a \o b, x) BY <3>0, <2>3
    <3>2. Only(Append(t, x), S) = Append(b, x) BY <2>4, OnlyAppend
    <3> HIDE DEF a, b
    <3>3. Append(b, x) = b \o <<x>> /\ a \o b \in Seq(T) /\ <<x>> \in Seq(T)
      BY <2>2, AppendIsConcat, ConcatProperties
    <3>4. Append(a \o b, x) = (a \o b) \o <<x>> BY <3>3, AppendIsConcat
    <3>5. (a \o b) \o <<x>> = a \o (b \o <<x>>) BY <2>2, <3>3, ConcatAssociative
    <3> QED BY <2>1, <3>1, <3>2, <3>3, <3>4, <3>5 DEF a
  <2>5. CASE x \notin S
    <3>1. Only(Append(s \o t, x), S) = a \o b BY <2>1, <2>3, <2>5, OnlyAppend
    <3>2. Only(Append(t, x), S) = b BY <2>5, OnlyAppend
    <3> QED BY <3>1, <3>2, <2>1
  <2> QED BY <2>4, <2>5
<1>3. Seq(T) \subseteq P
  <2> HIDE DEF P
  <2> QED BY <1>1, <1>2, BySteps
<1> QED BY <1>3

LEMMA OnlyAll ==
    ASSUME NEW T, NEW S, T \subseteq S
    PROVE  \A s \in Seq(T) : Only(s, S) = s
<1> DEFINE P == {s \in Seq(T) : Only(s, S) = s}
<1>1. <<>> \in P BY OnlyEmpty, EmptySeq
<1>2. ASSUME NEW s \in Seq(T), NEW x \in T, s \in P PROVE Append(s, x) \in P
  BY <1>2, OnlyAppend, AppendProperties
<1>3. Seq(T) \subseteq P
  <2> HIDE DEF P
  <2> QED BY <1>1, <1>2, BySteps
<1> QED BY <1>3

LEMMA OnlyNone ==
    ASSUME NEW T, NEW S, T \cap S = {}
    PROVE  \A s \in Seq(T) : Only(s, S) = <<>>
<1> DEFINE P == {s \in Seq(T) : Only(s, S) = <<>>}
<1>1. <<>> \in P BY OnlyEmpty, EmptySeq
<1>2. ASSUME NEW s \in Seq(T), NEW x \in T, s \in P PROVE Append(s, x) \in P
  BY <1>2, OnlyAppend, AppendProperties
<1>3. Seq(T) \subseteq P
  <2> HIDE DEF P
  <2> QED BY <1>1, <1>2, BySteps
<1> QED BY <1>3


-----------------------------------------------------------------------------
(* Lexemes and events *)

Lexes == Texts \cup Terminals
Kinds == {"content", "reasoning", "name", "argument", "dropped", "reasoning_end", "start", "end"}
Events == Kinds \X Carried

\* The pieces of text that events carry.
Told(evs) == Pieces(Values(evs))

LEMMA Symbols ==
    /\ Lexes \subseteq Carried /\ Texts \cap Terminals = {} /\ "" \notin Texts
    /\ LongTexts \subseteq Texts
BY ParserAssumption DEF Lexes, Carried

LEMMA PiecesConcat ==
    ASSUME NEW s \in Seq(Carried), NEW t \in Seq(Carried)
    PROVE  Pieces(s \o t) = Pieces(s) \o Pieces(t)
BY OnlyConcat DEF Pieces

LEMMA PiecesType == \A s \in Seq(Carried) : Pieces(s) \in Seq(Carried)
BY OnlyType DEF Pieces

LEMMA PiecesEmpty == Pieces(<<>>) = <<>>
BY OnlyEmpty DEF Pieces

LEMMA PiecesAppend ==
    ASSUME NEW s \in Seq(Carried), NEW l \in Carried
    PROVE  Pieces(Append(s, l)) = Pieces(s) \o Pieces(<<l>>)
<1>1. Append(s, l) = s \o <<l>> /\ <<l>> \in Seq(Carried) BY AppendIsConcat
<1> QED BY <1>1, PiecesConcat

LEMMA PiecesSilent ==
    ASSUME NEW s \in Seq(Carried \ Texts)
    PROVE  Pieces(s) = <<>>
<1>1. (Carried \ Texts) \cap Texts = {} OBVIOUS
<1> QED BY <1>1, OnlyNone DEF Pieces

LEMMA ValuesIs ==
    ASSUME NEW E, NEW V, \A x \in E : x[2] \in V, NEW evs \in Seq(E)
    PROVE  /\ Values(evs) \in Seq(V) /\ Len(Values(evs)) = Len(evs)
           /\ \A i \in 1 .. Len(evs) : Values(evs)[i] = evs[i][2]
<1>1. DOMAIN evs = 1 .. Len(evs) /\ Len(evs) \in Nat BY LenProperties
<1>2. \A i \in 1 .. Len(evs) : evs[i] \in E BY ElementOfSeq
<1>3. \A i \in 1 .. Len(evs) : evs[i][2] \in V BY <1>2
<1>4. Values(evs) = [i \in 1 .. Len(evs) |-> evs[i][2]] BY <1>1 DEF Values
<1> QED BY <1>1, <1>3, <1>4

LEMMA ValuesConcat ==
    ASSUME NEW E, NEW V, \A x \in E : x[2] \in V, NEW a \in Seq(E), NEW b \in Seq(E)
    PROVE  Values(a \o b) = Values(a) \o Values(b)
<1> DEFINE c == a \o b
           va == Values(a)
           vb == Values(b)
           vc == Values(c)
<1>1. /\ c \in Seq(E) /\ Len(c) = Len(a) + Len(b) /\ Len(a) \in Nat /\ Len(b) \in Nat
      /\ \A i \in 1 .. Len(a) + Len(b) : c[i] = IF i <= Len(a) THEN a[i] ELSE b[i - Len(a)]
  BY ConcatProperties, LenProperties
<1>2. va \in Seq(V) /\ Len(va) = Len(a) /\ \A i \in 1 .. Len(a) : va[i] = a[i][2] BY ValuesIs
<1>3. vb \in Seq(V) /\ Len(vb) = Len(b) /\ \A i \in 1 .. Len(b) : vb[i] = b[i][2] BY ValuesIs
<1> HIDE DEF c
<1>4. vc \in Seq(V) /\ Len(vc) = Len(c) /\ \A i \in 1 .. Len(c) : vc[i] = c[i][2] BY <1>1, ValuesIs
<1> HIDE DEF va, vb, vc
<1>5. /\ va \o vb \in Seq(V) /\ Len(va \o vb) = Len(va) + Len(vb)
      /\ \A i \in 1 .. Len(va) + Len(vb) : (va \o vb)[i] = IF i <= Len(va) THEN va[i] ELSE vb[i - Len(va)]
  <2>1. va \in Seq(V) /\ vb \in Seq(V) BY <1>2, <1>3
  <2> QED BY <2>1, ConcatProperties
<1>6. ASSUME NEW i \in 1 .. Len(vc) PROVE vc[i] = (va \o vb)[i]
  <2>1. PICK n \in Nat, m \in Nat : n = Len(a) /\ m = Len(b) BY <1>1
  <2>2. /\ i \in 1 .. n + m /\ vc[i] = c[i][2]
        /\ c[i] = IF i <= n THEN a[i] ELSE b[i - n]
    BY <2>1, <1>1, <1>4
  <2>3. (va \o vb)[i] = IF i <= n THEN va[i] ELSE vb[i - n] BY <2>1, <2>2, <1>2, <1>3, <1>5
  <2>4. CASE i <= n
    <3>1. i \in 1 .. n BY <2>2, <2>4
    <3>2. va[i] = a[i][2] BY <3>1, <2>1, <1>2
    <3> QED BY <2>2, <2>3, <2>4, <3>2
  <2>5. CASE ~ (i <= n)
    <3>1. i - n \in 1 .. m BY <2>2, <2>5
    <3>2. vb[i - n] = b[i - n][2] BY <3>1, <2>1, <1>3
    <3> QED BY <2>2, <2>3, <2>5, <3>2
  <2> QED BY <2>4, <2>5
<1>7. vc = va \o vb
  <2>1. Len(vc) = Len(va \o vb) BY <1>1, <1>2, <1>3, <1>4, <1>5
  <2> QED BY <2>1, <1>4, <1>5, <1>6, SeqEqual
<1> QED BY <1>7 DEF vc, va, vb, c

LEMMA EventValue == \A x \in Events : x[2] \in Carried
BY DEF Events

LEMMA ToldType == \A evs \in Seq(Events) : Told(evs) \in Seq(Carried)
<1> SUFFICES ASSUME NEW evs \in Seq(Events) PROVE Told(evs) \in Seq(Carried) OBVIOUS
<1>1. Values(evs) \in Seq(Carried) BY EventValue, ValuesIs
<1> QED BY <1>1, PiecesType DEF Told

LEMMA ToldEmpty == Told(<<>>) = <<>>
<1>1. Values(<<>>) = <<>> BY DEF Values
<1> QED BY <1>1, PiecesEmpty DEF Told

LEMMA ToldConcat ==
    ASSUME NEW a \in Seq(Events), NEW b \in Seq(Events)
    PROVE  Told(a \o b) = Told(a) \o Told(b)
<1>1. Values(a \o b) = Values(a) \o Values(b) BY EventValue, ValuesConcat
<1>2. Values(a) \in Seq(Carried) /\ Values(b) \in Seq(Carried) BY EventValue, ValuesIs
<1> QED BY <1>1, <1>2, PiecesConcat DEF Told

LEMMA ToldOne ==
    ASSUME NEW k \in Kinds, NEW l \in Carried
    PROVE  /\ <<<<k, l>>>> \in Seq(Events) /\ <<<<k, l>>>> \in Seq({k} \X Carried)
           /\ Told(<<<<k, l>>>>) = Pieces(<<l>>)
<1>1. Values(<<<<k, l>>>>) = <<l>>
  <2> DEFINE s == <<<<k, l>>>>
  <2>1. s \in Seq({k} \X {l}) /\ Len(s) = 1 /\ s[1] = <<k, l>> OBVIOUS
  <2> HIDE DEF s
  <2>0. \A x \in {k} \X {l} : x[2] \in {l} OBVIOUS
  <2>2. Values(s) \in Seq({l}) /\ Len(Values(s)) = 1 /\ Values(s)[1] = s[1][2]
    <3>1. Values(s) \in Seq({l}) /\ Len(Values(s)) = 1 BY <2>1, <2>0, ValuesIs
    <3>2. \A i \in 1 .. Len(s) : Values(s)[i] = s[i][2] BY <2>1, <2>0, ValuesIs
    <3> QED BY <3>1, <3>2, <2>1
  <2>3. Values(s)[1] = l BY <2>1, <2>2
  <2>4. \A i \in 1 .. Len(Values(s)) : Values(s)[i] = <<l>>[i] BY <2>2, <2>3
  <2>5. <<l>> \in Seq({l}) /\ Len(<<l>>) = 1 OBVIOUS
  <2> QED BY <2>2, <2>4, <2>5, SeqEqual DEF s
<1> QED BY <1>1 DEF Told, Events

\* What carries no text tells none.
LEMMA ToldSilent ==
    ASSUME NEW evs \in Seq(Kinds \X (Carried \ Texts))
    PROVE  evs \in Seq(Events) /\ Told(evs) = <<>>
<1>0. \A x \in Kinds \X (Carried \ Texts) : x[2] \in Carried \ Texts OBVIOUS
<1>1. Values(evs) \in Seq(Carried \ Texts) BY <1>0, ValuesIs
<1>2. Kinds \X (Carried \ Texts) \subseteq Events BY DEF Events
<1>3. evs \in Seq(Events) BY <1>2, SeqMonotonic
<1> QED BY <1>1, <1>3, PiecesSilent DEF Told

LEMMA AsIs ==
    ASSUME NEW k \in Kinds, NEW ls \in Seq(Lexes)
    PROVE  /\ As(k, ls) \in Seq({k} \X Lexes) /\ As(k, ls) \in Seq(Events)
           /\ Values(As(k, ls)) = ls /\ Told(As(k, ls)) = Pieces(ls)
<1>1. DOMAIN ls = 1 .. Len(ls) /\ Len(ls) \in Nat /\ \A i \in 1 .. Len(ls) : ls[i] \in Lexes
  BY LenProperties, ElementOfSeq
<1>2. As(k, ls) = [i \in 1 .. Len(ls) |-> <<k, ls[i]>>] BY <1>1 DEF As
<1> DEFINE a == As(k, ls)
<1>3. a \in Seq({k} \X Lexes) /\ Len(a) = Len(ls) /\ \A i \in 1 .. Len(ls) : a[i] = <<k, ls[i]>>
  BY <1>1, <1>2
<1> HIDE DEF a
<1>4. Values(a) \in Seq(Lexes) /\ Len(Values(a)) = Len(ls) /\ \A i \in 1 .. Len(ls) : Values(a)[i] = a[i][2]
  <2>1. \A x \in {k} \X Lexes : x[2] \in Lexes OBVIOUS
  <2> QED BY <1>3, <2>1, ValuesIs
<1>5. \A i \in 1 .. Len(ls) : Values(a)[i] = ls[i] BY <1>3, <1>4
<1>6. Values(a) = ls BY <1>4, <1>5, SeqEqual
<1>7. {k} \X Lexes \subseteq Events BY Symbols DEF Events
<1>8. a \in Seq(Events) BY <1>3, <1>7, SeqMonotonic
<1> QED BY <1>3, <1>6, <1>8 DEF a, Told

-----------------------------------------------------------------------------
(* The table *)

LEMMA TableRows ==
    \A x \in Table :
        /\ x[1] \in States /\ x[2] \in Terminals /\ x[3] \in States
        /\ x[4] \in {<<>>, <<"content">>, <<"reasoning">>, <<"reasoning_end">>, <<"start">>, <<"end">>,
                     <<"reasoning_end", "start">>}
<1> SUFFICES ASSUME NEW x \in Table
             PROVE  /\ x[1] \in States /\ x[2] \in Terminals /\ x[3] \in States
                    /\ x[4] \in {<<>>, <<"content">>, <<"reasoning">>, <<"reasoning_end">>, <<"start">>,
                                 <<"end">>, <<"reasoning_end", "start">>}
  OBVIOUS
<1>1. x[1] \in States /\ x[3] \in States BY DEF Table, States, ToolStates
<1>2. x[2] \in Terminals BY DEF Table, Terminals
<1>3. x[4] \in {<<>>, <<"content">>, <<"reasoning">>, <<"reasoning_end">>, <<"start">>, <<"end">>,
                <<"reasoning_end", "start">>}
  BY DEF Table
<1> QED BY <1>1, <1>2, <1>3

LEMMA RowFor ==
    ASSUME NEW st \in States, NEW t \in Terminals, NEW x \in Transitions[st][t]
    PROVE  x \in Table /\ x[1] = st /\ x[2] = t
BY DEF Transitions

LEMMA NamedRow ==
    ASSUME NEW x \in Table
    PROVE  /\ x[1] = "TOOL_NAME" => x[2] = "INVOKE_NAME_END" /\ x[3] = "TOOL_ARGS" /\ x[4] = <<>>
           /\ x[1] = "TOOL_ARGS" => x[2] \in {"INVOKE_END", "TOOL_END"} /\ x[4] = <<"end">>
           /\ x[2] = "INVOKE_PREFIX" => x[3] = "TOOL_NAME"
BY DEF Table


-----------------------------------------------------------------------------
(* One lexeme *)

Engines ==
    [st : States, hold : BOOLEAN, raw : Seq(Lexes), name : Seq(Lexes),
     events : Seq(Events), prior : States, closer : BOOLEAN]

\* A candidate is held in its name or its arguments, with the events it would
\* make, which carry the text held.
EngineOK(e) ==
    /\ e \in Engines
    /\ ~ e.hold => e.raw = <<>>
    /\ e.hold => /\ e.st \in {"TOOL_NAME", "TOOL_ARGS"} /\ e.prior \in {"CONTENT", "REASONING"}
                 /\ Told(e.events) = Pieces(e.raw)

\* r is what e makes of ls: the text held and read is told or still held.
Yields(e, ls, r) ==
    /\ EngineOK(r.e) /\ r.out \in Seq(Events)
    /\ Pieces(e.raw) \o Pieces(ls) = Told(r.out) \o Pieces(r.e.raw)

LEMMA KindType ==
    ASSUME NEW st \in States
    PROVE  Kind(st) \in {"content", "reasoning", "name", "argument", "dropped"} /\ Kind(st) \in Kinds
BY DEF Kind, Kinds, States, ToolStates

LEMMA EngineTypes ==
    ASSUME NEW e, EngineOK(e)
    PROVE  /\ e \in Engines /\ e.st \in States /\ e.prior \in States /\ e.hold \in BOOLEAN
           /\ e.closer \in BOOLEAN
           /\ e.raw \in Seq(Lexes) /\ e.raw \in Seq(Carried) /\ e.name \in Seq(Lexes)
           /\ e.events \in Seq(Events)
           /\ Pieces(e.raw) \in Seq(Carried) /\ Told(e.events) \in Seq(Carried)
<1>1. /\ e \in Engines /\ e.st \in States /\ e.prior \in States /\ e.hold \in BOOLEAN
      /\ e.closer \in BOOLEAN /\ e.raw \in Seq(Lexes) /\ e.name \in Seq(Lexes)
      /\ e.events \in Seq(Events)
  BY DEF EngineOK, Engines
<1>2. e.raw \in Seq(Carried) BY <1>1, Symbols, SeqMonotonic
<1> QED BY <1>1, <1>2, PiecesType, ToldType

LEMMA FreshOK ==
    ASSUME NEW st \in States, NEW c \in BOOLEAN
    PROVE  /\ EngineOK(Fresh(st)) /\ EngineOK([Fresh(st) EXCEPT !.closer = c])
           /\ Fresh(st).raw = <<>> /\ [Fresh(st) EXCEPT !.closer = c].raw = <<>>
<1>1. <<>> \in Seq(Lexes) /\ <<>> \in Seq(Events) BY EmptySeq
<1> QED BY <1>1 DEF Fresh, EngineOK, Engines

LEMMA AbortIs ==
    ASSUME NEW e \in Engines
    PROVE  /\ EngineOK(Abort(e).e) /\ Abort(e).out \in Seq(Events)
           /\ Abort(e).out \in Seq({Kind(e.prior)} \X Lexes)
           /\ Values(Abort(e).out) = e.raw /\ Told(Abort(e).out) = Pieces(e.raw)
           /\ Abort(e).e.st = e.prior /\ Abort(e).e.hold = FALSE /\ Abort(e).e.raw = <<>>
           /\ Abort(e).e.closer = e.closer
<1>1. e.prior \in States /\ e.closer \in BOOLEAN /\ e.raw \in Seq(Lexes) BY DEF Engines
<1>2. Abort(e).e = [Fresh(e.prior) EXCEPT !.closer = e.closer] /\ Abort(e).out = As(Kind(e.prior), e.raw)
  BY DEF Abort, Result
<1>3. Kind(e.prior) \in Kinds BY <1>1, KindType
<1>4. EngineOK(Abort(e).e) BY <1>1, <1>2, FreshOK
<1>5. /\ Abort(e).e.st = e.prior /\ Abort(e).e.hold = FALSE /\ Abort(e).e.raw = <<>>
      /\ Abort(e).e.closer = e.closer
  BY <1>2 DEF Fresh
<1>6. /\ Abort(e).out \in Seq({Kind(e.prior)} \X Lexes) /\ Abort(e).out \in Seq(Events)
      /\ Values(Abort(e).out) = e.raw /\ Told(Abort(e).out) = Pieces(e.raw)
  <2>1. PICK k \in Kinds : k = Kind(e.prior) BY <1>3
  <2>2. PICK ls \in Seq(Lexes) : ls = e.raw BY <1>1
  <2> QED BY <2>1, <2>2, <1>2, AsIs
<1> QED BY <1>4, <1>5, <1>6

\* The three ways to treat a lexeme: it is told at once, held back as well, or
\* given back with all that was held.
LEMMA ToldAtOnce ==
    ASSUME NEW e, EngineOK(e), ~ e.hold, NEW l \in Lexes, NEW r,
           EngineOK(r.e), r.e.raw = <<>>, r.out \in Seq(Events), Told(r.out) = Pieces(<<l>>)
    PROVE  Yields(e, <<l>>, r)
<1>1. e.raw = <<>> BY DEF EngineOK
<1>2. <<l>> \in Seq(Carried)
  <2>1. l \in Carried BY Symbols
  <2> QED BY <2>1
<1>3. Pieces(<<l>>) \in Seq(Carried) BY <1>2, PiecesType
<1>4. <<>> \o Pieces(<<l>>) = Pieces(<<l>>) /\ Pieces(<<l>>) \o <<>> = Pieces(<<l>>)
  BY <1>3, ConcatEmptySeq
<1> QED BY <1>1, <1>4, PiecesEmpty DEF Yields

LEMMA HeldBack ==
    ASSUME NEW e, EngineOK(e), NEW l \in Lexes, NEW r,
           EngineOK(r.e), r.e.raw = Append(e.raw, l), r.out = <<>>
    PROVE  Yields(e, <<l>>, r)
<1>1. e.raw \in Seq(Carried) /\ l \in Carried BY EngineTypes, Symbols
<1>2. Pieces(r.e.raw) = Pieces(e.raw) \o Pieces(<<l>>) BY <1>1, PiecesAppend
<1>3. Pieces(r.e.raw) \in Seq(Carried) BY EngineTypes
<1>4. <<>> \o Pieces(r.e.raw) = Pieces(r.e.raw) BY <1>3, ConcatEmptySeq
<1> QED BY <1>2, <1>4, ToldEmpty, EmptySeq DEF Yields

LEMMA GivenBack ==
    ASSUME NEW e, EngineOK(e), NEW l \in Lexes, NEW r,
           EngineOK(r.e), r.e.raw = <<>>, r.out \in Seq(Events), Told(r.out) = Pieces(Append(e.raw, l))
    PROVE  Yields(e, <<l>>, r)
<1>1. e.raw \in Seq(Carried) /\ l \in Carried BY EngineTypes, Symbols
<1>2. Told(r.out) = Pieces(e.raw) \o Pieces(<<l>>) BY <1>1, PiecesAppend
<1>3. Told(r.out) \in Seq(Carried) BY ToldType
<1>4. Told(r.out) \o <<>> = Told(r.out) BY <1>3, ConcatEmptySeq
<1> QED BY <1>2, <1>4, PiecesEmpty DEF Yields

\* A terminal is not a piece of text.
LEMMA TerminalSilent ==
    ASSUME NEW t \in Terminals
    PROVE  t \in Lexes /\ t \in Carried \ Texts /\ Pieces(<<t>>) = <<>>
<1>1. t \in Lexes /\ t \in Carried \ Texts BY Symbols DEF Lexes
<1>2. <<t>> \in Seq(Carried \ Texts) BY <1>1
<1> QED BY <1>1, <1>2, PiecesSilent

\* The candidate with one more lexeme, all of which is given back.
LEMMA AbortWith ==
    ASSUME NEW e, EngineOK(e), NEW l \in Lexes
    PROVE  /\ [e EXCEPT !.raw = Append(@, l)] \in Engines
           /\ Yields(e, <<l>>, Abort([e EXCEPT !.raw = Append(@, l)]))
<1> DEFINE a == [e EXCEPT !.raw = Append(@, l)]
<1>1. a \in Engines /\ a.raw = Append(e.raw, l)
  <2>1. e \in Engines BY DEF EngineOK
  <2>2. Append(e.raw, l) \in Seq(Lexes) BY EngineTypes, AppendProperties
  <2> QED BY <2>1, <2>2 DEF Engines
<1> HIDE DEF a
<1>2. Yields(e, <<l>>, Abort(a)) BY <1>1, AbortIs, GivenBack
<1> QED BY <1>1, <1>2 DEF a

LEMMA TextYields ==
    ASSUME NEW e, EngineOK(e), NEW l \in Lexes
    PROVE  Yields(e, <<l>>, Text(e, l))
<1>1. l \in Carried /\ Kind(e.st) \in Kinds BY Symbols, EngineTypes, KindType
<1>2. CASE ~ e.hold
  <2>1. Text(e, l) = Result(e, <<<<Kind(e.st), l>>>>) BY <1>2 DEF Text
  <2>2. Text(e, l).e = e /\ Text(e, l).out = <<<<Kind(e.st), l>>>> BY <2>1 DEF Result
  <2>3. e.raw = <<>> BY <1>2 DEF EngineOK
  <2> QED BY <1>1, <1>2, <2>2, <2>3, ToldOne, ToldAtOnce
<1>3. CASE e.hold /\ e.st = "TOOL_NAME" /\ l \in LongTexts
  <2>1. Text(e, l) = Abort([e EXCEPT !.raw = Append(@, l)]) BY <1>3 DEF Text
  <2> QED BY <2>1, AbortWith
<1>4. CASE e.hold /\ ~ (e.st = "TOOL_NAME" /\ l \in LongTexts)
  <2> DEFINE h == [e EXCEPT !.raw = Append(@, l),
                            !.name = IF e.st = "TOOL_NAME" THEN Append(@, l) ELSE @,
                            !.events = Append(@, <<Kind(e.st), l>>)]
  <2>1. Text(e, l) = Result(h, <<>>) BY <1>4 DEF Text
  <2>2. /\ h.raw = Append(e.raw, l) /\ h.events = Append(e.events, <<Kind(e.st), l>>)
        /\ h.hold = e.hold /\ h.st = e.st /\ h.prior = e.prior
    BY EngineTypes DEF Engines
  <2>3. h \in Engines
    <3>1. <<Kind(e.st), l>> \in Events BY <1>1 DEF Events
    <3>2. Append(e.events, <<Kind(e.st), l>>) \in Seq(Events) BY <3>1, EngineTypes, AppendProperties
    <3>3. Append(e.raw, l) \in Seq(Lexes) /\ Append(e.name, l) \in Seq(Lexes)
      BY EngineTypes, AppendProperties
    <3>4. PICK m \in Seq(Lexes) : m = IF e.st = "TOOL_NAME" THEN Append(e.name, l) ELSE e.name
      BY <3>3, EngineTypes
    <3>5. h = [e EXCEPT !.raw = Append(e.raw, l), !.name = m, !.events = Append(e.events, <<Kind(e.st), l>>)]
      BY <3>4, EngineTypes DEF Engines
    <3>6. e \in Engines BY EngineTypes
    <3> QED BY <3>2, <3>3, <3>5, <3>6 DEF Engines
  <2>4. Told(h.events) = Pieces(h.raw)
    <3>1. <<<<Kind(e.st), l>>>> \in Seq(Events) /\ Told(<<<<Kind(e.st), l>>>>) = Pieces(<<l>>)
      BY <1>1, ToldOne
    <3>2. h.events = e.events \o <<<<Kind(e.st), l>>>>
      <4>1. <<Kind(e.st), l>> \in Events BY <1>1 DEF Events
      <4> QED BY <4>1, <2>2, EngineTypes, AppendIsConcat
    <3>3. Told(h.events) = Told(e.events) \o Pieces(<<l>>) BY <3>1, <3>2, EngineTypes, ToldConcat
    <3>4. Pieces(h.raw) = Pieces(e.raw) \o Pieces(<<l>>) BY <2>2, <1>1, EngineTypes, PiecesAppend
    <3> QED BY <3>3, <3>4, <1>4 DEF EngineOK
  <2>5. EngineOK(h)
    <3> HIDE DEF h
    <3> QED BY <2>2, <2>3, <2>4, <1>4 DEF EngineOK
  <2>6. Text(e, l).e = h /\ Text(e, l).out = <<>> BY <2>1 DEF Result
  <2> HIDE DEF h
  <2> QED BY <2>2, <2>5, <2>6, HeldBack
<1> QED BY <1>2, <1>3, <1>4


\* What a transition says carries no text.
LEMMA RunIs ==
    ASSUME NEW e, EngineOK(e), NEW t \in Terminals, NEW x \in Table
    PROVE  /\ Run(e, t, x).e = [e EXCEPT !.st = x[3]] /\ Run(e, t, x).e \in Engines
           /\ Run(e, t, x).out \in Seq({x[4][i] : i \in DOMAIN x[4]} \X {t})
           /\ Run(e, t, x).out \in Seq(Events) /\ Told(Run(e, t, x).out) = <<>>
           /\ {x[4][i] : i \in DOMAIN x[4]} \subseteq Kinds
<1>1. Run(e, t, x).e = [e EXCEPT !.st = x[3]] /\ Run(e, t, x).out = [i \in DOMAIN x[4] |-> <<x[4][i], t>>]
  BY DEF Run, Result
<1>2. Run(e, t, x).e \in Engines
  <2>1. x[3] \in States /\ e \in Engines BY TableRows, EngineTypes
  <2> QED BY <2>1, <1>1 DEF Engines
<1>3. /\ \E n \in Nat : DOMAIN x[4] = 1 .. n
      /\ {x[4][i] : i \in DOMAIN x[4]} \subseteq Kinds
  <2>1. PICK w : w = x[4] OBVIOUS
  <2>2. w \in {<<>>, <<"content">>, <<"reasoning">>, <<"reasoning_end">>, <<"start">>, <<"end">>,
               <<"reasoning_end", "start">>}
    BY <2>1, TableRows
  <2>3. \E n \in Nat : DOMAIN w = 1 .. n
    <3>1. CASE w = <<>>
      <4>1. DOMAIN w = 1 .. 0 BY <3>1
      <4> QED BY <4>1
    <3>2. CASE \E k : w = <<k>>
      <4>1. DOMAIN w = 1 .. 1 BY <3>2
      <4> QED BY <4>1
    <3>3. CASE w = <<"reasoning_end", "start">>
      <4>1. DOMAIN w = 1 .. 2 BY <3>3
      <4> QED BY <4>1
    <3> QED BY <2>2, <3>1, <3>2, <3>3
  <2>4. \A i \in DOMAIN w : w[i] \in Kinds BY <2>2 DEF Kinds
  <2> QED BY <2>1, <2>3, <2>4
<1>4. Run(e, t, x).out \in Seq({x[4][i] : i \in DOMAIN x[4]} \X {t})
  <2>1. PICK n \in Nat : DOMAIN x[4] = 1 .. n BY <1>3
  <2>2. PICK K : K = {x[4][i] : i \in DOMAIN x[4]} OBVIOUS
  <2>3. \A i \in 1 .. n : <<x[4][i], t>> \in K \X {t} BY <2>1, <2>2
  <2>4. Run(e, t, x).out = [i \in 1 .. n |-> <<x[4][i], t>>] BY <1>1, <2>1
  <2>5. Run(e, t, x).out \in Seq(K \X {t}) BY <2>3, <2>4
  <2> QED BY <2>2, <2>5
<1>5. Run(e, t, x).out \in Seq(Kinds \X (Carried \ Texts))
  <2>1. PICK K : K = {x[4][i] : i \in DOMAIN x[4]} /\ K \subseteq Kinds BY <1>3
  <2>2. t \in Carried \ Texts BY TerminalSilent
  <2>3. K \X {t} \subseteq Kinds \X (Carried \ Texts) BY <2>1, <2>2
  <2>4. Run(e, t, x).out \in Seq(K \X {t}) BY <2>1, <1>4
  <2> HIDE <2>1
  <2> QED BY <2>3, <2>4, SeqMonotonic
<1> QED BY <1>1, <1>2, <1>3, <1>4, <1>5, ToldSilent

LEMMA BeginYields ==
    ASSUME NEW e, EngineOK(e), ~ e.hold, NEW t \in Terminals, NEW x \in Table, x[1] = e.st, x[2] = t,
           Provisional(e.st, t)
    PROVE  Yields(e, <<t>>, Begin(e, t, x))
<1>1. e.st \in {"CONTENT", "REASONING"} /\ x[3] = "TOOL_NAME" BY NamedRow DEF Provisional
<1> DEFINE b == Begin(e, t, x).e
<1>2. /\ b = [Run(e, t, x).e EXCEPT !.hold = TRUE, !.raw = <<t>>, !.name = <<>>,
                                    !.events = Run(e, t, x).out, !.prior = e.st]
      /\ Begin(e, t, x).out = <<>>
  BY DEF Begin, Result
<1>3. /\ b \in Engines /\ b.hold = TRUE /\ b.raw = <<t>> /\ b.events = Run(e, t, x).out
      /\ b.prior = e.st /\ b.st = "TOOL_NAME"
  <2>1. Run(e, t, x).e \in Engines /\ Run(e, t, x).out \in Seq(Events) BY RunIs
  <2>2. Run(e, t, x).e.st = "TOOL_NAME"
    <3>1. Run(e, t, x).e = [e EXCEPT !.st = x[3]] BY DEF Run, Result
    <3>2. e \in Engines BY EngineTypes
    <3> QED BY <3>1, <3>2, <1>1 DEF Engines
  <2>3. <<t>> \in Seq(Lexes) /\ <<>> \in Seq(Lexes)
    <3>1. t \in Lexes BY TerminalSilent
    <3> QED BY <3>1
  <2>4. PICK g \in Engines : g = Run(e, t, x).e BY <2>1
  <2>5. PICK evs \in Seq(Events) : evs = Run(e, t, x).out BY <2>1
  <2>6. b = [g EXCEPT !.hold = TRUE, !.raw = <<t>>, !.name = <<>>, !.events = evs, !.prior = e.st]
    BY <2>4, <2>5, <1>2
  <2>7. e.st \in States BY EngineTypes
  <2> HIDE DEF b
  <2> QED BY <2>2, <2>3, <2>4, <2>5, <2>6, <2>7 DEF Engines
<1>4. Told(b.events) = Pieces(b.raw)
  <2>1. Told(Run(e, t, x).out) = <<>> BY RunIs
  <2>2. Pieces(<<t>>) = <<>> BY TerminalSilent
  <2> QED BY <2>1, <2>2, <1>3
<1>5. EngineOK(b)
  <2> HIDE DEF b
  <2> QED BY <1>1, <1>3, <1>4 DEF EngineOK
<1>6. b.raw = Append(e.raw, t)
  <2>1. e.raw = <<>> BY DEF EngineOK
  <2> QED BY <2>1, <1>3
<1> QED BY <1>2, <1>5, <1>6, TerminalSilent, HeldBack

LEMMA ApplyYields ==
    ASSUME NEW e, EngineOK(e), ~ e.hold, NEW t \in Terminals, NEW x \in Table
    PROVE  Yields(e, <<t>>, Apply(e, t, x))
<1> DEFINE c == [e EXCEPT !.closer = @ /\ ~ (e.st = "CONTENT" /\ x[3] \in ToolStates)]
<1>1. EngineOK(c) /\ c.hold = FALSE /\ c.raw = <<>>
  <2>1. PICK v \in BOOLEAN : v = (e.closer /\ ~ (e.st = "CONTENT" /\ x[3] \in ToolStates)) BY EngineTypes
  <2>2. e \in Engines BY EngineTypes
  <2>3. c = [e EXCEPT !.closer = v] BY <2>1, <2>2 DEF Engines
  <2>4. e.raw = <<>> BY DEF EngineOK
  <2> HIDE DEF c
  <2> QED BY <2>2, <2>3, <2>4 DEF Engines, EngineOK
<1>2. Apply(e, t, x) = Run(c, t, x) BY DEF Apply
<1> HIDE DEF c
<1>3. /\ Run(c, t, x).e = [c EXCEPT !.st = x[3]] /\ Run(c, t, x).e \in Engines
      /\ Run(c, t, x).out \in Seq(Events) /\ Told(Run(c, t, x).out) = <<>>
  <2>1. EngineOK(c) BY <1>1
  <2> QED BY <2>1, RunIs
<1>4. Run(c, t, x).e.hold = FALSE /\ Run(c, t, x).e.raw = <<>>
  <2>1. c \in Engines BY <1>1, EngineTypes
  <2> QED BY <2>1, <1>1, <1>3 DEF Engines
<1>5. EngineOK(Run(c, t, x).e) BY <1>3, <1>4 DEF EngineOK
<1> QED BY <1>2, <1>3, <1>4, <1>5, TerminalSilent, ToldAtOnce

LEMMA SkippedYields ==
    ASSUME NEW e, EngineOK(e), ~ e.hold, NEW t \in Terminals, NEW x \in Table
    PROVE  Yields(e, <<t>>, Skipped(e, t, x))
<1>1. e.raw = <<>> BY DEF EngineOK
<1>2. t \in Lexes /\ t \in Carried \ Texts /\ Pieces(<<t>>) = <<>> BY TerminalSilent
<1>3. CASE "reasoning_end" \in {x[4][i] : i \in DOMAIN x[4]}
  <2>1. /\ Skipped(e, t, x).e = [e EXCEPT !.st = "CONTENT"]
        /\ Skipped(e, t, x).out = <<<<"reasoning_end", t>>, <<"content", t>>>>
    BY <1>3 DEF Skipped, Result
  <2>2. /\ EngineOK(Skipped(e, t, x).e) /\ Skipped(e, t, x).e.raw = <<>>
    <3>1. PICK a : a = [e EXCEPT !.st = "CONTENT"] OBVIOUS
    <3>2. e \in Engines /\ "CONTENT" \in States BY EngineTypes DEF States
    <3>3. a \in Engines /\ a.hold = FALSE /\ a.raw = <<>> BY <3>1, <3>2, <1>1 DEF Engines
    <3> QED BY <3>1, <3>3, <2>1 DEF EngineOK
  <2>3. Skipped(e, t, x).out \in Seq(Kinds \X (Carried \ Texts)) BY <2>1, <1>2 DEF Kinds
  <2> QED BY <2>2, <2>3, <1>2, ToldSilent, ToldAtOnce
<1>4. CASE ~ ("reasoning_end" \in {x[4][i] : i \in DOMAIN x[4]})
  <2>1. Skipped(e, t, x).e = e /\ Skipped(e, t, x).out = <<<<Kind(e.st), t>>>>
    BY <1>4 DEF Skipped, Result
  <2>2. Kind(e.st) \in Kinds BY EngineTypes, KindType
  <2> QED BY <2>1, <2>2, <1>1, <1>2, ToldOne, ToldAtOnce
<1> QED BY <1>3, <1>4

LEMMA CommitYields ==
    ASSUME NEW e, EngineOK(e), e.hold, NEW t \in Terminals, NEW x \in Table, NEW skip \in BOOLEAN
    PROVE  Yields(e, <<t>>, Commit(e, t, x, skip))
<1>1. t \in Lexes /\ t \in Carried \ Texts /\ Pieces(<<t>>) = <<>> BY TerminalSilent
<1>2. Commit(e, t, x, skip).e = [Fresh("CONTENT") EXCEPT !.closer = TRUE]
  BY DEF Commit, Result, Committed
<1>3. EngineOK(Commit(e, t, x, skip).e) /\ Commit(e, t, x, skip).e.raw = <<>>
  <2>1. "CONTENT" \in States BY DEF States
  <2> QED BY <2>1, <1>2, FreshOK
<1>4. Commit(e, t, x, skip).out \in Seq(Events)
      /\ Told(Commit(e, t, x, skip).out) = Pieces(Append(e.raw, t))
  <2>1. CASE skip
    <3> DEFINE a == IF e.prior = "REASONING" THEN <<<<"reasoning_end", t>>>> ELSE <<>>
               b == As("content", Append(e.raw, t))
    <3>1. Commit(e, t, x, skip).out = a \o b BY <2>1 DEF Commit, Result
    <3>2. a \in Seq(Events) /\ Told(a) = <<>>
      <4>1. <<<<"reasoning_end", t>>>> \in Seq(Events) /\ Told(<<<<"reasoning_end", t>>>>) = <<>>
        BY <1>1, ToldOne DEF Kinds
      <4> QED BY <4>1, ToldEmpty, EmptySeq
    <3>3. b \in Seq(Events) /\ Told(b) = Pieces(Append(e.raw, t))
      <4>1. Append(e.raw, t) \in Seq(Lexes) BY <1>1, EngineTypes, AppendProperties
      <4> QED BY <4>1, AsIs DEF Kinds
    <3> HIDE DEF a, b
    <3>4. Told(a \o b) = Told(a) \o Told(b) /\ a \o b \in Seq(Events)
      BY <3>2, <3>3, ToldConcat, ConcatProperties
    <3>5. Told(b) \in Seq(Carried) BY <3>3, ToldType
    <3>6. <<>> \o Told(b) = Told(b) BY <3>5, ConcatEmptySeq
    <3> QED BY <3>1, <3>2, <3>3, <3>4, <3>6
  <2>2. CASE ~ skip
    <3>1. Commit(e, t, x, skip).out = e.events \o Run(e, t, x).out BY <2>2 DEF Commit, Result
    <3>2. Run(e, t, x).out \in Seq(Events) /\ Told(Run(e, t, x).out) = <<>> BY RunIs
    <3>3. /\ Told(Commit(e, t, x, skip).out) = Told(e.events) \o <<>>
          /\ Commit(e, t, x, skip).out \in Seq(Events)
      BY <3>1, <3>2, EngineTypes, ToldConcat, ConcatProperties
    <3>4. Pieces(Append(e.raw, t)) = Pieces(e.raw) \o <<>> BY <1>1, EngineTypes, PiecesAppend
    <3> QED BY <3>3, <3>4 DEF EngineOK
  <2> QED BY <2>1, <2>2
<1> QED BY <1>1, <1>3, <1>4, GivenBack

LEMMA AdvanceYields ==
    ASSUME NEW e, EngineOK(e), e.hold, NEW t \in Terminals, NEW x \in Table, x[1] = e.st, x[2] = t,
           NEW skip \in BOOLEAN
    PROVE  Yields(e, <<t>>, Advance(e, t, x, skip))
<1>1. t \in Lexes /\ t \in Carried \ Texts /\ Pieces(<<t>>) = <<>> BY TerminalSilent
<1>2. CASE e.st = "TOOL_NAME" /\ Known(e)
  <2> DEFINE h == [Run(e, t, x).e EXCEPT !.raw = Append(@, t), !.events = @ \o Run(e, t, x).out]
  <2>1. Advance(e, t, x, skip).e = h /\ Advance(e, t, x, skip).out = <<>> BY <1>2 DEF Advance, Result
  <2>2. /\ Run(e, t, x).e \in Engines /\ Run(e, t, x).out \in Seq(Events)
        /\ Told(Run(e, t, x).out) = <<>>
    BY RunIs
  <2>3. x[3] = "TOOL_ARGS" BY <1>2, NamedRow
  <2>4. /\ Run(e, t, x).e.st = "TOOL_ARGS" /\ Run(e, t, x).e.raw = e.raw /\ Run(e, t, x).e.hold = TRUE
        /\ Run(e, t, x).e.events = e.events /\ Run(e, t, x).e.prior = e.prior
    <3>1. Run(e, t, x).e = [e EXCEPT !.st = x[3]] BY DEF Run, Result
    <3>2. e \in Engines BY EngineTypes
    <3> QED BY <3>1, <3>2, <2>3 DEF Engines
  <2>5. /\ h.raw = Append(e.raw, t) /\ h.events = e.events \o Run(e, t, x).out /\ h.hold = TRUE
        /\ h.st = "TOOL_ARGS" /\ h.prior = e.prior
    BY <2>2, <2>4 DEF Engines
  <2>6. h \in Engines
    <3>1. Append(e.raw, t) \in Seq(Lexes) /\ e.events \o Run(e, t, x).out \in Seq(Events)
      BY <1>1, <2>2, EngineTypes, AppendProperties, ConcatProperties
    <3> QED BY <3>1, <2>2, <2>4 DEF Engines
  <2> HIDE DEF h
  <2>7. Told(h.events) = Pieces(h.raw)
    <3>1. Told(h.events) = Told(e.events) \o <<>> BY <2>2, <2>5, EngineTypes, ToldConcat
    <3>2. Pieces(h.raw) = Pieces(e.raw) \o <<>> BY <1>1, <2>5, EngineTypes, PiecesAppend
    <3> QED BY <3>1, <3>2 DEF EngineOK
  <2>8. EngineOK(h) BY <2>5, <2>6, <2>7 DEF EngineOK
  <2> QED BY <2>1, <2>5, <2>8, <1>1, HeldBack
<1>3. CASE ~ (e.st = "TOOL_NAME" /\ Known(e)) /\ e.st = "TOOL_ARGS" /\ Commits(t)
  <2>1. Advance(e, t, x, skip) = Commit(e, t, x, skip) BY <1>3 DEF Advance
  <2> QED BY <2>1, CommitYields
<1>4. CASE ~ (e.st = "TOOL_NAME" /\ Known(e)) /\ ~ (e.st = "TOOL_ARGS" /\ Commits(t))
  <2>1. Advance(e, t, x, skip) = Abort([e EXCEPT !.raw = Append(@, t)]) BY <1>4 DEF Advance
  <2> QED BY <2>1, <1>1, AbortWith
<1> QED BY <1>2, <1>3, <1>4

LEMMA UnheldYields ==
    ASSUME NEW e, EngineOK(e), NEW t \in Terminals, NEW skip \in BOOLEAN
    PROVE  Yields(e, <<t>>, Unheld(e, t, skip))
<1>1. CASE e.closer /\ e.st = "CONTENT" /\ t \in ToolExits
  <2>1. Unheld(e, t, skip).e = [e EXCEPT !.closer = FALSE] /\ Unheld(e, t, skip).out = <<>>
    BY <1>1 DEF Unheld, Result
  <2>2. ~ e.hold /\ e.raw = <<>> BY <1>1, EngineTypes DEF EngineOK
  <2>3. PICK a : a = [e EXCEPT !.closer = FALSE] OBVIOUS
  <2>4. a \in Engines /\ ~ a.hold /\ a.raw = <<>>
    <3>1. e \in Engines BY EngineTypes
    <3> QED BY <3>1, <2>2, <2>3 DEF Engines
  <2>5. EngineOK(a) BY <2>4 DEF EngineOK
  <2> QED BY <2>1, <2>2, <2>3, <2>4, <2>5, TerminalSilent, ToldEmpty, EmptySeq, ToldAtOnce
<1>2. CASE ~ (e.closer /\ e.st = "CONTENT" /\ t \in ToolExits) /\ Transitions[e.st][t] = {}
  <2>1. Unheld(e, t, skip) = Text(e, t) BY <1>2 DEF Unheld
  <2> QED BY <2>1, TerminalSilent, TextYields
<1>3. CASE ~ (e.closer /\ e.st = "CONTENT" /\ t \in ToolExits) /\ Transitions[e.st][t] # {}
  <2>1. PICK x : x = CHOOSE y \in Transitions[e.st][t] : TRUE OBVIOUS
  <2>2. x \in Transitions[e.st][t] BY <1>3, <2>1
  <2>3. x \in Table /\ x[1] = e.st /\ x[2] = t BY <2>2, EngineTypes, RowFor
  <2>4. Unheld(e, t, skip) = Meaningful(e, t, x, skip) BY <1>3, <2>1 DEF Unheld
  <2>5. CASE e.hold BY <2>3, <2>4, <2>5, AdvanceYields DEF Meaningful
  <2>6. CASE ~ e.hold /\ Provisional(e.st, t) BY <2>3, <2>4, <2>6, BeginYields DEF Meaningful
  <2>7. CASE ~ e.hold /\ ~ Provisional(e.st, t) /\ skip /\ t \in ToolTerminals
    BY <2>3, <2>4, <2>7, SkippedYields DEF Meaningful
  <2>8. CASE ~ e.hold /\ ~ Provisional(e.st, t) /\ ~ (skip /\ t \in ToolTerminals)
    BY <2>3, <2>4, <2>8, ApplyYields DEF Meaningful
  <2> QED BY <2>5, <2>6, <2>7, <2>8
<1> QED BY <1>1, <1>2, <1>3


\* Concatenation under a name, for equations of which only associativity matters.
Cat(a, b) == a \o b

LEMMA CatAssociative ==
    ASSUME NEW S, NEW a \in Seq(S), NEW b \in Seq(S), NEW c \in Seq(S)
    PROVE  Cat(a, Cat(b, c)) = Cat(Cat(a, b), c)
BY ConcatAssociative DEF Cat

Joined(S, a, b, c, t1, r1, t2, r2) ==
    /\ a \in Seq(S) /\ b \in Seq(S) /\ c \in Seq(S)
    /\ t1 \in Seq(S) /\ r1 \in Seq(S) /\ t2 \in Seq(S) /\ r2 \in Seq(S)
    /\ Cat(a, b) = Cat(t1, r1) /\ Cat(r1, c) = Cat(t2, r2)

LEMMA Chain ==
    ASSUME NEW S, NEW a, NEW b, NEW c, NEW t1, NEW r1, NEW t2, NEW r2, Joined(S, a, b, c, t1, r1, t2, r2)
    PROVE  Cat(a, Cat(b, c)) = Cat(Cat(t1, t2), r2)
<1>0. /\ a \in Seq(S) /\ b \in Seq(S) /\ c \in Seq(S)
      /\ t1 \in Seq(S) /\ r1 \in Seq(S) /\ t2 \in Seq(S) /\ r2 \in Seq(S)
      /\ Cat(a, b) = Cat(t1, r1) /\ Cat(r1, c) = Cat(t2, r2)
  BY DEF Joined
<1>1. Cat(a, Cat(b, c)) = Cat(Cat(a, b), c) BY <1>0, CatAssociative
<1>2. Cat(t1, Cat(r1, c)) = Cat(Cat(t1, r1), c) BY <1>0, CatAssociative
<1>3. Cat(t1, Cat(t2, r2)) = Cat(Cat(t1, t2), r2) BY <1>0, CatAssociative
<1> QED BY <1>0, <1>1, <1>2, <1>3

LEMMA ComposeYields ==
    ASSUME NEW e, EngineOK(e), NEW ls \in Seq(Lexes), NEW ms \in Seq(Lexes), NEW r, NEW q,
           Yields(e, ls, r), Yields(r.e, ms, q)
    PROVE  Yields(e, ls \o ms, Result(q.e, r.out \o q.out))
<1>1. EngineOK(r.e) /\ r.out \in Seq(Events) /\ EngineOK(q.e) /\ q.out \in Seq(Events) BY DEF Yields
<1>2. ls \in Seq(Carried) /\ ms \in Seq(Carried) BY Symbols, SeqMonotonic
<1> DEFINE a == Pieces(e.raw)
           b == Pieces(ls)
           c == Pieces(ms)
           t1 == Told(r.out)
           r1 == Pieces(r.e.raw)
           t2 == Told(q.out)
           r2 == Pieces(q.e.raw)
<1>3. /\ a \in Seq(Carried) /\ b \in Seq(Carried) /\ c \in Seq(Carried)
      /\ r1 \in Seq(Carried) /\ r2 \in Seq(Carried)
  BY <1>1, <1>2, EngineTypes, PiecesType
<1>4. t1 \in Seq(Carried) /\ t2 \in Seq(Carried) BY <1>1, ToldType
<1>5. a \o b = t1 \o r1 /\ r1 \o c = t2 \o r2 BY DEF Yields
<1>6. Pieces(ls \o ms) = b \o c BY <1>2, PiecesConcat
<1>7. r.out \o q.out \in Seq(Events) /\ Told(r.out \o q.out) = t1 \o t2
  <2>1. r.out \o q.out \in Seq(Events) BY <1>1, ConcatProperties
  <2>2. Told(r.out \o q.out) = t1 \o t2 BY <1>1, ToldConcat
  <2> QED BY <2>1, <2>2
<1>8. Cat(a, Cat(b, c)) = Cat(Cat(t1, t2), r2)
  <2>1. Cat(a, b) = Cat(t1, r1) /\ Cat(r1, c) = Cat(t2, r2) BY <1>5 DEF Cat
  <2> HIDE DEF a, b, c, t1, r1, t2, r2
  <2>2. Joined(Carried, a, b, c, t1, r1, t2, r2) BY <1>3, <1>4, <2>1 DEF Joined
  <2> QED BY <2>2, Chain
<1>9. a \o (b \o c) = (t1 \o t2) \o r2 BY <1>8 DEF Cat
<1> QED BY <1>1, <1>6, <1>7, <1>9 DEF Yields, Result

LEMMA NothingYields ==
    ASSUME NEW e, EngineOK(e)
    PROVE  Yields(e, <<>>, Result(e, <<>>))
<1>1. Pieces(e.raw) \in Seq(Carried) BY EngineTypes
<1>2. Pieces(e.raw) \o <<>> = <<>> \o Pieces(e.raw) BY <1>1, ConcatEmptySeq
<1>3. <<>> \in Seq(Events) BY EmptySeq
<1> QED BY <1>2, <1>3, PiecesEmpty, ToldEmpty DEF Yields, Result

LEMMA AbortYields ==
    ASSUME NEW e, EngineOK(e)
    PROVE  Yields(e, <<>>, Abort(e))
<1>1. e \in Engines BY EngineTypes
<1>2. /\ EngineOK(Abort(e).e) /\ Abort(e).out \in Seq(Events) /\ Told(Abort(e).out) = Pieces(e.raw)
      /\ Abort(e).e.raw = <<>>
  BY <1>1, AbortIs
<1> QED BY <1>2, PiecesEmpty DEF Yields

LEMMA OnTerminalYields ==
    ASSUME NEW e, EngineOK(e), NEW t \in Terminals, NEW skip \in BOOLEAN
    PROVE  Yields(e, <<t>>, OnTerminal(e, t, skip))
<1>1. CASE e.hold /\ e.st = "TOOL_NAME" /\ Transitions[e.st][t] = {}
  <2>1. PICK a : a = Abort(e) OBVIOUS
  <2>2. PICK b : b = Unheld(a.e, t, skip) OBVIOUS
  <2>3. OnTerminal(e, t, skip) = Result(b.e, a.out \o b.out) BY <1>1, <2>1, <2>2 DEF OnTerminal
  <2>4. Yields(e, <<>>, a) BY <2>1, AbortYields
  <2>5. Yields(a.e, <<t>>, b)
    <3>1. EngineOK(a.e) BY <2>4 DEF Yields
    <3> QED BY <3>1, <2>2, UnheldYields
  <2>6. <<>> \in Seq(Lexes) /\ <<t>> \in Seq(Lexes)
    <3>1. t \in Lexes BY TerminalSilent
    <3> QED BY <3>1
  <2>7. Yields(e, <<>> \o <<t>>, Result(b.e, a.out \o b.out)) BY <2>4, <2>5, <2>6, ComposeYields
  <2>8. <<>> \o <<t>> = <<t>> BY <2>6, ConcatEmptySeq
  <2> QED BY <2>3, <2>7, <2>8
<1>2. CASE ~ (e.hold /\ e.st = "TOOL_NAME" /\ Transitions[e.st][t] = {})
  <2>1. OnTerminal(e, t, skip) = Unheld(e, t, skip) BY <1>2 DEF OnTerminal
  <2> QED BY <2>1, UnheldYields
<1> QED BY <1>1, <1>2

Take(e, l, skip) == IF l \in Texts THEN Text(e, l) ELSE OnTerminal(e, l, skip)

LEMMA TakeYields ==
    ASSUME NEW e, EngineOK(e), NEW l \in Lexes, NEW skip \in BOOLEAN
    PROVE  Yields(e, <<l>>, Take(e, l, skip))
<1>1. CASE l \in Texts BY <1>1, TextYields DEF Take
<1>2. CASE l \notin Texts
  <2>1. l \in Terminals BY <1>2 DEF Lexes
  <2> QED BY <2>1, <1>2, OnTerminalYields DEF Take
<1> QED BY <1>1, <1>2

-----------------------------------------------------------------------------
(* A delta *)

FeedStep(e, ls, skip, f, n) ==
    IF n = 0 THEN Result(e, <<>>)
    ELSE Result(Take(f[n - 1].e, ls[n], skip).e, f[n - 1].out \o Take(f[n - 1].e, ls[n], skip).out)

\* f is the function by which Feed() is computed.
FeedFun(e, ls, skip, f) == f = [n \in 0 .. Len(ls) |-> FeedStep(e, ls, skip, f, n)]

LEMMA FeedFunUnique ==
    ASSUME NEW e, NEW ls, NEW skip, Len(ls) \in Nat,
           NEW f, FeedFun(e, ls, skip, f), NEW g, FeedFun(e, ls, skip, g)
    PROVE  f = g
<1> DEFINE Bad == {n \in 0 .. Len(ls) : f[n] # g[n]}
<1>1. /\ DOMAIN f = 0 .. Len(ls) /\ f = [n \in DOMAIN f |-> f[n]]
      /\ \A n \in 0 .. Len(ls) : f[n] = FeedStep(e, ls, skip, f, n)
  BY DEF FeedFun
<1>2. /\ DOMAIN g = 0 .. Len(ls) /\ g = [n \in DOMAIN g |-> g[n]]
      /\ \A n \in 0 .. Len(ls) : g[n] = FeedStep(e, ls, skip, g, n)
  BY DEF FeedFun
<1>3. Bad = {}
  <2> SUFFICES ASSUME Bad # {} PROVE FALSE OBVIOUS
  <2>1. PICK n \in Bad : \A m \in Bad : n <= m
    <3>1. Bad \in SUBSET Nat OBVIOUS
    <3> HIDE DEF Bad
    <3> QED BY <3>1, Least
  <2>2. n # 0 BY <1>1, <1>2 DEF FeedStep
  <2>3. n - 1 \in 0 .. Len(ls) /\ n - 1 \notin Bad BY <2>1, <2>2
  <2>4. f[n - 1] = g[n - 1] BY <2>3
  <2> QED BY <1>1, <1>2, <2>4, <2>2 DEF FeedStep
<1> QED BY <1>1, <1>2, <1>3

LEMMA FeedFunGrows ==
    ASSUME NEW T, NEW e, NEW ls \in Seq(T), NEW l \in T, NEW skip, NEW f, FeedFun(e, ls, skip, f)
    PROVE  \E g : /\ FeedFun(e, Append(ls, l), skip, g)
                  /\ g[Len(ls) + 1] =
                       Result(Take(f[Len(ls)].e, l, skip).e, f[Len(ls)].out \o Take(f[Len(ls)].e, l, skip).out)
<1> DEFINE a == Append(ls, l)
           N == Len(ls)
           last == Result(Take(f[N].e, l, skip).e, f[N].out \o Take(f[N].e, l, skip).out)
           g == [n \in 0 .. N + 1 |-> IF n <= N THEN f[n] ELSE last]
<1>1. /\ N \in Nat /\ Len(a) = N + 1 /\ a[N + 1] = l
      /\ \A n \in 1 .. N : a[n] = ls[n]
  BY LenProperties, AppendProperties
<1>2. \A n \in 0 .. N : f[n] = FeedStep(e, ls, skip, f, n) BY DEF FeedFun
<1> HIDE DEF a, N
<1>3. \A n \in 0 .. N + 1 : g[n] = FeedStep(e, a, skip, g, n)
  <2> SUFFICES ASSUME NEW n \in 0 .. N + 1 PROVE g[n] = FeedStep(e, a, skip, g, n) OBVIOUS
  <2> HIDE DEF last
  <2>1. CASE n = 0 BY <2>1, <1>1, <1>2 DEF FeedStep
  <2>2. CASE n \in 1 .. N
    <3>1. g[n] = f[n] /\ g[n - 1] = f[n - 1] BY <2>2, <1>1
    <3>2. n \in 0 .. N /\ n # 0 /\ a[n] = ls[n] BY <2>2, <1>1
    <3> HIDE DEF g
    <3> QED BY <3>1, <3>2, <1>2 DEF FeedStep
  <2>3. CASE n = N + 1
    <3>1. n # 0 /\ a[n] = l /\ n - 1 = N /\ g[n - 1] = f[N] BY <2>3, <1>1
    <3>2. g[n] = last BY <2>3, <1>1
    <3> HIDE DEF g
    <3> QED BY <3>1, <3>2 DEF FeedStep, last
  <2> QED BY <2>1, <2>2, <2>3, <1>1
<1>4. g = [n \in 0 .. Len(a) |-> FeedStep(e, a, skip, g, n)] BY <1>3, <1>1
<1>5. g[N + 1] = last BY <1>1
<1>6. FeedFun(e, a, skip, g)
  <2> HIDE DEF g
  <2> QED BY <1>4 DEF FeedFun
<1> QED BY <1>5, <1>6 DEF a, N

LEMMA FeedFunExists ==
    ASSUME NEW T, NEW e, NEW skip
    PROVE  \A ls \in Seq(T) : \E f : FeedFun(e, ls, skip, f)
<1> DEFINE P == {ls \in Seq(T) : \E f : FeedFun(e, ls, skip, f)}
<1>1. <<>> \in P
  <2> DEFINE f == [n \in 0 .. 0 |-> Result(e, <<>>)]
  <2>1. f = [n \in 0 .. Len(<<>>) |-> FeedStep(e, <<>>, skip, f, n)] BY DEF FeedStep
  <2>2. FeedFun(e, <<>>, skip, f)
    <3> HIDE DEF f
    <3> QED BY <2>1 DEF FeedFun
  <2> HIDE DEF f
  <2> QED BY <2>2, EmptySeq
<1>2. ASSUME NEW ls \in Seq(T), NEW l \in T, ls \in P PROVE Append(ls, l) \in P
  <2>1. PICK f : FeedFun(e, ls, skip, f) BY <1>2
  <2>2. \E g : FeedFun(e, Append(ls, l), skip, g) BY <2>1, FeedFunGrows
  <2> QED BY <2>2, AppendProperties
<1>3. Seq(T) \subseteq P
  <2> HIDE DEF P
  <2> QED BY <1>1, <1>2, BySteps
<1> QED BY <1>3

LEMMA FeedIs ==
    ASSUME NEW e, NEW ls, NEW skip, Len(ls) \in Nat, NEW f, FeedFun(e, ls, skip, f)
    PROVE  Feed(e, ls, skip) = f[Len(ls)]
<1> DEFINE Step(g, n) == IF n = 0 THEN Result(e, <<>>)
                         ELSE Result((IF ls[n] \in Texts THEN Text(g[n - 1].e, ls[n])
                                      ELSE OnTerminal(g[n - 1].e, ls[n], skip)).e,
                                     g[n - 1].out \o (IF ls[n] \in Texts THEN Text(g[n - 1].e, ls[n])
                                                      ELSE OnTerminal(g[n - 1].e, ls[n], skip)).out)
           c == CHOOSE g : g = [n \in 0 .. Len(ls) |-> Step(g, n)]
<1>1. Feed(e, ls, skip) = c[Len(ls)] BY DEF Feed
<1>2. f = [n \in 0 .. Len(ls) |-> Step(f, n)] BY DEF FeedFun, FeedStep, Take
<1>3. c = [n \in 0 .. Len(ls) |-> Step(c, n)] BY <1>2
<1>4. FeedFun(e, ls, skip, c)
  <2> HIDE DEF c
  <2> QED BY <1>3 DEF FeedFun, FeedStep, Take
<1>5. c = f
  <2> HIDE DEF c
  <2> QED BY <1>4, FeedFunUnique
<1> QED BY <1>1, <1>5

LEMMA FeedEmpty == ASSUME NEW e, NEW skip PROVE Feed(e, <<>>, skip) = Result(e, <<>>)
<1>1. PICK f : FeedFun(e, <<>>, skip, f) BY FeedFunExists, EmptySeq
<1>2. f[0] = Result(e, <<>>) BY <1>1 DEF FeedFun, FeedStep
<1> QED BY <1>1, <1>2, FeedIs

LEMMA FeedAppend ==
    ASSUME NEW T, NEW e, NEW skip, NEW ls \in Seq(T), NEW l \in T, NEW p, p = Feed(e, ls, skip)
    PROVE  Feed(e, Append(ls, l), skip) =
             Result(Take(p.e, l, skip).e, p.out \o Take(p.e, l, skip).out)
<1>1. PICK f : FeedFun(e, ls, skip, f) BY FeedFunExists
<1>2. PICK g : /\ FeedFun(e, Append(ls, l), skip, g)
               /\ g[Len(ls) + 1] =
                    Result(Take(f[Len(ls)].e, l, skip).e, f[Len(ls)].out \o Take(f[Len(ls)].e, l, skip).out)
  BY <1>1, FeedFunGrows
<1>3. Len(ls) \in Nat /\ Len(Append(ls, l)) = Len(ls) + 1 /\ Len(Append(ls, l)) \in Nat
  BY LenProperties, AppendProperties
<1>4. p = f[Len(ls)] BY <1>1, <1>3, FeedIs
<1>5. Feed(e, Append(ls, l), skip) = g[Len(Append(ls, l))] BY <1>2, <1>3, FeedIs
<1> QED BY <1>2, <1>3, <1>4, <1>5

LEMMA FeedYields ==
    ASSUME NEW e, EngineOK(e), NEW skip \in BOOLEAN
    PROVE  \A ls \in Seq(Lexes) : Yields(e, ls, Feed(e, ls, skip))
<1> DEFINE P == {ls \in Seq(Lexes) : Yields(e, ls, Feed(e, ls, skip))}
<1>1. <<>> \in P BY FeedEmpty, NothingYields, EmptySeq
<1>2. ASSUME NEW ls \in Seq(Lexes), NEW l \in Lexes, ls \in P PROVE Append(ls, l) \in P
  <2>1. PICK p : p = Feed(e, ls, skip) OBVIOUS
  <2>2. PICK q : q = Take(p.e, l, skip) OBVIOUS
  <2>3. Feed(e, Append(ls, l), skip) = Result(q.e, p.out \o q.out) BY <2>1, <2>2, FeedAppend
  <2>4. Yields(e, ls, p) BY <1>2, <2>1
  <2>5. EngineOK(p.e) BY <2>4 DEF Yields
  <2>6. Yields(p.e, <<l>>, q) BY <2>2, <2>5, TakeYields
  <2>7. <<l>> \in Seq(Lexes) OBVIOUS
  <2>8. Yields(e, ls \o <<l>>, Result(q.e, p.out \o q.out)) BY <2>4, <2>6, <2>7, ComposeYields
  <2>9. Append(ls, l) = ls \o <<l>> /\ Append(ls, l) \in Seq(Lexes) BY AppendIsConcat, AppendProperties
  <2> QED BY <2>3, <2>8, <2>9
<1>3. Seq(Lexes) \subseteq P
  <2> HIDE DEF P
  <2> QED BY <1>1, <1>2, BySteps
<1> QED BY <1>3


-----------------------------------------------------------------------------
(* The reasoning pass *)

\* Outside a candidate this pass is in reasoning or after it, in no call.
SkipOK(e) ==
    ~ e.hold => e.st \in {"REASONING", "FOREIGN_REASONING_BLOCK", "CONTENT", "FOREIGN_BLOCK"}

Thinks(e) ==
    IF e.hold THEN e.prior = "REASONING" ELSE e.st \in {"REASONING", "FOREIGN_REASONING_BLOCK"}

Thoughts == {"reasoning"} \X Lexes
Answers == {"content"} \X Lexes
Rest == Answers \cup ({"reasoning_end"} \X (Carried \ Texts))

\* Thoughts come first, then an end of reasoning, then the answer only.
Parted(evs) ==
    \E a \in Seq(Thoughts), b \in Seq(Rest) : evs = a \o b /\ HasKind("reasoning_end", b)

Splits(e, r) ==
    /\ SkipOK(r.e) /\ EngineOK(r.e)
    /\ Thinks(e) /\ Thinks(r.e) => r.out \in Seq(Thoughts)
    /\ Thinks(e) /\ ~ Thinks(r.e) => Parted(r.out)
    /\ ~ Thinks(e) => ~ Thinks(r.e) /\ r.out \in Seq(Answers)

LEMMA EventKinds ==
    /\ Thoughts \subseteq Events /\ Answers \subseteq Events /\ Rest \subseteq Events
    /\ Answers \subseteq Rest
BY Symbols DEF Thoughts, Answers, Rest, Events, Kinds

LEMMA HasKindConcat ==
    ASSUME NEW T, NEW a \in Seq(T), NEW b \in Seq(T), NEW k
    PROVE  HasKind(k, a \o b) <=> HasKind(k, a) \/ HasKind(k, b)
<1>1. PICK c : c = a \o b OBVIOUS
<1>2. PICK n \in Nat, m \in Nat : n = Len(a) /\ m = Len(b) BY LenProperties
<1>3. /\ DOMAIN a = 1 .. n /\ DOMAIN b = 1 .. m /\ DOMAIN c = 1 .. n + m
      /\ \A i \in 1 .. n + m : c[i] = IF i <= n THEN a[i] ELSE b[i - n]
  <2>1. c \in Seq(T) /\ Len(c) = n + m /\ \A i \in 1 .. n + m : c[i] = IF i <= n THEN a[i] ELSE b[i - n]
    BY <1>1, <1>2, ConcatProperties
  <2> QED BY <2>1, <1>2, LenProperties
<1>4. ASSUME NEW i \in DOMAIN c, c[i][1] = k PROVE HasKind(k, a) \/ HasKind(k, b)
  <2>1. CASE i <= n
    <3>1. i \in 1 .. n /\ a[i][1] = k BY <1>3, <1>4, <2>1
    <3> QED BY <3>1, <1>3 DEF HasKind
  <2>2. CASE ~ (i <= n)
    <3>1. i - n \in 1 .. m /\ b[i - n][1] = k BY <1>3, <1>4, <2>2
    <3> QED BY <3>1, <1>3 DEF HasKind
  <2> QED BY <2>1, <2>2
<1>5. ASSUME NEW i \in 1 .. n, a[i][1] = k PROVE HasKind(k, c)
  <2>1. i \in 1 .. n + m /\ c[i][1] = k BY <1>3, <1>5
  <2> QED BY <2>1, <1>3 DEF HasKind
<1>6. ASSUME NEW i \in 1 .. m, b[i][1] = k PROVE HasKind(k, c)
  <2>1. n + i \in 1 .. n + m /\ ~ (n + i <= n) /\ n + i - n = i BY <1>2
  <2>2. c[n + i] = b[i] BY <2>1, <1>3
  <2> QED BY <2>1, <2>2, <1>3, <1>6 DEF HasKind
<1>7. HasKind(k, c) => HasKind(k, a) \/ HasKind(k, b) BY <1>4 DEF HasKind
<1>8. HasKind(k, a) => HasKind(k, c) BY <1>3, <1>5 DEF HasKind
<1>9. HasKind(k, b) => HasKind(k, c) BY <1>3, <1>6 DEF HasKind
<1> QED BY <1>1, <1>7, <1>8, <1>9

LEMMA PartedMore ==
    ASSUME NEW c, Parted(c), NEW d \in Seq(Answers)
    PROVE  Parted(c \o d)
<1>1. PICK a \in Seq(Thoughts), b \in Seq(Rest) : c = a \o b /\ HasKind("reasoning_end", b) BY DEF Parted
<1>2. d \in Seq(Rest)
  <2>1. Answers \subseteq Rest BY EventKinds
  <2> QED BY <2>1, SeqMonotonic
<1>3. b \o d \in Seq(Rest) /\ HasKind("reasoning_end", b \o d) BY <1>1, <1>2, ConcatProperties, HasKindConcat
<1>4. c \o d = a \o (b \o d)
  <2>1. a \in Seq(Events) /\ b \in Seq(Events) /\ d \in Seq(Events) BY <1>2, EventKinds, SeqMonotonic
  <2>2. (a \o b) \o d = a \o (b \o d) BY <2>1, ConcatAssociative
  <2> QED BY <2>2, <1>1
<1> QED BY <1>3, <1>4 DEF Parted

LEMMA PartedAfter ==
    ASSUME NEW d \in Seq(Thoughts), NEW c, Parted(c)
    PROVE  Parted(d \o c)
<1>1. PICK a \in Seq(Thoughts), b \in Seq(Rest) : c = a \o b /\ HasKind("reasoning_end", b) BY DEF Parted
<1>2. d \o a \in Seq(Thoughts) BY ConcatProperties
<1>3. d \o c = (d \o a) \o b
  <2>1. a \in Seq(Events) /\ b \in Seq(Events) /\ d \in Seq(Events) BY EventKinds, SeqMonotonic
  <2>2. (d \o a) \o b = d \o (a \o b) BY <2>1, ConcatAssociative
  <2> QED BY <2>2, <1>1
<1> QED BY <1>1, <1>2, <1>3 DEF Parted

LEMMA ComposeSplits ==
    ASSUME NEW e, NEW r, Splits(e, r), NEW q, Splits(r.e, q)
    PROVE  Splits(e, Result(q.e, r.out \o q.out))
<1>1. PICK o : o = r.out \o q.out OBVIOUS
<1>2. SkipOK(q.e) /\ EngineOK(q.e) BY DEF Splits
<1>3. CASE ~ Thinks(e)
  <2>1. ~ Thinks(r.e) /\ r.out \in Seq(Answers) BY <1>3 DEF Splits
  <2>2. ~ Thinks(q.e) /\ q.out \in Seq(Answers) BY <2>1 DEF Splits
  <2>3. o \in Seq(Answers) BY <1>1, <2>1, <2>2, ConcatProperties
  <2> QED BY <1>1, <1>2, <1>3, <2>2, <2>3 DEF Splits, Result
<1>4. CASE Thinks(e) /\ ~ Thinks(r.e)
  <2>1. Parted(r.out) BY <1>4 DEF Splits
  <2>2. ~ Thinks(q.e) /\ q.out \in Seq(Answers) BY <1>4 DEF Splits
  <2>3. Parted(o) BY <1>1, <2>1, <2>2, PartedMore
  <2> QED BY <1>1, <1>2, <1>4, <2>2, <2>3 DEF Splits, Result
<1>5. CASE Thinks(e) /\ Thinks(r.e) /\ Thinks(q.e)
  <2>1. r.out \in Seq(Thoughts) /\ q.out \in Seq(Thoughts) BY <1>5 DEF Splits
  <2>2. o \in Seq(Thoughts) BY <1>1, <2>1, ConcatProperties
  <2> QED BY <1>1, <1>2, <1>5, <2>2 DEF Splits, Result
<1>6. CASE Thinks(e) /\ Thinks(r.e) /\ ~ Thinks(q.e)
  <2>1. r.out \in Seq(Thoughts) /\ Parted(q.out) BY <1>6 DEF Splits
  <2>2. Parted(o) BY <1>1, <2>1, PartedAfter
  <2> QED BY <1>1, <1>2, <1>6, <2>2 DEF Splits, Result
<1> QED BY <1>3, <1>4, <1>5, <1>6

\* What goes under the heading of its own part.
LEMMA SameSplits ==
    ASSUME NEW e, NEW r, EngineOK(r.e), SkipOK(r.e), Thinks(r.e) <=> Thinks(e),
           r.out = <<>> \/ (Thinks(e) /\ r.out \in Seq(Thoughts)) \/ (~ Thinks(e) /\ r.out \in Seq(Answers))
    PROVE  Splits(e, r)
BY EmptySeq DEF Splits

LEMMA KindOfPart ==
    ASSUME NEW e, SkipOK(e), ~ e.hold
    PROVE  /\ Thinks(e) => Kind(e.st) = "reasoning"
           /\ ~ Thinks(e) => Kind(e.st) = "content" /\ e.st \in {"CONTENT", "FOREIGN_BLOCK"}
BY DEF SkipOK, Thinks, Kind

LEMMA OneOfPart ==
    ASSUME NEW l \in Lexes
    PROVE  <<<<"reasoning", l>>>> \in Seq(Thoughts) /\ <<<<"content", l>>>> \in Seq(Answers)
BY DEF Thoughts, Answers

LEMMA AbortSplits ==
    ASSUME NEW e, EngineOK(e), e.hold, NEW ls \in Seq(Lexes), NEW a, a = [e EXCEPT !.raw = ls]
    PROVE  Splits(e, Abort(a))
<1>1. a \in Engines /\ a.prior = e.prior /\ a.prior \in {"CONTENT", "REASONING"}
  <2>1. e \in Engines BY EngineTypes
  <2> QED BY <2>1 DEF Engines, EngineOK
<1>2. PICK b : b = Abort(a) OBVIOUS
<1>3. EngineOK(b.e) /\ b.e.st = e.prior /\ b.e.hold = FALSE /\ b.out \in Seq({Kind(e.prior)} \X Lexes)
  BY <1>1, <1>2, AbortIs
<1>4. SkipOK(b.e) BY <1>1, <1>3 DEF SkipOK
<1>5. Thinks(b.e) <=> Thinks(e) BY <1>1, <1>3 DEF Thinks
<1>6. CASE Thinks(e)
  <2>1. e.prior = "REASONING" BY <1>6 DEF Thinks
  <2>2. Kind(e.prior) = "reasoning" BY <2>1 DEF Kind
  <2>3. b.out \in Seq(Thoughts) BY <1>3, <2>2 DEF Thoughts
  <2> QED BY <1>2, <1>3, <1>4, <1>5, <1>6, <2>3, SameSplits
<1>7. CASE ~ Thinks(e)
  <2>1. e.prior = "CONTENT" BY <1>7, <1>1 DEF Thinks
  <2>2. Kind(e.prior) = "content" BY <2>1 DEF Kind
  <2>3. b.out \in Seq(Answers) BY <1>3, <2>2 DEF Answers
  <2> QED BY <1>2, <1>3, <1>4, <1>5, <1>7, <2>3, SameSplits
<1> QED BY <1>6, <1>7

LEMMA TextSplits ==
    ASSUME NEW e, EngineOK(e), SkipOK(e), NEW l \in Lexes
    PROVE  Splits(e, Text(e, l))
<1>1. EngineOK(Text(e, l).e) BY TextYields DEF Yields
<1>2. CASE ~ e.hold
  <2>1. Text(e, l).e = e /\ Text(e, l).out = <<<<Kind(e.st), l>>>> BY <1>2 DEF Text, Result
  <2>2. /\ Thinks(e) => Text(e, l).out \in Seq(Thoughts)
        /\ ~ Thinks(e) => Text(e, l).out \in Seq(Answers)
    BY <2>1, <1>2, KindOfPart, OneOfPart
  <2> QED BY <2>1, <2>2, SameSplits
<1>3. CASE e.hold /\ e.st = "TOOL_NAME" /\ l \in LongTexts
  <2>1. Text(e, l) = Abort([e EXCEPT !.raw = Append(@, l)]) BY <1>3 DEF Text
  <2>2. Append(e.raw, l) \in Seq(Lexes) BY EngineTypes, AppendProperties
  <2> QED BY <1>3, <2>1, <2>2, AbortSplits
<1>4. CASE e.hold /\ ~ (e.st = "TOOL_NAME" /\ l \in LongTexts)
  <2> DEFINE h == [e EXCEPT !.raw = Append(@, l),
                            !.name = IF e.st = "TOOL_NAME" THEN Append(@, l) ELSE @,
                            !.events = Append(@, <<Kind(e.st), l>>)]
  <2>1. Text(e, l).e = h /\ Text(e, l).out = <<>> BY <1>4 DEF Text, Result
  <2>2. h.hold = e.hold /\ h.prior = e.prior BY EngineTypes DEF Engines
  <2> HIDE DEF h
  <2>3. SkipOK(h) /\ (Thinks(h) <=> Thinks(e)) BY <1>4, <2>2 DEF SkipOK, Thinks
  <2> QED BY <1>1, <2>1, <2>3, SameSplits
<1> QED BY <1>2, <1>3, <1>4


SkipStates == {"REASONING", "FOREIGN_REASONING_BLOCK", "CONTENT", "FOREIGN_BLOCK"}

LEMMA SkipRow ==
    ASSUME NEW x \in Table, x[1] \in SkipStates
    PROVE  /\ x[1] \in {"CONTENT", "FOREIGN_BLOCK"} => x[4] \in {<<>>, <<"content">>, <<"start">>}
           /\ x[2] \notin ToolTerminals =>
                \/ x[1] = "CONTENT" /\ x[3] = "CONTENT" /\ x[4] = <<>>
                \/ x[1] = "REASONING" /\ x[3] = "CONTENT" /\ x[4] = <<"reasoning_end">>
                \/ /\ x[1] \in {"CONTENT", "FOREIGN_BLOCK"} /\ x[3] \in {"CONTENT", "FOREIGN_BLOCK"}
                   /\ x[4] = <<"content">>
                \/ /\ x[1] \in {"REASONING", "FOREIGN_REASONING_BLOCK"}
                   /\ x[3] \in {"REASONING", "FOREIGN_REASONING_BLOCK"}
                   /\ x[4] = <<"reasoning">>
<1>1. x[2] \notin ToolTerminals => x[3] \notin ToolStates BY DEF ToolTerminals
<1>2. x[1] \in {"CONTENT", "FOREIGN_BLOCK"} => x[4] \in {<<>>, <<"content">>, <<"start">>} BY DEF Table
<1>3. x[3] \notin ToolStates =>
        \/ x[1] = "CONTENT" /\ x[3] = "CONTENT" /\ x[4] = <<>>
        \/ x[1] = "REASONING" /\ x[3] = "CONTENT" /\ x[4] = <<"reasoning_end">>
        \/ /\ x[1] \in {"CONTENT", "FOREIGN_BLOCK"} /\ x[3] \in {"CONTENT", "FOREIGN_BLOCK"}
           /\ x[4] = <<"content">>
        \/ /\ x[1] \in {"REASONING", "FOREIGN_REASONING_BLOCK"}
           /\ x[3] \in {"REASONING", "FOREIGN_REASONING_BLOCK"}
           /\ x[4] = <<"reasoning">>
  BY DEF Table, SkipStates, ToolStates
<1> QED BY <1>1, <1>2, <1>3

LEMMA TwoConcat ==
    ASSUME NEW a, NEW b, NEW s, s = <<a>>, NEW t, t = <<b>>, NEW u, u = <<a, b>>
    PROVE  s \o t = u
<1>2. s \in Seq({a, b}) /\ t \in Seq({a, b}) /\ Len(s) = 1 /\ Len(t) = 1 /\ s[1] = a /\ t[1] = b
  OBVIOUS
<1>3. u \in Seq({a, b}) /\ Len(u) = 2 /\ u[1] = a /\ u[2] = b OBVIOUS
<1>4. /\ s \o t \in Seq({a, b}) /\ Len(s \o t) = 2
      /\ \A i \in 1 .. 2 : (s \o t)[i] = IF i <= 1 THEN s[i] ELSE t[i - 1]
  BY <1>2, ConcatProperties
<1>5. \A i \in 1 .. Len(u) : (s \o t)[i] = u[i]
  <2>1. (s \o t)[1] = a /\ (s \o t)[2] = b BY <1>2, <1>4
  <2> QED BY <2>1, <1>3
<1> QED BY <1>3, <1>4, <1>5, SeqEqual

LEMMA PartedFrom ==
    ASSUME NEW t \in Terminals, NEW d \in Seq(Answers)
    PROVE  Parted(<<<<"reasoning_end", t>>>> \o d)
<1>1. PICK s : s = <<<<"reasoning_end", t>>>> OBVIOUS
<1>2. t \in Carried \ Texts BY TerminalSilent
<1>3. s \in Seq(Rest) /\ Len(s) = 1 /\ s[1][1] = "reasoning_end"
  <2>1. <<"reasoning_end", t>> \in Rest BY <1>2 DEF Rest
  <2> QED BY <2>1, <1>1
<1>4. HasKind("reasoning_end", s)
  <2>1. 1 \in DOMAIN s BY <1>1
  <2> QED BY <2>1, <1>3 DEF HasKind
<1>5. <<>> \in Seq(Thoughts) /\ s = <<>> \o s BY <1>3, EmptySeq, ConcatEmptySeq
<1>6. Parted(s) BY <1>3, <1>4, <1>5 DEF Parted
<1> QED BY <1>1, <1>6, PartedMore

LEMMA EndSplits ==
    ASSUME NEW e, NEW r, EngineOK(r.e), SkipOK(r.e), Thinks(e), ~ Thinks(r.e), Parted(r.out)
    PROVE  Splits(e, r)
BY DEF Splits

LEMMA BeginSplits ==
    ASSUME NEW e, EngineOK(e), SkipOK(e), ~ e.hold, NEW t \in Terminals, NEW x \in Table,
           x[1] = e.st, x[2] = t, Provisional(e.st, t)
    PROVE  Splits(e, Begin(e, t, x))
<1>1. EngineOK(Begin(e, t, x).e) BY BeginYields DEF Yields
<1>2. PICK g \in Engines : g = Run(e, t, x).e BY RunIs
<1>3. PICK b : b = Begin(e, t, x).e OBVIOUS
<1>4. b.hold = TRUE /\ b.prior = e.st /\ Begin(e, t, x).out = <<>>
  BY <1>2, <1>3 DEF Begin, Result, Engines
<1>5. SkipOK(b) BY <1>4 DEF SkipOK
<1>6. Thinks(b) <=> Thinks(e) BY <1>4 DEF Thinks, Provisional
<1> QED BY <1>1, <1>3, <1>4, <1>5, <1>6, SameSplits

LEMMA SkippedSplits ==
    ASSUME NEW e, EngineOK(e), SkipOK(e), ~ e.hold, NEW t \in Terminals, NEW x \in Table, x[1] = e.st
    PROVE  Splits(e, Skipped(e, t, x))
<1>1. EngineOK(Skipped(e, t, x).e) BY SkippedYields DEF Yields
<1>2. e.st \in SkipStates BY DEF SkipOK, SkipStates
<1>3. t \in Lexes BY TerminalSilent
<1>4. CASE "reasoning_end" \in {x[4][i] : i \in DOMAIN x[4]}
  <2>1. Thinks(e)
    <3>1. SUFFICES ASSUME e.st \in {"CONTENT", "FOREIGN_BLOCK"} PROVE FALSE
      BY <1>2 DEF Thinks, SkipStates
    <3>2. x[4] \in {<<>>, <<"content">>, <<"start">>} BY <3>1, <1>2, SkipRow
    <3>3. PICK w : w = x[4] OBVIOUS
    <3>4. \A i \in DOMAIN w : w[i] # "reasoning_end" BY <3>2, <3>3
    <3> QED BY <3>3, <3>4, <1>4
  <2>2. PICK a : a = [e EXCEPT !.st = "CONTENT"] OBVIOUS
  <2>3. /\ Skipped(e, t, x).e = a
        /\ Skipped(e, t, x).out = <<<<"reasoning_end", t>>, <<"content", t>>>>
    BY <1>4, <2>2 DEF Skipped, Result
  <2>4. a.st = "CONTENT" /\ a.hold = FALSE
    <3>1. e \in Engines BY EngineTypes
    <3> QED BY <3>1, <2>2 DEF Engines
  <2>5. SkipOK(a) /\ ~ Thinks(a) BY <2>4 DEF SkipOK, Thinks
  <2>6. Parted(<<<<"reasoning_end", t>>, <<"content", t>>>>)
    <3>1. <<<<"content", t>>>> \in Seq(Answers) BY <1>3, OneOfPart
    <3>2. Parted(<<<<"reasoning_end", t>>>> \o <<<<"content", t>>>>) BY <3>1, PartedFrom
    <3>3. PICK p, q, u : /\ p = <<<<"reasoning_end", t>>>> /\ q = <<<<"content", t>>>>
                         /\ u = <<<<"reasoning_end", t>>, <<"content", t>>>>
      OBVIOUS
    <3>4. p \o q = u
      <4>1. PICK g, h : g = <<"reasoning_end", t>> /\ h = <<"content", t>> OBVIOUS
      <4>2. p = <<g>> /\ q = <<h>> /\ u = <<g, h>> BY <3>3, <4>1
      <4> QED BY <4>2, TwoConcat
    <3>5. Parted(p \o q) BY <3>2, <3>3
    <3>6. Parted(u) BY <3>4, <3>5
    <3> QED BY <3>3, <3>6
  <2> QED BY <1>1, <2>1, <2>3, <2>5, <2>6, EndSplits
<1>5. CASE ~ ("reasoning_end" \in {x[4][i] : i \in DOMAIN x[4]})
  <2>1. Skipped(e, t, x).e = e /\ Skipped(e, t, x).out = <<<<Kind(e.st), t>>>>
    BY <1>5 DEF Skipped, Result
  <2>2. /\ Thinks(e) => Skipped(e, t, x).out \in Seq(Thoughts)
        /\ ~ Thinks(e) => Skipped(e, t, x).out \in Seq(Answers)
    BY <2>1, <1>3, KindOfPart, OneOfPart
  <2> QED BY <2>1, <2>2, SameSplits
<1> QED BY <1>4, <1>5

LEMMA ApplySplits ==
    ASSUME NEW e, EngineOK(e), SkipOK(e), ~ e.hold, NEW t \in Terminals, t \notin ToolTerminals,
           NEW x \in Table, x[1] = e.st, x[2] = t
    PROVE  Splits(e, Apply(e, t, x))
<1>1. EngineOK(Apply(e, t, x).e) BY ApplyYields DEF Yields
<1>2. e.st \in SkipStates BY DEF SkipOK, SkipStates
<1>3. t \in Lexes BY TerminalSilent
<1>4. PICK r : r = Apply(e, t, x) OBVIOUS
<1>5. r.e.st = x[3] /\ r.e.hold = FALSE
  <2>1. PICK c : c = [e EXCEPT !.closer = @ /\ ~ (e.st = "CONTENT" /\ x[3] \in ToolStates)] OBVIOUS
  <2>2. r.e = [c EXCEPT !.st = x[3]] BY <1>4, <2>1 DEF Apply, Run, Result
  <2>3. e \in Engines BY EngineTypes
  <2> QED BY <2>1, <2>2, <2>3 DEF Engines
<1>6. r.out = [i \in DOMAIN x[4] |-> <<x[4][i], t>>] BY <1>4 DEF Apply, Run, Result
<1>7. CASE x[1] = "CONTENT" /\ x[3] = "CONTENT" /\ x[4] = <<>>
  <2>1. r.out = <<>> BY <1>6, <1>7
  <2>2. SkipOK(r.e) /\ ~ Thinks(r.e) /\ ~ Thinks(e) BY <1>5, <1>7 DEF SkipOK, Thinks
  <2> QED BY <1>1, <1>4, <2>1, <2>2, SameSplits
<1>8. CASE x[1] = "REASONING" /\ x[3] = "CONTENT" /\ x[4] = <<"reasoning_end">>
  <2>1. r.out = <<<<"reasoning_end", t>>>> BY <1>6, <1>8
  <2>2. SkipOK(r.e) /\ ~ Thinks(r.e) /\ Thinks(e) BY <1>5, <1>8 DEF SkipOK, Thinks
  <2>3. Parted(r.out)
    <3>1. <<>> \in Seq(Answers) BY EmptySeq
    <3>2. Parted(<<<<"reasoning_end", t>>>> \o <<>>) BY <3>1, PartedFrom
    <3>3. <<<<"reasoning_end", t>>>> \o <<>> = <<<<"reasoning_end", t>>>> OBVIOUS
    <3> QED BY <2>1, <3>2, <3>3
  <2> QED BY <1>1, <1>4, <2>2, <2>3, EndSplits
<1>9. CASE /\ x[1] \in {"CONTENT", "FOREIGN_BLOCK"} /\ x[3] \in {"CONTENT", "FOREIGN_BLOCK"}
           /\ x[4] = <<"content">>
  <2>1. r.out = <<<<"content", t>>>> BY <1>6, <1>9
  <2>2. SkipOK(r.e) /\ ~ Thinks(r.e) /\ ~ Thinks(e) BY <1>5, <1>9 DEF SkipOK, Thinks
  <2> QED BY <1>1, <1>3, <1>4, <2>1, <2>2, OneOfPart, SameSplits
<1>10. CASE /\ x[1] \in {"REASONING", "FOREIGN_REASONING_BLOCK"}
            /\ x[3] \in {"REASONING", "FOREIGN_REASONING_BLOCK"}
            /\ x[4] = <<"reasoning">>
  <2>1. r.out = <<<<"reasoning", t>>>> BY <1>6, <1>10
  <2>2. SkipOK(r.e) /\ Thinks(r.e) /\ Thinks(e) BY <1>5, <1>10 DEF SkipOK, Thinks
  <2> QED BY <1>1, <1>3, <1>4, <2>1, <2>2, OneOfPart, SameSplits
<1> QED BY <1>2, <1>7, <1>8, <1>9, <1>10, SkipRow

LEMMA AdvanceSplits ==
    ASSUME NEW e, EngineOK(e), e.hold, NEW t \in Terminals, NEW x \in Table, x[1] = e.st, x[2] = t
    PROVE  Splits(e, Advance(e, t, x, TRUE))
<1>1. EngineOK(Advance(e, t, x, TRUE).e) BY AdvanceYields DEF Yields
<1>2. t \in Lexes BY TerminalSilent
<1>3. Append(e.raw, t) \in Seq(Lexes) BY <1>2, EngineTypes, AppendProperties
<1>4. CASE e.st = "TOOL_NAME" /\ Known(e)
  <2>1. PICK g \in Engines : g = Run(e, t, x).e BY RunIs
  <2>2. PICK h : h = Advance(e, t, x, TRUE).e OBVIOUS
  <2>3. h.hold = g.hold /\ h.prior = g.prior /\ Advance(e, t, x, TRUE).out = <<>>
    BY <1>4, <2>1, <2>2 DEF Advance, Result, Engines
  <2>4. g.hold = e.hold /\ g.prior = e.prior
    <3>1. g = [e EXCEPT !.st = x[3]] BY <2>1 DEF Run, Result
    <3>2. e \in Engines BY EngineTypes
    <3> QED BY <3>1, <3>2 DEF Engines
  <2>5. SkipOK(h) /\ (Thinks(h) <=> Thinks(e)) BY <2>3, <2>4 DEF SkipOK, Thinks
  <2> QED BY <1>1, <2>2, <2>3, <2>5, SameSplits
<1>5. CASE ~ (e.st = "TOOL_NAME" /\ Known(e)) /\ e.st = "TOOL_ARGS" /\ Commits(t)
  <2>1. PICK r : r = Commit(e, t, x, TRUE) OBVIOUS
  <2>2. Advance(e, t, x, TRUE) = r BY <1>5, <2>1 DEF Advance
  <2>3. r.e.st = "CONTENT" /\ r.e.hold = FALSE BY <2>1 DEF Commit, Result, Committed, Fresh
  <2>4. SkipOK(r.e) /\ ~ Thinks(r.e) BY <2>3 DEF SkipOK, Thinks
  <2>5. PICK as : as = As("content", Append(e.raw, t)) OBVIOUS
  <2>6. as \in Seq(Answers) BY <1>3, <2>5, AsIs DEF Kinds, Answers
  <2>7. CASE e.prior = "REASONING"
    <3>1. r.out = <<<<"reasoning_end", t>>>> \o as BY <2>1, <2>5, <2>7 DEF Commit, Result
    <3>2. Parted(r.out) BY <3>1, <2>6, PartedFrom
    <3>3. Thinks(e) BY <2>7 DEF Thinks
    <3> QED BY <1>1, <2>2, <2>4, <3>2, <3>3, EndSplits
  <2>8. CASE e.prior # "REASONING"
    <3>1. r.out = <<>> \o as BY <2>1, <2>5, <2>8 DEF Commit, Result
    <3>2. r.out = as BY <3>1, <2>6, ConcatEmptySeq
    <3>3. ~ Thinks(e) BY <2>8 DEF Thinks
    <3> QED BY <1>1, <2>2, <2>4, <2>6, <3>2, <3>3, SameSplits
  <2> QED BY <2>7, <2>8
<1>6. CASE ~ (e.st = "TOOL_NAME" /\ Known(e)) /\ ~ (e.st = "TOOL_ARGS" /\ Commits(t))
  <2>1. Advance(e, t, x, TRUE) = Abort([e EXCEPT !.raw = Append(@, t)]) BY <1>6 DEF Advance
  <2> QED BY <2>1, <1>3, AbortSplits
<1> QED BY <1>4, <1>5, <1>6

LEMMA UnheldSplits ==
    ASSUME NEW e, EngineOK(e), SkipOK(e), NEW t \in Terminals
    PROVE  Splits(e, Unheld(e, t, TRUE))
<1>1. CASE e.closer /\ e.st = "CONTENT" /\ t \in ToolExits
  <2>1. PICK a : a = [e EXCEPT !.closer = FALSE] OBVIOUS
  <2>2. Unheld(e, t, TRUE).e = a /\ Unheld(e, t, TRUE).out = <<>> BY <1>1, <2>1 DEF Unheld, Result
  <2>3. a.st = e.st /\ a.hold = e.hold /\ a.prior = e.prior
    <3>1. e \in Engines BY EngineTypes
    <3> QED BY <3>1, <2>1 DEF Engines
  <2>4. SkipOK(a) /\ (Thinks(a) <=> Thinks(e)) BY <2>3 DEF SkipOK, Thinks
  <2>5. EngineOK(Unheld(e, t, TRUE).e) BY UnheldYields DEF Yields
  <2> QED BY <2>2, <2>4, <2>5, SameSplits
<1>2. CASE ~ (e.closer /\ e.st = "CONTENT" /\ t \in ToolExits) /\ Transitions[e.st][t] = {}
  <2>1. Unheld(e, t, TRUE) = Text(e, t) BY <1>2 DEF Unheld
  <2> QED BY <2>1, TerminalSilent, TextSplits
<1>3. CASE ~ (e.closer /\ e.st = "CONTENT" /\ t \in ToolExits) /\ Transitions[e.st][t] # {}
  <2>1. PICK x : x = CHOOSE y \in Transitions[e.st][t] : TRUE OBVIOUS
  <2>2. x \in Transitions[e.st][t] BY <1>3, <2>1
  <2>3. x \in Table /\ x[1] = e.st /\ x[2] = t BY <2>2, EngineTypes, RowFor
  <2>4. Unheld(e, t, TRUE) = Meaningful(e, t, x, TRUE) BY <1>3, <2>1 DEF Unheld
  <2>5. CASE e.hold BY <2>3, <2>4, <2>5, AdvanceSplits DEF Meaningful
  <2>6. CASE ~ e.hold /\ Provisional(e.st, t) BY <2>3, <2>4, <2>6, BeginSplits DEF Meaningful
  <2>7. CASE ~ e.hold /\ ~ Provisional(e.st, t) /\ t \in ToolTerminals
    BY <2>3, <2>4, <2>7, SkippedSplits DEF Meaningful
  <2>8. CASE ~ e.hold /\ ~ Provisional(e.st, t) /\ ~ (t \in ToolTerminals)
    BY <2>3, <2>4, <2>8, ApplySplits DEF Meaningful
  <2> QED BY <2>5, <2>6, <2>7, <2>8
<1> QED BY <1>1, <1>2, <1>3

LEMMA TakeSplits ==
    ASSUME NEW e, EngineOK(e), SkipOK(e), NEW l \in Lexes
    PROVE  Splits(e, Take(e, l, TRUE))
<1>1. CASE l \in Texts BY <1>1, TextSplits DEF Take
<1>2. CASE l \notin Texts
  <2>1. l \in Terminals /\ Take(e, l, TRUE) = OnTerminal(e, l, TRUE) BY <1>2 DEF Lexes, Take
  <2>2. CASE e.hold /\ e.st = "TOOL_NAME" /\ Transitions[e.st][l] = {}
    <3>1. PICK a : a = Abort(e) OBVIOUS
    <3>2. PICK b : b = Unheld(a.e, l, TRUE) OBVIOUS
    <3>3. OnTerminal(e, l, TRUE) = Result(b.e, a.out \o b.out) BY <2>2, <3>1, <3>2 DEF OnTerminal
    <3>4. Splits(e, a)
      <4>1. e \in Engines /\ e.raw \in Seq(Lexes) BY EngineTypes
      <4>2. e = [e EXCEPT !.raw = e.raw] BY <4>1 DEF Engines
      <4> QED BY <4>1, <4>2, <2>2, <3>1, AbortSplits
    <3>5. Splits(a.e, b)
      <4>1. EngineOK(a.e) /\ SkipOK(a.e) BY <3>4 DEF Splits
      <4> QED BY <4>1, <2>1, <3>2, UnheldSplits
    <3> QED BY <2>1, <3>3, <3>4, <3>5, ComposeSplits
  <2>3. CASE ~ (e.hold /\ e.st = "TOOL_NAME" /\ Transitions[e.st][l] = {})
    <3>1. OnTerminal(e, l, TRUE) = Unheld(e, l, TRUE) BY <2>3 DEF OnTerminal
    <3> QED BY <2>1, <3>1, UnheldSplits
  <2> QED BY <2>2, <2>3
<1> QED BY <1>1, <1>2

LEMMA FeedSplits ==
    ASSUME NEW e, EngineOK(e), SkipOK(e)
    PROVE  \A ls \in Seq(Lexes) : Splits(e, Feed(e, ls, TRUE))
<1>0. PICK skip \in BOOLEAN : skip = TRUE OBVIOUS
<1> DEFINE P == {ls \in Seq(Lexes) : Splits(e, Feed(e, ls, skip))}
<1>1. <<>> \in P
  <2>1. Feed(e, <<>>, skip) = Result(e, <<>>) BY FeedEmpty
  <2>2. Result(e, <<>>).e = e /\ Result(e, <<>>).out = <<>> BY DEF Result
  <2>3. Splits(e, Result(e, <<>>)) BY <2>2, SameSplits
  <2> QED BY <2>1, <2>3, EmptySeq
<1>2. ASSUME NEW ls \in Seq(Lexes), NEW l \in Lexes, ls \in P PROVE Append(ls, l) \in P
  <2>1. PICK p : p = Feed(e, ls, skip) OBVIOUS
  <2>2. PICK q : q = Take(p.e, l, skip) OBVIOUS
  <2>3. Feed(e, Append(ls, l), skip) = Result(q.e, p.out \o q.out) BY <2>1, <2>2, FeedAppend
  <2>4. Splits(e, p) BY <1>2, <2>1
  <2>5. EngineOK(p.e) /\ SkipOK(p.e) BY <2>4 DEF Splits
  <2>6. Splits(p.e, q)
    <3>1. q = Take(p.e, l, TRUE) BY <1>0, <2>2
    <3> QED BY <3>1, <2>5, TakeSplits
  <2>7. Splits(e, Result(q.e, p.out \o q.out)) BY <2>4, <2>6, ComposeSplits
  <2> QED BY <2>3, <2>7, AppendProperties
<1>3. Seq(Lexes) \subseteq P
  <2> HIDE DEF P
  <2> QED BY <1>1, <1>2, BySteps
<1> SUFFICES ASSUME NEW ls \in Seq(Lexes) PROVE Splits(e, Feed(e, ls, TRUE)) OBVIOUS
<1>4. Splits(e, Feed(e, ls, skip)) BY <1>3
<1>5. Feed(e, ls, skip) = Feed(e, ls, TRUE) BY <1>0
<1> QED BY <1>4, <1>5


-----------------------------------------------------------------------------
(* The end of a pass *)

\* What the end of the stream makes of a state with nothing held.
LastOf(st) ==
    CASE st \in {"TOOL_NAME", "TOOL_ARGS"} -> <<<<"end", "">>>>
      [] Kind(st) = "reasoning" -> <<<<"reasoning_end", "">>>>
      [] OTHER -> <<>>

GivenUp(e) == IF e.hold THEN Abort(e) ELSE Result(e, <<>>)

LEMMA FinishIs ==
    ASSUME NEW e, NEW a, a = GivenUp(e)
    PROVE  /\ FinishEngine(e).e = [a.e EXCEPT !.st = "CONTENT"]
           /\ FinishEngine(e).out = a.out \o LastOf(a.e.st)
BY DEF FinishEngine, GivenUp, LastOf, Result

LEMMA LastSilent ==
    ASSUME NEW st \in States
    PROVE  LastOf(st) \in Seq(Events) /\ Told(LastOf(st)) = <<>>
<1>1. "" \in Carried \ Texts BY Symbols DEF Carried
<1>2. LastOf(st) \in {<<>>, <<<<"end", "">>>>, <<<<"reasoning_end", "">>>>} BY DEF LastOf
<1>3. <<"end", "">> \in Kinds \X (Carried \ Texts) /\ <<"reasoning_end", "">> \in Kinds \X (Carried \ Texts)
  BY <1>1 DEF Kinds
<1>4. LastOf(st) \in Seq(Kinds \X (Carried \ Texts))
  <2>1. PICK x, y, K : /\ x = <<"end", "">> /\ y = <<"reasoning_end", "">>
                       /\ K = Kinds \X (Carried \ Texts)
    OBVIOUS
  <2>2. x \in K /\ y \in K BY <1>3, <2>1
  <2>3. <<>> \in Seq(K) /\ <<x>> \in Seq(K) /\ <<y>> \in Seq(K) BY <2>2
  <2>4. LastOf(st) \in {<<>>, <<x>>, <<y>>} BY <1>2, <2>1
  <2>5. LastOf(st) \in Seq(K) BY <2>3, <2>4
  <2> QED BY <2>1, <2>5
<1> QED BY <1>4, ToldSilent

LEMMA FinishYields ==
    ASSUME NEW e, EngineOK(e), NEW f, f = FinishEngine(e)
    PROVE  EngineOK(f.e) /\ f.out \in Seq(Events) /\ f.e.raw = <<>> /\ Told(f.out) = Pieces(e.raw)
<1>1. PICK a : a = GivenUp(e) OBVIOUS
<1>2. /\ EngineOK(a.e) /\ a.e.hold = FALSE /\ a.e.raw = <<>>
      /\ a.out \in Seq(Events) /\ Told(a.out) = Pieces(e.raw)
  <2>1. CASE e.hold
    <3>1. a = Abort(e) BY <1>1, <2>1 DEF GivenUp
    <3>2. e \in Engines BY EngineTypes
    <3> QED BY <3>1, <3>2, AbortIs
  <2>2. CASE ~ e.hold
    <3>1. a.e = e /\ a.out = <<>> BY <1>1, <2>2 DEF GivenUp, Result
    <3>2. e.hold = FALSE /\ e.raw = <<>> BY <2>2, EngineTypes DEF EngineOK
    <3>3. <<>> \in Seq(Events) BY EmptySeq
    <3> QED BY <3>1, <3>2, <3>3, ToldEmpty, PiecesEmpty
  <2> QED BY <2>1, <2>2
<1>3. f.e = [a.e EXCEPT !.st = "CONTENT"] /\ f.out = a.out \o LastOf(a.e.st) BY <1>1, FinishIs
<1>4. EngineOK(f.e) /\ f.e.raw = <<>>
  <2>1. a.e \in Engines BY <1>2, EngineTypes
  <2>2. f.e \in Engines /\ f.e.hold = FALSE /\ f.e.raw = <<>>
    BY <1>2, <1>3, <2>1 DEF Engines, States
  <2> QED BY <2>2 DEF EngineOK
<1>5. f.out \in Seq(Events) /\ Told(f.out) = Pieces(e.raw)
  <2>1. PICK l : l = LastOf(a.e.st) OBVIOUS
  <2>2. l \in Seq(Events) /\ Told(l) = <<>>
    <3>1. a.e.st \in States BY <1>2, EngineTypes
    <3> QED BY <3>1, <2>1, LastSilent
  <2>3. f.out = a.out \o l BY <1>3, <2>1
  <2>4. f.out \in Seq(Events) BY <1>2, <2>2, <2>3, ConcatProperties
  <2>5. Told(f.out) = Told(a.out) \o Told(l) BY <1>2, <2>2, <2>3, ToldConcat
  <2>6. Told(a.out) \o <<>> = Told(a.out) BY <1>2, ToldType, ConcatEmptySeq
  <2> QED BY <1>2, <2>2, <2>4, <2>5, <2>6
<1> QED BY <1>4, <1>5

LEMMA FinishAnswers ==
    ASSUME NEW e, EngineOK(e), SkipOK(e), ~ Thinks(e)
    PROVE  FinishEngine(e).out \in Seq(Answers)
<1>1. PICK a : a = GivenUp(e) OBVIOUS
<1>2. SkipOK(a.e) /\ ~ Thinks(a.e) /\ ~ a.e.hold /\ a.out \in Seq(Answers)
  <2>1. CASE e.hold
    <3>1. a = Abort(e) BY <1>1, <2>1 DEF GivenUp
    <3>2. e \in Engines /\ e.raw \in Seq(Lexes) BY EngineTypes
    <3>3. e = [e EXCEPT !.raw = e.raw] BY <3>2 DEF Engines
    <3>4. Splits(e, a) BY <2>1, <3>1, <3>2, <3>3, AbortSplits
    <3>5. a.e.hold = FALSE BY <3>1, <3>2, AbortIs
    <3> QED BY <3>4, <3>5 DEF Splits
  <2>2. CASE ~ e.hold
    <3>1. a.e = e /\ a.out = <<>> BY <1>1, <2>2 DEF GivenUp, Result
    <3> QED BY <2>2, <3>1, EmptySeq
  <2> QED BY <2>1, <2>2
<1>3. a.e.st \in {"CONTENT", "FOREIGN_BLOCK"} BY <1>2, KindOfPart
<1>4. LastOf(a.e.st) = <<>> BY <1>3 DEF LastOf, Kind
<1>5. FinishEngine(e).out = a.out \o <<>>
  <2>1. FinishEngine(e).out = a.out \o LastOf(a.e.st) BY <1>1, FinishIs
  <2> QED BY <1>4, <2>1
<1> QED BY <1>2, <1>5, ConcatEmptySeq

-----------------------------------------------------------------------------
(* The change of passes *)

LEMMA AnswerOf ==
    \A b \in Seq(Rest) :
        /\ OfKind("content", b) \in Seq(Answers) /\ Told(OfKind("content", b)) = Told(b)
        /\ OfKind("reasoning", b) = <<>>
<1> DEFINE C == {"content"} \X Carried
           P == {b \in Seq(Rest) : Only(b, C) \in Seq(Answers) /\ Told(Only(b, C)) = Told(b)}
<1>0. Answers \subseteq C /\ C \cap Rest = Answers /\ Rest \subseteq Events /\ Answers \subseteq Events
  BY Symbols, EventKinds DEF Answers, Rest
<1>1. <<>> \in P BY OnlyEmpty, EmptySeq
<1>2. ASSUME NEW b \in Seq(Rest), NEW x \in Rest, b \in P PROVE Append(b, x) \in P
  <2>1. Append(b, x) \in Seq(Rest) /\ b \in Seq(Events) /\ x \in Events
    BY <1>0, SeqMonotonic, AppendProperties
  <2>2. PICK c : c = Only(b, C) OBVIOUS
  <2>3. c \in Seq(Answers) /\ Told(c) = Told(b) /\ c \in Seq(Events) BY <1>2, <2>2, <1>0, SeqMonotonic
  <2>4. Append(b, x) = b \o <<x>> /\ <<x>> \in Seq(Events) BY <2>1, AppendIsConcat
  <2>5. Told(Append(b, x)) = Told(b) \o Told(<<x>>) BY <2>1, <2>4, ToldConcat
  <2>6. CASE x \in C
    <3>1. Only(Append(b, x), C) = Append(c, x) BY <2>2, <2>6, OnlyAppend
    <3>2. x \in Answers BY <2>6, <1>0
    <3>3. Append(c, x) \in Seq(Answers) /\ Append(c, x) = c \o <<x>>
      BY <2>3, <3>2, AppendProperties, AppendIsConcat
    <3>4. Told(Append(c, x)) = Told(c) \o Told(<<x>>) BY <2>3, <2>4, <3>3, ToldConcat
    <3> QED BY <2>1, <2>3, <2>5, <3>1, <3>3, <3>4
  <2>7. CASE x \notin C
    <3>1. Only(Append(b, x), C) = c BY <2>2, <2>7, OnlyAppend
    <3>2. x \in {"reasoning_end"} \X (Carried \ Texts)
      <4>1. x \notin Answers BY <2>7, <1>0
      <4> QED BY <4>1 DEF Rest
    <3>3. <<x>> \in Seq(Kinds \X (Carried \ Texts))
      <4>1. x \in Kinds \X (Carried \ Texts) BY <3>2 DEF Kinds
      <4> QED BY <4>1
    <3>4. Told(<<x>>) = <<>> BY <3>3, ToldSilent
    <3>5. Told(b) \o <<>> = Told(b) BY <2>1, ToldType, ConcatEmptySeq
    <3> QED BY <2>1, <2>3, <2>5, <3>1, <3>4, <3>5
  <2> QED BY <2>6, <2>7
<1>3. Seq(Rest) \subseteq P
  <2> HIDE DEF P
  <2> QED BY <1>1, <1>2, BySteps
<1>4. Rest \cap ({"reasoning"} \X Carried) = {} BY DEF Rest, Answers
<1>5. \A b \in Seq(Rest) : OfKind("reasoning", b) = <<>> BY <1>4, OnlyNone DEF OfKind
<1> QED BY <1>3, <1>5 DEF OfKind

LEMMA ThoughtsOnly ==
    \A a \in Seq(Thoughts) :
        /\ OfKind("reasoning", a) = a /\ OfKind("content", a) = <<>>
        /\ ~ HasKind("reasoning_end", a)
<1> SUFFICES ASSUME NEW a \in Seq(Thoughts)
             PROVE  /\ OfKind("reasoning", a) = a /\ OfKind("content", a) = <<>>
                    /\ ~ HasKind("reasoning_end", a)
  OBVIOUS
<1>1. Thoughts \subseteq {"reasoning"} \X Carried BY Symbols DEF Thoughts
<1>2. Thoughts \cap ({"content"} \X Carried) = {} BY DEF Thoughts
<1>3. ~ HasKind("reasoning_end", a)
  <2>1. \A i \in DOMAIN a : a[i] \in Thoughts BY LenProperties, ElementOfSeq
  <2>2. \A x \in Thoughts : x[1] = "reasoning" BY DEF Thoughts
  <2> QED BY <2>1, <2>2 DEF HasKind
<1> QED BY <1>1, <1>2, <1>3, OnlyAll, OnlyNone DEF OfKind

LEMMA PartedEnds ==
    ASSUME NEW c, Parted(c)
    PROVE  HasKind("reasoning_end", c) /\ c \in Seq(Events)
<1>1. PICK a \in Seq(Thoughts), b \in Seq(Rest) : c = a \o b /\ HasKind("reasoning_end", b) BY DEF Parted
<1>2. a \in Seq(Events) /\ b \in Seq(Events) BY EventKinds, SeqMonotonic
<1>3. HasKind("reasoning_end", a \o b) BY <1>1, <1>2, HasKindConcat
<1> QED BY <1>1, <1>2, <1>3, ConcatProperties

\* The reasoning told and the text handed over are what was read, in order.
LEMMA HandOverTells ==
    ASSUME NEW r, EngineOK(r.e), SkipOK(r.e), ~ Thinks(r.e), Parted(r.out)
    PROVE  /\ HandOver(r) \in Seq(Lexes) /\ OfKind("reasoning", r.out) \in Seq(Events)
           /\ Told(OfKind("reasoning", r.out)) \o Pieces(HandOver(r)) = Told(r.out) \o Pieces(r.e.raw)
<1>1. PICK a \in Seq(Thoughts), b \in Seq(Rest) : r.out = a \o b BY DEF Parted
<1>2. a \in Seq(Events) /\ b \in Seq(Events) BY EventKinds, SeqMonotonic
<1>3. PICK f : f = FinishEngine(r.e).out OBVIOUS
<1>4. f \in Seq(Answers) /\ f \in Seq(Events) /\ Told(f) = Pieces(r.e.raw)
  <2>1. f \in Seq(Answers) BY <1>3, FinishAnswers
  <2>2. PICK g : g = FinishEngine(r.e) OBVIOUS
  <2>3. g.out \in Seq(Events) /\ Told(g.out) = Pieces(r.e.raw) BY <2>2, FinishYields
  <2> QED BY <1>3, <2>1, <2>2, <2>3
<1>5. PICK c : c = OfKind("content", b) OBVIOUS
<1>6. c \in Seq(Answers) /\ Told(c) = Told(b) /\ OfKind("reasoning", b) = <<>> BY <1>5, AnswerOf
<1>7. c \in Seq(Events) BY <1>6, EventKinds, SeqMonotonic
<1>8. OfKind("reasoning", a) = a /\ OfKind("content", a) = <<>> BY ThoughtsOnly
<1>9. OfKind("reasoning", r.out) = a
  <2>1. OfKind("reasoning", a \o b) = OfKind("reasoning", a) \o OfKind("reasoning", b)
    BY <1>2, OnlyConcat DEF OfKind
  <2>2. a \o <<>> = a BY ConcatEmptySeq
  <2> QED BY <1>1, <1>6, <1>8, <2>1, <2>2
<1>10. OfKind("content", r.out \o f) = c \o f
  <2>1. PICK o : o = a \o b OBVIOUS
  <2>2. o \in Seq(Events) BY <1>2, <2>1, ConcatProperties
  <2>3. OfKind("content", o \o f) = OfKind("content", o) \o OfKind("content", f)
    BY <1>4, <2>2, OnlyConcat DEF OfKind
  <2>4. OfKind("content", o) = OfKind("content", a) \o OfKind("content", b)
    BY <1>2, <2>1, OnlyConcat DEF OfKind
  <2>5. <<>> \o c = c BY <1>6, ConcatEmptySeq
  <2>6. OfKind("content", f) = f
    <3>1. Answers \subseteq {"content"} \X Carried BY Symbols DEF Answers
    <3> QED BY <1>4, <3>1, OnlyAll DEF OfKind
  <2> QED BY <1>1, <1>5, <1>8, <2>1, <2>3, <2>4, <2>5, <2>6
<1>11. HandOver(r) = Values(c \o f) BY <1>3, <1>10 DEF HandOver
<1>12. HandOver(r) \in Seq(Lexes)
  <2>1. c \o f \in Seq(Answers) BY <1>4, <1>6, ConcatProperties
  <2>2. \A x \in Answers : x[2] \in Lexes BY DEF Answers
  <2>3. Values(c \o f) \in Seq(Lexes) BY <2>1, <2>2, ValuesIs
  <2> QED BY <1>11, <2>3
<1>13. Pieces(HandOver(r)) = Told(b) \o Pieces(r.e.raw)
  <2>1. Told(c \o f) = Told(c) \o Told(f) BY <1>4, <1>7, ToldConcat
  <2> QED BY <1>4, <1>6, <1>11, <2>1 DEF Told
<1>14. Told(r.out) = Told(a) \o Told(b) BY <1>1, <1>2, ToldConcat
<1>15. Told(a) \in Seq(Carried) /\ Told(b) \in Seq(Carried) /\ Pieces(r.e.raw) \in Seq(Carried)
  BY <1>2, ToldType, EngineTypes
<1>16. Told(a) \o (Told(b) \o Pieces(r.e.raw)) = (Told(a) \o Told(b)) \o Pieces(r.e.raw)
  BY <1>15, CatAssociative DEF Cat
<1> QED BY <1>2, <1>9, <1>12, <1>13, <1>14, <1>16


-----------------------------------------------------------------------------
(* The two passes *)

ParserTypes ==
    /\ ended \in BOOLEAN /\ over \in BOOLEAN
    /\ EngineOK(reasoning) /\ EngineOK(tool) /\ EngineOK(whole)
    /\ ref \in Seq(Events) /\ out \in Seq(Events)

\* Until reasoning has ended the tool pass holds nothing, and the stream goes on
\* in reasoning: what has been emitted is reasoning.
Undivided == ~ ended => /\ ~ over => SkipOK(reasoning) /\ Thinks(reasoning) /\ out \in Seq(Thoughts)
                        /\ tool.raw = <<>>

ParserInv == ParserTypes /\ Undivided /\ EventsKeepText

LEMMA ParserInitInv == ParserInit => ParserInv
<1> SUFFICES ASSUME ParserInit PROVE ParserInv OBVIOUS
<1>1. "CONTENT" \in States /\ "REASONING" \in States BY DEF States
<1>2. <<>> \in Seq(Events) /\ <<>> \in Seq(Thoughts) BY EmptySeq
<1>3. ParserTypes
  <2>1. EngineOK(Fresh("CONTENT")) /\ EngineOK(Fresh("REASONING")) BY <1>1, FreshOK
  <2> QED BY <1>2, <2>1 DEF ParserInit, ParserTypes
<1>4. Undivided
  <2>1. SkipOK(Fresh("REASONING")) /\ Thinks(Fresh("REASONING")) BY DEF SkipOK, Thinks, Fresh
  <2>2. Fresh("CONTENT").raw = <<>> BY DEF Fresh
  <2> QED BY <1>2, <2>1, <2>2 DEF ParserInit, Undivided
<1>5. EventsKeepText
  <2>1. Held = <<>> BY DEF Held, ParserInit, Fresh
  <2>2. Told(<<>>) = <<>> /\ Pieces(<<>>) = <<>> BY ToldEmpty, PiecesEmpty
  <2>3. <<>> \o <<>> = <<>> BY <1>2, ConcatEmptySeq
  <2> QED BY <2>1, <2>2, <2>3 DEF EventsKeepText, ParserInit, Told
<1> QED BY <1>3, <1>4, <1>5 DEF ParserInv

\* What is held and arrives is told or held.
Kept(g, o, h) == Pieces(g) = Told(o) \o Pieces(h)

LEMMA YieldsKept ==
    ASSUME NEW e, EngineOK(e), NEW d \in Seq(Lexes), NEW r, Yields(e, d, r)
    PROVE  Kept(e.raw \o d, r.out, r.e.raw)
<1>1. e.raw \in Seq(Carried) /\ d \in Seq(Carried) BY EngineTypes, Symbols, SeqMonotonic
<1>2. Pieces(e.raw \o d) = Pieces(e.raw) \o Pieces(d) BY <1>1, PiecesConcat
<1> QED BY <1>2 DEF Kept, Yields

LEMMA HandedKept ==
    ASSUME NEW e, EngineOK(e), NEW d \in Seq(Lexes), NEW r, Yields(e, d, r),
           SkipOK(r.e), ~ Thinks(r.e), Parted(r.out),
           NEW u, EngineOK(u), u.raw = <<>>, NEW t, Yields(u, HandOver(r), t)
    PROVE  /\ OfKind("reasoning", r.out) \o t.out \in Seq(Events)
           /\ Kept(e.raw \o d, OfKind("reasoning", r.out) \o t.out, t.e.raw)
<1>1. PICK h, a, p, q : /\ h = Pieces(HandOver(r)) /\ a = OfKind("reasoning", r.out)
                        /\ p = Pieces(r.e.raw) /\ q = Pieces(t.e.raw)
  OBVIOUS
<1>2. EngineOK(r.e) /\ r.out \in Seq(Events) /\ EngineOK(t.e) /\ t.out \in Seq(Events) BY DEF Yields
<1>3. HandOver(r) \in Seq(Lexes) /\ a \in Seq(Events) /\ Told(a) \o h = Told(r.out) \o p
  BY <1>1, <1>2, HandOverTells
<1>4. Pieces(e.raw \o d) = Told(r.out) \o p BY <1>1, YieldsKept DEF Kept
<1>5. h \in Seq(Carried)
  <2>1. HandOver(r) \in Seq(Carried) BY <1>3, Symbols, SeqMonotonic
  <2> QED BY <1>1, <2>1, PiecesType
<1>6. h = Told(t.out) \o q
  <2>1. Pieces(u.raw) \o h = Told(t.out) \o q BY <1>1 DEF Yields
  <2>2. <<>> \o h = h BY <1>5, ConcatEmptySeq
  <2> QED BY <2>1, <2>2, PiecesEmpty
<1>7. Told(a) \in Seq(Carried) /\ Told(t.out) \in Seq(Carried) /\ q \in Seq(Carried)
  BY <1>1, <1>2, <1>3, ToldType, EngineTypes
<1>8. Told(a) \o (Told(t.out) \o q) = (Told(a) \o Told(t.out)) \o q
  BY <1>7, CatAssociative DEF Cat
<1>9. Told(a \o t.out) = Told(a) \o Told(t.out) BY <1>2, <1>3, ToldConcat
<1>10. a \o t.out \in Seq(Events) BY <1>2, <1>3, ConcatProperties
<1>11. Pieces(e.raw \o d) = Told(a \o t.out) \o q BY <1>3, <1>4, <1>6, <1>8, <1>9
<1> QED BY <1>1, <1>10, <1>11 DEF Kept

\* The end of a pass leaves nothing held.
LEMMA FinishKept ==
    ASSUME NEW e, EngineOK(e), NEW f, f = FinishEngine(e)
    PROVE  Kept(e.raw, f.out, f.e.raw)
<1>1. f.e.raw = <<>> /\ Told(f.out) = Pieces(e.raw) BY FinishYields
<1>2. Pieces(e.raw) \o <<>> = Pieces(e.raw)
  <2>1. Pieces(e.raw) \in Seq(Carried) BY EngineTypes
  <2> QED BY <2>1, ConcatEmptySeq
<1> QED BY <1>1, <1>2, PiecesEmpty DEF Kept

LEMMA FinishInv == ParserInv /\ Finish => ParserInv'
<1> SUFFICES ASSUME ParserInv, Finish PROVE ParserInv' OBVIOUS
<1>1. /\ ended \in BOOLEAN /\ EngineOK(reasoning) /\ EngineOK(tool) /\ EngineOK(whole)
      /\ ~ ended => tool.raw = <<>>
  BY DEF ParserInv, ParserTypes, Undivided
<1>2. /\ over' = TRUE /\ given' = Held /\ ended' = ended
      /\ ref' = FinishEngine(whole).out /\ whole' = FinishEngine(whole).e
  BY DEF Finish
<1>3. EngineOK(whole') /\ ref' \in Seq(Events)
  <2>1. PICK w : w = FinishEngine(whole) OBVIOUS
  <2>2. EngineOK(w.e) /\ w.out \in Seq(Events) BY <1>1, <2>1, FinishYields
  <2> QED BY <1>2, <2>1, <2>2
<1>4. CASE ended
  <2>1. PICK f : f = FinishEngine(tool) OBVIOUS
  <2>2. out' = f.out /\ tool' = f.e /\ reasoning' = reasoning BY <1>4, <2>1 DEF Finish
  <2>3. EngineOK(f.e) /\ f.out \in Seq(Events) BY <1>1, <2>1, FinishYields
  <2>4. Kept(tool.raw, f.out, f.e.raw) BY <1>1, <2>1, FinishKept
  <2>5. given' = tool.raw /\ Held' = f.e.raw BY <1>2, <1>4, <2>2 DEF Held
  <2>6. EventsKeepText' BY <2>2, <2>4, <2>5 DEF EventsKeepText, Kept, Told
  <2>7. ParserTypes' BY <1>1, <1>2, <1>3, <2>2, <2>3 DEF ParserTypes
  <2>8. Undivided' BY <1>2, <1>4 DEF Undivided
  <2> QED BY <2>6, <2>7, <2>8 DEF ParserInv
<1>5. CASE ~ ended
  <2>1. PICK f : f = FinishEngine(reasoning) OBVIOUS
  <2>2. out' = f.out /\ reasoning' = f.e /\ tool' = tool BY <1>5, <2>1 DEF Finish
  <2>3. EngineOK(f.e) /\ f.out \in Seq(Events) BY <1>1, <2>1, FinishYields
  <2>4. Kept(reasoning.raw, f.out, f.e.raw) BY <1>1, <2>1, FinishKept
  <2>5. given' = reasoning.raw /\ Held' = f.e.raw BY <1>2, <1>5, <2>2 DEF Held
  <2>6. EventsKeepText' BY <2>2, <2>4, <2>5 DEF EventsKeepText, Kept, Told
  <2>7. ParserTypes' BY <1>1, <1>2, <1>3, <2>2, <2>3 DEF ParserTypes
  <2>8. Undivided' BY <1>1, <1>2, <1>5, <2>2 DEF Undivided
  <2> QED BY <2>6, <2>7, <2>8 DEF ParserInv
<1> QED BY <1>4, <1>5

LEMMA DeltaInv == ASSUME NEW d \in Deltas, ParserInv, Delta(d) PROVE ParserInv'
<1>1. /\ ended \in BOOLEAN /\ EngineOK(reasoning) /\ EngineOK(tool) /\ EngineOK(whole)
      /\ over = FALSE /\ (~ ended => SkipOK(reasoning) /\ Thinks(reasoning) /\ tool.raw = <<>>)
  BY DEF ParserInv, ParserTypes, Undivided, Delta
<1>2. d \in Seq(Lexes) BY ParserAssumption DEF Lexes
<1>3. PICK yes \in BOOLEAN, no \in BOOLEAN : yes = TRUE /\ no = FALSE OBVIOUS
<1>4. PICK r, w : r = Feed(reasoning, d, yes) /\ w = Feed(whole, d, no) OBVIOUS
<1>5. r = Feed(reasoning, d, TRUE) /\ w = Feed(whole, d, FALSE) BY <1>3, <1>4
<1>6. over' = FALSE /\ given' = Held \o d /\ whole' = w.e /\ ref' = w.out
  BY <1>1, <1>5 DEF Delta
<1>7. EngineOK(whole') /\ ref' \in Seq(Events)
  <2>1. Yields(whole, d, w) BY <1>1, <1>2, <1>4, FeedYields
  <2> QED BY <1>6, <2>1 DEF Yields
<1>8. CASE ended
  <2>1. PICK t : t = Feed(tool, d, no) OBVIOUS
  <2>2. t = Feed(tool, d, FALSE) BY <1>3, <2>1
  <2>3. ended' = TRUE /\ tool' = t.e /\ out' = t.out /\ reasoning' = reasoning
    BY <1>8, <2>2 DEF Delta
  <2>4. Yields(tool, d, t) BY <1>1, <1>2, <2>1, FeedYields
  <2>5. Kept(tool.raw \o d, t.out, t.e.raw) BY <1>1, <1>2, <2>4, YieldsKept
  <2>6. given' = tool.raw \o d /\ Held' = t.e.raw BY <1>6, <1>8, <2>3 DEF Held
  <2>7. EventsKeepText' BY <2>3, <2>5, <2>6 DEF EventsKeepText, Kept, Told
  <2>8. EngineOK(t.e) /\ t.out \in Seq(Events) BY <2>4 DEF Yields
  <2>9. ParserTypes' BY <1>1, <1>6, <1>7, <2>3, <2>8 DEF ParserTypes
  <2>10. Undivided' BY <2>3 DEF Undivided
  <2> QED BY <2>7, <2>9, <2>10 DEF ParserInv
<1>9. ASSUME ~ ended PROVE Yields(reasoning, d, r) /\ Splits(reasoning, r)
  <2>1. Yields(reasoning, d, r) BY <1>1, <1>2, <1>4, FeedYields
  <2>2. Splits(reasoning, r) BY <1>1, <1>2, <1>5, <1>9, FeedSplits
  <2> QED BY <2>1, <2>2
<1>10. CASE ~ ended /\ HasKind("reasoning_end", r.out)
  <2>1. PICK h, g : h = HandOver(r) /\ g = FinishEngine(r.e) OBVIOUS
  <2>2. PICK t : t = Feed(tool, h, no) OBVIOUS
  <2>3. t = Feed(tool, HandOver(r), FALSE) BY <1>3, <2>1, <2>2
  <2>4. /\ ended' = TRUE /\ tool' = t.e /\ out' = OfKind("reasoning", r.out) \o t.out
        /\ reasoning' = g.e
    BY <1>5, <1>10, <2>1, <2>3 DEF Delta
  <2>5. EngineOK(r.e) /\ SkipOK(r.e) /\ ~ Thinks(r.e) /\ Parted(r.out)
    <3>1. EngineOK(r.e) /\ SkipOK(r.e) BY <1>9, <1>10 DEF Splits
    <3>2. Thinks(r.e) => r.out \in Seq(Thoughts) BY <1>1, <1>9, <1>10 DEF Splits
    <3>3. ~ Thinks(r.e) BY <1>10, <3>2, ThoughtsOnly
    <3>4. Parted(r.out) BY <1>1, <1>9, <1>10, <3>3 DEF Splits
    <3> QED BY <3>1, <3>3, <3>4
  <2>6. Yields(tool, h, t)
    <3>1. h \in Seq(Lexes) BY <2>1, <2>5, HandOverTells
    <3> QED BY <1>1, <2>2, <3>1, FeedYields
  <2>7. /\ OfKind("reasoning", r.out) \o t.out \in Seq(Events)
        /\ Kept(reasoning.raw \o d, OfKind("reasoning", r.out) \o t.out, t.e.raw)
    <3>1. Yields(tool, HandOver(r), t) BY <2>1, <2>6
    <3> QED BY <1>1, <1>2, <1>9, <1>10, <2>5, <3>1, HandedKept
  <2>8. given' = reasoning.raw \o d /\ Held' = t.e.raw BY <1>6, <1>10, <2>4 DEF Held
  <2>9. EventsKeepText' BY <2>4, <2>7, <2>8 DEF EventsKeepText, Kept, Told
  <2>10. EngineOK(t.e) BY <2>6 DEF Yields
  <2>11. EngineOK(g.e) BY <2>1, <2>5, FinishYields
  <2>12. ParserTypes' BY <1>6, <1>7, <2>4, <2>7, <2>10, <2>11 DEF ParserTypes
  <2>13. Undivided' BY <2>4 DEF Undivided
  <2> QED BY <2>9, <2>12, <2>13 DEF ParserInv
<1>11. CASE ~ ended /\ ~ HasKind("reasoning_end", r.out)
  <2>1. ended' = FALSE /\ tool' = tool /\ out' = r.out /\ reasoning' = r.e
    BY <1>1, <1>5, <1>11 DEF Delta, Result
  <2>2. EngineOK(r.e) /\ SkipOK(r.e) /\ Thinks(r.e) /\ r.out \in Seq(Thoughts) /\ r.out \in Seq(Events)
    <3>1. EngineOK(r.e) /\ SkipOK(r.e) BY <1>9, <1>11 DEF Splits
    <3>2. ~ Thinks(r.e) => Parted(r.out) BY <1>1, <1>9, <1>11 DEF Splits
    <3>3. Thinks(r.e) BY <1>11, <3>2, PartedEnds
    <3>4. r.out \in Seq(Thoughts) BY <1>1, <1>9, <1>11, <3>3 DEF Splits
    <3>5. r.out \in Seq(Events) BY <3>4, EventKinds, SeqMonotonic
    <3> QED BY <3>1, <3>3, <3>4, <3>5
  <2>3. Kept(reasoning.raw \o d, r.out, r.e.raw) BY <1>1, <1>2, <1>9, <1>11, YieldsKept
  <2>4. given' = reasoning.raw \o d /\ Held' = r.e.raw BY <1>6, <1>11, <2>1 DEF Held
  <2>5. EventsKeepText' BY <2>1, <2>3, <2>4 DEF EventsKeepText, Kept, Told
  <2>6. ParserTypes' BY <1>1, <1>6, <1>7, <2>1, <2>2 DEF ParserTypes
  <2>7. Undivided' BY <1>1, <1>6, <1>11, <2>1, <2>2 DEF Undivided
  <2> QED BY <2>5, <2>6, <2>7 DEF ParserInv
<1> QED BY <1>8, <1>10, <1>11

LEMMA ParserNextInv == ParserInv /\ [ParserNext]_parserVars => ParserInv'
<1> SUFFICES ASSUME ParserInv, [ParserNext]_parserVars PROVE ParserInv' OBVIOUS
<1>1. CASE Finish BY <1>1, FinishInv
<1>2. ASSUME NEW d \in Deltas, Delta(d) PROVE ParserInv' BY <1>2, DeltaInv
<1>3. CASE UNCHANGED parserVars
  BY <1>3 DEF parserVars, ParserInv, ParserTypes, Undivided, EventsKeepText, Held
<1> QED BY <1>1, <1>2, <1>3 DEF ParserNext

\* While reasoning goes on nothing but reasoning is emitted, an engine that is
\* not holding a candidate holds nothing, and one that is holds the text of the
\* events it would make.
THEOREM ParserInvariant == ParserSpec => []ParserInv
<1> QED BY ParserInitInv, ParserNextInv, PTL DEF ParserSpec

\* Whatever the deltas, of any number of lexemes, what was held and read is, in the
\* same order, what the events of the delta carry and what is held after it: no
\* text is lost or repeated by a candidate that is held back and given back, by a
\* recovered call, by the change of passes or by the end of the stream in a call.
\* What _events_to_delta() makes of the events is not part of it.
THEOREM TextReachesEvents == ParserSpec => []EventsKeepText
<1>1. ParserInv => EventsKeepText BY DEF ParserInv
<1> QED BY <1>1, ParserInvariant, PTL


-----------------------------------------------------------------------------
(* Two engines that differ in what no candidate will ask for *)

LEMMA OnlyIn ==
    ASSUME NEW T, NEW S
    PROVE  \A s \in Seq(T) : Only(s, S) \in Seq(S \cap T)
<1> DEFINE P == {s \in Seq(T) : Only(s, S) \in Seq(S \cap T)}
<1>1. <<>> \in P BY OnlyEmpty, EmptySeq
<1>2. ASSUME NEW s \in Seq(T), NEW x \in T, s \in P PROVE Append(s, x) \in P
  <2>1. PICK c \in Seq(S \cap T) : c = Only(s, S) BY <1>2
  <2>2. CASE x \in S
    <3>1. Only(Append(s, x), S) = Append(c, x) BY <2>1, <2>2, OnlyAppend
    <3>2. Append(c, x) \in Seq(S \cap T) BY <2>2, AppendProperties
    <3> QED BY <3>1, <3>2, AppendProperties
  <2>3. CASE x \notin S
    <3>1. Only(Append(s, x), S) = c BY <2>1, <2>3, OnlyAppend
    <3> QED BY <3>1, AppendProperties
  <2> QED BY <2>2, <2>3
<1>3. Seq(T) \subseteq P
  <2> HIDE DEF P
  <2> QED BY <1>1, <1>2, BySteps
<1> QED BY <1>3

LEMMA OnlyOnly ==
    ASSUME NEW T, NEW S, NEW R, R \subseteq S
    PROVE  \A s \in Seq(T) : Only(Only(s, S), R) = Only(s, R)
<1> DEFINE P == {s \in Seq(T) : Only(Only(s, S), R) = Only(s, R)}
<1>1. <<>> \in P BY OnlyEmpty, EmptySeq
<1>2. ASSUME NEW s \in Seq(T), NEW x \in T, s \in P PROVE Append(s, x) \in P
  <2>1. PICK c : c = Only(s, S) OBVIOUS
  <2>2. c \in Seq(T) /\ Only(c, R) = Only(s, R) BY <1>2, <2>1, OnlyType
  <2>3. CASE x \in R
    <3>1. Only(Append(s, x), S) = Append(c, x) BY <2>1, <2>3, OnlyAppend
    <3>2. Only(Append(c, x), R) = Append(Only(c, R), x) BY <2>2, <2>3, OnlyAppend
    <3>3. Only(Append(s, x), R) = Append(Only(s, R), x) BY <2>3, OnlyAppend
    <3> QED BY <2>2, <3>1, <3>2, <3>3, AppendProperties
  <2>4. CASE x \in S \ R
    <3>1. Only(Append(s, x), S) = Append(c, x) BY <2>1, <2>4, OnlyAppend
    <3>2. Only(Append(c, x), R) = Only(c, R) BY <2>2, <2>4, OnlyAppend
    <3>3. Only(Append(s, x), R) = Only(s, R) BY <2>4, OnlyAppend
    <3> QED BY <2>2, <3>1, <3>2, <3>3, AppendProperties
  <2>5. CASE x \notin S
    <3>1. Only(Append(s, x), S) = c BY <2>1, <2>5, OnlyAppend
    <3>2. Only(Append(s, x), R) = Only(s, R) BY <2>5, OnlyAppend
    <3> QED BY <2>2, <3>1, <3>2, AppendProperties
  <2> QED BY <2>3, <2>4, <2>5
<1>3. Seq(T) \subseteq P
  <2> HIDE DEF P
  <2> QED BY <1>1, <1>2, BySteps
<1> QED BY <1>3

\* Everything but the ends of reasoning.
Heads == (Kinds \ {"reasoning_end"}) \X Carried

Same(a, b) == Only(a, Heads) = Only(b, Heads)

LEMMA SameConcat ==
    ASSUME NEW a \in Seq(Events), NEW b \in Seq(Events), NEW c \in Seq(Events), NEW d \in Seq(Events),
           Same(a, b), Same(c, d)
    PROVE  Same(a \o c, b \o d)
<1>1. Only(a \o c, Heads) = Only(a, Heads) \o Only(c, Heads) BY OnlyConcat
<1>2. Only(b \o d, Heads) = Only(b, Heads) \o Only(d, Heads) BY OnlyConcat
<1> QED BY <1>1, <1>2 DEF Same

\* What is shown under each heading is the same.
LEMMA SameShown ==
    ASSUME NEW a \in Seq(Events), NEW b \in Seq(Events), Same(a, b), NEW k \in Kinds \ {"reasoning_end"}
    PROVE  OfKind(k, a) = OfKind(k, b) /\ Shown(k, a) = Shown(k, b)
<1>1. {k} \X Carried \subseteq Heads /\ {k} \X (Carried \ {"TOOL_END"}) \subseteq Heads BY DEF Heads
<1>2. ASSUME NEW R, R \subseteq Heads PROVE Only(a, R) = Only(b, R)
  <2>1. Only(Only(a, Heads), R) = Only(a, R) /\ Only(Only(b, Heads), R) = Only(b, R)
    BY <1>2, OnlyOnly
  <2> QED BY <2>1 DEF Same
<1> QED BY <1>1, <1>2 DEF OfKind, Shown

\* The state a candidate began in is read only while it is held.
Like(a, b) ==
    /\ a \in Engines /\ b \in Engines
    /\ b = [a EXCEPT !.prior = b.prior]
    /\ a.hold => b = a

LikeResults(r, q) == Like(r.e, q.e) /\ q.out = r.out

LEMMA LikeMade ==
    ASSUME NEW c, NEW d, Like(c, d), NEW o, NEW r, NEW q, r = Result(c, o), q = Result(d, o)
    PROVE  LikeResults(r, q)
BY DEF LikeResults, Result

LEMMA LikeSelf == ASSUME NEW a \in Engines PROVE Like(a, a)
BY DEF Like, Engines

LEMMA LikeFields ==
    ASSUME NEW a, NEW b, Like(a, b)
    PROVE  /\ a.st = b.st /\ a.hold = b.hold /\ a.raw = b.raw /\ a.closer = b.closer
           /\ b.prior \in States
BY DEF Like, Engines

LEMMA TextLike ==
    ASSUME NEW a, NEW b, EngineOK(a), EngineOK(b), Like(a, b), NEW l \in Lexes
    PROVE  LikeResults(Text(a, l), Text(b, l))
<1>1. CASE a.hold
  <2>1. b = a BY <1>1 DEF Like
  <2>2. Text(a, l).e \in Engines
    <3>1. EngineOK(Text(a, l).e) BY TextYields DEF Yields
    <3> QED BY <3>1, EngineTypes
  <2> QED BY <2>1, <2>2, LikeSelf DEF LikeResults
<1>2. CASE ~ a.hold
  <2>1. a.st = b.st /\ ~ b.hold BY <1>2, LikeFields
  <2>2. Text(a, l).e = a /\ Text(a, l).out = <<<<Kind(a.st), l>>>> BY <1>2 DEF Text, Result
  <2>3. Text(b, l).e = b /\ Text(b, l).out = <<<<Kind(a.st), l>>>> BY <2>1 DEF Text, Result
  <2> QED BY <2>2, <2>3 DEF LikeResults
<1> QED BY <1>1, <1>2

LEMMA UnheldLike ==
    ASSUME NEW a, NEW b, EngineOK(a), EngineOK(b), Like(a, b), NEW t \in Terminals
    PROVE  LikeResults(Unheld(a, t, FALSE), Unheld(b, t, FALSE))
<1>1. CASE a.hold
  <2>1. b = a BY <1>1 DEF Like
  <2>2. Unheld(a, t, FALSE).e \in Engines
    <3>1. EngineOK(Unheld(a, t, FALSE).e) BY UnheldYields DEF Yields
    <3> QED BY <3>1, EngineTypes
  <2> QED BY <2>1, <2>2, LikeSelf DEF LikeResults
<1>2. CASE ~ a.hold
  <2>1. a.st = b.st /\ ~ b.hold /\ a.closer = b.closer BY <1>2, LikeFields
  <2>2. CASE a.closer /\ a.st = "CONTENT" /\ t \in ToolExits
    <3>1. PICK c, d : c = [a EXCEPT !.closer = FALSE] /\ d = [b EXCEPT !.closer = FALSE] OBVIOUS
    <3>2. Unheld(a, t, FALSE) = Result(c, <<>>) /\ Unheld(b, t, FALSE) = Result(d, <<>>)
      BY <2>1, <2>2, <3>1 DEF Unheld
    <3>3. Like(c, d)
      <4>1. c \in Engines /\ d \in Engines BY <3>1 DEF Like, Engines
      <4>2. d = [c EXCEPT !.prior = d.prior] BY <3>1 DEF Like, Engines
      <4>3. ~ c.hold BY <1>2, <3>1 DEF Like, Engines
      <4> QED BY <4>1, <4>2, <4>3 DEF Like
    <3> QED BY <3>2, <3>3, LikeMade
  <2>3. CASE ~ (a.closer /\ a.st = "CONTENT" /\ t \in ToolExits) /\ Transitions[a.st][t] = {}
    <3>1. Unheld(a, t, FALSE) = Text(a, t) /\ Unheld(b, t, FALSE) = Text(b, t)
      BY <2>1, <2>3 DEF Unheld
    <3> QED BY <3>1, TerminalSilent, TextLike
  <2>4. CASE ~ (a.closer /\ a.st = "CONTENT" /\ t \in ToolExits) /\ Transitions[a.st][t] # {}
    <3>1. PICK x : x = CHOOSE y \in Transitions[a.st][t] : TRUE OBVIOUS
    <3>2. x \in Table
      <4>1. x \in Transitions[a.st][t] BY <2>4, <3>1
      <4> QED BY <4>1, EngineTypes, RowFor
    <3>3. Unheld(a, t, FALSE) = Meaningful(a, t, x, FALSE) /\ Unheld(b, t, FALSE) = Meaningful(b, t, x, FALSE)
      BY <2>1, <2>4, <3>1 DEF Unheld
    <3>4. PICK o : o = [i \in DOMAIN x[4] |-> <<x[4][i], t>>] OBVIOUS
    <3>5. CASE Provisional(a.st, t)
      <4>1. Meaningful(a, t, x, FALSE) = Begin(a, t, x) /\ Meaningful(b, t, x, FALSE) = Begin(b, t, x)
        BY <1>2, <2>1, <3>5 DEF Meaningful
      <4>2. Begin(a, t, x) = Begin(b, t, x)
        <5>1. PICK c, d : /\ c = [[a EXCEPT !.st = x[3]] EXCEPT !.hold = TRUE, !.raw = <<t>>, !.name = <<>>,
                                                                !.events = o, !.prior = a.st]
                          /\ d = [[b EXCEPT !.st = x[3]] EXCEPT !.hold = TRUE, !.raw = <<t>>, !.name = <<>>,
                                                                !.events = o, !.prior = b.st]
          OBVIOUS
        <5>2. Begin(a, t, x) = Result(c, <<>>) /\ Begin(b, t, x) = Result(d, <<>>)
          BY <3>4, <5>1 DEF Begin, Run, Result
        <5>3. c = d BY <2>1, <5>1 DEF Like, Engines
        <5> QED BY <5>2, <5>3
      <4>3. Begin(a, t, x).e \in Engines
        <5>1. EngineOK(Unheld(a, t, FALSE).e) BY UnheldYields DEF Yields
        <5> QED BY <3>3, <4>1, <5>1, EngineTypes
      <4> QED BY <3>3, <4>1, <4>2, <4>3, LikeSelf DEF LikeResults
    <3>6. CASE ~ Provisional(a.st, t)
      <4>1. Meaningful(a, t, x, FALSE) = Apply(a, t, x) /\ Meaningful(b, t, x, FALSE) = Apply(b, t, x)
        BY <1>2, <2>1, <3>6 DEF Meaningful
      <4>2. PICK v \in BOOLEAN : v = (a.closer /\ ~ (a.st = "CONTENT" /\ x[3] \in ToolStates)) OBVIOUS
      <4>3. PICK c, d : c = [a EXCEPT !.closer = v, !.st = x[3]] /\ d = [b EXCEPT !.closer = v, !.st = x[3]]
        OBVIOUS
      <4>4. Apply(a, t, x) = Result(c, o) /\ Apply(b, t, x) = Result(d, o)
        <5>1. [[a EXCEPT !.closer = v] EXCEPT !.st = x[3]] = c /\ [[b EXCEPT !.closer = v] EXCEPT !.st = x[3]] = d
          BY <4>3 DEF Like, Engines
        <5>2. /\ Apply(a, t, x) = Run([a EXCEPT !.closer = v], t, x)
              /\ Apply(b, t, x) = Run([b EXCEPT !.closer = v], t, x)
          BY <2>1, <4>2 DEF Apply, Like, Engines
        <5> QED BY <3>4, <5>1, <5>2 DEF Run
      <4>5. Like(c, d)
        <5>1. c \in Engines /\ d \in Engines
          <6>1. x[3] \in States BY <3>2, TableRows
          <6> QED BY <4>3, <6>1 DEF Like, Engines
        <5>2. d = [c EXCEPT !.prior = d.prior] BY <4>3 DEF Like, Engines
        <5>3. ~ c.hold BY <1>2, <4>3 DEF Like, Engines
        <5> QED BY <5>1, <5>2, <5>3 DEF Like
      <4>6. Unheld(a, t, FALSE) = Result(c, o) /\ Unheld(b, t, FALSE) = Result(d, o) BY <3>3, <4>1, <4>4
      <4> QED BY <4>5, <4>6, LikeMade
    <3> QED BY <3>5, <3>6
  <2> QED BY <2>2, <2>3, <2>4
<1> QED BY <1>1, <1>2

LEMMA TakeLike ==
    ASSUME NEW a, NEW b, EngineOK(a), EngineOK(b), Like(a, b), NEW l \in Lexes
    PROVE  LikeResults(Take(a, l, FALSE), Take(b, l, FALSE))
<1>1. CASE l \in Texts BY <1>1, TextLike DEF Take
<1>2. CASE l \notin Texts
  <2>1. l \in Terminals /\ Take(a, l, FALSE) = OnTerminal(a, l, FALSE) /\ Take(b, l, FALSE) = OnTerminal(b, l, FALSE)
    BY <1>2 DEF Lexes, Take
  <2>2. CASE a.hold
    <3>1. b = a BY <2>2 DEF Like
    <3>2. PICK no \in BOOLEAN : no = FALSE OBVIOUS
    <3>3. PICK r : r = Take(a, l, no) OBVIOUS
    <3>4. r.e \in Engines
      <4>1. Yields(a, <<l>>, r) BY <3>3, TakeYields
      <4> QED BY <4>1, EngineTypes DEF Yields
    <3>5. r = Take(a, l, FALSE) BY <3>2, <3>3
    <3> QED BY <3>1, <3>4, <3>5, LikeSelf DEF LikeResults
  <2>3. CASE ~ a.hold
    <3>1. ~ b.hold BY <2>3, LikeFields
    <3>2. OnTerminal(a, l, FALSE) = Unheld(a, l, FALSE) /\ OnTerminal(b, l, FALSE) = Unheld(b, l, FALSE)
      BY <2>3, <3>1 DEF OnTerminal
    <3> QED BY <2>1, <3>2, UnheldLike
  <2> QED BY <2>2, <2>3
<1> QED BY <1>1, <1>2

LEMMA FeedLike ==
    ASSUME NEW a, NEW b, EngineOK(a), EngineOK(b), Like(a, b)
    PROVE  \A ls \in Seq(Lexes) : LikeResults(Feed(a, ls, FALSE), Feed(b, ls, FALSE))
<1>0. PICK no \in BOOLEAN : no = FALSE OBVIOUS
<1> DEFINE P == {ls \in Seq(Lexes) : LikeResults(Feed(a, ls, no), Feed(b, ls, no))}
<1>1. <<>> \in P
  <2>1. Feed(a, <<>>, no) = Result(a, <<>>) /\ Feed(b, <<>>, no) = Result(b, <<>>) BY FeedEmpty
  <2>2. LikeResults(Result(a, <<>>), Result(b, <<>>)) BY DEF LikeResults, Result
  <2> QED BY <2>1, <2>2, EmptySeq
<1>2. ASSUME NEW ls \in Seq(Lexes), NEW l \in Lexes, ls \in P PROVE Append(ls, l) \in P
  <2>1. PICK p, v : p = Feed(a, ls, no) /\ v = Feed(b, ls, no) OBVIOUS
  <2>2. PICK q, u : q = Take(p.e, l, no) /\ u = Take(v.e, l, no) OBVIOUS
  <2>3. Feed(a, Append(ls, l), no) = Result(q.e, p.out \o q.out) BY <2>1, <2>2, FeedAppend
  <2>4. Feed(b, Append(ls, l), no) = Result(u.e, v.out \o u.out) BY <2>1, <2>2, FeedAppend
  <2>5. LikeResults(p, v) BY <1>2, <2>1
  <2>6. EngineOK(p.e) /\ EngineOK(v.e)
    <3>1. Yields(a, ls, p) /\ Yields(b, ls, v) BY <2>1, FeedYields
    <3> QED BY <3>1 DEF Yields
  <2>7. LikeResults(q, u)
    <3>1. q = Take(p.e, l, FALSE) /\ u = Take(v.e, l, FALSE) BY <1>0, <2>2
    <3>2. Like(p.e, v.e) BY <2>5 DEF LikeResults
    <3> QED BY <2>6, <3>1, <3>2, TakeLike
  <2>8. LikeResults(Result(q.e, p.out \o q.out), Result(u.e, v.out \o u.out))
    BY <2>5, <2>7 DEF LikeResults, Result
  <2> QED BY <2>3, <2>4, <2>8, AppendProperties
<1>3. Seq(Lexes) \subseteq P
  <2> HIDE DEF P
  <2> QED BY <1>1, <1>2, BySteps
<1> SUFFICES ASSUME NEW ls \in Seq(Lexes) PROVE LikeResults(Feed(a, ls, FALSE), Feed(b, ls, FALSE)) OBVIOUS
<1>4. LikeResults(Feed(a, ls, no), Feed(b, ls, no)) BY <1>3
<1> QED BY <1>0, <1>4

LEMMA FinishLike ==
    ASSUME NEW a, NEW b, EngineOK(a), EngineOK(b), Like(a, b)
    PROVE  LikeResults(FinishEngine(a), FinishEngine(b))
<1>1. PICK f, g : f = FinishEngine(a) /\ g = FinishEngine(b) OBVIOUS
<1>2. EngineOK(f.e) /\ EngineOK(g.e) BY <1>1, FinishYields
<1>3. CASE a.hold
  <2>1. b = a BY <1>3 DEF Like
  <2>2. f.e \in Engines BY <1>2, EngineTypes
  <2> QED BY <1>1, <2>1, <2>2, LikeSelf DEF LikeResults
<1>4. CASE ~ a.hold
  <2>1. a.st = b.st /\ ~ b.hold BY <1>4, LikeFields
  <2>2. GivenUp(a) = Result(a, <<>>) /\ GivenUp(b) = Result(b, <<>>) BY <1>4, <2>1 DEF GivenUp
  <2>3. PICK p, q : p = GivenUp(a) /\ q = GivenUp(b) OBVIOUS
  <2>4. p.e = a /\ q.e = b /\ p.out = <<>> /\ q.out = <<>> BY <2>2, <2>3 DEF Result
  <2>5. f.e = [p.e EXCEPT !.st = "CONTENT"] /\ f.out = p.out \o LastOf(p.e.st) BY <1>1, <2>3, FinishIs
  <2>6. g.e = [q.e EXCEPT !.st = "CONTENT"] /\ g.out = q.out \o LastOf(q.e.st) BY <1>1, <2>3, FinishIs
  <2>7. f.e = [a EXCEPT !.st = "CONTENT"] /\ g.e = [b EXCEPT !.st = "CONTENT"] /\ f.out = g.out
    BY <2>1, <2>4, <2>5, <2>6
  <2>8. f.e \in Engines /\ g.e \in Engines BY <1>2, EngineTypes
  <2>9. g.e = [f.e EXCEPT !.prior = g.e.prior]
    <3>1. PICK c, d : c = [a EXCEPT !.st = "CONTENT"] /\ d = [b EXCEPT !.st = "CONTENT"] OBVIOUS
    <3>2. d = [c EXCEPT !.prior = d.prior] BY <3>1 DEF Like, Engines
    <3> QED BY <2>7, <3>1, <3>2
  <2>10. ~ f.e.hold BY <1>4, <2>7 DEF Like, Engines
  <2> QED BY <1>1, <2>7, <2>8, <2>9, <2>10 DEF LikeResults, Like
<1> QED BY <1>3, <1>4


-----------------------------------------------------------------------------
(* A candidate of the reasoning pass read again by the tool pass *)

Begun == Fresh("CONTENT")

Reads(ls) == Feed(Begun, ls, FALSE)
Plain(e, l) == Take(e, l, FALSE)

LEMMA BegunOK == /\ EngineOK(Begun) /\ Begun \in Engines /\ Begun.st = "CONTENT" /\ Begun.hold = FALSE
                 /\ Begun.closer = FALSE /\ Begun.raw = <<>>
<1>1. "CONTENT" \in States BY DEF States
<1>2. EngineOK(Begun) BY <1>1, FreshOK DEF Begun
<1> QED BY <1>2, EngineTypes DEF Begun, Fresh

LEMMA ReadsEmpty == Reads(<<>>) = Result(Begun, <<>>)
<1>1. PICK no \in BOOLEAN : no = FALSE OBVIOUS
<1>2. Feed(Begun, <<>>, no) = Result(Begun, <<>>) BY FeedEmpty
<1> QED BY <1>1, <1>2 DEF Reads

LEMMA ReadsAppend ==
    ASSUME NEW ls \in Seq(Lexes), NEW l \in Lexes, NEW p, p = Reads(ls), NEW q, q = Plain(p.e, l)
    PROVE  Reads(Append(ls, l)) = Result(q.e, p.out \o q.out)
<1>1. PICK no \in BOOLEAN : no = FALSE OBVIOUS
<1>2. PICK a : a = Feed(Begun, ls, no) OBVIOUS
<1>3. PICK b : b = Take(a.e, l, no) OBVIOUS
<1>4. Feed(Begun, Append(ls, l), no) = Result(b.e, a.out \o b.out) BY <1>2, <1>3, FeedAppend
<1>5. a = p BY <1>1, <1>2 DEF Reads
<1>6. b = q BY <1>1, <1>3, <1>5 DEF Plain
<1>7. Reads(Append(ls, l)) = Feed(Begun, Append(ls, l), no) BY <1>1 DEF Reads
<1> QED BY <1>4, <1>5, <1>6, <1>7

LEMMA ReadsYields ==
    ASSUME NEW ls \in Seq(Lexes)
    PROVE  Yields(Begun, ls, Reads(ls)) /\ EngineOK(Reads(ls).e) /\ Reads(ls).out \in Seq(Events)
<1>1. PICK no \in BOOLEAN : no = FALSE OBVIOUS
<1>2. Yields(Begun, ls, Feed(Begun, ls, no)) BY BegunOK, FeedYields
<1>3. Reads(ls) = Feed(Begun, ls, no) BY <1>1 DEF Reads
<1> QED BY <1>2, <1>3 DEF Yields

\* What an engine that began in the answer would be, had it read the candidate.
Twin(e) == [e EXCEPT !.prior = "CONTENT", !.events = Only(@, Heads)]

Replays(e) == Reads(e.raw) = Result(Twin(e), <<>>)

\* An engine in reasoning: it has nothing of an earlier call, and a candidate it
\* holds can be handed over as it is.
Candid(e) ==
    /\ EngineOK(e) /\ e.closer = FALSE
    /\ ~ e.hold => e.name = <<>> /\ e.events = <<>>
    /\ e.hold => Replays(e)

LEMMA TwinFields ==
    ASSUME NEW e \in Engines, NEW u, u = Twin(e)
    PROVE  /\ u \in Engines /\ u.st = e.st /\ u.hold = e.hold /\ u.raw = e.raw /\ u.name = e.name
           /\ u.closer = e.closer /\ u.prior = "CONTENT" /\ u.events = Only(e.events, Heads)
<1>1. Only(e.events, Heads) \in Seq(Events)
  <2>1. e.events \in Seq(Events) BY DEF Engines
  <2> QED BY <2>1, OnlyType
<1>2. "CONTENT" \in States BY DEF States
<1> QED BY <1>1, <1>2 DEF Twin, Engines

LEMMA HeldOn ==
    ASSUME NEW e, EngineOK(e), Replays(e), NEW l \in Lexes, NEW h, h.raw = Append(e.raw, l),
           NEW q, q = Plain(Twin(e), l), q = Result(Twin(h), <<>>)
    PROVE  Replays(h)
<1>1. PICK p : p = Reads(e.raw) OBVIOUS
<1>2. p.e = Twin(e) /\ p.out = <<>> BY <1>1 DEF Replays, Result
<1>3. q.e = Twin(h) /\ q.out = <<>> BY DEF Result
<1>4. PICK ls \in Seq(Lexes) : ls = e.raw BY EngineTypes
<1>5. q = Plain(p.e, l) BY <1>2
<1>6. Reads(Append(ls, l)) = Result(q.e, p.out \o q.out) BY <1>1, <1>4, <1>5, ReadsAppend
<1>7. <<>> \o <<>> = <<>>
  <2>1. <<>> \in Seq(Events) BY EmptySeq
  <2> QED BY <2>1, ConcatEmptySeq
<1> QED BY <1>2, <1>3, <1>4, <1>6, <1>7 DEF Replays

LEMMA HeadOf ==
    /\ \A st \in States, l \in Lexes : <<Kind(st), l>> \in Heads
    /\ \A t \in Lexes : <<"start", t>> \in Heads /\ <<"end", t>> \in Heads /\ <<"reasoning_end", t>> \notin Heads
<1>1. ASSUME NEW st \in States, NEW l \in Lexes PROVE <<Kind(st), l>> \in Heads
  <2>1. Kind(st) \in Kinds \ {"reasoning_end"} BY KindType DEF Kinds
  <2> QED BY <2>1, Symbols DEF Heads
<1>2. \A t \in Lexes : <<"start", t>> \in Heads /\ <<"end", t>> \in Heads /\ <<"reasoning_end", t>> \notin Heads
  BY Symbols DEF Heads, Kinds
<1> QED BY <1>1, <1>2

\* Text of a candidate that goes on.
LEMMA TwinText ==
    ASSUME NEW e, EngineOK(e), e.hold, NEW l \in Lexes, ~ (e.st = "TOOL_NAME" /\ l \in LongTexts)
    PROVE  /\ Text(Twin(e), l) = Result(Twin(Text(e, l).e), <<>>)
           /\ Text(e, l).e.raw = Append(e.raw, l) /\ Text(e, l).e.hold /\ Text(e, l).e.closer = e.closer
           /\ Text(e, l).e.prior = e.prior
<1>1. e \in Engines /\ e.raw \in Seq(Lexes) /\ e.name \in Seq(Lexes) /\ e.events \in Seq(Events) /\ e.st \in States
  BY EngineTypes
<1>2. PICK u : u = Twin(e) OBVIOUS
<1>3. /\ u \in Engines /\ u.st = e.st /\ u.hold = e.hold /\ u.raw = e.raw /\ u.name = e.name
      /\ u.closer = e.closer /\ u.prior = "CONTENT" /\ u.events = Only(e.events, Heads)
  BY <1>1, <1>2, TwinFields
<1>4. PICK k, r, n, v, w : /\ k = <<Kind(e.st), l>> /\ r = Append(e.raw, l)
                           /\ n = (IF e.st = "TOOL_NAME" THEN Append(e.name, l) ELSE e.name)
                           /\ v = Append(e.events, k) /\ w = Append(u.events, k)
  OBVIOUS
<1>5. Text(e, l) = Result([e EXCEPT !.raw = r, !.name = n, !.events = v], <<>>)
  BY <1>1, <1>4 DEF Text, Engines
<1>6. Text(u, l) = Result([u EXCEPT !.raw = r, !.name = n, !.events = w], <<>>)
  BY <1>1, <1>3, <1>4 DEF Text, Engines
<1>7. Only(v, Heads) = w
  <2>1. k \in Heads /\ k \in Events
    <3>1. Heads \subseteq Events BY DEF Heads, Events
    <3> QED BY <1>1, <1>4, <3>1, HeadOf
  <2>2. PICK s \in Seq(Events) : s = e.events BY <1>1
  <2>3. Only(Append(s, k), Heads) = Append(Only(s, Heads), k) BY <2>1, OnlyAppend
  <2> QED BY <1>3, <1>4, <2>2, <2>3
<1>8. PICK h : h = [e EXCEPT !.raw = r, !.name = n, !.events = v] OBVIOUS
<1>9. h.raw = r /\ h.hold = e.hold /\ h.closer = e.closer /\ h.prior = e.prior BY <1>1, <1>8 DEF Engines
<1>10. Twin(h) = [u EXCEPT !.raw = r, !.name = n, !.events = w]
  <2>1. Twin(h) = [h EXCEPT !.prior = "CONTENT", !.events = w]
    <3>1. h.events = v BY <1>1, <1>8 DEF Engines
    <3> QED BY <1>7, <1>8, <3>1, <1>1 DEF Twin, Engines
  <2>2. u = [e EXCEPT !.prior = "CONTENT", !.events = u.events] BY <1>1, <1>2, <1>3 DEF Twin, Engines
  <2> QED BY <1>1, <1>8, <2>1, <2>2 DEF Engines
<1>11. Text(e, l).e = h BY <1>5, <1>8 DEF Result
<1> QED BY <1>2, <1>4, <1>6, <1>9, <1>10, <1>11

\* Until reasoning ends a given back candidate leaves the engine as it began.
LEMMA CandidAbort ==
    ASSUME NEW e, Candid(e), e.hold, Thinks(e), NEW ls \in Seq(Lexes), NEW a, a = [e EXCEPT !.raw = ls]
    PROVE  /\ Candid(Abort(a).e) /\ Thinks(Abort(a).e) /\ ~ Abort(a).e.hold /\ SkipOK(Abort(a).e)
           /\ Abort(a).out \in Seq(Thoughts)
<1>1. EngineOK(e) /\ e \in Engines /\ e.closer = FALSE BY EngineTypes DEF Candid
<1>2. a \in Engines /\ a.prior = e.prior /\ a.closer = FALSE BY <1>1 DEF Engines
<1>3. e.prior = "REASONING" BY DEF Thinks
<1>4. PICK b : b = Abort(a) OBVIOUS
<1>5. b.e = [Fresh("REASONING") EXCEPT !.closer = FALSE] BY <1>2, <1>3, <1>4 DEF Abort, Result
<1>6. EngineOK(b.e) BY <1>2, <1>4, AbortIs
<1>7. b.e.hold = FALSE /\ b.e.closer = FALSE /\ b.e.name = <<>> /\ b.e.events = <<>> /\ b.e.st = "REASONING"
  BY <1>5 DEF Fresh
<1>8. b.out \in Seq(Thoughts)
  <2>1. Splits(e, b) BY <1>1, <1>4, AbortSplits
  <2>2. Thinks(b.e) BY <1>7 DEF Thinks
  <2> QED BY <2>1, <2>2 DEF Splits
<1> QED BY <1>4, <1>6, <1>7, <1>8 DEF Candid, Thinks, SkipOK

LEMMA CandidText ==
    ASSUME NEW e, Candid(e), Thinks(e), NEW l \in Lexes,
           l \in Texts \/ (~ (e.hold /\ e.st = "TOOL_NAME") /\ Transitions[e.st][l] = {})
    PROVE  Candid(Text(e, l).e) /\ Thinks(Text(e, l).e)
<1>1. EngineOK(e) /\ e \in Engines /\ e.closer = FALSE BY EngineTypes DEF Candid
<1>2. EngineOK(Text(e, l).e) BY <1>1, TextYields DEF Yields
<1>3. CASE ~ e.hold
  <2>1. Text(e, l).e = e BY <1>3 DEF Text, Result
  <2> QED BY <2>1
<1>4. CASE e.hold /\ e.st = "TOOL_NAME" /\ l \in LongTexts
  <2>1. Text(e, l) = Abort([e EXCEPT !.raw = Append(@, l)]) BY <1>4 DEF Text
  <2>2. Append(e.raw, l) \in Seq(Lexes) BY <1>1, EngineTypes, AppendProperties
  <2> QED BY <1>4, <2>1, <2>2, CandidAbort
<1>5. CASE e.hold /\ ~ (e.st = "TOOL_NAME" /\ l \in LongTexts)
  <2>1. PICK h : h = Text(e, l).e OBVIOUS
  <2>2. /\ Text(Twin(e), l) = Result(Twin(h), <<>>)
        /\ h.raw = Append(e.raw, l) /\ h.hold /\ h.closer = e.closer /\ h.prior = e.prior
    BY <1>1, <1>5, <2>1, TwinText
  <2>3. Plain(Twin(e), l) = Text(Twin(e), l)
    <3>1. CASE l \in Texts BY <3>1 DEF Take, Plain
    <3>2. CASE l \notin Texts
      <4>1. e.st # "TOOL_NAME" /\ Transitions[e.st][l] = {} BY <1>5, <3>2
      <4>2. PICK u : u = Twin(e) OBVIOUS
      <4>3. u.st = e.st /\ u.closer = FALSE BY <1>1, <4>2, TwinFields
      <4>4. Plain(u, l) = OnTerminal(u, l, FALSE) BY <3>2 DEF Take, Plain
      <4>5. OnTerminal(u, l, FALSE) = Unheld(u, l, FALSE) BY <4>1, <4>3 DEF OnTerminal
      <4>6. Unheld(u, l, FALSE) = Text(u, l) BY <4>1, <4>3 DEF Unheld
      <4> QED BY <4>2, <4>4, <4>5, <4>6
    <3> QED BY <3>1, <3>2
  <2>4. Replays(h)
    <3>1. Replays(e) BY <1>5 DEF Candid
    <3> QED BY <1>1, <2>2, <2>3, <3>1, HeldOn
  <2>5. Thinks(h) BY <1>5, <2>2 DEF Thinks
  <2> QED BY <1>1, <1>2, <2>1, <2>2, <2>4, <2>5 DEF Candid
<1> QED BY <1>3, <1>4, <1>5


-----------------------------------------------------------------------------
(* The lexeme at which reasoning ends *)

Given(evs) == Values(OfKind("content", evs))

\* What the reasoning pass has made of the answer and still holds, read by the
\* tool pass, gives what the single machine gave.
Handed(r, w) ==
    LET g == Given(r.out) \o r.e.raw
    IN /\ g \in Seq(Lexes)
       /\ Like(Reads(g).e, w.e)
       /\ Same(OfKind("reasoning", r.out) \o Reads(g).out, w.out)

Agree(r, w) ==
    /\ Thinks(r.e) => w = r /\ Candid(r.e)
    /\ ~ Thinks(r.e) => Handed(r, w)

LEMMA ThinkRow ==
    ASSUME NEW x \in Table, x[1] \in {"REASONING", "FOREIGN_REASONING_BLOCK"}
    PROVE  \/ x[2] = "THINK_END" /\ x[3] = "CONTENT" /\ x[4] = <<"reasoning_end">>
           \/ x[2] = "TOOL_START" /\ x[3] = "TOOL_PREAMBLE" /\ x[4] = <<"reasoning_end">>
           \/ /\ x[2] = "INVOKE_PREFIX" /\ x[1] = "REASONING" /\ x[3] = "TOOL_NAME"
              /\ x[4] = <<"reasoning_end", "start">>
           \/ /\ x[2] \in {"FOREIGN_START", "FOREIGN_END"}
              /\ x[3] \in {"REASONING", "FOREIGN_REASONING_BLOCK"} /\ x[4] = <<"reasoning">>
BY DEF Table

LEMMA AnswerRows ==
    /\ Transitions["CONTENT"]["INVOKE_PREFIX"] # {} /\ Transitions["CONTENT"]["TOOL_START"] # {}
    /\ \A y \in Transitions["CONTENT"]["INVOKE_PREFIX"] :
          y \in Table /\ y[1] = "CONTENT" /\ y[2] = "INVOKE_PREFIX" /\ y[3] = "TOOL_NAME" /\ y[4] = <<"start">>
    /\ \A y \in Transitions["CONTENT"]["TOOL_START"] :
          y \in Table /\ y[1] = "CONTENT" /\ y[2] = "TOOL_START" /\ y[3] = "TOOL_PREAMBLE" /\ y[4] = <<>>
<1>1. "CONTENT" \in States /\ "INVOKE_PREFIX" \in Terminals /\ "TOOL_START" \in Terminals
  BY DEF States, Terminals
<1>2. \E y \in Table : y[1] = "CONTENT" /\ y[2] = "INVOKE_PREFIX"
  <2>1. <<"CONTENT", "INVOKE_PREFIX", "TOOL_NAME", <<"start">>>> \in Table BY DEF Table
  <2> QED BY <2>1
<1>3. \E y \in Table : y[1] = "CONTENT" /\ y[2] = "TOOL_START"
  <2>1. <<"CONTENT", "TOOL_START", "TOOL_PREAMBLE", <<>>>> \in Table BY DEF Table
  <2> QED BY <2>1
<1>4. \A y \in Table : y[1] = "CONTENT" /\ y[2] = "INVOKE_PREFIX" => y[3] = "TOOL_NAME" /\ y[4] = <<"start">>
  BY DEF Table
<1>5. \A y \in Table : y[1] = "CONTENT" /\ y[2] = "TOOL_START" => y[3] = "TOOL_PREAMBLE" /\ y[4] = <<>>
  BY DEF Table
<1>6. Transitions["CONTENT"]["INVOKE_PREFIX"] = {y \in Table : y[1] = "CONTENT" /\ y[2] = "INVOKE_PREFIX"}
  BY <1>1 DEF Transitions
<1>7. Transitions["CONTENT"]["TOOL_START"] = {y \in Table : y[1] = "CONTENT" /\ y[2] = "TOOL_START"}
  BY <1>1 DEF Transitions
<1> QED BY <1>2, <1>3, <1>4, <1>5, <1>6, <1>7

LEMMA ToolTerminalsAre ==
    /\ ToolTerminals \subseteq {"TOOL_START", "INVOKE_PREFIX", "INVOKE_NAME_END", "INVOKE_END", "TOOL_END"}
    /\ "TOOL_START" \in ToolTerminals /\ ToolExits \subseteq {"TOOL_END"}
<1>1. \A y \in Table : y[1] \in ToolStates \/ y[3] \in ToolStates =>
        y[2] \in {"TOOL_START", "INVOKE_PREFIX", "INVOKE_NAME_END", "INVOKE_END", "TOOL_END"}
  BY DEF Table, ToolStates
<1>2. \A y \in Table : y[1] \in ToolStates /\ y[3] \notin ToolStates => y[2] = "TOOL_END"
  BY DEF Table, ToolStates
<1>3. "TOOL_START" \in ToolTerminals
  <2>1. PICK y : y = <<"CONTENT", "TOOL_START", "TOOL_PREAMBLE", <<>>>> OBVIOUS
  <2>2. y \in Table BY <2>1 DEF Table
  <2>3. y[2] = "TOOL_START" /\ y[3] \in ToolStates BY <2>1 DEF ToolStates
  <2> QED BY <2>2, <2>3 DEF ToolTerminals
<1> QED BY <1>1, <1>2, <1>3 DEF ToolTerminals, ToolExits

LEMMA EngineEqual ==
    ASSUME NEW a \in Engines, NEW b \in Engines,
           a.st = b.st, a.hold = b.hold, a.raw = b.raw, a.name = b.name, a.events = b.events,
           a.prior = b.prior, a.closer = b.closer
    PROVE  a = b
BY DEF Engines

LEMMA OnlySecond ==
    ASSUME NEW T, NEW a \in T, NEW b \in T, NEW S, a \notin S, b \in S, NEW s, s = <<a, b>>
    PROVE  Only(s, S) = <<b>>
<1>1. PICK n \in Seq(T) : n = <<>> BY EmptySeq
<1>2. PICK p \in Seq(T) : p = Append(n, a) BY AppendProperties
<1>3. Only(p, S) = <<>>
  <2>1. Only(n, S) = <<>> BY <1>1, OnlyEmpty
  <2> QED BY <1>2, <2>1, OnlyAppend
<1>4. Only(Append(p, b), S) = Append(Only(p, S), b) BY OnlyAppend
<1>5. p = <<a>> BY <1>1, <1>2
<1>6. Append(p, b) = s
  <2>1. PICK q : q = <<b>> OBVIOUS
  <2>2. p \o q = s BY <1>5, <2>1, TwoConcat
  <2> QED BY <2>1, <2>2, AppendIsConcat
<1>7. Append(<<>>, b) = <<b>> OBVIOUS
<1> QED BY <1>3, <1>4, <1>6, <1>7

\* A candidate that begins in reasoning.
LEMMA BeginCandid ==
    ASSUME NEW e, Candid(e), ~ e.hold, e.st = "REASONING", NEW t, t = "INVOKE_PREFIX", NEW x \in Table,
           x[1] = e.st, x[2] = t
    PROVE  Candid(Begin(e, t, x).e) /\ Thinks(Begin(e, t, x).e)
<1>1. EngineOK(e) /\ e \in Engines /\ e.closer = FALSE BY EngineTypes DEF Candid
<1>2. t \in Terminals /\ t \in Lexes BY TerminalSilent DEF Terminals
<1>3. Provisional(e.st, t) BY DEF Provisional
<1>4. PICK h : h = Begin(e, t, x).e OBVIOUS
<1>5. EngineOK(h) /\ h \in Engines
  <2>1. EngineOK(h) BY <1>1, <1>2, <1>3, <1>4, BeginYields DEF Yields
  <2> QED BY <2>1, EngineTypes
<1>6. x[3] = "TOOL_NAME" /\ x[4] = <<"reasoning_end", "start">> BY ThinkRow
<1>7. PICK evs : evs = <<<<"reasoning_end", t>>, <<"start", t>>>> OBVIOUS
<1>8. Run(e, t, x).out = evs BY <1>6, <1>7 DEF Run, Result
<1>9. /\ h.st = "TOOL_NAME" /\ h.hold = TRUE /\ h.raw = <<t>> /\ h.name = <<>> /\ h.events = evs
      /\ h.prior = "REASONING" /\ h.closer = FALSE
  <2>1. PICK g \in Engines : g = [e EXCEPT !.st = "TOOL_NAME"]
    <3>1. "TOOL_NAME" \in States BY DEF States, ToolStates
    <3> QED BY <1>1, <3>1 DEF Engines
  <2>2. Run(e, t, x).e = g BY <1>6, <2>1 DEF Run, Result
  <2>3. h = [g EXCEPT !.hold = TRUE, !.raw = <<t>>, !.name = <<>>, !.events = evs, !.prior = e.st]
    BY <1>4, <1>8, <2>2 DEF Begin, Result
  <2>4. g.st = "TOOL_NAME" /\ g.closer = FALSE BY <1>1, <2>1 DEF Engines
  <2> QED BY <2>3, <2>4 DEF Engines
<1>10. PICK y : y = CHOOSE z \in Transitions["CONTENT"][t] : TRUE OBVIOUS
<1>11. y \in Table /\ y[1] = "CONTENT" /\ y[2] = t /\ y[3] = "TOOL_NAME" /\ y[4] = <<"start">>
  BY <1>10, AnswerRows
<1>12. PICK b : b = Begin(Begun, t, y).e OBVIOUS
<1>13. Plain(Begun, t) = Result(b, <<>>)
  <2>1. t \notin Texts BY <1>2, Symbols
  <2>2. Plain(Begun, t) = OnTerminal(Begun, t, FALSE) BY <2>1 DEF Plain, Take
  <2>3. OnTerminal(Begun, t, FALSE) = Unheld(Begun, t, FALSE) BY BegunOK DEF OnTerminal
  <2>4. Transitions["CONTENT"][t] # {} BY AnswerRows
  <2>5. Unheld(Begun, t, FALSE) = Meaningful(Begun, t, y, FALSE) BY <1>10, <2>4, BegunOK DEF Unheld
  <2>6. Provisional(Begun.st, t) BY BegunOK DEF Provisional
  <2>7. Meaningful(Begun, t, y, FALSE) = Begin(Begun, t, y) BY <2>6, BegunOK DEF Meaningful
  <2>8. Begin(Begun, t, y) = Result(b, <<>>) BY <1>12 DEF Begin, Result
  <2> QED BY <2>2, <2>3, <2>5, <2>7, <2>8
<1>14. b \in Engines
  <2>1. Provisional(Begun.st, t) BY BegunOK DEF Provisional
  <2>2. EngineOK(b) BY <1>2, <1>11, <1>12, <2>1, BegunOK, BeginYields DEF Yields
  <2> QED BY <2>2, EngineTypes
<1>15. /\ b.st = "TOOL_NAME" /\ b.hold = TRUE /\ b.raw = <<t>> /\ b.name = <<>> /\ b.events = <<<<"start", t>>>>
       /\ b.prior = "CONTENT" /\ b.closer = FALSE
  <2>1. PICK g \in Engines : g = [Begun EXCEPT !.st = "TOOL_NAME"]
    <3>1. "TOOL_NAME" \in States BY DEF States, ToolStates
    <3> QED BY <3>1, BegunOK DEF Engines
  <2>2. Run(Begun, t, y).e = g BY <1>11, <2>1 DEF Run, Result
  <2>3. PICK o : o = <<<<"start", t>>>> OBVIOUS
  <2>4. Run(Begun, t, y).out = o BY <1>11, <2>3 DEF Run, Result
  <2>5. b = [g EXCEPT !.hold = TRUE, !.raw = <<t>>, !.name = <<>>, !.events = o, !.prior = Begun.st]
    BY <1>12, <2>2, <2>4 DEF Begin, Result
  <2>6. g.st = "TOOL_NAME" /\ g.closer = FALSE BY <2>1, BegunOK DEF Engines
  <2> QED BY <2>3, <2>5, <2>6, BegunOK DEF Engines
<1>16. Twin(h) = b
  <2>1. PICK u : u = Twin(h) OBVIOUS
  <2>2. /\ u \in Engines /\ u.st = h.st /\ u.hold = h.hold /\ u.raw = h.raw /\ u.name = h.name
        /\ u.closer = h.closer /\ u.prior = "CONTENT" /\ u.events = Only(h.events, Heads)
    BY <1>5, <2>1, TwinFields
  <2>3. Only(evs, Heads) = <<<<"start", t>>>>
    <3>1. PICK k, l : k = <<"reasoning_end", t>> /\ l = <<"start", t>> OBVIOUS
    <3>2. k \notin Heads /\ l \in Heads BY <1>2, <3>1, HeadOf
    <3>3. evs = <<k, l>> BY <1>7, <3>1
    <3>4. k \in Events /\ l \in Events BY <1>2, <3>1, Symbols DEF Events, Kinds
    <3>5. Only(evs, Heads) = <<l>> BY <3>2, <3>3, <3>4, OnlySecond
    <3> QED BY <3>1, <3>5
  <2>4. u.events = b.events BY <1>9, <1>15, <2>2, <2>3
  <2> QED BY <1>9, <1>14, <1>15, <2>1, <2>2, <2>4, EngineEqual
<1>17. Replays(h)
  <2>1. PICK p, q : p = Reads(<<>>) /\ q = Plain(Begun, t) OBVIOUS
  <2>2. p.e = Begun /\ p.out = <<>> BY <2>1, ReadsEmpty DEF Result
  <2>3. q.e = b /\ q.out = <<>> BY <1>13, <2>1 DEF Result
  <2>4. PICK n \in Seq(Lexes) : n = <<>> BY EmptySeq
  <2>5. Reads(Append(n, t)) = Result(q.e, p.out \o q.out)
    <3>1. p = Reads(n) /\ q = Plain(p.e, t) BY <2>1, <2>2, <2>4
    <3> QED BY <1>2, <3>1, ReadsAppend
  <2>6. Append(n, t) = <<t>> /\ n \o n = n BY <2>4, ConcatEmptySeq
  <2>7. Reads(<<t>>) = Result(b, <<>>) BY <2>2, <2>3, <2>4, <2>5, <2>6
  <2> QED BY <1>9, <1>16, <2>7 DEF Replays
<1> QED BY <1>4, <1>5, <1>9, <1>17 DEF Candid, Thinks

LEMMA AnswersOnly ==
    \A a \in Seq(Answers) :
        /\ OfKind("content", a) = a /\ OfKind("reasoning", a) = <<>>
        /\ a \in Seq(Events) /\ Values(a) \in Seq(Lexes)
<1> SUFFICES ASSUME NEW a \in Seq(Answers)
             PROVE  /\ OfKind("content", a) = a /\ OfKind("reasoning", a) = <<>>
                    /\ a \in Seq(Events) /\ Values(a) \in Seq(Lexes)
  OBVIOUS
<1>1. Answers \subseteq {"content"} \X Carried /\ Answers \cap ({"reasoning"} \X Carried) = {}
  BY Symbols DEF Answers
<1>2. a \in Seq(Events) BY EventKinds, SeqMonotonic
<1>3. \A x \in Answers : x[2] \in Lexes BY DEF Answers
<1>4. Values(a) \in Seq(Lexes) BY <1>3, ValuesIs
<1> QED BY <1>1, <1>2, <1>4, OnlyAll, OnlyNone DEF OfKind

LEMMA OfKindConcat ==
    ASSUME NEW a \in Seq(Events), NEW b \in Seq(Events)
    PROVE  \A k : OfKind(k, a \o b) = OfKind(k, a) \o OfKind(k, b)
<1> SUFFICES ASSUME NEW k PROVE OfKind(k, a \o b) = OfKind(k, a) \o OfKind(k, b) OBVIOUS
<1>1. PICK C : C = {k} \X Carried OBVIOUS
<1>2. Only(a \o b, C) = Only(a, C) \o Only(b, C) BY OnlyConcat
<1> QED BY <1>1, <1>2 DEF OfKind

LEMMA EndOnly ==
    ASSUME NEW t \in Lexes, NEW s, s = <<<<"reasoning_end", t>>>>
    PROVE  /\ s \in Seq(Events) /\ OfKind("content", s) = <<>> /\ OfKind("reasoning", s) = <<>>
           /\ Only(s, Heads) = <<>>
<1>1. PICK T : T = {"reasoning_end"} \X Carried OBVIOUS
<1>2. s \in Seq(T)
  <2>1. <<"reasoning_end", t>> \in T BY <1>1, Symbols
  <2> QED BY <2>1
<1>3. T \subseteq Events /\ T \cap Heads = {} /\ T \cap ({"content"} \X Carried) = {}
      /\ T \cap ({"reasoning"} \X Carried) = {}
  BY <1>1 DEF Events, Heads, Kinds
<1>4. s \in Seq(Events) BY <1>2, <1>3, SeqMonotonic
<1> QED BY <1>2, <1>3, <1>4, OnlyNone DEF OfKind

LEMMA HandedFrom ==
    ASSUME NEW t \in Lexes, NEW s, s = <<<<"reasoning_end", t>>>>, NEW a \in Seq(Answers),
           NEW r, r.out = s \o a, r.e.raw = <<>>, NEW p, p = Reads(Values(a)),
           NEW w, Like(p.e, w.e), Same(p.out, w.out)
    PROVE  Handed(r, w)
<1>1. /\ s \in Seq(Events) /\ OfKind("content", s) = <<>> /\ OfKind("reasoning", s) = <<>>
  BY EndOnly
<1>2. OfKind("content", a) = a /\ OfKind("reasoning", a) = <<>> /\ a \in Seq(Events) /\ Values(a) \in Seq(Lexes)
  BY AnswersOnly
<1>3. \A k : OfKind(k, s \o a) = OfKind(k, s) \o OfKind(k, a) BY <1>1, <1>2, OfKindConcat
<1>4. /\ OfKind("content", r.out) = OfKind("content", s) \o OfKind("content", a)
      /\ OfKind("reasoning", r.out) = OfKind("reasoning", s) \o OfKind("reasoning", a)
  BY <1>3
<1>5. <<>> \o a = a /\ <<>> \o <<>> = <<>>
  <2>1. <<>> \in Seq(Answers) BY EmptySeq
  <2> QED BY <2>1, ConcatEmptySeq
<1>6. Given(r.out) = Values(a) BY <1>1, <1>2, <1>4, <1>5 DEF Given
<1>7. Given(r.out) \o r.e.raw = Values(a) BY <1>2, <1>6, ConcatEmptySeq
<1>8. OfKind("reasoning", r.out) \o p.out = p.out
  <2>1. p.out \in Seq(Events) BY <1>2, ReadsYields
  <2>2. OfKind("reasoning", r.out) = <<>> BY <1>1, <1>2, <1>4, <1>5
  <2> QED BY <2>1, <2>2, ConcatEmptySeq
<1> QED BY <1>2, <1>7, <1>8 DEF Handed


LEMMA LikeFrom ==
    ASSUME NEW a \in Engines, NEW b \in Engines, ~ a.hold,
           a.st = b.st, a.hold = b.hold, a.raw = b.raw, a.name = b.name, a.events = b.events, a.closer = b.closer
    PROVE  Like(a, b)
<1>1. PICK c : c = [a EXCEPT !.prior = b.prior] OBVIOUS
<1>2. /\ c \in Engines /\ c.st = a.st /\ c.hold = a.hold /\ c.raw = a.raw /\ c.name = a.name
      /\ c.events = a.events /\ c.closer = a.closer /\ c.prior = b.prior
  BY <1>1 DEF Engines
<1>3. b = c BY <1>2, EngineEqual
<1> QED BY <1>1, <1>3 DEF Like

Unbound(e) == EngineOK(e) /\ e.hold = FALSE /\ e.closer = FALSE

Applied(r, e, t, x) ==
    /\ EngineOK(r.e) /\ r.e \in Engines
    /\ r.e.st = x[3] /\ r.e.hold = FALSE /\ r.e.raw = e.raw /\ r.e.name = e.name
    /\ r.e.events = e.events /\ r.e.closer = FALSE
    /\ r.out = [i \in DOMAIN x[4] |-> <<x[4][i], t>>]

LEMMA ApplyFields ==
    ASSUME NEW e, Unbound(e), NEW t \in Terminals, NEW x \in Table
    PROVE  Applied(Apply(e, t, x), e, t, x)
<1>1. EngineOK(e) /\ e \in Engines /\ e.hold = FALSE /\ e.closer = FALSE BY EngineTypes DEF Unbound
<1>2. PICK c : c = [e EXCEPT !.closer = @ /\ ~ (e.st = "CONTENT" /\ x[3] \in ToolStates)] OBVIOUS
<1>3. c = [e EXCEPT !.closer = FALSE] BY <1>1, <1>2 DEF Engines
<1>4. PICK r : r = Apply(e, t, x) OBVIOUS
<1>5. r.e = [c EXCEPT !.st = x[3]] /\ r.out = [i \in DOMAIN x[4] |-> <<x[4][i], t>>]
  BY <1>2, <1>4 DEF Apply, Run, Result
<1>6. EngineOK(r.e)
  <2>1. EngineOK(Apply(e, t, x).e) BY <1>1, ApplyYields DEF Yields
  <2> QED BY <1>4, <2>1
<1>7. r.e \in Engines BY <1>6, EngineTypes
<1>8. /\ r.e.st = x[3] /\ r.e.hold = FALSE /\ r.e.raw = e.raw /\ r.e.name = e.name
      /\ r.e.events = e.events /\ r.e.closer = FALSE
  BY <1>1, <1>3, <1>5, <1>7 DEF Engines
<1> QED BY <1>4, <1>5, <1>6, <1>7, <1>8 DEF Applied

RowOf(u, t) == CHOOSE z \in Transitions[u.st][t] : TRUE

Moves(u, t, y) == Plain(u, t) = Meaningful(u, t, y, FALSE) /\ y \in Table /\ y[1] = u.st /\ y[2] = t

LEMMA PlainTerminal ==
    ASSUME NEW u \in Engines, ~ u.closer, NEW t \in Terminals, Transitions[u.st][t] # {}
    PROVE  Moves(u, t, RowOf(u, t))
<1>0. PICK y : y = RowOf(u, t) OBVIOUS
<1>1. t \notin Texts BY Symbols
<1>2. Plain(u, t) = OnTerminal(u, t, FALSE) BY <1>1 DEF Plain, Take
<1>3. OnTerminal(u, t, FALSE) = Unheld(u, t, FALSE) BY DEF OnTerminal
<1>4. Unheld(u, t, FALSE) = Meaningful(u, t, y, FALSE) BY <1>0 DEF Unheld, RowOf
<1>5. y \in Transitions[u.st][t] /\ u.st \in States BY <1>0 DEF Engines, RowOf
<1>6. y \in Table /\ y[1] = u.st /\ y[2] = t BY <1>5, RowFor
<1> QED BY <1>0, <1>2, <1>3, <1>4, <1>6 DEF Moves

\* A call recovered while reasoning goes on.
LEMMA CommitAgree ==
    ASSUME NEW e, Candid(e), e.hold, Thinks(e), e.st = "TOOL_ARGS", NEW t, t = "INVOKE_END",
           NEW x \in Table, x[1] = e.st, x[2] = t,
           NEW r, r = Commit(e, t, x, TRUE), NEW w, w = Commit(e, t, x, FALSE)
    PROVE  Agree(r, w)
<1>1. EngineOK(e) /\ e \in Engines /\ e.closer = FALSE /\ Replays(e) BY EngineTypes DEF Candid
<1>2. t \in Terminals /\ t \in Lexes BY TerminalSilent DEF Terminals
<1>3. e.raw \in Seq(Lexes) /\ e.events \in Seq(Events) BY <1>1, EngineTypes
<1>4. PICK c : c = <<<<"end", t>>>> OBVIOUS
<1>5. c \in Seq(Events)
  <2>1. <<"end", t>> \in Events BY <1>2, Symbols DEF Events, Kinds
  <2> QED BY <1>4, <2>1
<1>6. \A y \in Table : \A f : y[1] = "TOOL_ARGS" => Run(f, t, y).out = c
  <2> SUFFICES ASSUME NEW y \in Table, NEW f, y[1] = "TOOL_ARGS" PROVE Run(f, t, y).out = c OBVIOUS
  <2>1. y[4] = <<"end">> BY NamedRow
  <2> QED BY <1>4, <2>1 DEF Run, Result
<1>7. PICK s, a : s = <<<<"reasoning_end", t>>>> /\ a = As("content", Append(e.raw, t)) OBVIOUS
<1>8. r.out = s \o a /\ r.e = Committed(e)
  <2>1. e.prior = "REASONING" BY DEF Thinks
  <2> QED BY <1>7, <2>1 DEF Commit, Result
<1>9. w.out = e.events \o c /\ w.e = Committed(e)
  <2>1. Run(e, t, x).out = c BY <1>6
  <2> QED BY <2>1 DEF Commit, Result
<1>10. EngineOK(Committed(e)) /\ Committed(e) \in Engines /\ Committed(e).raw = <<>>
  <2>1. "CONTENT" \in States /\ TRUE \in BOOLEAN BY DEF States
  <2>2. PICK yes \in BOOLEAN : yes = TRUE OBVIOUS
  <2>3. EngineOK([Fresh("CONTENT") EXCEPT !.closer = yes]) /\ [Fresh("CONTENT") EXCEPT !.closer = yes].raw = <<>>
    BY <2>1, FreshOK
  <2>4. Committed(e) = [Fresh("CONTENT") EXCEPT !.closer = yes] BY <2>2 DEF Committed
  <2> QED BY <2>3, <2>4, EngineTypes
<1>11. a \in Seq(Answers) /\ Values(a) = Append(e.raw, t)
  <2>1. Append(e.raw, t) \in Seq(Lexes) BY <1>2, <1>3, AppendProperties
  <2> QED BY <1>7, <2>1, AsIs DEF Kinds, Answers
<1>12. PICK u : u = Twin(e) OBVIOUS
<1>13. u \in Engines /\ u.st = "TOOL_ARGS" /\ u.hold /\ u.closer = FALSE /\ u.events = Only(e.events, Heads)
  BY <1>1, <1>12, TwinFields
<1>14. Plain(u, t) = Result(Committed(e), u.events \o c)
  <2>1. Transitions[u.st][t] # {}
    <3>1. u.st \in States BY <1>13 DEF Engines
    <3>2. x \in Transitions[u.st][t] BY <1>2, <1>13, <3>1 DEF Transitions
    <3> QED BY <3>2
  <2>2. PICK y : y = RowOf(u, t) OBVIOUS
  <2>3. Plain(u, t) = Meaningful(u, t, y, FALSE) /\ y \in Table /\ y[1] = "TOOL_ARGS"
    <3>1. Moves(u, t, RowOf(u, t)) BY <1>2, <1>13, <2>1, PlainTerminal
    <3> QED BY <1>13, <2>2, <3>1 DEF Moves
  <2>4. Meaningful(u, t, y, FALSE) = Advance(u, t, y, FALSE) BY <1>13 DEF Meaningful
  <2>5. Advance(u, t, y, FALSE) = Commit(u, t, y, FALSE) BY <1>13 DEF Advance, Commits
  <2>6. Commit(u, t, y, FALSE) = Result(Committed(u), u.events \o c)
    <3>1. Run(u, t, y).out = c BY <1>6, <2>3
    <3> QED BY <3>1 DEF Commit
  <2>7. Committed(u) = Committed(e) BY DEF Committed
  <2> QED BY <2>3, <2>4, <2>5, <2>6, <2>7
<1>15. PICK p, q : p = Reads(e.raw) /\ q = Plain(u, t) OBVIOUS
<1>16. p.e = u /\ p.out = <<>> BY <1>1, <1>12, <1>15 DEF Replays, Result
<1>17. Reads(Append(e.raw, t)) = Result(q.e, p.out \o q.out)
  <2>1. q = Plain(p.e, t) BY <1>15, <1>16
  <2>2. PICK ls \in Seq(Lexes) : ls = e.raw BY <1>3
  <2>3. Reads(Append(ls, t)) = Result(q.e, p.out \o q.out) BY <1>2, <1>15, <2>1, <2>2, ReadsAppend
  <2> QED BY <2>2, <2>3
<1>18. u.events \in Seq(Events) BY <1>13 DEF Engines
<1>19. PICK z : z = Reads(Values(a)) OBVIOUS
<1>20. z.e = Committed(e) /\ z.out = u.events \o c
  <2>1. q.e = Committed(e) /\ q.out = u.events \o c BY <1>14, <1>15 DEF Result
  <2>2. q.out \in Seq(Events) BY <1>5, <1>18, <2>1, ConcatProperties
  <2>3. <<>> \o q.out = q.out BY <2>2, ConcatEmptySeq
  <2>4. z = Result(q.e, q.out) BY <1>11, <1>16, <1>17, <1>19, <2>3
  <2> QED BY <2>1, <2>4 DEF Result
<1>21. Same(z.out, w.out)
  <2>1. Heads \subseteq Heads OBVIOUS
  <2>2. Only(Only(e.events, Heads), Heads) = Only(e.events, Heads) BY <1>3, <2>1, OnlyOnly
  <2>3. Same(u.events, e.events) BY <1>13, <2>2 DEF Same
  <2>4. Same(c, c) BY DEF Same
  <2>5. Same(u.events \o c, e.events \o c) BY <1>3, <1>5, <1>18, <2>3, <2>4, SameConcat
  <2> QED BY <1>9, <1>20, <2>5
<1>22. Like(z.e, w.e) BY <1>9, <1>10, <1>20, LikeSelf
<1>23. Handed(r, w)
  <2>1. r.e.raw = <<>> BY <1>8, <1>10
  <2> QED BY <1>2, <1>7, <1>8, <1>11, <1>19, <1>21, <1>22, <2>1, HandedFrom
<1>24. ~ Thinks(r.e)
  <2>1. r.e.st = "CONTENT" /\ r.e.hold = FALSE BY <1>8 DEF Committed, Fresh
  <2> QED BY <2>1 DEF Thinks
<1> QED BY <1>23, <1>24 DEF Agree

\* A wrapper that is opened while reasoning goes on.
LEMMA OpenerAgree ==
    ASSUME NEW e, Candid(e), ~ e.hold, Thinks(e), NEW t, t = "TOOL_START", NEW x \in Table, x[1] = e.st, x[2] = t,
           NEW r, r = Skipped(e, t, x), NEW w, w = Apply(e, t, x)
    PROVE  Agree(r, w)
<1>1. EngineOK(e) /\ e \in Engines /\ e.closer = FALSE /\ e.raw = <<>> /\ e.name = <<>> /\ e.events = <<>>
  BY EngineTypes DEF Candid, EngineOK
<1>2. t \in Terminals /\ t \in Lexes BY TerminalSilent DEF Terminals
<1>3. x[3] = "TOOL_PREAMBLE" /\ x[4] = <<"reasoning_end">>
  <2>1. e.st \in {"REASONING", "FOREIGN_REASONING_BLOCK"} BY DEF Thinks
  <2> QED BY <2>1, ThinkRow
<1>4. PICK s, a : s = <<<<"reasoning_end", t>>>> /\ a = <<<<"content", t>>>> OBVIOUS
<1>5. r.out = s \o a /\ r.e = [e EXCEPT !.st = "CONTENT"]
  <2>1. "reasoning_end" \in {x[4][i] : i \in DOMAIN x[4]}
    <3>1. PICK v : v = x[4] OBVIOUS
    <3>2. 1 \in DOMAIN v /\ v[1] = "reasoning_end" BY <1>3, <3>1
    <3> QED BY <3>1, <3>2
  <2>2. PICK o : o = <<<<"reasoning_end", t>>, <<"content", t>>>> OBVIOUS
  <2>3. r.out = o /\ r.e = [e EXCEPT !.st = "CONTENT"] BY <2>1, <2>2 DEF Skipped, Result
  <2>4. s \o a = o
    <3>1. PICK b, c : b = <<"reasoning_end", t>> /\ c = <<"content", t>> OBVIOUS
    <3>2. s = <<b>> /\ a = <<c>> /\ o = <<b, c>> BY <1>4, <2>2, <3>1
    <3> QED BY <3>2, TwoConcat
  <2> QED BY <2>3, <2>4
<1>6. a \in Seq(Answers) /\ Values(a) = <<t>>
  <2>1. a = As("content", <<t>>) BY <1>4 DEF As
  <2>2. <<t>> \in Seq(Lexes) BY <1>2
  <2> QED BY <2>1, <2>2, AsIs DEF Kinds, Answers
<1>7. r.e.raw = <<>> /\ r.e.st = "CONTENT" /\ ~ r.e.hold BY <1>1, <1>5 DEF Engines
<1>0. Applied(w, e, t, x)
  <2>1. Unbound(e) BY <1>1 DEF Unbound, Engines
  <2> QED BY <1>2, <2>1, ApplyFields
<1>8. w.out = s
  <2>1. w.out = [i \in DOMAIN x[4] |-> <<x[4][i], t>>] BY <1>0 DEF Applied
  <2> QED BY <1>3, <1>4, <2>1
<1>9. /\ w.e \in Engines /\ w.e.st = "TOOL_PREAMBLE" /\ w.e.hold = FALSE /\ w.e.raw = <<>> /\ w.e.name = <<>>
      /\ w.e.events = <<>> /\ w.e.closer = FALSE
  BY <1>0, <1>1, <1>3 DEF Applied
<1>10. PICK y : y = RowOf(Begun, t) OBVIOUS
<1>11. y \in Table /\ y[1] = "CONTENT" /\ y[2] = t /\ y[3] = "TOOL_PREAMBLE" /\ y[4] = <<>>
  <2>1. Begun.st = "CONTENT" BY BegunOK
  <2>2. y \in Transitions["CONTENT"]["TOOL_START"] BY <1>10, <2>1, AnswerRows DEF RowOf
  <2> QED BY <2>2, AnswerRows
<1>12. PICK q : q = Plain(Begun, t) OBVIOUS
<1>13. /\ q.e \in Engines /\ q.e.st = "TOOL_PREAMBLE" /\ q.e.hold = FALSE /\ q.e.raw = <<>> /\ q.e.name = <<>>
       /\ q.e.events = <<>> /\ q.e.closer = FALSE /\ q.out = <<>>
  <2>0. Begun \in Engines /\ Begun.st = "CONTENT" /\ Begun.hold = FALSE /\ Begun.closer = FALSE
        /\ Begun.raw = <<>> /\ EngineOK(Begun)
    BY BegunOK
  <2>1. Transitions[Begun.st][t] # {} BY <2>0, AnswerRows
  <2>2. Plain(Begun, t) = Meaningful(Begun, t, y, FALSE)
    <3>1. Moves(Begun, t, RowOf(Begun, t)) BY <1>2, <2>0, <2>1, PlainTerminal
    <3> QED BY <1>10, <3>1 DEF Moves
  <2>3. ~ Provisional(Begun.st, t) BY DEF Provisional
  <2>4. Meaningful(Begun, t, y, FALSE) = Apply(Begun, t, y) BY <2>0, <2>3 DEF Meaningful
  <2>5. q = Apply(Begun, t, y) BY <1>12, <2>2, <2>4
  <2>6. Begun.name = <<>> /\ Begun.events = <<>> BY DEF Begun, Fresh
  <2>7. Applied(q, Begun, t, y)
    <3>1. Unbound(Begun) BY <2>0 DEF Unbound
    <3> QED BY <1>2, <1>11, <2>5, <3>1, ApplyFields
  <2>8. q.out = <<>>
    <3>1. q.out = [i \in DOMAIN y[4] |-> <<y[4][i], t>>] BY <2>7 DEF Applied
    <3> QED BY <1>11, <3>1
  <2> QED BY <1>11, <2>0, <2>6, <2>7, <2>8 DEF Applied
<1>14. PICK z : z = Reads(Values(a)) OBVIOUS
<1>15. z.e = q.e /\ z.out = <<>>
  <2>1. PICK p : p = Reads(<<>>) OBVIOUS
  <2>2. p.e = Begun /\ p.out = <<>> BY <2>1, ReadsEmpty DEF Result
  <2>3. PICK n \in Seq(Lexes) : n = <<>> BY EmptySeq
  <2>4. Reads(Append(n, t)) = Result(q.e, p.out \o q.out)
    <3>1. p = Reads(n) /\ q = Plain(p.e, t) BY <1>12, <2>1, <2>2, <2>3
    <3> QED BY <1>2, <3>1, ReadsAppend
  <2>5. Append(n, t) = <<t>> /\ n \o n = n BY <2>3, ConcatEmptySeq
  <2>6. z = Result(q.e, <<>>) BY <1>6, <1>13, <1>14, <2>2, <2>3, <2>4, <2>5
  <2> QED BY <2>6 DEF Result
<1>16. Like(z.e, w.e) BY <1>9, <1>13, <1>15, LikeFrom
<1>17. Same(z.out, w.out)
  <2>1. Only(s, Heads) = <<>> BY <1>2, <1>4, EndOnly
  <2> QED BY <1>8, <1>15, <2>1, OnlyEmpty DEF Same
<1>18. Handed(r, w) BY <1>2, <1>4, <1>5, <1>6, <1>7, <1>14, <1>16, <1>17, HandedFrom
<1>19. ~ Thinks(r.e) BY <1>7 DEF Thinks
<1> QED BY <1>18, <1>19 DEF Agree

LEMMA ApplyAgree ==
    ASSUME NEW e, Candid(e), ~ e.hold, Thinks(e), NEW t \in Terminals, t \notin ToolTerminals, ~ Provisional(e.st, t),
           NEW x \in Table, x[1] = e.st, x[2] = t,
           NEW r, r = Apply(e, t, x)
    PROVE  Agree(r, r)
<1>1. EngineOK(e) /\ e \in Engines /\ e.closer = FALSE /\ e.raw = <<>> /\ e.name = <<>> /\ e.events = <<>>
  BY EngineTypes DEF Candid, EngineOK
<1>2. t \in Lexes BY TerminalSilent
<1>3. /\ EngineOK(r.e) /\ r.e \in Engines
      /\ r.e.st = x[3] /\ r.e.hold = FALSE /\ r.e.raw = <<>> /\ r.e.name = <<>>
      /\ r.e.events = <<>> /\ r.e.closer = FALSE
      /\ r.out = [i \in DOMAIN x[4] |-> <<x[4][i], t>>]
  <2>1. Unbound(e) BY <1>1 DEF Unbound, Engines
  <2>2. Applied(r, e, t, x) BY <2>1, ApplyFields
  <2> QED BY <1>1, <2>2 DEF Applied
<1>4. e.st \in {"REASONING", "FOREIGN_REASONING_BLOCK"} BY DEF Thinks
<1>5. t # "TOOL_START" BY ToolTerminalsAre
<1>6. t # "INVOKE_PREFIX" \/ e.st # "REASONING" BY DEF Provisional
<1>7. CASE x[3] = "CONTENT" /\ x[4] = <<"reasoning_end">>
  <2>1. PICK s : s = <<<<"reasoning_end", t>>>> OBVIOUS
  <2>0. PICK a \in Seq(Answers) : a = <<>> BY EmptySeq
  <2>2. r.out = s BY <1>3, <1>7, <2>1
  <2>3. s \in Seq(Events) /\ Only(s, Heads) = <<>> BY <1>2, <2>1, EndOnly
  <2>4. r.out = s \o a BY <2>0, <2>1, <2>2, <2>3, ConcatEmptySeq
  <2>5. Values(a) = <<>> BY <2>0 DEF Values
  <2>6. PICK z : z = Reads(Values(a)) OBVIOUS
  <2>7. z.e = Begun /\ z.out = <<>> BY <2>5, <2>6, ReadsEmpty DEF Result
  <2>8. Like(z.e, r.e)
    <3>1. Begun.name = <<>> /\ Begun.events = <<>> BY DEF Begun, Fresh
    <3>2. Like(Begun, r.e) BY <1>3, <1>7, <3>1, BegunOK, LikeFrom
    <3> QED BY <2>7, <3>2
  <2>9. Same(z.out, r.out) BY <2>2, <2>3, <2>7, OnlyEmpty DEF Same
  <2>10. Handed(r, r) BY <1>2, <1>3, <2>0, <2>1, <2>4, <2>6, <2>8, <2>9, HandedFrom
  <2>11. ~ Thinks(r.e) BY <1>3, <1>7 DEF Thinks
  <2> QED BY <2>10, <2>11 DEF Agree
<1>8. CASE x[3] \in {"REASONING", "FOREIGN_REASONING_BLOCK"}
  <2>1. Candid(r.e) BY <1>3 DEF Candid
  <2>2. Thinks(r.e) BY <1>3, <1>8 DEF Thinks
  <2> QED BY <2>1, <2>2 DEF Agree
<1> QED BY <1>4, <1>5, <1>6, <1>7, <1>8, ThinkRow


\* The name of a candidate ends.
LEMMA NamedAgree ==
    ASSUME NEW e, Candid(e), e.hold, Thinks(e), e.st = "TOOL_NAME", Known(e), NEW t \in Terminals,
           Transitions[e.st][t] # {}, NEW x, x = RowOf(e, t), NEW h, h = Advance(e, t, x, TRUE).e
    PROVE  Candid(h) /\ Thinks(h) /\ h.closer = FALSE
<1>1. EngineOK(e) /\ e \in Engines /\ e.closer = FALSE /\ Replays(e) BY EngineTypes DEF Candid
<1>2. e.raw \in Seq(Lexes) /\ e.events \in Seq(Events) /\ e.st \in States /\ t \in Lexes
  BY <1>1, EngineTypes, TerminalSilent
<1>3. x \in Table /\ x[1] = e.st /\ x[2] = t
  <2>1. x \in Transitions[e.st][t] BY DEF RowOf
  <2> QED BY <1>2, <2>1, RowFor
<1>4. x[3] = "TOOL_ARGS" /\ x[4] = <<>> BY <1>3, NamedRow
<1>5. PICK r : r = Append(e.raw, t) OBVIOUS
<1>6. r \in Seq(Lexes) BY <1>2, <1>5, AppendProperties
<1>7. \A f \in Engines : Run(f, t, x).e = [f EXCEPT !.st = "TOOL_ARGS"] /\ f.events \o Run(f, t, x).out = f.events
  <2> SUFFICES ASSUME NEW f \in Engines
               PROVE  Run(f, t, x).e = [f EXCEPT !.st = "TOOL_ARGS"] /\ f.events \o Run(f, t, x).out = f.events
    OBVIOUS
  <2>1. Run(f, t, x).e = [f EXCEPT !.st = "TOOL_ARGS"] BY <1>4 DEF Run, Result
  <2>2. Run(f, t, x).out = <<>> BY <1>4 DEF Run, Result
  <2>3. f.events \in Seq(Events) BY DEF Engines
  <2> QED BY <2>1, <2>2, <2>3, ConcatEmptySeq
<1>8. \A f \in Engines : f.st = "TOOL_NAME" /\ Known(f) /\ f.raw = e.raw =>
        Advance(f, t, x, TRUE) = Result([f EXCEPT !.st = "TOOL_ARGS", !.raw = r], <<>>)
  <2> SUFFICES ASSUME NEW f \in Engines, f.st = "TOOL_NAME", Known(f), f.raw = e.raw
               PROVE  Advance(f, t, x, TRUE) = Result([f EXCEPT !.st = "TOOL_ARGS", !.raw = r], <<>>)
    OBVIOUS
  <2>1. PICK g : g = [f EXCEPT !.st = "TOOL_ARGS"] OBVIOUS
  <2>2. g = Run(f, t, x).e /\ g.events = f.events /\ g.raw = e.raw BY <1>7, <2>1 DEF Engines
  <2>3. PICK v : v = Run(f, t, x).out OBVIOUS
  <2>4. f.events \o v = f.events BY <1>7, <2>3
  <2>5. Advance(f, t, x, TRUE) = Result([g EXCEPT !.raw = Append(@, t), !.events = @ \o v], <<>>)
    BY <2>2, <2>3 DEF Advance
  <2>6. [g EXCEPT !.raw = Append(@, t), !.events = @ \o v] = [f EXCEPT !.st = "TOOL_ARGS", !.raw = r]
    BY <1>5, <2>1, <2>2, <2>4 DEF Engines
  <2> QED BY <2>5, <2>6
<1>9. h = [e EXCEPT !.st = "TOOL_ARGS", !.raw = r]
  <2>1. PICK k : k = [e EXCEPT !.st = "TOOL_ARGS", !.raw = r] OBVIOUS
  <2>2. Advance(e, t, x, TRUE) = Result(k, <<>>) BY <1>1, <1>8, <2>1
  <2>3. Result(k, <<>>).e = k BY DEF Result
  <2> QED BY <2>1, <2>2, <2>3
<1>10. /\ h \in Engines /\ h.st = "TOOL_ARGS" /\ h.hold = e.hold /\ h.raw = r /\ h.name = e.name
       /\ h.events = e.events /\ h.prior = e.prior /\ h.closer = FALSE
  <2>1. "TOOL_ARGS" \in States BY DEF States, ToolStates
  <2> QED BY <1>1, <1>6, <1>9, <2>1 DEF Engines
<1>11. EngineOK(h)
  <2>1. TRUE \in BOOLEAN OBVIOUS
  <2>2. PICK yes \in BOOLEAN : yes = TRUE OBVIOUS
  <2>3. EngineOK(Advance(e, t, x, yes).e) BY <1>1, <1>3, AdvanceYields DEF Yields
  <2> QED BY <2>2, <2>3
<1>12. PICK u : u = Twin(e) OBVIOUS
<1>13. /\ u \in Engines /\ u.st = e.st /\ u.hold = e.hold /\ u.raw = e.raw /\ u.name = e.name
       /\ u.closer = e.closer /\ u.prior = "CONTENT" /\ u.events = Only(e.events, Heads)
  BY <1>1, <1>12, TwinFields
<1>14. PICK w : w = [u EXCEPT !.st = "TOOL_ARGS", !.raw = r] OBVIOUS
<1>15. Plain(u, t) = Result(w, <<>>)
  <2>1. Transitions[u.st][t] # {} /\ RowOf(u, t) = x BY <1>13 DEF RowOf
  <2>2. Moves(u, t, RowOf(u, t)) BY <1>1, <1>13, <2>1, PlainTerminal
  <2>3. Plain(u, t) = Meaningful(u, t, x, FALSE) BY <2>1, <2>2 DEF Moves
  <2>4. Meaningful(u, t, x, FALSE) = Advance(u, t, x, FALSE) BY <1>13 DEF Meaningful
  <2>5. Known(u) BY <1>13 DEF Known
  <2>6. Advance(u, t, x, FALSE) = Advance(u, t, x, TRUE) BY <1>13, <2>5 DEF Advance
  <2>7. Advance(u, t, x, TRUE) = Result(w, <<>>) BY <1>8, <1>13, <1>14, <2>5
  <2> QED BY <2>3, <2>4, <2>6, <2>7
<1>16. w = Twin(h)
  <2>1. PICK c : c = Twin(h) OBVIOUS
  <2>2. /\ c \in Engines /\ c.st = h.st /\ c.hold = h.hold /\ c.raw = h.raw /\ c.name = h.name
        /\ c.closer = h.closer /\ c.prior = "CONTENT" /\ c.events = Only(h.events, Heads)
    <3>1. h \in Engines BY <1>10
    <3> QED BY <2>1, <3>1, TwinFields
  <2>3. w \in Engines
    <3>1. "TOOL_ARGS" \in States BY DEF States, ToolStates
    <3> QED BY <1>6, <1>13, <1>14, <3>1 DEF Engines
  <2>4. /\ w.st = "TOOL_ARGS" /\ w.hold = u.hold /\ w.raw = r /\ w.name = u.name /\ w.closer = u.closer
        /\ w.prior = u.prior /\ w.events = u.events
    BY <1>13, <1>14 DEF Engines
  <2>5. /\ w.st = c.st /\ w.hold = c.hold /\ w.raw = c.raw /\ w.name = c.name /\ w.closer = c.closer
        /\ w.prior = c.prior /\ w.events = c.events
    <3>1. w.st = c.st BY <1>10, <2>2, <2>4
    <3>2. w.hold = c.hold BY <1>10, <1>13, <2>2, <2>4
    <3>3. w.raw = c.raw BY <1>10, <2>2, <2>4
    <3>4. w.name = c.name BY <1>10, <1>13, <2>2, <2>4
    <3>5. w.closer = c.closer BY <1>1, <1>10, <1>13, <2>2, <2>4
    <3>6. w.prior = c.prior BY <1>13, <2>2, <2>4
    <3>7. w.events = c.events BY <1>10, <1>13, <2>2, <2>4
    <3> QED BY <3>1, <3>2, <3>3, <3>4, <3>5, <3>6, <3>7
  <2>6. c \in Engines BY <2>2
  <2>7. w = c BY <2>3, <2>5, <2>6, EngineEqual
  <2> QED BY <2>1, <2>7
<1>17. Replays(h)
  <2>1. PICK q : q = Plain(Twin(e), t) OBVIOUS
  <2>2. q = Result(Twin(h), <<>>) BY <1>12, <1>15, <1>16, <2>1
  <2>3. h.raw = Append(e.raw, t) BY <1>5, <1>10
  <2> QED BY <1>1, <1>2, <2>1, <2>2, <2>3, HeldOn
<1>18. Thinks(h) BY <1>10 DEF Thinks
<1> QED BY <1>10, <1>11, <1>17, <1>18 DEF Candid

LEMMA SelfAgree == ASSUME NEW r, Candid(r.e), Thinks(r.e) PROVE Agree(r, r)
BY DEF Agree

\* A terminal that does not end a candidate first.
LEMMA UnheldAgree ==
    ASSUME NEW e, Candid(e), SkipOK(e), Thinks(e), NEW t \in Terminals,
           ~ (e.hold /\ e.st = "TOOL_NAME" /\ Transitions[e.st][t] = {})
    PROVE  Agree(Unheld(e, t, TRUE), Unheld(e, t, FALSE))
<1>1. EngineOK(e) /\ e \in Engines /\ e.closer = FALSE /\ e.st \in States /\ t \in Lexes
  BY EngineTypes, TerminalSilent DEF Candid
<1>2. CASE Transitions[e.st][t] = {}
  <2>1. Unheld(e, t, TRUE) = Text(e, t) /\ Unheld(e, t, FALSE) = Text(e, t) BY <1>1, <1>2 DEF Unheld
  <2>2. Candid(Text(e, t).e) /\ Thinks(Text(e, t).e) BY <1>1, <1>2, CandidText
  <2> QED BY <2>1, <2>2, SelfAgree
<1>3. CASE Transitions[e.st][t] # {}
  <2>1. PICK x : x = RowOf(e, t) OBVIOUS
  <2>2. x \in Table /\ x[1] = e.st /\ x[2] = t
    <3>1. x \in Transitions[e.st][t] BY <1>3, <2>1 DEF RowOf
    <3> QED BY <1>1, <3>1, RowFor
  <2>3. /\ Unheld(e, t, TRUE) = Meaningful(e, t, x, TRUE)
        /\ Unheld(e, t, FALSE) = Meaningful(e, t, x, FALSE)
    BY <1>1, <1>3, <2>1 DEF Unheld, RowOf
  <2>4. CASE e.hold
    <3>1. /\ Unheld(e, t, TRUE) = Advance(e, t, x, TRUE)
          /\ Unheld(e, t, FALSE) = Advance(e, t, x, FALSE)
      BY <2>3, <2>4 DEF Meaningful
    <3>2. CASE e.st = "TOOL_NAME" /\ Known(e)
      <4>1. Advance(e, t, x, FALSE) = Advance(e, t, x, TRUE) BY <3>2 DEF Advance
      <4>2. PICK r : r = Advance(e, t, x, TRUE) OBVIOUS
      <4>3. Candid(r.e) /\ Thinks(r.e) BY <1>3, <2>1, <2>4, <3>2, <4>2, NamedAgree
      <4> QED BY <3>1, <4>1, <4>2, <4>3, SelfAgree
    <3>3. CASE ~ (e.st = "TOOL_NAME" /\ Known(e)) /\ e.st = "TOOL_ARGS" /\ Commits(t)
      <4>1. /\ Advance(e, t, x, TRUE) = Commit(e, t, x, TRUE)
            /\ Advance(e, t, x, FALSE) = Commit(e, t, x, FALSE)
        BY <3>3 DEF Advance
      <4>2. PICK r, w : r = Commit(e, t, x, TRUE) /\ w = Commit(e, t, x, FALSE) OBVIOUS
      <4>3. t = "INVOKE_END" BY <3>3 DEF Commits
      <4>4. Agree(r, w) BY <2>2, <2>4, <3>3, <4>2, <4>3, CommitAgree
      <4> QED BY <3>1, <4>1, <4>2, <4>4
    <3>4. CASE ~ (e.st = "TOOL_NAME" /\ Known(e)) /\ ~ (e.st = "TOOL_ARGS" /\ Commits(t))
      <4>1. PICK ls \in Seq(Lexes) : ls = Append(e.raw, t) BY <1>1, EngineTypes, AppendProperties
      <4>2. PICK a : a = [e EXCEPT !.raw = ls] OBVIOUS
      <4>3. Advance(e, t, x, TRUE) = Abort(a) /\ Advance(e, t, x, FALSE) = Abort(a)
        BY <1>1, <3>4, <4>1, <4>2 DEF Advance, Engines
      <4>4. Candid(Abort(a).e) /\ Thinks(Abort(a).e) BY <2>4, <4>2, CandidAbort
      <4> QED BY <3>1, <4>3, <4>4, SelfAgree
    <3> QED BY <3>2, <3>3, <3>4
  <2>5. CASE ~ e.hold /\ Provisional(e.st, t)
    <3>1. Unheld(e, t, TRUE) = Begin(e, t, x) /\ Unheld(e, t, FALSE) = Begin(e, t, x)
      BY <2>3, <2>5 DEF Meaningful
    <3>2. e.st = "REASONING" /\ t = "INVOKE_PREFIX" BY <2>5 DEF Provisional, Thinks
    <3>3. Candid(Begin(e, t, x).e) /\ Thinks(Begin(e, t, x).e) BY <2>2, <2>5, <3>2, BeginCandid
    <3> QED BY <3>1, <3>3, SelfAgree
  <2>6. CASE ~ e.hold /\ ~ Provisional(e.st, t) /\ t \in ToolTerminals
    <3>1. PICK r, w : r = Skipped(e, t, x) /\ w = Apply(e, t, x) OBVIOUS
    <3>2. Unheld(e, t, TRUE) = r /\ Unheld(e, t, FALSE) = w BY <2>3, <2>6, <3>1 DEF Meaningful
    <3>3. t = "TOOL_START"
      <4>1. e.st \in {"REASONING", "FOREIGN_REASONING_BLOCK"} BY <2>6 DEF Thinks
      <4>2. ~ (e.st = "REASONING" /\ t = "INVOKE_PREFIX") BY <2>6 DEF Provisional
      <4>3. t \notin {"THINK_END", "FOREIGN_START", "FOREIGN_END"} BY <2>6, ToolTerminalsAre
      <4> QED BY <2>2, <4>1, <4>2, <4>3, ThinkRow
    <3>4. Agree(r, w) BY <2>2, <2>6, <3>1, <3>3, OpenerAgree
    <3> QED BY <3>2, <3>4
  <2>7. CASE ~ e.hold /\ ~ Provisional(e.st, t) /\ t \notin ToolTerminals
    <3>1. PICK r : r = Apply(e, t, x) OBVIOUS
    <3>2. Unheld(e, t, TRUE) = r /\ Unheld(e, t, FALSE) = r BY <2>3, <2>7, <3>1 DEF Meaningful
    <3>3. Agree(r, r) BY <2>2, <2>7, <3>1, ApplyAgree
    <3> QED BY <3>2, <3>3
  <2> QED BY <2>4, <2>5, <2>6, <2>7
<1> QED BY <1>2, <1>3

\* Thoughts told before change nothing.
LEMMA AgreeAfter ==
    ASSUME NEW o \in Seq(Thoughts), NEW q, q.out \in Seq(Events), q.e.raw \in Seq(Lexes),
           NEW v, v.out \in Seq(Events), Agree(q, v),
           NEW r, r = Result(q.e, o \o q.out), NEW w, w = Result(v.e, o \o v.out)
    PROVE  Agree(r, w)
<1>1. r.e = q.e /\ r.out = o \o q.out /\ w.e = v.e /\ w.out = o \o v.out BY DEF Result
<1>2. CASE Thinks(q.e) BY <1>1, <1>2 DEF Agree
<1>3. CASE ~ Thinks(q.e)
  <2>1. Handed(q, v) BY <1>3 DEF Agree
  <2>2. o \in Seq(Events) BY EventKinds, SeqMonotonic
  <2>3. OfKind("content", o) = <<>> /\ OfKind("reasoning", o) = o BY ThoughtsOnly
  <2>4. \A k : OfKind(k, o \o q.out) = OfKind(k, o) \o OfKind(k, q.out) BY <2>2, OfKindConcat
  <2>5. PICK c, d : c = OfKind("content", q.out) /\ d = OfKind("reasoning", q.out) OBVIOUS
  <2>6. c \in Seq(Events) /\ d \in Seq(Events) BY <2>5, OnlyType DEF OfKind
  <2>7. OfKind("content", r.out) = c
    <3>1. OfKind("content", o \o q.out) = <<>> \o c BY <2>3, <2>4, <2>5
    <3> QED BY <1>1, <2>6, <3>1, ConcatEmptySeq
  <2>8. OfKind("reasoning", r.out) = o \o d BY <1>1, <2>3, <2>4, <2>5
  <2>9. PICK g : g = Given(q.out) \o q.e.raw OBVIOUS
  <2>10. Given(r.out) \o r.e.raw = g BY <1>1, <2>5, <2>7, <2>9 DEF Given
  <2>11. g \in Seq(Lexes) /\ Like(Reads(g).e, v.e) /\ Same(d \o Reads(g).out, v.out)
    BY <2>1, <2>5, <2>9 DEF Handed
  <2>12. PICK z : z = Reads(g).out OBVIOUS
  <2>13. z \in Seq(Events) BY <2>11, <2>12, ReadsYields
  <2>14. Same((o \o d) \o z, o \o v.out)
    <3>1. Same(o, o) BY DEF Same
    <3>2. d \o z \in Seq(Events) BY <2>6, <2>13, ConcatProperties
    <3>3. Same(o \o (d \o z), o \o v.out) BY <2>2, <2>11, <2>12, <3>1, <3>2, SameConcat
    <3>4. o \o (d \o z) = (o \o d) \o z
      <4>1. Cat(o, Cat(d, z)) = Cat(Cat(o, d), z) BY <2>2, <2>6, <2>13, CatAssociative
      <4> QED BY <4>1 DEF Cat
    <3> QED BY <3>3, <3>4
  <2>15. Handed(r, w)
    <3>1. Like(Reads(g).e, w.e) BY <1>1, <2>11
    <3>2. Same(OfKind("reasoning", r.out) \o Reads(g).out, w.out) BY <1>1, <2>8, <2>12, <2>14
    <3> QED BY <2>10, <2>11, <3>1, <3>2 DEF Handed
  <2> QED BY <1>1, <1>3, <2>15 DEF Agree
<1> QED BY <1>2, <1>3

\* A lexeme read while reasoning goes on, by the reasoning pass and by the single machine.
LEMMA TakeAgree ==
    ASSUME NEW e, Candid(e), SkipOK(e), Thinks(e), NEW l \in Lexes,
           NEW r, r = Take(e, l, TRUE), NEW w, w = Take(e, l, FALSE)
    PROVE  Agree(r, w)
<1>1. EngineOK(e) /\ e \in Engines BY EngineTypes DEF Candid
<1>2. CASE l \in Texts
  <2>1. r = Text(e, l) /\ w = Text(e, l) BY <1>2 DEF Take
  <2>2. Candid(Text(e, l).e) /\ Thinks(Text(e, l).e)
    BY <1>2, CandidText
  <2> QED BY <2>1, <2>2, SelfAgree
<1>3. CASE l \notin Texts
  <2>1. l \in Terminals BY <1>3 DEF Lexes
  <2>2. r = OnTerminal(e, l, TRUE) /\ w = OnTerminal(e, l, FALSE) BY <1>3 DEF Take
  <2>3. CASE ~ (e.hold /\ e.st = "TOOL_NAME" /\ Transitions[e.st][l] = {})
    <3>1. r = Unheld(e, l, TRUE) /\ w = Unheld(e, l, FALSE) BY <2>2, <2>3 DEF OnTerminal
    <3>2. Agree(Unheld(e, l, TRUE), Unheld(e, l, FALSE)) BY <2>1, <2>3, UnheldAgree
    <3> QED BY <3>1, <3>2
  <2>4. CASE e.hold /\ e.st = "TOOL_NAME" /\ Transitions[e.st][l] = {}
    <3>1. PICK a : a = Abort(e) OBVIOUS
    <3>2. PICK q, v : q = Unheld(a.e, l, TRUE) /\ v = Unheld(a.e, l, FALSE) OBVIOUS
    <3>3. r = Result(q.e, a.out \o q.out) /\ w = Result(v.e, a.out \o v.out)
      BY <2>2, <2>4, <3>1, <3>2 DEF OnTerminal
    <3>4. Candid(a.e) /\ Thinks(a.e) /\ ~ a.e.hold /\ SkipOK(a.e) /\ a.out \in Seq(Thoughts)
      <4>1. PICK ls \in Seq(Lexes) : ls = e.raw BY <1>1, EngineTypes
      <4>2. PICK b : b = [e EXCEPT !.raw = ls] OBVIOUS
      <4>3. b = e BY <1>1, <4>1, <4>2 DEF Engines
      <4>4. /\ Candid(Abort(b).e) /\ Thinks(Abort(b).e) /\ ~ Abort(b).e.hold /\ SkipOK(Abort(b).e)
            /\ Abort(b).out \in Seq(Thoughts)
        BY <2>4, <4>2, CandidAbort
      <4> QED BY <3>1, <4>3, <4>4
    <3>5. Agree(q, v)
      <4>1. Agree(Unheld(a.e, l, TRUE), Unheld(a.e, l, FALSE)) BY <2>1, <3>4, UnheldAgree
      <4> QED BY <3>2, <4>1
    <3>6. q.out \in Seq(Events) /\ v.out \in Seq(Events) /\ q.e.raw \in Seq(Lexes)
      <4>1. PICK yes \in BOOLEAN, no \in BOOLEAN : yes = TRUE /\ no = FALSE OBVIOUS
      <4>2. EngineOK(a.e) BY <3>4 DEF Candid
      <4>3. Yields(a.e, <<l>>, Unheld(a.e, l, yes)) /\ Yields(a.e, <<l>>, Unheld(a.e, l, no))
        BY <2>1, <4>2, UnheldYields
      <4>4. Yields(a.e, <<l>>, q) /\ Yields(a.e, <<l>>, v) BY <3>2, <4>1, <4>3
      <4> QED BY <4>4, EngineTypes DEF Yields
    <3> QED BY <3>3, <3>4, <3>5, <3>6, AgreeAfter
  <2> QED BY <2>3, <2>4
<1> QED BY <1>2, <1>3


-----------------------------------------------------------------------------
(* After the end of reasoning: what the first pass leaves to the second *)

\* What was held and l are told, or held, as they are.
Passes(e, l, q) == Values(q.out) \o q.e.raw = Append(e.raw, l)

LEMMA ToldPasses ==
    ASSUME NEW e, e.raw = <<>>, NEW l \in Lexes, NEW k, NEW q, q.out = <<<<k, l>>>>, q.e.raw = <<>>
    PROVE  Passes(e, l, q)
<1>1. Values(q.out) = <<l>>
  <2>1. PICK b : b = <<k, l>> OBVIOUS
  <2>2. q.out = <<b>> /\ b[2] = l BY <2>1
  <2>3. Values(<<b>>) = [i \in DOMAIN <<b>> |-> <<b>>[i][2]] BY DEF Values
  <2>4. Values(<<b>>) = <<b[2]>> BY <2>3
  <2> QED BY <2>2, <2>4
<1>2. <<l>> \in Seq(Lexes) OBVIOUS
<1>3. <<l>> \o <<>> = <<l>> BY <1>2, ConcatEmptySeq
<1>4. Append(<<>>, l) = <<l>> OBVIOUS
<1> QED BY <1>1, <1>3, <1>4 DEF Passes

LEMMA HeldPasses ==
    ASSUME NEW e, e.raw \in Seq(Lexes), NEW l \in Lexes, NEW q, q.out = <<>>, q.e.raw = Append(e.raw, l)
    PROVE  Passes(e, l, q)
<1>1. Values(q.out) = <<>> BY DEF Values
<1>2. PICK ls \in Seq(Lexes) : ls = Append(e.raw, l) BY AppendProperties
<1>3. <<>> \o ls = ls BY ConcatEmptySeq
<1> QED BY <1>1, <1>2, <1>3 DEF Passes

LEMMA BackPasses ==
    ASSUME NEW e, e.raw \in Seq(Lexes), NEW l \in Lexes, NEW q, Values(q.out) = Append(e.raw, l), q.e.raw = <<>>
    PROVE  Passes(e, l, q)
<1>1. PICK ls \in Seq(Lexes) : ls = Append(e.raw, l) BY AppendProperties
<1>2. ls \o <<>> = ls BY ConcatEmptySeq
<1> QED BY <1>1, <1>2 DEF Passes

Longer(e, l) == [e EXCEPT !.raw = Append(@, l)]

GivenBackAs(e, l, q) ==
    /\ Passes(e, l, q)
    /\ q.e.st = e.prior /\ q.e.hold = FALSE /\ q.e.closer = e.closer

\* The candidate with one more lexeme, all of which is given back.
LEMMA AbortPasses ==
    ASSUME NEW e, EngineOK(e), NEW l \in Lexes, NEW q, q = Abort(Longer(e, l))
    PROVE  GivenBackAs(e, l, q)
<1>1. e \in Engines /\ e.raw \in Seq(Lexes) BY EngineTypes
<1>2. PICK a : a = Longer(e, l) OBVIOUS
<1>3. a \in Engines /\ a.raw = Append(e.raw, l) /\ a.prior = e.prior /\ a.closer = e.closer
  <2>1. Append(e.raw, l) \in Seq(Lexes) BY <1>1, AppendProperties
  <2> QED BY <1>1, <1>2, <2>1 DEF Longer, Engines
<1>4. q = Abort(a) BY <1>2
<1>5. /\ Values(q.out) = a.raw /\ q.e.st = a.prior /\ q.e.hold = FALSE /\ q.e.raw = <<>> /\ q.e.closer = a.closer
  <2>1. a \in Engines BY <1>3
  <2> QED BY <1>4, <2>1, AbortIs
<1>6. Passes(e, l, q) BY <1>1, <1>3, <1>5, BackPasses
<1> QED BY <1>3, <1>5, <1>6 DEF GivenBackAs

Enders == {"THINK_END", "TOOL_START", "INVOKE_END"}

\* The lexemes that end reasoning, and that make the engine expect a closer.
Marked(e, l, q) ==
    /\ Thinks(e) /\ ~ Thinks(q.e) => l \in Enders
    /\ q.e.closer => e.closer \/ l = "INVOKE_END"

LEMMA SameMarked ==
    ASSUME NEW e, NEW l, NEW q, q.e.hold = e.hold, q.e.st = e.st \/ e.hold, q.e.prior = e.prior \/ ~ e.hold,
           q.e.closer => e.closer
    PROVE  Marked(e, l, q)
BY DEF Marked, Thinks

LEMMA BackMarked ==
    ASSUME NEW e, e.hold, NEW l, NEW q, q.e.hold = FALSE, q.e.st = e.prior, q.e.closer = e.closer
    PROVE  Marked(e, l, q) /\ (~ Thinks(e) /\ EngineOK(e) => ~ Thinks(q.e))
BY DEF Marked, Thinks, EngineOK

LEMMA TextPasses ==
    ASSUME NEW e, EngineOK(e), NEW l \in Lexes, NEW q, q = Text(e, l)
    PROVE  Passes(e, l, q) /\ Marked(e, l, q)
<1>1. e \in Engines /\ e.raw \in Seq(Lexes) BY EngineTypes
<1>2. CASE ~ e.hold
  <2>1. q.e = e /\ q.out = <<<<Kind(e.st), l>>>> BY <1>2 DEF Text, Result
  <2>2. e.raw = <<>> BY <1>2 DEF EngineOK
  <2>3. PICK k : k = Kind(e.st) OBVIOUS
  <2>4. Passes(e, l, q)
    <3>1. q.out = <<<<k, l>>>> /\ q.e.raw = <<>> BY <2>1, <2>2, <2>3
    <3> QED BY <2>2, <3>1, ToldPasses
  <2>5. Marked(e, l, q) BY <2>1, SameMarked
  <2> QED BY <2>4, <2>5
<1>3. CASE e.hold /\ e.st = "TOOL_NAME" /\ l \in LongTexts
  <2>1. q = Abort(Longer(e, l)) BY <1>3 DEF Text, Longer
  <2>2. Passes(e, l, q) /\ q.e.st = e.prior /\ q.e.hold = FALSE /\ q.e.closer = e.closer
    BY <2>1, AbortPasses DEF GivenBackAs
  <2>3. Marked(e, l, q) BY <1>3, <2>2, BackMarked
  <2> QED BY <2>2, <2>3
<1>4. CASE e.hold /\ ~ (e.st = "TOOL_NAME" /\ l \in LongTexts)
  <2>1. PICK h : h = [e EXCEPT !.raw = Append(@, l),
                               !.name = IF e.st = "TOOL_NAME" THEN Append(@, l) ELSE @,
                               !.events = Append(@, <<Kind(e.st), l>>)]
    OBVIOUS
  <2>2. q.e = h /\ q.out = <<>> BY <1>4, <2>1 DEF Text, Result
  <2>3. h.raw = Append(e.raw, l) /\ h.hold = e.hold /\ h.st = e.st /\ h.prior = e.prior /\ h.closer = e.closer
    BY <1>1, <2>1 DEF Engines
  <2>4. Passes(e, l, q) BY <1>1, <2>2, <2>3, HeldPasses
  <2>5. Marked(e, l, q) BY <2>2, <2>3, SameMarked
  <2> QED BY <2>4, <2>5
<1> QED BY <1>2, <1>3, <1>4

LEMMA BeginPasses ==
    ASSUME NEW e, EngineOK(e), ~ e.hold, NEW t \in Terminals, NEW x \in Table, x[1] = e.st, x[2] = t,
           Provisional(e.st, t), NEW q, q = Begin(e, t, x)
    PROVE  Passes(e, t, q) /\ Marked(e, t, q)
<1>1. e \in Engines /\ e.raw = <<>> /\ e.raw \in Seq(Lexes) /\ t \in Lexes
  BY EngineTypes, TerminalSilent DEF EngineOK
<1>2. PICK g : g = Run(e, t, x).e OBVIOUS
<1>3. g \in Engines /\ g.closer = e.closer
  <2>1. Run(e, t, x).e \in Engines BY RunIs
  <2>2. g = [e EXCEPT !.st = x[3]] BY <1>2 DEF Run, Result
  <2> QED BY <1>1, <1>2, <2>1, <2>2 DEF Engines
<1>4. PICK h, o : /\ o = Run(e, t, x).out
                  /\ h = [g EXCEPT !.hold = TRUE, !.raw = <<t>>, !.name = <<>>, !.events = o, !.prior = e.st]
  OBVIOUS
<1>5. q = Result(h, <<>>) BY <1>2, <1>4 DEF Begin
<1>6. q.e = h /\ q.out = <<>> BY <1>5 DEF Result
<1>7. h.hold = TRUE /\ h.raw = <<t>> /\ h.prior = e.st /\ h.closer = g.closer BY <1>3, <1>4 DEF Engines
<1>8. Passes(e, t, q)
  <2>1. <<t>> = Append(e.raw, t) BY <1>1
  <2> QED BY <1>1, <1>6, <1>7, <2>1, HeldPasses
<1>9. Marked(e, t, q)
  <2>1. e.st \in {"CONTENT", "REASONING"} BY DEF Provisional
  <2>2. Thinks(e) <=> Thinks(h) BY <1>7, <2>1 DEF Thinks
  <2> QED BY <1>3, <1>6, <1>7, <2>2 DEF Marked
<1> QED BY <1>8, <1>9

LEMMA SkippedPasses ==
    ASSUME NEW e, EngineOK(e), SkipOK(e), ~ e.hold, NEW t \in Terminals, NEW x \in Table, x[1] = e.st, x[2] = t,
           ~ Provisional(e.st, t), NEW q, q = Skipped(e, t, x)
    PROVE  (~ Thinks(e) => Passes(e, t, q)) /\ Marked(e, t, q)
<1>1. e \in Engines /\ e.raw = <<>> /\ t \in Lexes BY EngineTypes, TerminalSilent DEF EngineOK
<1>2. CASE ~ ("reasoning_end" \in {x[4][i] : i \in DOMAIN x[4]})
  <2>1. PICK k : k = Kind(e.st) OBVIOUS
  <2>2. q.e = e /\ q.out = <<<<k, t>>>> BY <1>2, <2>1 DEF Skipped, Result
  <2>3. Passes(e, t, q) BY <1>1, <2>2, ToldPasses
  <2>4. Marked(e, t, q) BY <2>2, SameMarked
  <2> QED BY <2>3, <2>4
<1>3. CASE "reasoning_end" \in {x[4][i] : i \in DOMAIN x[4]}
  <2>1. Thinks(e)
    <3>1. SUFFICES ASSUME e.st \in {"CONTENT", "FOREIGN_BLOCK"} PROVE FALSE BY DEF Thinks, SkipOK
    <3>2. x[4] \in {<<>>, <<"content">>, <<"start">>} BY <3>1, SkipRow DEF SkipStates
    <3>3. PICK w : w = x[4] OBVIOUS
    <3>4. \A i \in DOMAIN w : w[i] # "reasoning_end" BY <3>2, <3>3
    <3> QED BY <3>3, <3>4, <1>3
  <2>2. t \in Enders
    <3>1. e.st \in {"REASONING", "FOREIGN_REASONING_BLOCK"} BY <2>1 DEF Thinks
    <3>2. ~ (e.st = "REASONING" /\ t = "INVOKE_PREFIX") BY DEF Provisional
    <3>3. x[4] # <<"reasoning">>
      <4>1. PICK w : w = x[4] OBVIOUS
      <4>2. ASSUME w = <<"reasoning">> PROVE FALSE
        <5>1. \A i \in DOMAIN w : w[i] # "reasoning_end" BY <4>2
        <5> QED BY <1>3, <4>1, <5>1
      <4> QED BY <4>1, <4>2
    <3> QED BY <3>1, <3>2, <3>3, ThinkRow DEF Enders
  <2>3. q.e = [e EXCEPT !.st = "CONTENT"] BY <1>3 DEF Skipped, Result
  <2>4. q.e.closer = e.closer BY <1>1, <2>3 DEF Engines
  <2> QED BY <2>1, <2>2, <2>4 DEF Marked
<1> QED BY <1>2, <1>3

LEMMA ApplyPasses ==
    ASSUME NEW e, EngineOK(e), SkipOK(e), ~ e.hold, NEW t \in Terminals, t \notin ToolTerminals,
           NEW x \in Table, x[1] = e.st, x[2] = t, NEW q, q = Apply(e, t, x)
    PROVE  (~ Thinks(e) /\ t # "THINK_END" => Passes(e, t, q)) /\ Marked(e, t, q)
<1>1. e \in Engines /\ e.raw = <<>> /\ e.hold = FALSE /\ t \in Lexes
  BY EngineTypes, TerminalSilent DEF EngineOK
<1>2. PICK b \in BOOLEAN : b = (e.closer /\ ~ (e.st = "CONTENT" /\ x[3] \in ToolStates)) OBVIOUS
<1>3. PICK c : c = [e EXCEPT !.closer = b] OBVIOUS
<1>4. c \in Engines /\ c.raw = <<>> /\ c.hold = FALSE /\ c.closer = b BY <1>1, <1>3 DEF Engines
<1>5. Apply(e, t, x) = Run(c, t, x) BY <1>1, <1>2, <1>3 DEF Apply, Engines
<1>6. q.e = [c EXCEPT !.st = x[3]] /\ q.out = [i \in DOMAIN x[4] |-> <<x[4][i], t>>] BY <1>5 DEF Run, Result
<1>7. q.e.raw = <<>> /\ q.e.hold = FALSE /\ q.e.closer = b /\ q.e.st = x[3] BY <1>4, <1>6 DEF Engines
<1>8. e.st \in SkipStates BY DEF SkipOK, SkipStates
<1>9. ASSUME ~ Thinks(e), t # "THINK_END" PROVE Passes(e, t, q)
  <2>1. x[1] \in {"CONTENT", "FOREIGN_BLOCK"} BY <1>8, <1>9 DEF Thinks, SkipStates
  <2>2. x[4] = <<"content">>
    <3>1. \A y \in Table : y[1] \in {"CONTENT", "FOREIGN_BLOCK"} /\ y[4] = <<>> => y[2] \in {"THINK_END", "TOOL_START"}
      BY DEF Table
    <3>2. x[4] # <<>> BY <1>9, <2>1, <3>1, ToolTerminalsAre
    <3> QED BY <1>8, <2>1, <3>2, SkipRow
  <2>3. PICK k : k = "content" OBVIOUS
  <2>4. q.out = <<<<k, t>>>> BY <1>6, <2>2, <2>3
  <2> QED BY <1>1, <1>7, <2>4, ToldPasses
<1>10. Marked(e, t, q)
  <2>1. ASSUME Thinks(e), ~ Thinks(q.e) PROVE t \in Enders
    <3>1. e.st \in {"REASONING", "FOREIGN_REASONING_BLOCK"} BY <2>1, <1>1 DEF Thinks
    <3>2. x[3] \notin {"REASONING", "FOREIGN_REASONING_BLOCK"} BY <2>1, <1>7 DEF Thinks
    <3>3. t # "INVOKE_PREFIX"
      <4>1. "INVOKE_PREFIX" \in ToolTerminals
        <5>1. PICK y : y = <<"CONTENT", "INVOKE_PREFIX", "TOOL_NAME", <<"start">>>> OBVIOUS
        <5>2. y \in Table BY <5>1 DEF Table
        <5>3. y[2] = "INVOKE_PREFIX" /\ y[3] \in ToolStates BY <5>1 DEF ToolStates
        <5> QED BY <5>2, <5>3 DEF ToolTerminals
      <4> QED BY <4>1
    <3> QED BY <3>1, <3>2, <3>3, ThinkRow DEF Enders
  <2> QED BY <1>2, <1>7, <2>1 DEF Marked
<1> QED BY <1>9, <1>10

SkipAdvance(e, t, x) == Advance(e, t, x, TRUE)

LEMMA AdvancePasses ==
    ASSUME NEW e, EngineOK(e), e.hold, NEW t \in Terminals, NEW x \in Table, x[1] = e.st, x[2] = t,
           NEW q, q = SkipAdvance(e, t, x)
    PROVE  (~ Thinks(e) => Passes(e, t, q)) /\ Marked(e, t, q)
<1>1. e \in Engines /\ e.raw \in Seq(Lexes) /\ t \in Lexes BY EngineTypes, TerminalSilent
<1>2. CASE e.st = "TOOL_NAME" /\ Known(e)
  <2>1. PICK g, o : g = Run(e, t, x).e /\ o = Run(e, t, x).out OBVIOUS
  <2>2. g \in Engines /\ g.raw = e.raw /\ g.hold = e.hold /\ g.prior = e.prior /\ g.closer = e.closer
    <3>1. Run(e, t, x).e \in Engines BY RunIs
    <3>2. g = [e EXCEPT !.st = x[3]] BY <2>1 DEF Run, Result
    <3> QED BY <1>1, <2>1, <3>1, <3>2 DEF Engines
  <2>3. PICK h : h = [g EXCEPT !.raw = Append(@, t), !.events = @ \o o] OBVIOUS
  <2>4. q = Result(h, <<>>) BY <1>2, <2>1, <2>3 DEF SkipAdvance, Advance
  <2>5. q.e = h /\ q.out = <<>> BY <2>4 DEF Result
  <2>6. h.raw = Append(e.raw, t) /\ h.hold = e.hold /\ h.prior = e.prior /\ h.closer = e.closer
    BY <2>2, <2>3 DEF Engines
  <2>7. Passes(e, t, q) BY <1>1, <2>5, <2>6, HeldPasses
  <2>8. Marked(e, t, q) BY <2>5, <2>6, SameMarked
  <2> QED BY <2>7, <2>8
<1>3. CASE ~ (e.st = "TOOL_NAME" /\ Known(e)) /\ e.st = "TOOL_ARGS" /\ Commits(t)
  <2>1. q = Commit(e, t, x, TRUE) /\ t = "INVOKE_END" BY <1>3 DEF SkipAdvance, Advance, Commits
  <2>2. q.e = Committed(e) BY <2>1 DEF Commit, Result
  <2>3. q.e.raw = <<>> BY <2>2 DEF Committed, Fresh
  <2>4. ASSUME ~ Thinks(e) PROVE Passes(e, t, q)
    <3>1. e.prior # "REASONING" BY <2>4 DEF Thinks
    <3>2. PICK a : a = As("content", Append(e.raw, t)) OBVIOUS
    <3>3. a \in Seq(Events) /\ Values(a) = Append(e.raw, t)
      <4>1. Append(e.raw, t) \in Seq(Lexes) BY <1>1, AppendProperties
      <4> QED BY <3>2, <4>1, AsIs DEF Kinds
    <3>4. q.out = <<>> \o a BY <2>1, <3>1, <3>2 DEF Commit, Result
    <3>5. q.out = a BY <3>3, <3>4, ConcatEmptySeq
    <3> QED BY <1>1, <2>3, <3>3, <3>5, BackPasses
  <2>5. Marked(e, t, q) BY <2>1 DEF Marked, Enders
  <2> QED BY <2>4, <2>5
<1>4. CASE ~ (e.st = "TOOL_NAME" /\ Known(e)) /\ ~ (e.st = "TOOL_ARGS" /\ Commits(t))
  <2>1. q = Abort(Longer(e, t)) BY <1>4 DEF SkipAdvance, Advance, Longer
  <2>2. PICK l \in Lexes : l = t BY <1>1
  <2>3. Passes(e, l, q) /\ q.e.st = e.prior /\ q.e.hold = FALSE /\ q.e.closer = e.closer
    <3>1. q = Abort(Longer(e, l)) BY <2>1, <2>2
    <3>2. GivenBackAs(e, l, q) BY <3>1, AbortPasses
    <3> QED BY <3>2 DEF GivenBackAs
  <2>4. Marked(e, l, q) BY <2>3, BackMarked
  <2> QED BY <2>2, <2>3, <2>4
<1> QED BY <1>2, <1>3, <1>4


\* What the reasoning pass does with a lexeme once reasoning has ended.
Forwards(e, l, q) ==
    /\ ~ Thinks(e) /\ l # "THINK_END" /\ ~ (e.closer /\ l = "TOOL_END") => Passes(e, l, q)
    /\ Marked(e, l, q)

SkipUnheld(e, t) == Unheld(e, t, TRUE)
SkipTake(e, l) == Take(e, l, TRUE)
SkipFeed(e, ls) == Feed(e, ls, TRUE)
PlainFeed(e, ls) == Feed(e, ls, FALSE)

LEMMA UnheldForwards ==
    ASSUME NEW e, EngineOK(e), SkipOK(e), NEW t \in Terminals, NEW q, q = SkipUnheld(e, t)
    PROVE  Forwards(e, t, q)
<1>1. e \in Engines /\ e.st \in States /\ t \in Lexes BY EngineTypes, TerminalSilent
<1>2. CASE e.closer /\ e.st = "CONTENT" /\ t \in ToolExits
  <2>1. t = "TOOL_END" BY <1>2, ToolTerminalsAre
  <2>2. q = Result([e EXCEPT !.closer = FALSE], <<>>) BY <1>2 DEF SkipUnheld, Unheld
  <2>3. q.e.hold = e.hold /\ q.e.st = e.st /\ q.e.prior = e.prior /\ q.e.closer = FALSE
    BY <1>1, <2>2 DEF Result, Engines
  <2>4. Marked(e, t, q) BY <2>3, SameMarked
  <2> QED BY <1>2, <2>1, <2>4 DEF Forwards
<1>3. CASE ~ (e.closer /\ e.st = "CONTENT" /\ t \in ToolExits) /\ Transitions[e.st][t] = {}
  <2>1. q = Text(e, t) BY <1>3 DEF SkipUnheld, Unheld
  <2>2. PICK l \in Lexes : l = t BY <1>1
  <2>3. Passes(e, l, q) /\ Marked(e, l, q)
    <3>1. q = Text(e, l) BY <2>1, <2>2
    <3> QED BY <3>1, TextPasses
  <2> QED BY <2>2, <2>3 DEF Forwards
<1>4. CASE ~ (e.closer /\ e.st = "CONTENT" /\ t \in ToolExits) /\ Transitions[e.st][t] # {}
  <2>1. PICK x : x = RowOf(e, t) OBVIOUS
  <2>2. x \in Table /\ x[1] = e.st /\ x[2] = t
    <3>1. x \in Transitions[e.st][t] BY <1>4, <2>1 DEF RowOf
    <3> QED BY <1>1, <3>1, RowFor
  <2>3. q = Meaningful(e, t, x, TRUE) BY <1>4, <2>1 DEF SkipUnheld, Unheld, RowOf
  <2>4. CASE e.hold
    <3>1. q = SkipAdvance(e, t, x) BY <2>3, <2>4 DEF Meaningful, SkipAdvance
    <3>2. (~ Thinks(e) => Passes(e, t, q)) /\ Marked(e, t, q) BY <2>2, <2>4, <3>1, AdvancePasses
    <3> QED BY <3>2 DEF Forwards
  <2>5. CASE ~ e.hold /\ Provisional(e.st, t)
    <3>1. q = Begin(e, t, x) BY <2>3, <2>5 DEF Meaningful
    <3>2. Passes(e, t, q) /\ Marked(e, t, q) BY <2>2, <2>5, <3>1, BeginPasses
    <3> QED BY <3>2 DEF Forwards
  <2>6. CASE ~ e.hold /\ ~ Provisional(e.st, t) /\ t \in ToolTerminals
    <3>1. q = Skipped(e, t, x) BY <2>3, <2>6 DEF Meaningful
    <3>2. (~ Thinks(e) => Passes(e, t, q)) /\ Marked(e, t, q) BY <2>2, <2>6, <3>1, SkippedPasses
    <3> QED BY <3>2 DEF Forwards
  <2>7. CASE ~ e.hold /\ ~ Provisional(e.st, t) /\ t \notin ToolTerminals
    <3>1. q = Apply(e, t, x) BY <2>3, <2>7 DEF Meaningful
    <3>2. (~ Thinks(e) /\ t # "THINK_END" => Passes(e, t, q)) /\ Marked(e, t, q)
      BY <2>2, <2>7, <3>1, ApplyPasses
    <3> QED BY <3>2 DEF Forwards
  <2> QED BY <2>4, <2>5, <2>6, <2>7
<1> QED BY <1>2, <1>3, <1>4

\* A candidate given back before the lexeme is looked at.
LEMMA AbortForwards ==
    ASSUME NEW e, EngineOK(e), e.hold, NEW t \in Lexes, NEW a, a = Abort(e),
           NEW b, Forwards(a.e, t, b), b.out \in Seq(Events), b.e.raw \in Seq(Lexes),
           NEW q, q = Result(b.e, a.out \o b.out)
    PROVE  Forwards(e, t, q)
<1>1. e \in Engines /\ e.raw \in Seq(Lexes) /\ e.raw \in Seq(Carried) BY EngineTypes
<1>2. /\ Values(a.out) = e.raw /\ a.out \in Seq(Events) /\ a.e.raw = <<>>
      /\ a.e.hold = FALSE /\ a.e.st = e.prior /\ a.e.closer = e.closer
  BY <1>1, AbortIs
<1>3. q.e = b.e /\ q.out = a.out \o b.out BY DEF Result
<1>4. Thinks(a.e) <=> Thinks(e) BY <1>2 DEF Thinks, EngineOK
<1>5. Marked(e, t, q) BY <1>2, <1>3, <1>4 DEF Marked, Forwards
<1>6. ASSUME Passes(a.e, t, b) PROVE Passes(e, t, q)
  <2>1. PICK v : v = Values(b.out) OBVIOUS
  <2>2. v \in Seq(Carried) BY <2>1, EventValue, ValuesIs
  <2>3. Values(q.out) = e.raw \o v
    <3>1. PICK f \in Seq(Events), g \in Seq(Events) : f = a.out /\ g = b.out BY <1>2
    <3>2. Values(f \o g) = Values(f) \o Values(g) BY EventValue, ValuesConcat
    <3> QED BY <1>2, <1>3, <2>1, <3>1, <3>2
  <2>4. v \o b.e.raw = <<t>>
    <3>1. v \o b.e.raw = Append(<<>>, t) BY <1>2, <1>6, <2>1 DEF Passes
    <3> QED BY <3>1
  <2>5. b.e.raw \in Seq(Carried)
    <3>1. Lexes \subseteq Carried BY DEF Lexes, Carried
    <3> QED BY <3>1, SeqMonotonic
  <2>6. (e.raw \o v) \o b.e.raw = e.raw \o (v \o b.e.raw)
    <3>1. Cat(e.raw, Cat(v, b.e.raw)) = Cat(Cat(e.raw, v), b.e.raw) BY <1>1, <2>2, <2>5, CatAssociative
    <3> QED BY <3>1 DEF Cat
  <2>7. e.raw \o <<t>> = Append(e.raw, t) BY <1>1, AppendIsConcat
  <2> QED BY <1>3, <2>3, <2>4, <2>6, <2>7 DEF Passes
<1>7. ASSUME ~ Thinks(e), t # "THINK_END", ~ (e.closer /\ t = "TOOL_END") PROVE Passes(e, t, q)
  <2>1. Passes(a.e, t, b) BY <1>2, <1>4, <1>7 DEF Forwards
  <2> QED BY <1>6, <2>1
<1> QED BY <1>5, <1>7 DEF Forwards

LEMMA TakeForwards ==
    ASSUME NEW e, EngineOK(e), SkipOK(e), NEW l \in Lexes, NEW q, q = SkipTake(e, l)
    PROVE  Forwards(e, l, q)
<1>1. e \in Engines BY EngineTypes
<1>2. CASE l \in Texts
  <2>1. q = Text(e, l) BY <1>2 DEF SkipTake, Take
  <2>2. Passes(e, l, q) /\ Marked(e, l, q) BY <2>1, TextPasses
  <2> QED BY <2>2 DEF Forwards
<1>3. CASE l \notin Texts
  <2>1. l \in Terminals BY <1>3 DEF Lexes
  <2>2. q = OnTerminal(e, l, TRUE) BY <1>3 DEF SkipTake, Take
  <2>3. CASE ~ (e.hold /\ e.st = "TOOL_NAME" /\ Transitions[e.st][l] = {})
    <3>1. q = SkipUnheld(e, l) BY <2>2, <2>3 DEF OnTerminal, SkipUnheld
    <3> QED BY <2>1, <3>1, UnheldForwards
  <2>4. CASE e.hold /\ e.st = "TOOL_NAME" /\ Transitions[e.st][l] = {}
    <3>1. PICK a : a = Abort(e) OBVIOUS
    <3>2. PICK b : b = SkipUnheld(a.e, l) OBVIOUS
    <3>3. q = Result(b.e, a.out \o b.out) BY <2>2, <2>4, <3>1, <3>2 DEF OnTerminal, SkipUnheld
    <3>4. EngineOK(a.e) /\ a.e.hold = FALSE /\ a.e.st = e.prior BY <1>1, <3>1, AbortIs
    <3>5. SkipOK(a.e) BY <2>4, <3>4 DEF SkipOK, EngineOK
    <3>6. Forwards(a.e, l, b) BY <2>1, <3>2, <3>4, <3>5, UnheldForwards
    <3>7. b.out \in Seq(Events) /\ b.e.raw \in Seq(Lexes)
      <4>1. PICK yes \in BOOLEAN : yes = TRUE OBVIOUS
      <4>2. Yields(a.e, <<l>>, Unheld(a.e, l, yes)) BY <2>1, <3>4, UnheldYields
      <4>3. Yields(a.e, <<l>>, b) BY <3>2, <4>1, <4>2 DEF SkipUnheld
      <4> QED BY <4>3, EngineTypes DEF Yields
    <3> QED BY <2>4, <3>1, <3>3, <3>6, <3>7, AbortForwards
  <2> QED BY <2>3, <2>4
<1> QED BY <1>2, <1>3

\* A delta read while reasoning goes on is tidy when nothing that ends reasoning
\* comes before a THINK_END in it, and no call ends before the closer of a wrapper.
Tidy(d) ==
    \A i \in DOMAIN d : \A j \in DOMAIN d :
        i < j => /\ d[i] \in Enders => d[j] # "THINK_END"
                 /\ d[i] = "INVOKE_END" => d[j] # "TOOL_END"

\* Why reasoning is over, and a closer expected, after a delta that began in reasoning.
Reasons(ls, e) ==
    /\ ~ Thinks(e) => \E i \in DOMAIN ls : ls[i] \in Enders
    /\ e.closer => \E i \in DOMAIN ls : ls[i] = "INVOKE_END"

LEMMA ReasonsMore ==
    ASSUME NEW ls \in Seq(Lexes), NEW l \in Lexes, NEW e, NEW q, Reasons(ls, e), Marked(e, l, q)
    PROVE  Reasons(Append(ls, l), q.e)
<1>1. PICK m : m = Append(ls, l) OBVIOUS
<1>2. /\ DOMAIN ls = 1 .. Len(ls) /\ DOMAIN m = 1 .. Len(ls) + 1 /\ Len(ls) \in Nat
      /\ \A i \in 1 .. Len(ls) : m[i] = ls[i]
      /\ m[Len(ls) + 1] = l
  BY <1>1, LenProperties, AppendProperties
<1>3. \A i \in DOMAIN ls : i \in DOMAIN m /\ m[i] = ls[i] BY <1>2
<1>4. Len(ls) + 1 \in DOMAIN m /\ m[Len(ls) + 1] = l BY <1>2
<1>5. ASSUME ~ Thinks(q.e) PROVE \E i \in DOMAIN m : m[i] \in Enders
  <2>1. CASE Thinks(e) BY <1>4, <1>5, <2>1 DEF Marked
  <2>2. CASE ~ Thinks(e) BY <1>3, <2>2 DEF Reasons
  <2> QED BY <2>1, <2>2
<1>6. ASSUME q.e.closer PROVE \E i \in DOMAIN m : m[i] = "INVOKE_END"
  <2>1. CASE e.closer BY <1>3, <2>1 DEF Reasons
  <2>2. CASE ~ e.closer BY <1>4, <1>6, <2>2 DEF Marked
  <2> QED BY <2>1, <2>2
<1> QED BY <1>1, <1>5, <1>6 DEF Reasons

LEMMA TidyLast ==
    ASSUME NEW ls \in Seq(Lexes), NEW l \in Lexes, Tidy(Append(ls, l))
    PROVE  /\ Tidy(ls)
           /\ \A e : Reasons(ls, e) =>
                (~ Thinks(e) => l # "THINK_END") /\ ~ (e.closer /\ l = "TOOL_END")
<1>1. PICK m : m = Append(ls, l) OBVIOUS
<1>2. /\ DOMAIN ls = 1 .. Len(ls) /\ DOMAIN m = 1 .. Len(ls) + 1 /\ Len(ls) \in Nat
      /\ \A i \in 1 .. Len(ls) : m[i] = ls[i]
      /\ m[Len(ls) + 1] = l
  BY <1>1, LenProperties, AppendProperties
<1>3. \A i \in DOMAIN ls : i \in DOMAIN m /\ m[i] = ls[i] /\ i < Len(ls) + 1 BY <1>2
<1>4. Len(ls) + 1 \in DOMAIN m /\ m[Len(ls) + 1] = l BY <1>2
<1>5. \A i \in DOMAIN m : \A j \in DOMAIN m :
        i < j => /\ m[i] \in Enders => m[j] # "THINK_END"
                 /\ m[i] = "INVOKE_END" => m[j] # "TOOL_END"
  BY <1>1 DEF Tidy
<1>6. Tidy(ls) BY <1>3, <1>5 DEF Tidy
<1>7. \A i \in DOMAIN ls : /\ ls[i] \in Enders => l # "THINK_END"
                           /\ ls[i] = "INVOKE_END" => l # "TOOL_END"
  BY <1>3, <1>4, <1>5
<1> QED BY <1>6, <1>7 DEF Reasons


\* One more lexeme after the end of reasoning: the reasoning pass forwards it, and
\* what it forwarded is read as the single machine reads it.
LEMMA HandedMore ==
    ASSUME NEW p, NEW v, Handed(p, v), p.out \in Seq(Events), p.e.raw \in Seq(Lexes),
           EngineOK(v.e), v.out \in Seq(Events), NEW l \in Lexes,
           NEW q, Passes(p.e, l, q), q.out \in Seq(Answers), q.e.raw \in Seq(Lexes),
           NEW u, u = Plain(v.e, l),
           NEW r, r = Result(q.e, p.out \o q.out), NEW w, w = Result(u.e, v.out \o u.out)
    PROVE  Handed(r, w)
<1>1. r.e = q.e /\ r.out = p.out \o q.out /\ w.e = u.e /\ w.out = v.out \o u.out BY DEF Result
<1>2. PICK c, d : c = OfKind("content", p.out) /\ d = OfKind("reasoning", p.out) OBVIOUS
<1>3. c \in Seq(Events) /\ d \in Seq(Events) BY <1>2, OnlyType DEF OfKind
<1>4. PICK a : a = q.out OBVIOUS
<1>5. OfKind("content", a) = a /\ OfKind("reasoning", a) = <<>> /\ a \in Seq(Events) /\ Values(a) \in Seq(Lexes)
  BY <1>4, AnswersOnly
<1>6. OfKind("content", r.out) = c \o a /\ OfKind("reasoning", r.out) = d
  <2>1. \A k : OfKind(k, p.out \o a) = OfKind(k, p.out) \o OfKind(k, a) BY <1>5, OfKindConcat
  <2>2. OfKind("content", p.out \o a) = c \o a BY <1>2, <1>5, <2>1
  <2>3. OfKind("reasoning", p.out \o a) = d \o <<>> BY <1>2, <1>5, <2>1
  <2>4. d \o <<>> = d BY <1>3, ConcatEmptySeq
  <2> QED BY <1>1, <1>4, <2>2, <2>3, <2>4
<1>7. PICK g : g = Given(p.out) \o p.e.raw OBVIOUS
<1>8. g \in Seq(Lexes) /\ Like(Reads(g).e, v.e) /\ Same(d \o Reads(g).out, v.out)
  BY <1>2, <1>7 DEF Handed
<1>9. Given(r.out) \o r.e.raw = Append(g, l)
  <2>1. Values(c \o a) = Values(c) \o Values(a)
    <3>1. c \in Seq(Events) /\ a \in Seq(Events) BY <1>3, <1>5
    <3> QED BY <3>1, EventValue, ValuesConcat
  <2>2. PICK x, y, z : x = Values(c) /\ y = Values(a) /\ z = q.e.raw OBVIOUS
  <2>3. Lexes \subseteq Carried BY DEF Lexes, Carried
  <2>4. x \in Seq(Carried) /\ y \in Seq(Carried) /\ z \in Seq(Carried)
    <3>1. x \in Seq(Carried) BY <1>3, <2>2, EventValue, ValuesIs
    <3>2. y \in Seq(Carried) BY <1>5, <2>2, <2>3, SeqMonotonic
    <3>3. z \in Seq(Carried) BY <2>2, <2>3, SeqMonotonic
    <3> QED BY <3>1, <3>2, <3>3
  <2>5. (x \o y) \o z = x \o (y \o z)
    <3>1. Cat(x, Cat(y, z)) = Cat(Cat(x, y), z) BY <2>4, CatAssociative
    <3> QED BY <3>1 DEF Cat
  <2>6. PICK f \in Seq(Carried) : f = p.e.raw BY <2>3, SeqMonotonic
  <2>7. y \o z = Append(f, l) BY <1>4, <2>2, <2>6 DEF Passes
  <2>8. PICK o \in Seq(Carried) : o = <<l>>
    <3>1. l \in Carried BY <2>3
    <3>2. <<l>> \in Seq(Carried) BY <3>1
    <3> QED BY <3>2
  <2>9. Append(f, l) = f \o o BY <2>8, AppendIsConcat
  <2>10. x \o (f \o o) = (x \o f) \o o
    <3>1. Cat(x, Cat(f, o)) = Cat(Cat(x, f), o) BY <2>4, CatAssociative
    <3> QED BY <3>1 DEF Cat
  <2>11. x \o f = g BY <1>2, <1>7, <2>2, <2>6 DEF Given
  <2>12. g \o o = Append(g, l) BY <1>8, <2>8, AppendIsConcat
  <2>13. Given(r.out) = x \o y BY <1>6, <2>1, <2>2 DEF Given
  <2> QED BY <1>1, <2>2, <2>5, <2>7, <2>9, <2>10, <2>11, <2>12, <2>13
<1>10. PICK b, z : b = Reads(g).e /\ z = Reads(g).out OBVIOUS
<1>11. EngineOK(b) /\ z \in Seq(Events) BY <1>8, <1>10, ReadsYields
<1>12. PICK k : k = Plain(b, l) OBVIOUS
<1>13. Reads(Append(g, l)) = Result(k.e, z \o k.out)
  <2>1. PICK h : h = Reads(g) OBVIOUS
  <2>2. h.e = b /\ h.out = z BY <1>10, <2>1
  <2>3. k = Plain(h.e, l) BY <1>12, <2>2
  <2> QED BY <1>8, <2>1, <2>2, <2>3, ReadsAppend
<1>14. Like(k.e, u.e) /\ u.out = k.out
  <2>1. Like(b, v.e) BY <1>8, <1>10
  <2>2. PICK n : n = v.e OBVIOUS
  <2>3. LikeResults(Take(b, l, FALSE), Take(n, l, FALSE)) BY <1>11, <2>1, <2>2, TakeLike
  <2> QED BY <1>12, <2>2, <2>3 DEF LikeResults, Plain
<1>15. k.out \in Seq(Events)
  <2>1. PICK no \in BOOLEAN : no = FALSE OBVIOUS
  <2>2. Yields(b, <<l>>, Take(b, l, no)) BY <1>11, TakeYields
  <2> QED BY <1>12, <2>1, <2>2 DEF Yields, Plain
<1>16. Same(d \o (z \o k.out), w.out)
  <2>1. PICK o \in Seq(Events) : o = k.out BY <1>15
  <2>2. d \o z \in Seq(Events) BY <1>3, <1>11, ConcatProperties
  <2>3. Same(d \o z, v.out) BY <1>8, <1>10
  <2>4. Same(o, o) BY DEF Same
  <2>5. Same((d \o z) \o o, v.out \o o) BY <2>2, <2>3, <2>4, SameConcat
  <2>6. d \o (z \o o) = (d \o z) \o o
    <3>1. Cat(d, Cat(z, o)) = Cat(Cat(d, z), o) BY <1>3, <1>11, CatAssociative
    <3> QED BY <3>1 DEF Cat
  <2> QED BY <1>1, <1>14, <2>1, <2>5, <2>6
<1>17. Append(g, l) \in Seq(Lexes) BY <1>8, AppendProperties
<1>18. Reads(Append(g, l)).e = k.e /\ Reads(Append(g, l)).out = z \o k.out BY <1>13 DEF Result
<1>19. PICK m : m = Append(g, l) OBVIOUS
<1>20. /\ Given(r.out) \o r.e.raw = m /\ m \in Seq(Lexes) /\ Like(Reads(m).e, w.e)
       /\ Same(OfKind("reasoning", r.out) \o Reads(m).out, w.out)
  BY <1>1, <1>6, <1>9, <1>14, <1>16, <1>17, <1>18, <1>19
<1> QED BY <1>20 DEF Handed

Together(e, ls) ==
    /\ Reasons(ls, SkipFeed(e, ls).e)
    /\ Tidy(ls) => Agree(SkipFeed(e, ls), PlainFeed(e, ls))

\* A tidy delta that begins in reasoning.
LEMMA FeedTogether ==
    ASSUME NEW e, Candid(e), SkipOK(e), Thinks(e)
    PROVE  \A ls \in Seq(Lexes) : Together(e, ls)
<1>0. PICK yes \in BOOLEAN, no \in BOOLEAN : yes = TRUE /\ no = FALSE OBVIOUS
<1>1. EngineOK(e) /\ e.closer = FALSE BY DEF Candid
<1>2. Together(e, <<>>)
  <2>1. Feed(e, <<>>, yes) = Result(e, <<>>) /\ Feed(e, <<>>, no) = Result(e, <<>>) BY FeedEmpty
  <2>2. PICK p : p = Result(e, <<>>) OBVIOUS
  <2>3. SkipFeed(e, <<>>) = p /\ PlainFeed(e, <<>>) = p BY <1>0, <2>1, <2>2 DEF SkipFeed, PlainFeed
  <2>4. p.e = e BY <2>2 DEF Result
  <2>5. Agree(p, p) BY <2>4, SelfAgree
  <2>6. Reasons(<<>>, p.e) BY <1>1, <2>4 DEF Reasons
  <2> QED BY <2>3, <2>5, <2>6 DEF Together
<1>3. ASSUME NEW ls \in Seq(Lexes), NEW l \in Lexes, Together(e, ls) PROVE Together(e, Append(ls, l))
  <2>1. PICK p, v : p = SkipFeed(e, ls) /\ v = PlainFeed(e, ls) OBVIOUS
  <2>2. PICK q, u : q = SkipTake(p.e, l) /\ u = Plain(v.e, l) OBVIOUS
  <2>3. PICK r, w : r = Result(q.e, p.out \o q.out) /\ w = Result(u.e, v.out \o u.out) OBVIOUS
  <2>4. SkipFeed(e, Append(ls, l)) = r
    <3>1. p = Feed(e, ls, yes) BY <1>0, <2>1 DEF SkipFeed
    <3>2. Feed(e, Append(ls, l), yes) = Result(Take(p.e, l, yes).e, p.out \o Take(p.e, l, yes).out)
      BY <3>1, FeedAppend
    <3>3. Take(p.e, l, yes) = q BY <1>0, <2>2 DEF SkipTake
    <3> QED BY <1>0, <2>3, <3>2, <3>3 DEF SkipFeed
  <2>5. PlainFeed(e, Append(ls, l)) = w
    <3>1. v = Feed(e, ls, no) BY <1>0, <2>1 DEF PlainFeed
    <3>2. Feed(e, Append(ls, l), no) = Result(Take(v.e, l, no).e, v.out \o Take(v.e, l, no).out)
      BY <3>1, FeedAppend
    <3>3. Take(v.e, l, no) = u BY <1>0, <2>2 DEF Plain
    <3> QED BY <1>0, <2>3, <3>2, <3>3 DEF PlainFeed
  <2>6. EngineOK(p.e) /\ SkipOK(p.e) /\ Splits(e, p)
    <3>1. Splits(e, Feed(e, ls, TRUE)) BY <1>1, FeedSplits
    <3>2. Splits(e, p) BY <2>1, <3>1 DEF SkipFeed
    <3> QED BY <3>2 DEF Splits
  <2>7. /\ p.out \in Seq(Events) /\ p.e.raw \in Seq(Lexes) /\ EngineOK(v.e) /\ v.out \in Seq(Events)
    <3>1. Yields(e, ls, Feed(e, ls, yes)) /\ Yields(e, ls, Feed(e, ls, no)) BY <1>1, FeedYields
    <3>2. Yields(e, ls, p) /\ Yields(e, ls, v) BY <1>0, <2>1, <3>1 DEF SkipFeed, PlainFeed
    <3> QED BY <3>2, EngineTypes DEF Yields
  <2>8. /\ q.out \in Seq(Events) /\ q.e.raw \in Seq(Lexes) /\ u.out \in Seq(Events)
    <3>1. Yields(p.e, <<l>>, Take(p.e, l, yes)) /\ Yields(v.e, <<l>>, Take(v.e, l, no)) BY <2>6, <2>7, TakeYields
    <3>2. Yields(p.e, <<l>>, q) /\ Yields(v.e, <<l>>, u) BY <1>0, <2>2, <3>1 DEF SkipTake, Plain
    <3> QED BY <3>2, EngineTypes DEF Yields
  <2>9. Forwards(p.e, l, q) BY <2>2, <2>6, TakeForwards
  <2>10. Reasons(Append(ls, l), r.e)
    <3>1. Reasons(ls, p.e) BY <1>3, <2>1 DEF Together
    <3>2. Marked(p.e, l, q) BY <2>9 DEF Forwards
    <3>3. PICK n : n = p.e OBVIOUS
    <3>4. Reasons(Append(ls, l), q.e) BY <3>1, <3>2, <3>3, ReasonsMore
    <3>5. r.e = q.e BY <2>3 DEF Result
    <3> QED BY <3>4, <3>5
  <2>11. ASSUME Tidy(Append(ls, l)) PROVE Agree(r, w)
    <3>1. Tidy(ls) BY <2>11, TidyLast
    <3>2. Agree(p, v) BY <1>3, <2>1, <3>1 DEF Together
    <3>3. CASE Thinks(p.e)
      <4>1. v = p /\ Candid(p.e) BY <3>2, <3>3 DEF Agree
      <4>2. p.out \in Seq(Thoughts) BY <2>6, <3>3 DEF Splits
      <4>3. PICK n : n = p.e OBVIOUS
      <4>4. q = Take(n, l, TRUE) /\ u = Take(n, l, FALSE) BY <2>2, <4>1, <4>3 DEF SkipTake, Plain
      <4>5. Agree(q, u) BY <2>6, <3>3, <4>1, <4>3, <4>4, TakeAgree
      <4>6. PICK o \in Seq(Thoughts) : o = p.out BY <4>2
      <4>7. r = Result(q.e, o \o q.out) /\ w = Result(u.e, o \o u.out) BY <2>3, <4>1, <4>6
      <4> QED BY <2>8, <4>5, <4>7, AgreeAfter
    <3>4. CASE ~ Thinks(p.e)
      <4>1. Handed(p, v) BY <3>2, <3>4 DEF Agree
      <4>2. Reasons(ls, p.e) BY <1>3, <2>1 DEF Together
      <4>3. l # "THINK_END" /\ ~ (p.e.closer /\ l = "TOOL_END") BY <2>11, <3>4, <4>2, TidyLast
      <4>4. Passes(p.e, l, q) BY <2>9, <3>4, <4>3 DEF Forwards
      <4>5. q.out \in Seq(Answers) /\ ~ Thinks(q.e)
        <5>1. PICK n : n = p.e OBVIOUS
        <5>2. Splits(n, Take(n, l, TRUE)) BY <2>6, <5>1, TakeSplits
        <5>3. Splits(n, q) BY <2>2, <5>1, <5>2 DEF SkipTake
        <5> QED BY <3>4, <5>1, <5>3 DEF Splits
      <4>6. Handed(r, w) BY <2>2, <2>3, <2>7, <2>8, <4>1, <4>4, <4>5, HandedMore
      <4>7. ~ Thinks(r.e) BY <2>3, <4>5 DEF Result
      <4> QED BY <4>6, <4>7 DEF Agree
    <3> QED BY <3>3, <3>4
  <2> QED BY <2>4, <2>5, <2>10, <2>11 DEF Together
<1>4. Seq(Lexes) \subseteq {ls \in Seq(Lexes) : Together(e, ls)}
  <2> DEFINE P == {ls \in Seq(Lexes) : Together(e, ls)}
  <2>1. <<>> \in P BY <1>2, EmptySeq
  <2>2. ASSUME NEW ls \in Seq(Lexes), NEW l \in Lexes, ls \in P PROVE Append(ls, l) \in P
    BY <1>3, <2>2, AppendProperties
  <2>3. Seq(Lexes) \subseteq P
    <3> HIDE DEF P
    <3> QED BY <2>1, <2>2, BySteps
  <2> QED BY <2>3
<1> QED BY <1>4


\* What the tool pass is given is what the reasoning pass told, or still held.
LEMMA HandOverIs ==
    ASSUME NEW r, EngineOK(r.e), SkipOK(r.e), ~ Thinks(r.e), r.out \in Seq(Events)
    PROVE  HandOver(r) = Given(r.out) \o r.e.raw
<1>1. PICK e : e = r.e OBVIOUS
<1>2. e \in Engines /\ EngineOK(e) /\ SkipOK(e) /\ ~ Thinks(e) BY <1>1, EngineTypes
<1>3. PICK a, f : a = GivenUp(e) /\ f = FinishEngine(e).out OBVIOUS
<1>4. f \in Seq(Answers) BY <1>2, <1>3, FinishAnswers
<1>5. OfKind("content", f) = f /\ f \in Seq(Events) BY <1>4, AnswersOnly
<1>6. Values(a.out) = e.raw /\ a.out \in Seq(Events) /\ a.e.st \in {"CONTENT", "FOREIGN_BLOCK"}
  <2>1. CASE e.hold
    <3>1. a = Abort(e) BY <1>3, <2>1 DEF GivenUp
    <3>2. Values(a.out) = e.raw /\ a.out \in Seq(Events) /\ a.e.st = e.prior BY <1>2, <3>1, AbortIs
    <3>3. e.prior = "CONTENT" BY <1>2, <2>1 DEF Thinks, EngineOK
    <3> QED BY <3>2, <3>3
  <2>2. CASE ~ e.hold
    <3>1. a.e = e /\ a.out = <<>> BY <1>3, <2>2 DEF GivenUp, Result
    <3>2. e.raw = <<>> BY <1>2, <2>2 DEF EngineOK
    <3>3. Values(<<>>) = <<>> BY DEF Values
    <3>4. e.st \in {"CONTENT", "FOREIGN_BLOCK"} BY <1>2, <2>2, KindOfPart
    <3> QED BY <3>1, <3>2, <3>3, <3>4, EmptySeq
  <2> QED BY <2>1, <2>2
<1>7. f = a.out
  <2>1. LastOf(a.e.st) = <<>> BY <1>6 DEF LastOf, Kind
  <2>2. f = a.out \o <<>>
    <3>1. FinishEngine(e).out = a.out \o LastOf(a.e.st) BY <1>3, FinishIs
    <3> QED BY <1>3, <2>1, <3>1
  <2> QED BY <1>6, <2>2, ConcatEmptySeq
<1>8. OfKind("content", r.out \o f) = OfKind("content", r.out) \o f
  <2>1. \A k : OfKind(k, r.out \o f) = OfKind(k, r.out) \o OfKind(k, f) BY <1>5, OfKindConcat
  <2> QED BY <1>5, <2>1
<1>9. PICK c \in Seq(Events) : c = OfKind("content", r.out)
  <2>1. OfKind("content", r.out) \in Seq(Events) BY OnlyType DEF OfKind
  <2> QED BY <2>1
<1>10. Values(c \o f) = Values(c) \o Values(f) BY <1>5, EventValue, ValuesConcat
<1>11. HandOver(r) = Values(c \o f) BY <1>1, <1>3, <1>8, <1>9 DEF HandOver
<1>12. Given(r.out) = Values(c) BY <1>9 DEF Given
<1> QED BY <1>1, <1>6, <1>7, <1>10, <1>11, <1>12

\* What the engine does depends on the request, not on the moment.
FeedLaws ==
    \A e, skip :
        /\ Feed(e, <<>>, skip) = Result(e, <<>>)
        /\ \A ls \in Seq(Lexes) : \A l \in Lexes : \A p : p = Feed(e, ls, skip) =>
              Feed(e, Append(ls, l), skip) = Result(Take(p.e, l, skip).e, p.out \o Take(p.e, l, skip).out)

LEMMA FeedLawsHold == FeedLaws
<1> SUFFICES ASSUME NEW e, NEW skip
             PROVE  /\ Feed(e, <<>>, skip) = Result(e, <<>>)
                    /\ \A ls \in Seq(Lexes) : \A l \in Lexes : \A p : p = Feed(e, ls, skip) =>
                         Feed(e, Append(ls, l), skip) =
                           Result(Take(p.e, l, skip).e, p.out \o Take(p.e, l, skip).out)
  BY DEF FeedLaws
<1> QED BY FeedEmpty, FeedAppend

LEMMA TakeLater ==
    ASSUME declared' = declared, NEW e, NEW l, NEW skip
    PROVE  Take(e, l, skip)' = Take(e, l, skip)
<1>1. \A b : Known(b)' <=> Known(b) BY DEF Known
<1>2. \A b, x : Advance(b, l, x, skip)' = Advance(b, l, x, skip)
  <2> SUFFICES ASSUME NEW b, NEW x PROVE Advance(b, l, x, skip)' = Advance(b, l, x, skip) OBVIOUS
  <2>1. Known(b)' <=> Known(b) BY <1>1
  <2> QED BY <2>1 DEF Advance
<1>3. \A b, x : Meaningful(b, l, x, skip)' = Meaningful(b, l, x, skip) BY <1>2 DEF Meaningful
<1>4. \A b : Unheld(b, l, skip)' = Unheld(b, l, skip) BY <1>3 DEF Unheld
<1>5. OnTerminal(e, l, skip)' = OnTerminal(e, l, skip) BY <1>4 DEF OnTerminal
<1> QED BY <1>5 DEF Take

LEMMA FeedLater ==
    ASSUME declared' = declared, NEW e, NEW skip
    PROVE  \A ls \in Seq(Lexes) : Feed(e, ls, skip)' = Feed(e, ls, skip)
<1> DEFINE P == {ls \in Seq(Lexes) : Feed(e, ls, skip)' = Feed(e, ls, skip)}
<1>1. FeedLaws' BY FeedLawsHold, PTL
<1>2. <<>> \in P
  <2>1. Feed(e, <<>>, skip)' = Result(e, <<>>) BY <1>1 DEF FeedLaws
  <2>2. Feed(e, <<>>, skip) = Result(e, <<>>) BY FeedEmpty
  <2> QED BY <2>1, <2>2, EmptySeq
<1>3. ASSUME NEW ls \in Seq(Lexes), NEW l \in Lexes, ls \in P PROVE Append(ls, l) \in P
  <2>1. PICK p : p = Feed(e, ls, skip) OBVIOUS
  <2>2. p = Feed(e, ls, skip)' BY <1>3, <2>1
  <2>3. Feed(e, Append(ls, l), skip) = Result(Take(p.e, l, skip).e, p.out \o Take(p.e, l, skip).out)
    BY <2>1, FeedAppend
  <2>4. PICK a, o : a = p.e /\ o = p.out OBVIOUS
  <2>5. Feed(e, Append(ls, l), skip)' = Result(Take(a, l, skip)'.e, o \o Take(a, l, skip)'.out)
    BY <1>1, <2>2, <2>4 DEF FeedLaws
  <2>6. Take(a, l, skip)' = Take(a, l, skip) BY TakeLater
  <2> QED BY <2>3, <2>4, <2>5, <2>6, AppendProperties
<1>4. Seq(Lexes) \subseteq P
  <2> HIDE DEF P
  <2> QED BY <1>2, <1>3, BySteps
<1> QED BY <1>4

LEMMA CandidLater ==
    ASSUME declared' = declared, NEW e, Candid(e)
    PROVE  Candid(e)'
<1>1. PICK no \in BOOLEAN : no = FALSE OBVIOUS
<1>2. e.raw \in Seq(Lexes) BY EngineTypes DEF Candid
<1>3. Feed(Begun, e.raw, no)' = Feed(Begun, e.raw, no) BY <1>2, FeedLater
<1>4. Reads(e.raw)' = Reads(e.raw) BY <1>1, <1>3 DEF Reads
<1>5. Replays(e)' <=> Replays(e) BY <1>4 DEF Replays
<1> QED BY <1>5 DEF Candid

\* The two passes and the single machine, between two deltas.
Alike ==
    /\ ~ ended => tool = Begun /\ (~ over => reasoning = whole /\ Candid(reasoning))
    /\ ended => Like(tool, whole)
    /\ Same(out, ref)

\* A step in which a delta, if it is read while reasoning goes on, is tidy.  After
\* the end of reasoning it may be anything.
TidyDelta(d) == Delta(d) /\ (ended \/ Tidy(d))
TidyTurn == Finish \/ \E d \in Deltas : TidyDelta(d)

LEMMA AlikeInit == ParserInit => Alike
<1> SUFFICES ASSUME ParserInit PROVE Alike OBVIOUS
<1>1. PICK e : e = Fresh("REASONING") OBVIOUS
<1>2. reasoning = e /\ whole = e /\ tool = Begun /\ ended = FALSE /\ out = <<>> /\ ref = <<>>
  BY <1>1 DEF ParserInit, Begun
<1>3. EngineOK(e)
  <2>1. "REASONING" \in States BY DEF States
  <2> QED BY <1>1, <2>1, FreshOK
<1>4. e.hold = FALSE /\ e.closer = FALSE /\ e.name = <<>> /\ e.events = <<>> BY <1>1 DEF Fresh
<1>5. Candid(e) BY <1>3, <1>4 DEF Candid
<1>6. Same(out, ref) BY <1>2 DEF Same
<1> QED BY <1>2, <1>5, <1>6 DEF Alike

LEMMA AlikeFinish == ParserInv /\ Alike /\ Finish => Alike'
<1> SUFFICES ASSUME ParserInv, Alike, Finish PROVE Alike' OBVIOUS
<1>1. EngineOK(reasoning) /\ EngineOK(tool) /\ EngineOK(whole) /\ ended \in BOOLEAN
  BY DEF ParserInv, ParserTypes
<1>2. PICK a, b : a = (IF ended THEN tool ELSE reasoning) /\ b = whole OBVIOUS
<1>3. PICK f, g : f = FinishEngine(a) /\ g = FinishEngine(b) OBVIOUS
<1>4. /\ over = FALSE /\ over' = TRUE /\ ended' = ended /\ out' = f.out /\ ref' = g.out /\ whole' = g.e
      /\ ended => tool' = f.e
      /\ ~ ended => tool' = tool
  BY <1>2, <1>3 DEF Finish
<1>5. CASE ended
  <2>1. EngineOK(a) /\ EngineOK(b) /\ Like(a, b) BY <1>1, <1>2, <1>5 DEF Alike
  <2>2. LikeResults(f, g) BY <1>3, <2>1, FinishLike
  <2>3. Like(f.e, g.e) /\ f.out = g.out BY <2>2 DEF LikeResults
  <2>4. Like(tool', whole') BY <1>4, <1>5, <2>3
  <2>5. Same(out', ref') BY <1>4, <2>3 DEF Same
  <2> QED BY <1>4, <1>5, <2>4, <2>5 DEF Alike
<1>6. CASE ~ ended
  <2>1. a = b /\ tool = Begun BY <1>2, <1>4, <1>6 DEF Alike
  <2>2. out' = ref' BY <1>3, <1>4, <2>1
  <2>3. Same(out', ref') BY <2>2 DEF Same
  <2> QED BY <1>4, <1>6, <2>1, <2>3 DEF Alike
<1> QED BY <1>5, <1>6

LEMMA AlikeDelta == ASSUME NEW d \in Deltas, ParserInv, Alike, TidyDelta(d) PROVE Alike'
<1>1. /\ EngineOK(reasoning) /\ EngineOK(tool) /\ EngineOK(whole) /\ over = FALSE
      /\ ended \in BOOLEAN /\ (~ ended => SkipOK(reasoning) /\ Thinks(reasoning))
  BY DEF ParserInv, ParserTypes, Undivided, TidyDelta, Delta
<1>2. d \in Seq(Lexes) BY ParserAssumption DEF Lexes
<1>3. PICK r, w : r = SkipFeed(reasoning, d) /\ w = PlainFeed(whole, d) OBVIOUS
<1>4. over' = FALSE /\ whole' = w.e /\ ref' = w.out
  BY <1>1, <1>3 DEF TidyDelta, Delta, SkipFeed, PlainFeed
<1>5. CASE ended
  <2>1. PICK a, b : a = tool /\ b = whole OBVIOUS
  <2>2. PICK t : t = PlainFeed(a, d) OBVIOUS
  <2>3. ended' = TRUE /\ tool' = t.e /\ out' = t.out
    BY <1>5, <2>1, <2>2 DEF TidyDelta, Delta, PlainFeed
  <2>4. EngineOK(a) /\ EngineOK(b) /\ Like(a, b) BY <1>1, <1>5, <2>1 DEF Alike
  <2>5. LikeResults(Feed(a, d, FALSE), Feed(b, d, FALSE)) BY <1>2, <2>4, FeedLike
  <2>6. Like(t.e, w.e) /\ t.out = w.out BY <1>3, <2>1, <2>2, <2>5 DEF LikeResults, PlainFeed
  <2>7. Like(tool', whole') BY <1>4, <2>3, <2>6
  <2>8. Same(out', ref') BY <1>4, <2>3, <2>6 DEF Same
  <2> QED BY <2>3, <2>7, <2>8 DEF Alike
<1>6. ASSUME ~ ended PROVE Agree(r, w) /\ Splits(reasoning, r) /\ r.out \in Seq(Events) /\ EngineOK(r.e)
  <2>1. PICK e : e = reasoning OBVIOUS
  <2>2. e = whole /\ Candid(e) /\ SkipOK(e) /\ Thinks(e) /\ Tidy(d)
    BY <1>1, <1>6, <2>1 DEF Alike, TidyDelta
  <2>3. Together(e, d) BY <1>2, <2>2, FeedTogether
  <2>4. Agree(r, w) BY <1>3, <2>1, <2>2, <2>3 DEF Together
  <2>5. Splits(e, Feed(e, d, TRUE)) BY <1>1, <1>2, <1>6, <2>1, FeedSplits
  <2>6. PICK yes \in BOOLEAN : yes = TRUE OBVIOUS
  <2>7. Yields(e, d, Feed(e, d, yes)) BY <1>1, <1>2, <2>1, FeedYields
  <2>8. Splits(e, r) /\ Yields(e, d, r) BY <1>3, <2>1, <2>5, <2>6, <2>7 DEF SkipFeed
  <2> QED BY <2>1, <2>4, <2>8 DEF Yields
<1>7. CASE ~ ended /\ Thinks(r.e)
  <2>1. w = r /\ Candid(r.e) BY <1>6, <1>7 DEF Agree
  <2>2. r.out \in Seq(Thoughts) BY <1>1, <1>6, <1>7 DEF Splits
  <2>3. ~ HasKind("reasoning_end", r.out) BY <2>2, ThoughtsOnly
  <2>4. ended' = FALSE /\ reasoning' = r.e /\ tool' = tool /\ out' = r.out
    BY <1>3, <1>7, <2>3 DEF TidyDelta, Delta, SkipFeed, Result
  <2>5. tool = Begun BY <1>7 DEF Alike
  <2>6. Same(out', ref') BY <1>4, <2>1, <2>4 DEF Same
  <2>7. reasoning' = whole' BY <1>4, <2>1, <2>4
  <2>8. declared' = declared BY DEF TidyDelta, Delta
  <2>9. PICK a : a = r.e OBVIOUS
  <2>10. Candid(a)' BY <2>1, <2>8, <2>9, CandidLater
  <2>11. Candid(reasoning)' BY <2>4, <2>9, <2>10 DEF Candid, Replays, Reads
  <2> QED BY <2>4, <2>5, <2>6, <2>7, <2>11 DEF Alike
<1>8. CASE ~ ended /\ ~ Thinks(r.e)
  <2>1. Handed(r, w) BY <1>6, <1>8 DEF Agree
  <2>2. Parted(r.out) /\ SkipOK(r.e) BY <1>1, <1>6, <1>8 DEF Splits
  <2>3. HasKind("reasoning_end", r.out) BY <2>2, PartedEnds
  <2>4. PICK g : g = Given(r.out) \o r.e.raw OBVIOUS
  <2>5. HandOver(r) = g BY <1>6, <1>8, <2>2, <2>4, HandOverIs
  <2>6. tool = Begun BY <1>8 DEF Alike
  <2>7. PICK t : t = Reads(g) OBVIOUS
  <2>8. ended' = TRUE /\ tool' = t.e /\ out' = OfKind("reasoning", r.out) \o t.out
    BY <1>3, <1>8, <2>3, <2>5, <2>6, <2>7 DEF TidyDelta, Delta, SkipFeed, Reads
  <2>9. Like(t.e, w.e) /\ Same(OfKind("reasoning", r.out) \o t.out, w.out)
    BY <2>1, <2>4, <2>7 DEF Handed
  <2>10. Like(tool', whole') BY <1>4, <2>8, <2>9
  <2>11. Same(out', ref') BY <1>4, <2>8, <2>9
  <2> QED BY <2>8, <2>10, <2>11 DEF Alike
<1> QED BY <1>5, <1>7, <1>8

LEMMA TidyStep == TidyTurn => ParserNext
BY DEF TidyTurn, TidyDelta, ParserNext

LEMMA AlikeNext == ParserInv /\ Alike /\ [TidyTurn]_parserVars => Alike'
<1> SUFFICES ASSUME ParserInv, Alike, [TidyTurn]_parserVars PROVE Alike' OBVIOUS
<1>1. CASE Finish BY <1>1, AlikeFinish
<1>2. ASSUME NEW d \in Deltas, TidyDelta(d) PROVE Alike' BY <1>2, AlikeDelta
<1>3. CASE UNCHANGED parserVars
  <2>1. /\ declared' = declared /\ ended' = ended /\ over' = over /\ reasoning' = reasoning
        /\ tool' = tool /\ whole' = whole /\ out' = out /\ ref' = ref
    BY <1>3 DEF parserVars
  <2>2. PICK a : a = reasoning OBVIOUS
  <2>3. Candid(a) => Candid(a)' BY <2>1, CandidLater
  <2>4. Candid(reasoning) => Candid(reasoning)' BY <2>1, <2>2, <2>3 DEF Candid, Replays, Reads
  <2> QED BY <2>1, <2>4 DEF Alike
<1> QED BY <1>1, <1>2, <1>3 DEF TidyTurn

LEMMA AlikeShows == ParserInv /\ Alike => StreamAsOne
<1> SUFFICES ASSUME ParserInv, Alike,
                    NEW k \in {"reasoning", "content", "name", "argument", "start", "end"}
             PROVE  Shown(k, out) = Shown(k, ref)
  BY DEF StreamAsOne
<1>1. out \in Seq(Events) /\ ref \in Seq(Events) /\ Same(out, ref) BY DEF ParserInv, ParserTypes, Alike
<1>2. k \in Kinds \ {"reasoning_end"} BY DEF Kinds
<1> QED BY <1>1, <1>2, SameShown

LEMMA AlikeAlways == ParserSpec /\ [][TidyTurn]_parserVars => []Alike
<1> QED BY AlikeInit, AlikeNext, ParserInvariant, PTL DEF ParserSpec

\* While the deltas that are read in reasoning are tidy, of any number of lexemes,
\* the two passes of parse_delta() emit the events that one machine with the same
\* table would: where reasoning ends inside a delta, where a candidate is held over
\* the change of passes, or is recovered by the reasoning pass, makes no difference.
THEOREM StreamIsOne == ParserSpec /\ [][TidyTurn]_parserVars => []StreamAsOne
<1> QED BY AlikeAlways, AlikeShows, ParserInvariant, PTL


-----------------------------------------------------------------------------
(* Calls that the events tell of *)

LEMMA OnlyTells ==
    ASSUME NEW T, NEW S, NEW R
    PROVE  \A s \in Seq(T) : Only(s, S) \in Seq(R) => \A i \in DOMAIN s : s[i] \in S => s[i] \in R
<1> DEFINE Telling(s) == Only(s, S) \in Seq(R) => \A i \in DOMAIN s : s[i] \in S => s[i] \in R
           P == {s \in Seq(T) : Telling(s)}
<1>1. <<>> \in P
  <2>1. <<>> \in Seq(T) BY EmptySeq
  <2>2. \A i \in DOMAIN <<>> : FALSE OBVIOUS
  <2> QED BY <2>1, <2>2
<1>2. ASSUME NEW s \in Seq(T), NEW x \in T, s \in P PROVE Append(s, x) \in P
  <2>1. PICK m : m = Append(s, x) OBVIOUS
  <2>2. /\ m \in Seq(T) /\ DOMAIN m = 1 .. Len(s) + 1 /\ DOMAIN s = 1 .. Len(s) /\ Len(s) \in Nat
        /\ \A i \in 1 .. Len(s) : m[i] = s[i]
        /\ m[Len(s) + 1] = x
    BY <2>1, LenProperties, AppendProperties
  <2>3. PICK c \in Seq(T) : c = Only(s, S) BY OnlyType
  <2>4. ASSUME Only(m, S) \in Seq(R) PROVE c \in Seq(R) /\ (x \in S => x \in R)
    <3>1. CASE x \in S
      <4>1. PICK n : n = Only(m, S) OBVIOUS
      <4>2. n = Append(c, x) BY <2>1, <2>3, <3>1, <4>1, OnlyAppend
      <4>3. /\ n \in Seq(R) /\ Len(n) = Len(c) + 1 /\ Len(c) \in Nat /\ n[Len(c) + 1] = x
            /\ DOMAIN c = 1 .. Len(c)
            /\ \A i \in 1 .. Len(c) : c[i] = n[i]
        BY <2>4, <4>1, <4>2, LenProperties, AppendProperties
      <4>4. \A i \in 1 .. Len(c) + 1 : n[i] \in R BY <4>3, ElementOfSeq
      <4>5. x \in R BY <4>3, <4>4
      <4>6. \A i \in 1 .. Len(c) : c[i] \in R BY <4>3, <4>4
      <4>7. c = [i \in 1 .. Len(c) |-> c[i]] BY <4>3
      <4>8. c \in Seq(R) BY <4>3, <4>6, <4>7
      <4> QED BY <4>5, <4>8
    <3>2. CASE x \notin S
      <4>1. Only(m, S) = c BY <2>1, <2>3, <3>2, OnlyAppend
      <4> QED BY <2>4, <3>2, <4>1
    <3> QED BY <3>1, <3>2
  <2>5. ASSUME Only(m, S) \in Seq(R), NEW i \in DOMAIN m, m[i] \in S PROVE m[i] \in R
    <3>1. CASE i = Len(s) + 1 BY <2>2, <2>4, <2>5, <3>1
    <3>2. CASE i # Len(s) + 1
      <4>1. i \in DOMAIN s /\ m[i] = s[i] BY <2>2, <3>2
      <4>2. \A j \in DOMAIN s : s[j] \in S => s[j] \in R BY <1>2, <2>3, <2>4, <2>5
      <4> QED BY <2>5, <4>1, <4>2
    <3> QED BY <3>1, <3>2
  <2> QED BY <2>1, <2>2, <2>5
<1>3. Seq(T) \subseteq P
  <2> HIDE DEF P
  <2> QED BY <1>1, <1>2, BySteps
<1> QED BY <1>3

\* Names of calls: of the tool, if it is declared.
Names == IF declared THEN {<<"name", ToolName>>} ELSE {}

\* Events in which every call is complete, and of a declared tool.
Calls(evs) ==
    /\ evs \in Seq(Events)
    /\ OfKind("name", evs) \in Seq(Names)
    /\ Len(OfKind("start", evs)) = Len(OfKind("end", evs))
    /\ Len(OfKind("start", evs)) = Len(OfKind("name", evs))

LEMMA CallsConcat ==
    ASSUME NEW a, Calls(a), NEW b, Calls(b)
    PROVE  Calls(a \o b)
<1>1. a \in Seq(Events) /\ b \in Seq(Events) BY DEF Calls
<1>2. \A k : OfKind(k, a \o b) = OfKind(k, a) \o OfKind(k, b) BY <1>1, OfKindConcat
<1>3. \A k : OfKind(k, a) \in Seq(Events) /\ OfKind(k, b) \in Seq(Events) BY <1>1, OnlyType DEF OfKind
<1>4. a \o b \in Seq(Events) BY <1>1, ConcatProperties
<1>5. OfKind("name", a \o b) \in Seq(Names)
  <2>1. PICK S : S = Names OBVIOUS
  <2>2. PICK m \in Seq(S), n \in Seq(S) : m = OfKind("name", a) /\ n = OfKind("name", b) BY <2>1 DEF Calls
  <2>3. m \o n \in Seq(S) BY ConcatProperties
  <2> QED BY <1>2, <2>1, <2>2, <2>3
<1>6. \A k : Len(OfKind(k, a \o b)) = Len(OfKind(k, a)) + Len(OfKind(k, b))
  <2> SUFFICES ASSUME NEW k PROVE Len(OfKind(k, a \o b)) = Len(OfKind(k, a)) + Len(OfKind(k, b)) OBVIOUS
  <2>1. PICK m \in Seq(Events), n \in Seq(Events) : m = OfKind(k, a) /\ n = OfKind(k, b) BY <1>3
  <2>2. Len(m \o n) = Len(m) + Len(n) BY ConcatProperties
  <2> QED BY <1>2, <2>1, <2>2
<1>7. /\ Len(OfKind("start", a \o b)) = Len(OfKind("end", a \o b))
      /\ Len(OfKind("start", a \o b)) = Len(OfKind("name", a \o b))
  <2>1. \A k : Len(OfKind(k, a \o b)) = Len(OfKind(k, a)) + Len(OfKind(k, b)) BY <1>6
  <2> QED BY <2>1 DEF Calls
<1> QED BY <1>4, <1>5, <1>7 DEF Calls

\* Events that are no part of a call.
Aside == {"content", "reasoning", "reasoning_end", "dropped"} \X Carried

LEMMA AsideCalls == \A evs \in Seq(Aside) : Calls(evs)
<1> SUFFICES ASSUME NEW evs \in Seq(Aside) PROVE Calls(evs) OBVIOUS
<1>1. Aside \subseteq Events BY DEF Aside, Events, Kinds
<1>2. evs \in Seq(Events) BY <1>1, SeqMonotonic
<1>3. ASSUME NEW k \in {"name", "start", "end"} PROVE OfKind(k, evs) = <<>>
  <2>1. Aside \cap ({k} \X Carried) = {} BY DEF Aside
  <2> QED BY <2>1, OnlyNone DEF OfKind
<1>4. <<>> \in Seq(Names) BY EmptySeq
<1> QED BY <1>2, <1>3, <1>4 DEF Calls

\* The events of one call: of a candidate, up to its name or its end.
Part(evs, ls, complete) ==
    /\ evs \in Seq(Events)
    /\ Len(OfKind("start", evs)) = 1
    /\ Len(OfKind("end", evs)) = IF complete THEN 1 ELSE 0
    /\ OfKind("name", evs) = As("name", ls)

\* A candidate holds the events of a call without its end; it has arguments only
\* when its name is known.
CallOK(e) ==
    e.hold => /\ Part(e.events, e.name, FALSE)
              /\ e.st = "TOOL_ARGS" => Known(e)

\* Not in a call that is told as it comes.
Outside(e) == ~ e.hold => e.st \notin ToolStates

\* What a lexeme that opens no wrapper does to calls.
CallKept(e, l, q) ==
    /\ CallOK(q.e)
    /\ Outside(e) /\ l # "TOOL_START" => Outside(q.e) /\ Calls(q.out)


LEMMA OfKindAppend ==
    ASSUME NEW evs \in Seq(Events), NEW x \in Events, NEW k
    PROVE  /\ x[1] = k => OfKind(k, Append(evs, x)) = Append(OfKind(k, evs), x)
           /\ x[1] # k => OfKind(k, Append(evs, x)) = OfKind(k, evs)
<1>1. PICK C : C = {k} \X Carried OBVIOUS
<1>2. x \in C <=> x[1] = k
  <2>1. PICK j \in Kinds, v \in Carried : x = <<j, v>> BY DEF Events
  <2> QED BY <1>1, <2>1
<1>3. CASE x \in C
  <2>1. Only(Append(evs, x), C) = Append(Only(evs, C), x) BY <1>3, OnlyAppend
  <2> QED BY <1>1, <1>2, <1>3, <2>1 DEF OfKind
<1>4. CASE x \notin C
  <2>1. Only(Append(evs, x), C) = Only(evs, C) BY <1>4, OnlyAppend
  <2> QED BY <1>1, <1>2, <1>4, <2>1 DEF OfKind
<1> QED BY <1>3, <1>4

LEMMA PartMore ==
    ASSUME NEW evs, NEW ls \in Seq(Lexes), Part(evs, ls, FALSE), NEW l \in Lexes, NEW x
    PROVE  /\ x = <<"argument", l>> => Part(Append(evs, x), ls, FALSE)
           /\ x = <<"name", l>> => Part(Append(evs, x), Append(ls, l), FALSE)
           /\ x = <<"end", l>> => Part(Append(evs, x), ls, TRUE)
<1>1. /\ evs \in Seq(Events) /\ Len(OfKind("start", evs)) = 1 /\ Len(OfKind("end", evs)) = 0
      /\ OfKind("name", evs) = As("name", ls)
  BY DEF Part
<1>2. l \in Carried BY Symbols DEF Lexes, Carried
<1>3. \A k \in {"argument", "name", "end"} : <<k, l>> \in Events /\ <<k, l>>[1] = k
  BY <1>2 DEF Events, Kinds
<1>4. ASSUME NEW k \in {"argument", "name", "end"}, x = <<k, l>>
      PROVE  /\ Append(evs, x) \in Seq(Events)
             /\ \A j : j # k => OfKind(j, Append(evs, x)) = OfKind(j, evs)
             /\ OfKind(k, Append(evs, x)) = Append(OfKind(k, evs), x)
  <2>1. x \in Events /\ x[1] = k BY <1>3, <1>4
  <2>2. Append(evs, x) \in Seq(Events) BY <1>1, <2>1, AppendProperties
  <2>3. ASSUME NEW j, j # k PROVE OfKind(j, Append(evs, x)) = OfKind(j, evs)
    BY <1>1, <2>1, <2>3, OfKindAppend
  <2>4. OfKind(k, Append(evs, x)) = Append(OfKind(k, evs), x) BY <1>1, <2>1, OfKindAppend
  <2> QED BY <2>2, <2>3, <2>4
<1>5. ASSUME x = <<"argument", l>> PROVE Part(Append(evs, x), ls, FALSE)
  BY <1>1, <1>4, <1>5 DEF Part
<1>6. ASSUME x = <<"end", l>> PROVE Part(Append(evs, x), ls, TRUE)
  <2>1. OfKind("end", Append(evs, x)) = Append(OfKind("end", evs), x) BY <1>4, <1>6
  <2>2. OfKind("end", evs) \in Seq(Events) BY <1>1, OnlyType DEF OfKind
  <2>3. x \in Events BY <1>3, <1>6
  <2>4. Len(Append(OfKind("end", evs), x)) = 1 BY <1>1, <2>2, <2>3, AppendProperties
  <2> QED BY <1>1, <1>4, <1>6, <2>1, <2>4 DEF Part
<1>7. ASSUME x = <<"name", l>> PROVE Part(Append(evs, x), Append(ls, l), FALSE)
  <2>1. OfKind("name", Append(evs, x)) = Append(As("name", ls), x) BY <1>1, <1>4, <1>7
  <2>2. PICK ms : ms = Append(ls, l) OBVIOUS
  <2>3. /\ DOMAIN ms = 1 .. Len(ls) + 1 /\ DOMAIN ls = 1 .. Len(ls) /\ Len(ls) \in Nat
        /\ \A i \in 1 .. Len(ls) : ms[i] = ls[i]
        /\ ms[Len(ls) + 1] = l
    BY <2>2, LenProperties, AppendProperties
  <2>4. PICK a, b : a = As("name", ls) /\ b = As("name", ms) OBVIOUS
  <2>5. a \in Seq(Events)
    <3>1. "name" \in Kinds BY DEF Kinds
    <3>2. PICK k \in Kinds : k = "name" BY <3>1
    <3>3. As(k, ls) \in Seq(Events) BY AsIs
    <3> QED BY <2>4, <3>2, <3>3
  <2>6. DOMAIN a = 1 .. Len(ls) /\ \A i \in 1 .. Len(ls) : a[i] = <<"name", ls[i]>> BY <2>3, <2>4 DEF As
  <2>7. DOMAIN b = 1 .. Len(ls) + 1 /\ \A i \in 1 .. Len(ls) + 1 : b[i] = <<"name", ms[i]>>
    BY <2>3, <2>4 DEF As
  <2>8. Len(a) = Len(ls) BY <2>3, <2>5, <2>6, LenProperties
  <2>9. PICK c : c = Append(a, x) OBVIOUS
  <2>10. /\ c \in Seq(Events) /\ DOMAIN c = 1 .. Len(ls) + 1 /\ c[Len(ls) + 1] = x
         /\ \A i \in 1 .. Len(ls) : c[i] = a[i]
    <3>1. x \in Events BY <1>3, <1>7
    <3> QED BY <2>5, <2>8, <2>9, <3>1, LenProperties, AppendProperties
  <2>11. ASSUME NEW i \in 1 .. Len(ls) + 1 PROVE b[i] = c[i]
    <3>1. CASE i = Len(ls) + 1 BY <1>7, <2>3, <2>7, <2>10, <3>1
    <3>2. CASE i # Len(ls) + 1
      <4>1. i \in 1 .. Len(ls) BY <2>3, <3>2
      <4> QED BY <2>3, <2>6, <2>7, <2>10, <4>1
    <3> QED BY <3>1, <3>2
  <2>12. b \in Seq(Events)
    <3>1. ms \in Seq(Lexes) BY <2>2, AppendProperties
    <3>2. PICK k \in Kinds : k = "name" BY DEF Kinds
    <3>3. As(k, ms) \in Seq(Events) BY <3>1, AsIs
    <3> QED BY <2>4, <3>2, <3>3
  <2>13. b = c
    <3>1. b = [i \in DOMAIN b |-> b[i]] /\ c = [i \in DOMAIN c |-> c[i]] BY <2>10, <2>12
    <3> QED BY <2>7, <2>10, <2>11, <3>1
  <2>14. OfKind("name", Append(evs, x)) = As("name", ms) BY <2>1, <2>4, <2>9, <2>13
  <2>15. /\ Append(evs, x) \in Seq(Events)
         /\ OfKind("start", Append(evs, x)) = OfKind("start", evs)
         /\ OfKind("end", Append(evs, x)) = OfKind("end", evs)
    BY <1>4, <1>7
  <2> QED BY <1>1, <2>2, <2>14, <2>15 DEF Part
<1> QED BY <1>5, <1>6, <1>7

LEMMA PartWhole ==
    ASSUME NEW evs, Part(evs, <<ToolName>>, TRUE), declared
    PROVE  Calls(evs)
<1>1. PICK x : x = <<"name", ToolName>> OBVIOUS
<1>2. As("name", <<ToolName>>) = <<x>>
  <2>1. PICK s : s = <<ToolName>> OBVIOUS
  <2>2. DOMAIN s = {1} /\ s[1] = ToolName BY <2>1
  <2>3. As("name", s) = [i \in {1} |-> x] BY <1>1, <2>2 DEF As
  <2>4. <<x>> = [i \in {1} |-> x] OBVIOUS
  <2> QED BY <2>1, <2>3, <2>4
<1>3. Names = {x} BY <1>1 DEF Names
<1>4. <<x>> \in Seq({x}) /\ Len(<<x>>) = 1 OBVIOUS
<1> QED BY <1>2, <1>3, <1>4 DEF Part, Calls

LEMMA AbortCalls ==
    ASSUME NEW a \in Engines, a.prior \in {"CONTENT", "REASONING"}, NEW e, NEW l, NEW q, q = Abort(a)
    PROVE  CallKept(e, l, q)
<1>1. q.e.hold = FALSE /\ q.e.st = a.prior /\ q.out \in Seq({Kind(a.prior)} \X Lexes) BY AbortIs
<1>2. {Kind(a.prior)} \X Lexes \subseteq Aside
  <2>1. Kind(a.prior) \in {"content", "reasoning"} BY DEF Kind
  <2>2. Lexes \subseteq Carried BY DEF Lexes, Carried
  <2> QED BY <2>1, <2>2 DEF Aside
<1>3. q.out \in Seq(Aside) BY <1>1, <1>2, SeqMonotonic
<1>4. Calls(q.out) BY <1>3, AsideCalls
<1>5. a.prior \notin ToolStates BY DEF ToolStates
<1> QED BY <1>1, <1>4, <1>5 DEF CallKept, CallOK, Outside

LEMMA TextCalls ==
    ASSUME NEW e, EngineOK(e), CallOK(e), NEW l \in Lexes, NEW q, q = Text(e, l)
    PROVE  CallKept(e, l, q)
<1>1. e \in Engines /\ e.raw \in Seq(Lexes) /\ e.name \in Seq(Lexes) /\ e.st \in States /\ l \in Carried
  BY EngineTypes, Symbols DEF Lexes, Carried
<1>2. CASE ~ e.hold
  <2>1. PICK k : k = Kind(e.st) OBVIOUS
  <2>2. q.e = e /\ q.out = <<<<k, l>>>> BY <1>2, <2>1 DEF Text, Result
  <2>3. ASSUME Outside(e) PROVE Calls(q.out)
    <3>1. k \in {"content", "reasoning"}
      <4>1. e.st \in {"CONTENT", "REASONING", "FOREIGN_BLOCK", "FOREIGN_REASONING_BLOCK"}
        BY <1>1, <1>2, <2>3 DEF Outside, States
      <4> QED BY <2>1, <4>1 DEF Kind
    <3>2. <<k, l>> \in Aside BY <1>1, <3>1 DEF Aside
    <3>3. q.out \in Seq(Aside) BY <2>2, <3>2
    <3> QED BY <3>3, AsideCalls
  <2> QED BY <2>2, <2>3 DEF CallKept
<1>3. CASE e.hold /\ e.st = "TOOL_NAME" /\ l \in LongTexts
  <2>1. q = Abort(Longer(e, l)) BY <1>3 DEF Text, Longer
  <2>2. PICK a : a = Longer(e, l) OBVIOUS
  <2>3. a \in Engines /\ a.prior = e.prior
    <3>1. Append(e.raw, l) \in Seq(Lexes) BY <1>1, AppendProperties
    <3> QED BY <1>1, <2>2, <3>1 DEF Longer, Engines
  <2>4. a.prior \in {"CONTENT", "REASONING"} BY <1>3, <2>3 DEF EngineOK
  <2> QED BY <2>1, <2>2, <2>3, <2>4, AbortCalls
<1>4. CASE e.hold /\ ~ (e.st = "TOOL_NAME" /\ l \in LongTexts)
  <2>1. PICK n, x : /\ n = (IF e.st = "TOOL_NAME" THEN Append(e.name, l) ELSE e.name)
                    /\ x = <<Kind(e.st), l>>
    OBVIOUS
  <2>2. PICK h : h = [e EXCEPT !.raw = Append(@, l), !.name = n, !.events = Append(@, x)] OBVIOUS
  <2>3. q.e = h /\ q.out = <<>>
    <3>1. q = Result(h, <<>>) BY <1>1, <1>4, <2>1, <2>2 DEF Text, Engines
    <3> QED BY <3>1 DEF Result
  <2>4. h.hold = e.hold /\ h.st = e.st /\ h.name = n /\ h.events = Append(e.events, x)
    BY <1>1, <2>2 DEF Engines
  <2>5. Part(e.events, e.name, FALSE) /\ (e.st = "TOOL_ARGS" => Known(e)) BY <1>4 DEF CallOK
  <2>6. e.st \in {"TOOL_NAME", "TOOL_ARGS"} BY <1>4 DEF EngineOK
  <2>7. CallOK(h)
    <3>1. CASE e.st = "TOOL_NAME"
      <4>1. x = <<"name", l>> /\ n = Append(e.name, l) BY <2>1, <3>1 DEF Kind
      <4>2. PICK f, m : f = e.events /\ m = e.name OBVIOUS
      <4>3. Part(Append(f, x), Append(m, l), FALSE) BY <1>1, <2>5, <4>1, <4>2, PartMore
      <4> QED BY <2>4, <3>1, <4>1, <4>2, <4>3 DEF CallOK
    <3>2. CASE e.st = "TOOL_ARGS"
      <4>1. x = <<"argument", l>> /\ n = e.name BY <2>1, <3>2 DEF Kind
      <4>2. PICK f, m : f = e.events /\ m = e.name OBVIOUS
      <4>3. Part(Append(f, x), m, FALSE) BY <1>1, <2>5, <4>1, <4>2, PartMore
      <4>4. Known(h) BY <2>4, <2>5, <3>2, <4>1 DEF Known
      <4> QED BY <2>4, <4>1, <4>2, <4>3, <4>4 DEF CallOK
    <3> QED BY <2>6, <3>1, <3>2
  <2>8. Calls(<<>>) BY EmptySeq, AsideCalls
  <2> QED BY <1>4, <2>3, <2>4, <2>7, <2>8 DEF CallKept, Outside
<1> QED BY <1>2, <1>3, <1>4


LEMMA BeginCalls ==
    ASSUME NEW e, EngineOK(e), ~ e.hold, NEW t \in Terminals, NEW x \in Table, x[1] = e.st, x[2] = t,
           Provisional(e.st, t), NEW q, q = Begin(e, t, x)
    PROVE  CallKept(e, t, q)
<1>1. e \in Engines /\ t \in Lexes /\ t \in Carried /\ t = "INVOKE_PREFIX" BY EngineTypes, TerminalSilent DEF Provisional
<1>2. PICK g : g = Run(e, t, x).e OBVIOUS
<1>3. g \in Engines /\ g.st = x[3]
  <2>1. Run(e, t, x).e \in Engines BY RunIs
  <2>2. g = [e EXCEPT !.st = x[3]] BY <1>2 DEF Run, Result
  <2> QED BY <1>1, <1>2, <2>1, <2>2 DEF Engines
<1>4. PICK h, o : /\ o = Run(e, t, x).out
                  /\ h = [g EXCEPT !.hold = TRUE, !.raw = <<t>>, !.name = <<>>, !.events = o, !.prior = e.st]
  OBVIOUS
<1>5. q = Result(h, <<>>) BY <1>2, <1>4 DEF Begin
<1>6. q.e = h /\ q.out = <<>> BY <1>5 DEF Result
<1>7. h.hold = TRUE /\ h.name = <<>> /\ h.events = o /\ h.st = "TOOL_NAME"
  <2>1. x[3] = "TOOL_NAME" BY <1>1, NamedRow
  <2> QED BY <1>3, <1>4, <2>1 DEF Engines
<1>8. PICK a, b : a = <<"reasoning_end", t>> /\ b = <<"start", t>> OBVIOUS
<1>9. o = <<b>> \/ o = <<a, b>>
  <2>1. e.st \in {"CONTENT", "REASONING"} BY DEF Provisional
  <2>2. x[4] = <<"start">> \/ x[4] = <<"reasoning_end", "start">>
    <3>1. \A y \in Table : y[2] = "INVOKE_PREFIX" => y[4] = <<"start">> \/ y[4] = <<"reasoning_end", "start">>
      BY DEF Table
    <3> QED BY <1>1, <3>1
  <2>3. o = [i \in DOMAIN x[4] |-> <<x[4][i], t>>] BY <1>4 DEF Run, Result
  <2>4. CASE x[4] = <<"start">> BY <1>8, <2>3, <2>4
  <2>5. CASE x[4] = <<"reasoning_end", "start">> BY <1>8, <2>3, <2>5
  <2> QED BY <2>2, <2>4, <2>5
<1>10. Part(o, <<>>, FALSE)
  <2>1. a \in Events /\ b \in Events BY <1>1, <1>8 DEF Events, Kinds
  <2>2. PICK n \in Seq(Events) : n = <<>> BY EmptySeq
  <2>3. PICK m \in Seq(Events) : (m = n \/ m = Append(n, a)) /\ o = Append(m, b)
    <3>1. CASE o = <<b>>
      <4>1. Append(<<>>, b) = <<b>> OBVIOUS
      <4>2. o = Append(n, b) BY <2>2, <3>1, <4>1
      <4> QED BY <4>2
    <3>2. CASE o = <<a, b>>
      <4>1. PICK m \in Seq(Events) : m = Append(n, a) BY <2>1, AppendProperties
      <4>2. m = <<a>> BY <2>2, <4>1
      <4>3. o = Append(m, b)
        <5>1. PICK c : c = <<b>> OBVIOUS
        <5>2. m \o c = o BY <3>2, <4>2, <5>1, TwoConcat
        <5> QED BY <5>1, <5>2, AppendIsConcat
      <4> QED BY <4>1, <4>3
    <3> QED BY <1>9, <3>1, <3>2
  <2>4. \A k : OfKind(k, n) = <<>> BY <2>2, OnlyEmpty DEF OfKind
  <2>5. ASSUME NEW k, k # "reasoning_end" PROVE OfKind(k, m) = <<>>
    <3>1. CASE m = n BY <2>4, <3>1
    <3>2. CASE m = Append(n, a)
      <4>1. a[1] # k BY <1>8, <2>5
      <4>2. OfKind(k, Append(n, a)) = OfKind(k, n) BY <2>1, <4>1, OfKindAppend
      <4> QED BY <2>4, <3>2, <4>2
    <3> QED BY <2>3, <3>1, <3>2
  <2>6. b[1] = "start" BY <1>8
  <2>7. OfKind("start", o) = Append(OfKind("start", m), b)
    <3>1. OfKind("start", Append(m, b)) = Append(OfKind("start", m), b) BY <2>1, <2>6, OfKindAppend
    <3> QED BY <2>3, <3>1
  <2>8. ASSUME NEW k, k # "start" PROVE OfKind(k, o) = OfKind(k, m)
    <3>1. OfKind(k, Append(m, b)) = OfKind(k, m) BY <2>1, <2>6, <2>8, OfKindAppend
    <3> QED BY <2>3, <3>1
  <2>9. OfKind("start", o) = <<b>>
    <3>1. OfKind("start", m) = <<>> BY <2>5
    <3>2. Append(<<>>, b) = <<b>> OBVIOUS
    <3> QED BY <2>7, <3>1, <3>2
  <2>10. OfKind("end", o) = <<>> /\ OfKind("name", o) = <<>> BY <2>5, <2>8
  <2>11. As("name", <<>>) = <<>> BY DEF As
  <2>12. o \in Seq(Events) BY <2>1, <2>3, AppendProperties
  <2>13. Len(<<b>>) = 1 OBVIOUS
  <2> QED BY <2>9, <2>10, <2>11, <2>12, <2>13 DEF Part
<1>11. Calls(<<>>) BY EmptySeq, AsideCalls
<1> QED BY <1>6, <1>7, <1>10, <1>11 DEF CallKept, CallOK, Outside

LEMMA ApplyCalls ==
    ASSUME NEW e, EngineOK(e), ~ e.hold, NEW t \in Terminals, ~ Provisional(e.st, t),
           NEW x \in Table, x[1] = e.st, x[2] = t, NEW q, q = Apply(e, t, x)
    PROVE  CallKept(e, t, q)
<1>1. e \in Engines /\ e.hold = FALSE /\ e.st \in States /\ t \in Carried
  BY EngineTypes, TerminalSilent
<1>2. PICK b \in BOOLEAN : b = (e.closer /\ ~ (e.st = "CONTENT" /\ x[3] \in ToolStates)) OBVIOUS
<1>3. PICK c : c = [e EXCEPT !.closer = b] OBVIOUS
<1>4. c \in Engines /\ c.hold = FALSE BY <1>1, <1>3 DEF Engines
<1>5. Apply(e, t, x) = Run(c, t, x) BY <1>1, <1>2, <1>3 DEF Apply, Engines
<1>6. q.e = [c EXCEPT !.st = x[3]] /\ q.out = [i \in DOMAIN x[4] |-> <<x[4][i], t>>] BY <1>5 DEF Run, Result
<1>7. q.e.hold = FALSE /\ q.e.st = x[3] BY <1>4, <1>6 DEF Engines
<1>8. ASSUME Outside(e), t # "TOOL_START" PROVE Outside(q.e) /\ Calls(q.out)
  <2>1. x[1] \in {"CONTENT", "REASONING", "FOREIGN_BLOCK", "FOREIGN_REASONING_BLOCK"}
    BY <1>1, <1>8 DEF Outside, States
  <2>2. /\ x[3] \notin ToolStates
        /\ x[4] \in {<<>>, <<"content">>, <<"reasoning">>, <<"reasoning_end">>}
    <3>1. ~ (x[1] \in {"CONTENT", "REASONING"} /\ x[2] = "INVOKE_PREFIX") BY DEF Provisional
    <3>2. \A y \in Table :
            /\ y[1] \in {"CONTENT", "REASONING", "FOREIGN_BLOCK", "FOREIGN_REASONING_BLOCK"}
            /\ y[2] # "TOOL_START" /\ ~ (y[1] \in {"CONTENT", "REASONING"} /\ y[2] = "INVOKE_PREFIX")
            => /\ y[3] \notin ToolStates
               /\ y[4] \in {<<>>, <<"content">>, <<"reasoning">>, <<"reasoning_end">>}
      BY DEF Table, ToolStates
    <3> QED BY <1>8, <2>1, <3>1, <3>2
  <2>3. q.out \in Seq(Aside)
    <3>1. PICK w : w = x[4] OBVIOUS
    <3>2. q.out = [i \in DOMAIN w |-> <<w[i], t>>] BY <1>6, <3>1
    <3>3. \A k \in {"content", "reasoning", "reasoning_end"} : <<k, t>> \in Aside BY <1>1 DEF Aside
    <3>4. CASE w = <<>>
      <4>1. q.out = <<>> BY <3>2, <3>4
      <4> QED BY <4>1, EmptySeq
    <3>5. CASE w \in {<<"content">>, <<"reasoning">>, <<"reasoning_end">>}
      <4>1. PICK k \in {"content", "reasoning", "reasoning_end"} : w = <<k>> BY <3>5
      <4>2. q.out = <<<<k, t>>>> BY <3>2, <4>1
      <4> QED BY <3>3, <4>1, <4>2
    <3> QED BY <2>2, <3>1, <3>4, <3>5
  <2>4. Calls(q.out) BY <2>3, AsideCalls
  <2> QED BY <1>7, <2>2, <2>4 DEF Outside
<1> QED BY <1>7, <1>8 DEF CallKept, CallOK

LEMMA ResultIs == ASSUME NEW e, NEW o, NEW q, q = Result(e, o) PROVE q.e = e /\ q.out = o
BY DEF Result

PlainAdvance(e, t, x) == Advance(e, t, x, FALSE)

LEMMA AdvanceCalls ==
    ASSUME NEW e, EngineOK(e), CallOK(e), e.hold, NEW t \in Terminals, NEW x \in Table, x[1] = e.st, x[2] = t,
           NEW q, q = PlainAdvance(e, t, x)
    PROVE  CallKept(e, t, q)
<1>1. e \in Engines /\ e.raw \in Seq(Lexes) /\ e.name \in Seq(Lexes) /\ e.events \in Seq(Events) /\ t \in Lexes
  BY EngineTypes, TerminalSilent
<1>2. Part(e.events, e.name, FALSE) /\ (e.st = "TOOL_ARGS" => Known(e)) BY DEF CallOK
<1>3. CASE e.st = "TOOL_NAME" /\ Known(e)
  <2>1. PICK g, o : g = Run(e, t, x).e /\ o = Run(e, t, x).out OBVIOUS
  <2>2. g \in Engines /\ g.hold = e.hold /\ g.name = e.name /\ g.events = e.events
    <3>1. Run(e, t, x).e \in Engines BY RunIs
    <3>2. g = [e EXCEPT !.st = x[3]] BY <2>1 DEF Run, Result
    <3> QED BY <1>1, <2>1, <3>1, <3>2 DEF Engines
  <2>3. e.events \o o = e.events
    <3>1. x[4] = <<>> BY <1>3, NamedRow
    <3>2. o = <<>> BY <2>1, <3>1 DEF Run, Result
    <3> QED BY <1>1, <3>2, ConcatEmptySeq
  <2>4. PICK h : h = [g EXCEPT !.raw = Append(@, t), !.events = @ \o o] OBVIOUS
  <2>5. q = Result(h, <<>>) BY <1>3, <2>1, <2>4 DEF PlainAdvance, Advance
  <2>6. q.e = h /\ q.out = <<>> BY <2>5 DEF Result
  <2>7. h.hold = e.hold /\ h.name = e.name /\ h.events = e.events BY <2>2, <2>3, <2>4 DEF Engines
  <2>8. Known(h) BY <1>3, <2>7 DEF Known
  <2>9. Calls(<<>>) BY EmptySeq, AsideCalls
  <2> QED BY <1>2, <2>6, <2>7, <2>8, <2>9 DEF CallKept, CallOK, Outside
<1>4. CASE ~ (e.st = "TOOL_NAME" /\ Known(e)) /\ e.st = "TOOL_ARGS" /\ Commits(t)
  <2>1. q = Commit(e, t, x, FALSE) BY <1>4 DEF PlainAdvance, Advance
  <2>2. PICK o : o = Run(e, t, x).out OBVIOUS
  <2>3. q.e = Committed(e) /\ q.out = e.events \o o
    <3>1. PICK c, v : c = Committed(e) /\ v = e.events \o o OBVIOUS
    <3>2. q = Result(c, v) BY <2>1, <2>2, <3>1 DEF Commit
    <3>3. q.e = c /\ q.out = v BY <3>2, ResultIs
    <3> QED BY <3>1, <3>3
  <2>4. q.e.hold = FALSE /\ q.e.st = "CONTENT" BY <2>3 DEF Committed, Fresh
  <2>5. PICK y : y = <<"end", t>> OBVIOUS
  <2>6. o = <<y>>
    <3>1. x[4] = <<"end">> BY <1>4, NamedRow
    <3> QED BY <2>2, <2>5, <3>1 DEF Run, Result
  <2>7. PICK f \in Seq(Events) : f = e.events BY <1>1
  <2>8. q.out = Append(f, y) BY <2>3, <2>6, <2>7, AppendIsConcat
  <2>9. declared /\ e.name = <<ToolName>> BY <1>2, <1>4 DEF Known
  <2>10. Part(Append(f, y), e.name, TRUE) BY <1>1, <1>2, <2>5, <2>7, PartMore
  <2>11. Calls(q.out) BY <2>8, <2>9, <2>10, PartWhole
  <2>12. "CONTENT" \notin ToolStates BY DEF ToolStates
  <2> QED BY <2>4, <2>11, <2>12 DEF CallKept, CallOK, Outside
<1>5. CASE ~ (e.st = "TOOL_NAME" /\ Known(e)) /\ ~ (e.st = "TOOL_ARGS" /\ Commits(t))
  <2>1. q = Abort(Longer(e, t)) BY <1>5 DEF PlainAdvance, Advance, Longer
  <2>2. PICK a : a = Longer(e, t) OBVIOUS
  <2>3. a \in Engines /\ a.prior = e.prior
    <3>1. Append(e.raw, t) \in Seq(Lexes) BY <1>1, AppendProperties
    <3> QED BY <1>1, <2>2, <3>1 DEF Longer, Engines
  <2>4. a.prior \in {"CONTENT", "REASONING"} BY <2>3 DEF EngineOK
  <2> QED BY <2>1, <2>2, <2>3, <2>4, AbortCalls
<1> QED BY <1>3, <1>4, <1>5

PlainUnheld(e, t) == Unheld(e, t, FALSE)

LEMMA UnheldCalls ==
    ASSUME NEW e, EngineOK(e), CallOK(e), NEW t \in Terminals, NEW q, q = PlainUnheld(e, t)
    PROVE  CallKept(e, t, q)
<1>1. e \in Engines /\ e.st \in States /\ t \in Lexes BY EngineTypes, TerminalSilent
<1>2. CASE e.closer /\ e.st = "CONTENT" /\ t \in ToolExits
  <2>1. q = Result([e EXCEPT !.closer = FALSE], <<>>) BY <1>2 DEF PlainUnheld, Unheld
  <2>2. /\ q.e.hold = e.hold /\ q.e.st = e.st /\ q.e.name = e.name /\ q.e.events = e.events
        /\ q.out = <<>>
    BY <1>1, <2>1 DEF Result, Engines
  <2>3. Known(q.e) <=> Known(e) BY <2>2 DEF Known
  <2>4. Calls(<<>>) BY EmptySeq, AsideCalls
  <2> QED BY <2>2, <2>3, <2>4 DEF CallKept, CallOK, Outside
<1>3. CASE ~ (e.closer /\ e.st = "CONTENT" /\ t \in ToolExits) /\ Transitions[e.st][t] = {}
  <2>1. q = Text(e, t) BY <1>3 DEF PlainUnheld, Unheld
  <2>2. PICK l \in Lexes : l = t BY <1>1
  <2>3. q = Text(e, l) BY <2>1, <2>2
  <2> QED BY <2>2, <2>3, TextCalls
<1>4. CASE ~ (e.closer /\ e.st = "CONTENT" /\ t \in ToolExits) /\ Transitions[e.st][t] # {}
  <2>1. PICK x : x = RowOf(e, t) OBVIOUS
  <2>2. x \in Table /\ x[1] = e.st /\ x[2] = t
    <3>1. x \in Transitions[e.st][t] BY <1>4, <2>1 DEF RowOf
    <3> QED BY <1>1, <3>1, RowFor
  <2>3. q = Meaningful(e, t, x, FALSE) BY <1>4, <2>1 DEF PlainUnheld, Unheld, RowOf
  <2>4. CASE e.hold
    <3>1. q = PlainAdvance(e, t, x) BY <2>3, <2>4 DEF Meaningful, PlainAdvance
    <3> QED BY <2>2, <2>4, <3>1, AdvanceCalls
  <2>5. CASE ~ e.hold /\ Provisional(e.st, t)
    <3>1. q = Begin(e, t, x) BY <2>3, <2>5 DEF Meaningful
    <3> QED BY <2>2, <2>5, <3>1, BeginCalls
  <2>6. CASE ~ e.hold /\ ~ Provisional(e.st, t)
    <3>1. q = Apply(e, t, x) BY <2>3, <2>6 DEF Meaningful
    <3> QED BY <2>2, <2>6, <3>1, ApplyCalls
  <2> QED BY <2>4, <2>5, <2>6
<1> QED BY <1>2, <1>3, <1>4

LEMMA TakeCalls ==
    ASSUME NEW e, EngineOK(e), CallOK(e), NEW l \in Lexes, NEW q, q = Plain(e, l)
    PROVE  CallKept(e, l, q)
<1>1. e \in Engines BY EngineTypes
<1>2. CASE l \in Texts
  <2>1. q = Text(e, l) BY <1>2 DEF Plain, Take
  <2> QED BY <2>1, TextCalls
<1>3. CASE l \notin Texts
  <2>1. l \in Terminals BY <1>3 DEF Lexes
  <2>2. q = OnTerminal(e, l, FALSE) BY <1>3 DEF Plain, Take
  <2>3. CASE ~ (e.hold /\ e.st = "TOOL_NAME" /\ Transitions[e.st][l] = {})
    <3>1. q = PlainUnheld(e, l) BY <2>2, <2>3 DEF OnTerminal, PlainUnheld
    <3> QED BY <2>1, <3>1, UnheldCalls
  <2>4. CASE e.hold /\ e.st = "TOOL_NAME" /\ Transitions[e.st][l] = {}
    <3>1. PICK a : a = Abort(e) OBVIOUS
    <3>2. PICK b : b = PlainUnheld(a.e, l) OBVIOUS
    <3>3. q = Result(b.e, a.out \o b.out) BY <2>2, <2>4, <3>1, <3>2 DEF OnTerminal, PlainUnheld
    <3>4. q.e = b.e /\ q.out = a.out \o b.out
      <4>1. PICK c, v : c = b.e /\ v = a.out \o b.out OBVIOUS
      <4>2. q = Result(c, v) BY <3>3, <4>1
      <4>3. q.e = c /\ q.out = v BY <4>2, ResultIs
      <4> QED BY <4>1, <4>3
    <3>5. EngineOK(a.e) /\ a.e.hold = FALSE BY <1>1, <3>1, AbortIs
    <3>6. CallKept(e, "", a)
      <4>1. e.prior \in {"CONTENT", "REASONING"} BY <2>4 DEF EngineOK
      <4>2. PICK n : n = "" OBVIOUS
      <4>3. CallKept(e, n, a) BY <1>1, <3>1, <4>1, AbortCalls
      <4> QED BY <4>2, <4>3
    <3>7. CallOK(a.e) BY <3>6 DEF CallKept
    <3>8. CallKept(a.e, l, b) BY <2>1, <3>2, <3>5, <3>7, UnheldCalls
    <3>9. ASSUME Outside(e), l # "TOOL_START" PROVE Outside(q.e) /\ Calls(q.out)
      <4>1. Outside(a.e) /\ Calls(a.out) BY <3>6, <3>9 DEF CallKept
      <4>2. Outside(b.e) /\ Calls(b.out) BY <3>8, <3>9, <4>1 DEF CallKept
      <4>3. Calls(a.out \o b.out) BY <4>1, <4>2, CallsConcat
      <4> QED BY <3>4, <4>2, <4>3
    <3> QED BY <3>4, <3>8, <3>9 DEF CallKept
  <2> QED BY <2>3, <2>4
<1> QED BY <1>2, <1>3

Bare(ls) == \A i \in DOMAIN ls : ls[i] # "TOOL_START"

Counted(e, ls, r) ==
    /\ CallOK(r.e)
    /\ Outside(e) /\ Bare(ls) => Outside(r.e) /\ Calls(r.out)

LEMMA FeedCalls ==
    ASSUME NEW e, EngineOK(e), CallOK(e)
    PROVE  \A ls \in Seq(Lexes) : Counted(e, ls, PlainFeed(e, ls))
<1>0. PICK no \in BOOLEAN : no = FALSE OBVIOUS
<1> DEFINE P == {ls \in Seq(Lexes) : Counted(e, ls, Feed(e, ls, no))}
<1>1. <<>> \in P
  <2>1. PICK p : p = Result(e, <<>>) OBVIOUS
  <2>2. Feed(e, <<>>, no) = p BY <2>1, FeedEmpty
  <2>3. p.e = e /\ p.out = <<>> BY <2>1 DEF Result
  <2>4. Calls(<<>>) BY EmptySeq, AsideCalls
  <2>5. Counted(e, <<>>, p) BY <2>3, <2>4 DEF Counted
  <2> QED BY <2>2, <2>5, EmptySeq
<1>2. ASSUME NEW ls \in Seq(Lexes), NEW l \in Lexes, ls \in P PROVE Append(ls, l) \in P
  <2>1. PICK p : p = Feed(e, ls, no) OBVIOUS
  <2>2. PICK q : q = Plain(p.e, l) OBVIOUS
  <2>3. PICK r : r = Result(q.e, p.out \o q.out) OBVIOUS
  <2>4. Feed(e, Append(ls, l), no) = r
    <3>1. Feed(e, Append(ls, l), no) = Result(Take(p.e, l, no).e, p.out \o Take(p.e, l, no).out)
      BY <2>1, FeedAppend
    <3>2. Take(p.e, l, no) = q BY <1>0, <2>2 DEF Plain
    <3> QED BY <2>3, <3>1, <3>2
  <2>5. Counted(e, ls, p) BY <1>2, <2>1
  <2>6. EngineOK(p.e)
    <3>1. Yields(e, ls, p) BY <2>1, FeedYields
    <3> QED BY <3>1 DEF Yields
  <2>7. CallKept(p.e, l, q)
    <3>1. CallOK(p.e) BY <2>5 DEF Counted
    <3> QED BY <2>2, <2>6, <3>1, TakeCalls
  <2>8. r.e = q.e /\ r.out = p.out \o q.out BY <2>3 DEF Result
  <2>9. ASSUME Outside(e), Bare(Append(ls, l)) PROVE Outside(r.e) /\ Calls(r.out)
    <3>1. Bare(ls) /\ l # "TOOL_START"
      <4>1. PICK m : m = Append(ls, l) OBVIOUS
      <4>2. /\ DOMAIN ls = 1 .. Len(ls) /\ DOMAIN m = 1 .. Len(ls) + 1 /\ Len(ls) \in Nat
            /\ \A i \in 1 .. Len(ls) : m[i] = ls[i]
            /\ m[Len(ls) + 1] = l
        BY <4>1, LenProperties, AppendProperties
      <4>3. \A i \in DOMAIN m : m[i] # "TOOL_START" BY <2>9, <4>1 DEF Bare
      <4>4. \A i \in DOMAIN ls : i \in DOMAIN m /\ m[i] = ls[i] BY <4>2
      <4>5. Len(ls) + 1 \in DOMAIN m BY <4>2
      <4> QED BY <4>2, <4>3, <4>4, <4>5 DEF Bare
    <3>2. Outside(p.e) /\ Calls(p.out) BY <2>5, <2>9, <3>1 DEF Counted
    <3>3. Outside(q.e) /\ Calls(q.out) BY <2>7, <3>1, <3>2 DEF CallKept
    <3>4. Calls(p.out \o q.out) BY <3>2, <3>3, CallsConcat
    <3> QED BY <2>8, <3>3, <3>4
  <2>10. CallOK(r.e) BY <2>7, <2>8 DEF CallKept
  <2>11. Counted(e, Append(ls, l), r) BY <2>9, <2>10 DEF Counted
  <2> QED BY <2>4, <2>11, AppendProperties
<1>3. Seq(Lexes) \subseteq P
  <2> HIDE DEF P
  <2> QED BY <1>1, <1>2, BySteps
<1> SUFFICES ASSUME NEW ls \in Seq(Lexes) PROVE Counted(e, ls, PlainFeed(e, ls)) OBVIOUS
<1>4. Counted(e, ls, Feed(e, ls, no)) BY <1>3
<1>5. Feed(e, ls, no) = PlainFeed(e, ls) BY <1>0 DEF PlainFeed
<1> QED BY <1>4, <1>5


\* Names and calls in the events, without wrappers, as the single machine has them.
Called ==
    /\ CallOK(whole)
    /\ wrapped \/ Outside(whole)
    /\ wrapped \/ Calls(ref)

LEMMA CalledInit == ParserInit => Called
<1> SUFFICES ASSUME ParserInit PROVE Called OBVIOUS
<1>1. whole = Fresh("REASONING") /\ ref = <<>> BY DEF ParserInit
<1>2. whole.hold = FALSE /\ whole.st = "REASONING" BY <1>1 DEF Fresh
<1>3. Calls(<<>>) BY EmptySeq, AsideCalls
<1>4. "REASONING" \notin ToolStates BY DEF ToolStates
<1> QED BY <1>1, <1>2, <1>3, <1>4 DEF Called, CallOK, Outside

LEMMA FinishCalls ==
    ASSUME NEW e, EngineOK(e), NEW f, f = FinishEngine(e)
    PROVE  CallOK(f.e) /\ Outside(f.e) /\ (Outside(e) => Calls(f.out))
<1>1. e \in Engines /\ e.st \in States BY EngineTypes
<1>2. PICK a : a = GivenUp(e) OBVIOUS
<1>3. a.e \in Engines /\ a.e.hold = FALSE /\ (Outside(e) => a.e.st \notin ToolStates /\ Calls(a.out))
  <2>1. CASE e.hold
    <3>1. a = Abort(e) BY <1>2, <2>1 DEF GivenUp
    <3>2. EngineOK(a.e) /\ a.e.hold = FALSE BY <1>1, <3>1, AbortIs
    <3>3. e.prior \in {"CONTENT", "REASONING"} BY <2>1 DEF EngineOK
    <3>4. PICK n : n = "" OBVIOUS
    <3>5. CallKept(e, n, a) BY <1>1, <3>1, <3>3, AbortCalls
    <3>6. Outside(e) => Outside(a.e) /\ Calls(a.out) BY <3>4, <3>5 DEF CallKept
    <3> QED BY <3>2, <3>6, EngineTypes DEF Outside
  <2>2. CASE ~ e.hold
    <3>1. a.e = e /\ a.out = <<>> BY <1>2, <2>2 DEF GivenUp, Result
    <3>2. Calls(<<>>) BY EmptySeq, AsideCalls
    <3> QED BY <1>1, <2>2, <3>1, <3>2 DEF Outside, Engines
  <2> QED BY <2>1, <2>2
<1>4. f.e = [a.e EXCEPT !.st = "CONTENT"] /\ f.out = a.out \o LastOf(a.e.st) BY <1>2, FinishIs
<1>5. f.e.hold = FALSE /\ f.e.st = "CONTENT" BY <1>3, <1>4 DEF Engines
<1>6. "CONTENT" \notin ToolStates BY DEF ToolStates
<1>7. ASSUME Outside(e) PROVE Calls(f.out)
  <2>1. PICK v : v = LastOf(a.e.st) OBVIOUS
  <2>2. PICK y : y = <<"reasoning_end", "">> OBVIOUS
  <2>3. v = <<>> \/ v = <<y>>
    <3>1. a.e.st \notin {"TOOL_NAME", "TOOL_ARGS"} BY <1>3, <1>7 DEF ToolStates
    <3> QED BY <2>1, <2>2, <3>1 DEF LastOf
  <2>4. v \in Seq(Aside)
    <3>1. y \in Aside BY <2>2 DEF Aside, Carried
    <3>2. <<y>> \in Seq(Aside) BY <3>1
    <3>3. <<>> \in Seq(Aside) BY EmptySeq
    <3> QED BY <2>3, <3>2, <3>3
  <2>5. Calls(v) BY <2>4, AsideCalls
  <2> QED BY <1>3, <1>4, <1>7, <2>1, <2>5, CallsConcat
<1> QED BY <1>5, <1>6, <1>7 DEF CallOK, Outside

\* What is said of calls depends on the request, not on the moment.
LEMMA CallsLater ==
    ASSUME declared' = declared
    PROVE  (\A e : CallOK(e)' <=> CallOK(e)) /\ (\A evs : Calls(evs)' <=> Calls(evs))
<1>1. ASSUME NEW e PROVE CallOK(e)' <=> CallOK(e) BY DEF CallOK, Known
<1>2. Names' = Names BY DEF Names
<1>3. ASSUME NEW evs PROVE Calls(evs)' <=> Calls(evs) BY <1>2 DEF Calls
<1> QED BY <1>1, <1>3

LEMMA CalledFrom ==
    ASSUME declared' = declared, NEW e, CallOK(e), whole' = e, NEW o, ref' = o,
           wrapped' \/ (Outside(e) /\ Calls(o))
    PROVE  Called'
<1>1. CallOK(e)' BY CallsLater
<1>2. CallOK(whole)' BY <1>1 DEF CallOK, Known
<1>3. Calls(o) => Calls(o)' BY CallsLater
<1>4. Calls(o) => Calls(ref)' BY <1>3 DEF Calls
<1>5. Outside(e) => Outside(whole)' BY DEF Outside
<1> QED BY <1>2, <1>4, <1>5 DEF Called

LEMMA CalledNext == ParserInv /\ Called /\ [ParserNext]_parserVars => Called'
<1> SUFFICES ASSUME ParserInv, Called, [ParserNext]_parserVars PROVE Called' OBVIOUS
<1>1. EngineOK(whole) /\ CallOK(whole) BY DEF ParserInv, ParserTypes, Called
<1>2. CASE Finish
  <2>1. PICK f : f = FinishEngine(whole) OBVIOUS
  <2>2. whole' = f.e /\ ref' = f.out /\ wrapped' = wrapped /\ declared' = declared
    BY <1>2, <2>1 DEF Finish
  <2>3. CallOK(f.e) /\ Outside(f.e) /\ (Outside(whole) => Calls(f.out)) BY <1>1, <2>1, FinishCalls
  <2>4. wrapped' \/ (Outside(f.e) /\ Calls(f.out)) BY <2>2, <2>3 DEF Called
  <2>5. PICK e, o : e = f.e /\ o = f.out OBVIOUS
  <2> QED BY <2>2, <2>3, <2>4, <2>5, CalledFrom
<1>3. ASSUME NEW d \in Deltas, Delta(d) PROVE Called'
  <2>1. PICK w : w = PlainFeed(whole, d) OBVIOUS
  <2>2. /\ whole' = w.e /\ ref' = w.out /\ declared' = declared
        /\ wrapped' = ((\E i \in DOMAIN d : d[i] = "TOOL_START")
                         \/ (wrapped /\ ~ whole.hold /\ whole.st \in ToolStates))
    BY <1>3, <2>1 DEF Delta, PlainFeed
  <2>3. d \in Seq(Lexes) BY ParserAssumption DEF Lexes
  <2>4. Counted(whole, d, w)
    <3>1. PICK e : e = whole OBVIOUS
    <3>2. Counted(e, d, PlainFeed(e, d)) BY <1>1, <2>3, <3>1, FeedCalls
    <3> QED BY <2>1, <3>1, <3>2
  <2>5. ASSUME ~ wrapped' PROVE Outside(w.e) /\ Calls(w.out)
    <3>1. Bare(d) BY <2>2, <2>5 DEF Bare
    <3>2. Outside(whole) BY <2>2, <2>5 DEF Called, Outside
    <3> QED BY <2>4, <3>1, <3>2 DEF Counted
  <2>6. CallOK(w.e) BY <2>4 DEF Counted
  <2>7. PICK e, o : e = w.e /\ o = w.out OBVIOUS
  <2> QED BY <2>2, <2>5, <2>6, <2>7, CalledFrom
<1>4. CASE UNCHANGED parserVars
  <2>1. declared' = declared /\ whole' = whole /\ ref' = ref /\ wrapped' = wrapped BY <1>4 DEF parserVars
  <2>2. PICK e, o : e = whole /\ o = ref OBVIOUS
  <2>3. wrapped' \/ (Outside(e) /\ Calls(o)) BY <2>1, <2>2 DEF Called
  <2> QED BY <1>1, <2>1, <2>2, <2>3, CalledFrom
<1> QED BY <1>2, <1>3, <1>4 DEF ParserNext

LEMMA CallsTold ==
    ASSUME NEW evs, Calls(evs)
    PROVE  CallsWhole(evs)
<1>1. PICK S : S = {"name"} \X Carried OBVIOUS
<1>2. evs \in Seq(Events) /\ Only(evs, S) \in Seq(Names) BY <1>1 DEF Calls, OfKind
<1>3. ASSUME NEW i \in DOMAIN evs, evs[i][1] = "name" PROVE evs[i] \in Names
  <2>1. evs[i] \in Events BY <1>2, ElementOfSeq, LenProperties
  <2>2. PICK k \in Kinds, v \in Carried : evs[i] = <<k, v>> BY <2>1 DEF Events
  <2>3. evs[i] \in S BY <1>1, <1>3, <2>2
  <2> QED BY <1>2, <2>3, OnlyTells
<1>4. HasKind("name", evs) => declared BY <1>3 DEF HasKind, Names
<1>5. ASSUME NEW i \in DOMAIN evs, evs[i][1] = "name" PROVE evs[i][2] = ToolName
  <2>1. evs[i] \in {<<"name", ToolName>>} BY <1>3, <1>5 DEF Names
  <2> QED BY <2>1
<1> QED BY <1>4, <1>5 DEF CallsWhole, Calls

LEMMA CalledShows == ParserInv /\ Alike /\ Called => OnlyDeclared
<1> SUFFICES ASSUME ParserInv, Alike, Called, ~ wrapped PROVE CallsWhole(out) BY DEF OnlyDeclared
<1>1. out \in Seq(Events) /\ ref \in Seq(Events) /\ Same(out, ref) /\ Calls(ref)
  BY DEF ParserInv, ParserTypes, Alike, Called
<1>2. ASSUME NEW k \in {"name", "start", "end"} PROVE OfKind(k, out) = OfKind(k, ref)
  <2>1. k \in Kinds \ {"reasoning_end"} BY DEF Kinds
  <2> QED BY <1>1, <2>1, SameShown
<1>3. Calls(out) BY <1>1, <1>2 DEF Calls
<1> QED BY <1>3, CallsTold

LEMMA CalledAlways == ParserSpec => []Called
<1> QED BY CalledInit, CalledNext, ParserInvariant, PTL DEF ParserSpec

\* Under the same condition, a call that the events tell of although no wrapper was
\* opened is complete, and of a tool the request declares: text that only looks
\* like the beginning of a call, in any deltas, never becomes an event of a call.
THEOREM CallsAreDeclared == ParserSpec /\ [][TidyTurn]_parserVars => []OnlyDeclared
<1> QED BY AlikeAlways, CalledAlways, CalledShows, ParserInvariant, PTL

=============================================================================
