-------------------------- MODULE AsyncRunnerProofs --------------------------
(***************************************************************************)
(* Proofs about asynchronous scheduling with speculative decoding, for any *)
(* number of requests, any prompts, drafts and lengths, with at most two   *)
(* steps in flight and rows forgotten with their requests: the step the    *)
(* model runs is the true one (StepTrue), the deferred correction leaves   *)
(* the count of the GPU on the CPU (CountsAgree), and a request that has   *)
(* no step in flight is counted exactly (Settled).                         *)
(*                                                                         *)
(* All three rest on one inductive invariant.  It says, request by request,*)
(* what the scheduler has counted for the steps in flight (CountOf), what  *)
(* the runner keeps of the last step (BatchOK), and how each scheduler     *)
(* output follows the one before it (HeadOK, Follows), which is all the    *)
(* runner needs to know of a request, even of one that was aborted.        *)
(***************************************************************************)
EXTENDS AsyncRunner, FiniteSetTheorems, SequenceTheorems, TLAPS

\* The depth of the engine's batch queue, and the runner as it is.
TwoSteps == Depth <= 2 /\ Forgets

-----------------------------------------------------------------------------
(* What a scheduler output says of one request *)

Added == {"new", "resumed"}

EntryType == [kind : {"none", "new", "resumed", "running"}, n : Nat, spec : Nat,
              from : Nat, outs : Nat, all : Int]

\* The step samples, is one decoding step, or is part of the prompt.
Samples(e, r) == e.from + e.n >= Prompt[r] + e.outs
Decode(e, r) == e.from = Prompt[r] + e.outs - 1 /\ e.spec = e.n - 1
Part(e, r) == e.from + e.n <= Prompt[r] + e.outs /\ e.spec = 0

EntryOK(e, r) ==
    /\ e.n = 0 => e = NoEntry
    /\ e.n > 0 => /\ e.kind # "none"
                  /\ Decode(e, r) \/ Part(e, r)
                  /\ e.from + e.n < ModelLen /\ e.spec <= SpecTokens
    /\ e.kind = "new" => e.outs = 0 /\ e.all = -1
    /\ e.kind = "resumed" => e.all = e.outs
    /\ e.kind \in Added => Part(e, r)

\* Placeholders the scheduler holds for the entry.
Held(e, r) == IF e.n > 0 /\ Samples(e, r) THEN 1 + e.spec ELSE 0

\* e is for a request that is not in the batch and has t tokens, k computed.
Fresh(e, r, k, t) ==
    /\ Prompt[r] + e.outs = t
    /\ e.kind # "new" => e.all = e.outs
    /\ e.kind = "running" => e.from = k

\* q is right after e, which starts at k, and takes e's drafts for accepted.
Follows(q, e, r, k, t) ==
    q.n > 0 => IF e.n > 0
               THEN /\ q.kind = "running" /\ q.from = k + e.n
                    /\ IF Samples(e, r) THEN Decode(q, r) ELSE q.outs = e.outs
               ELSE Fresh(q, r, k, t)

Begins(e, k) == IF e.kind \in Added THEN e.from ELSE k

\* Entry of r in the i-th output of s, the tokens generated for it and the
\* drafts rejected.
At(s, i, r) == IF i \in 1 .. Len(s) THEN s[i].req[r] ELSE NoEntry
Gen(x, r) == IF x.req[r].n > 0 THEN x.counts[x.row[r]] ELSE 0
GenAt(s, i, r) == IF i \in 1 .. Len(s) THEN Gen(s[i], r) ELSE 0
Loss(s, i, r) == IF GenAt(s, i, r) > 0 THEN At(s, i, r).spec + 1 - GenAt(s, i, r) ELSE 0

-----------------------------------------------------------------------------
(* The invariant *)

Tok == {Hole} \cup (Reqs \X Int)
OutputType == [req : [Reqs -> EntryType], gone : SUBSET Reqs]
ResultType == [req : [Reqs -> EntryType], row : [Reqs -> Nat], counts : Seq(Nat), proposed : BOOLEAN]

TypeOK ==
    /\ status \in [Reqs -> {"new", "waiting", "preempted", "running", "done"}]
    /\ outputs \in [Reqs -> Nat] /\ computed \in [Reqs -> Int]
    /\ holders \in [Reqs -> Int] /\ drafts \in [Reqs -> Nat]
    /\ chunk \subseteq Reqs /\ lastStep \subseteq Reqs /\ gone \subseteq Reqs
    /\ inbox \in Seq(OutputType) /\ results \in Seq(ResultType)
    /\ step # <<>> => step = <<step[1]>> /\ step[1].req \in [Reqs -> EntryType]
    /\ Len(inbox) + Len(step) + Len(results) <= 2
    /\ outs \in [Reqs -> Seq(Tok)] /\ drafted \in [Reqs -> Nat]
    /\ batch \subseteq Reqs /\ filled \in [Reqs -> Nat] /\ prevRow \in [Reqs -> Nat]
    /\ real \in [Reqs -> Nat] /\ kv \in [Reqs -> Nat]

SlotsOK == \A r \in Reqs :
    /\ EntryOK(At(results, 1, r), r) /\ EntryOK(At(results, 2, r), r)
    /\ EntryOK(At(step, 1, r), r)
    /\ EntryOK(At(inbox, 1, r), r) /\ EntryOK(At(inbox, 2, r), r)

ResultOK(e, g, r) == e.n > 0 => g \in 0 .. e.spec + 1 /\ (g > 0 <=> Samples(e, r))

ResultsOK == \A r \in Reqs :
    /\ ResultOK(At(results, 1, r), GenAt(results, 1, r), r)
    /\ ResultOK(At(results, 2, r), GenAt(results, 2, r), r)

\* A request that is gone is in no later step.
GoneOK ==
    /\ \A r \in gone : status[r] = "done"
    /\ \A j \in 1 .. Len(inbox) : \A r \in inbox[j].gone :
          status[r] = "done" /\ \A k \in j .. Len(inbox) : At(inbox, k, r).n = 0

\* Requests of the newest step, and whether it samples.
NewestOK ==
    /\ lastStep = IF inbox # <<>> THEN {r \in Reqs : At(inbox, Len(inbox), r).n > 0} ELSE batch
    /\ step # <<>> => batch = {r \in Reqs : At(step, 1, r).n > 0}

NewestSamples(r) ==
    IF inbox # <<>> THEN Samples(At(inbox, Len(inbox), r), r)
    ELSE IF step # <<>> THEN Samples(At(step, 1, r), r) ELSE prevRow[r] # 0

HeldSum(r) == Held(At(results, 1, r), r) + Held(At(results, 2, r), r) + Held(At(step, 1, r), r)
              + Held(At(inbox, 1, r), r) + Held(At(inbox, 2, r), r)

\* Where r is once the steps in flight are done, as the results known so far say.
Ahead(r) ==
    IF At(inbox, 1, r).kind \in Added
    THEN At(inbox, 1, r).from + At(inbox, 1, r).n + At(inbox, 2, r).n
    ELSE IF At(inbox, 2, r).kind \in Added THEN At(inbox, 2, r).from + At(inbox, 2, r).n
    ELSE kv[r] + At(step, 1, r).n + At(inbox, 1, r).n + At(inbox, 2, r).n
         + Loss(results, 1, r) + Loss(results, 2, r)

InNoStep(r) ==
    /\ At(results, 1, r).n = 0 /\ At(results, 2, r).n = 0 /\ At(step, 1, r).n = 0
    /\ At(inbox, 1, r).n = 0 /\ At(inbox, 2, r).n = 0

\* What the scheduler has counted for r.
CountOf(r) ==
    /\ status[r] \in {"new", "waiting"} =>
          /\ outputs[r] = 0 /\ holders[r] = 0 /\ computed[r] = 0 /\ drafts[r] = 0
          /\ real[r] = Prompt[r] /\ r \notin lastStep /\ InNoStep(r)
    /\ status[r] \in {"preempted", "running"} =>
          /\ holders[r] = HeldSum(r)
          /\ NumTokens(r) + GenAt(results, 1, r) + GenAt(results, 2, r) = real[r]
          /\ NumTokens(r) < ModelLen /\ drafts[r] <= SpecTokens
    /\ status[r] = "preempted" => computed[r] = 0 /\ drafts[r] = 0 /\ r \notin lastStep
    /\ status[r] = "running" =>
          /\ computed[r] = Ahead(r) /\ computed[r] >= 1
          /\ r \in chunk => holders[r] = 0 /\ drafts[r] = 0 /\ computed[r] < NumTokens(r)
          /\ r \notin chunk => computed[r] = NumTokens(r) + holders[r] - 1
          /\ r \in lastStep => (r \in chunk <=> ~ NewestSamples(r))

Known(s, r) == \A k \in 1 .. Len(s) : s[k] = <<r, Prompt[r] + k - 1>>

\* l is the row of r in the last sampled step.
RowOK(l, r) ==
    /\ l.start \in Nat /\ l.count \in Nat
    /\ l.count \in 1 .. drafted[r] + 1
    /\ l.token = <<r, kv[r]>>
    /\ \A j \in 1 .. SpecTokens : l.drafts[j] \in {<<r, kv[r] + j>>, Noise}
    /\ drafted[r] > 0 => l.start + l.count = kv[r]
    /\ kv[r] - (l.count - 1) + 1 <= Prompt[r] + Len(outs[r])

\* What the runner keeps of r after a step.
BatchOK(r) ==
    /\ filled[r] <= Len(outs[r]) /\ drafted[r] <= SpecTokens
    /\ prevRow[r] = 0 => drafted[r] = 0 /\ Known(outs[r], r) /\ Prompt[r] + Len(outs[r]) = real[r]
    /\ prevRow[r] # 0 => RowOK(last[prevRow[r]], r) /\ kv[r] + 1 = real[r]

\* q is the next output for the runner.
HeadOK(q, r) ==
    q.n > 0 =>
      IF r \in batch
      THEN /\ q.kind = "running"
           /\ prevRow[r] = 0 => q.from = kv[r] /\ q.outs = Len(outs[r])
           /\ prevRow[r] # 0 =>
                 /\ Decode(q, r)
                 /\ q.from \in {kv[r], kv[r] + drafted[r] - (last[prevRow[r]].count - 1)}
      ELSE Fresh(q, r, kv[r], real[r])

\* The newest result is of the step the runner did last.
Link(r) ==
    LET k == Len(results) IN
    /\ At(results, k, r).n > 0 <=> r \in batch
    /\ r \in batch => /\ At(results, k, r).spec = drafted[r]
                      /\ GenAt(results, k, r) = IF prevRow[r] = 0 THEN 0 ELSE last[prevRow[r]].count

IdleOf(r) ==
    /\ r \in batch => BatchOK(r)
    /\ HeadOK(At(inbox, 1, r), r)
    /\ Follows(At(inbox, 2, r), At(inbox, 1, r), r, Begins(At(inbox, 1, r), kv[r]), real[r])
    /\ results # <<>> => Link(r)

RowsOK(s) ==
    /\ s.rows \in Seq(Reqs)
    /\ \A r \in Reqs : s.req[r].n > 0 <=> \E i \in 1 .. Len(s.rows) : s.rows[i] = r
    /\ \A i, j \in 1 .. Len(s.rows) : i # j => s.rows[i] # s.rows[j]
    /\ s.skip = {r \in Reqs : s.req[r].n > 0 /\ ~ Samples(s.req[r], r)}

\* What the runner keeps of r during the step s.
RunOK(s, r) ==
    LET e == s.req[r] IN
    /\ s.start[r] = kv[r] /\ Len(outs[r]) = e.outs /\ drafted[r] = e.spec /\ filled[r] <= e.outs
    /\ Prompt[r] + e.outs >= real[r]
    /\ Samples(e, r) => kv[r] + e.n - e.spec = real[r]
    /\ ~ Samples(e, r) => Known(outs[r], r) /\ Prompt[r] + e.outs = real[r]

BusyOf(r) ==
    /\ At(step, 1, r).n > 0 => RunOK(step[1], r)
    /\ Follows(At(inbox, 1, r), At(step, 1, r), r, kv[r], real[r])

RunnerInv ==
    /\ TypeOK /\ SlotsOK /\ ResultsOK /\ GoneOK /\ NewestOK
    /\ \A r \in Reqs : CountOf(r)
    /\ step = <<>> => \A r \in Reqs : IdleOf(r)
    /\ step # <<>> => RowsOK(step[1]) /\ \A r \in Reqs : BusyOf(r)
    /\ StepTrue /\ CountsAgree

-----------------------------------------------------------------------------
(* Constants, entries and sequences *)

LEMMA Constants ==
    /\ IsFiniteSet(Reqs)
    /\ \A r \in Reqs : Prompt[r] \in Nat /\ Prompt[r] >= 1 /\ Prompt[r] < ModelLen
    /\ \A r \in Reqs : MaxTokens[r] \in Nat
    /\ Prompt \in [Reqs -> Nat]
    /\ SpecTokens \in Nat /\ ModelLen \in Nat /\ Hits \subseteq Nat /\ Depth \in Nat
<1>1. Prompt \in [Reqs -> Nat \ {0}] /\ MaxTokens \in [Reqs -> Nat \ {0}] BY RunnerAssumption
<1>2. \A r \in Reqs : Prompt[r] \in Nat /\ Prompt[r] >= 1 /\ MaxTokens[r] \in Nat BY <1>1
<1>3. Prompt \in [Reqs -> Nat] BY <1>1
<1> QED BY <1>2, <1>3, RunnerAssumption

LEMMA NoEntryType == NoEntry \in EntryType /\ NoEntry.n = 0 /\ NoEntry.kind = "none"
BY DEF NoEntry, EntryType

LEMMA Fields ==
    ASSUME NEW e \in EntryType
    PROVE  /\ e.n \in Nat /\ e.spec \in Nat /\ e.from \in Nat /\ e.outs \in Nat /\ e.all \in Int
           /\ e.kind \in {"none", "new", "resumed", "running"}
BY DEF EntryType

LEMMA NoEntryOK == \A r \in Reqs : EntryOK(NoEntry, r) /\ Held(NoEntry, r) = 0
BY DEF EntryOK, NoEntry, Added, Held

\* The entries of a sequence of outputs or results.
LEMMA AtType ==
    ASSUME NEW T, NEW s \in Seq(T), \A x \in T : x.req \in [Reqs -> EntryType], NEW i, NEW r \in Reqs
    PROVE  At(s, i, r) \in EntryType
<1>1. CASE i \in 1 .. Len(s)
  <2>1. s[i] \in T BY <1>1, ElementOfSeq
  <2> QED BY <1>1, <2>1 DEF At
<1>2. CASE i \notin 1 .. Len(s) BY <1>2, NoEntryType DEF At
<1> QED BY <1>1, <1>2

LEMMA AtAppend ==
    ASSUME NEW T, NEW s \in Seq(T), NEW x \in T, NEW i \in Nat, NEW r
    PROVE  At(Append(s, x), i, r) = IF i = Len(s) + 1 THEN x.req[r] ELSE At(s, i, r)
<1>1. /\ Len(s) \in Nat /\ Len(Append(s, x)) = Len(s) + 1
      /\ \A k \in 1 .. Len(s) : Append(s, x)[k] = s[k]
      /\ Append(s, x)[Len(s) + 1] = x
  BY AppendProperties, LenProperties
<1> QED BY <1>1 DEF At

LEMMA AtTail ==
    ASSUME NEW T, NEW s \in Seq(T), s # <<>>, NEW i \in Nat \ {0}, NEW r
    PROVE  At(Tail(s), i, r) = At(s, i + 1, r)
<1>1. /\ Len(s) \in Nat \ {0} /\ Len(Tail(s)) = Len(s) - 1
      /\ \A k \in 1 .. Len(Tail(s)) : Tail(s)[k] = s[k + 1]
  BY HeadTailProperties, EmptySeq
<1> QED BY <1>1 DEF At

LEMMA GenAppend ==
    ASSUME NEW T, NEW s \in Seq(T), NEW x \in T, NEW i \in Nat, NEW r
    PROVE  GenAt(Append(s, x), i, r) = IF i = Len(s) + 1 THEN Gen(x, r) ELSE GenAt(s, i, r)
<1>1. /\ Len(s) \in Nat /\ Len(Append(s, x)) = Len(s) + 1
      /\ \A k \in 1 .. Len(s) : Append(s, x)[k] = s[k]
      /\ Append(s, x)[Len(s) + 1] = x
  BY AppendProperties, LenProperties
<1> QED BY <1>1 DEF GenAt

LEMMA GenTail ==
    ASSUME NEW T, NEW s \in Seq(T), s # <<>>, NEW i \in Nat \ {0}, NEW r
    PROVE  GenAt(Tail(s), i, r) = GenAt(s, i + 1, r)
<1>1. /\ Len(s) \in Nat \ {0} /\ Len(Tail(s)) = Len(s) - 1
      /\ \A k \in 1 .. Len(Tail(s)) : Tail(s)[k] = s[k + 1]
  BY HeadTailProperties, EmptySeq
<1> QED BY <1>1 DEF GenAt

\* Types of what the invariant speaks of.
LEMMA Types ==
    ASSUME TypeOK, ResultsOK, NEW r \in Reqs
    PROVE  /\ At(results, 1, r) \in EntryType /\ At(results, 2, r) \in EntryType
           /\ At(step, 1, r) \in EntryType
           /\ At(inbox, 1, r) \in EntryType /\ At(inbox, 2, r) \in EntryType
           /\ GenAt(results, 1, r) \in Nat /\ GenAt(results, 2, r) \in Nat
           /\ Len(inbox) \in Nat /\ Len(results) \in Nat
           /\ step = <<>> \/ step = <<step[1]>>
           /\ Len(step) = IF step = <<>> THEN 0 ELSE 1
           /\ Len(inbox) + Len(step) + Len(results) <= 2
<1>1. /\ inbox \in Seq(OutputType) /\ results \in Seq(ResultType)
      /\ step = <<>> \/ (step = <<step[1]>> /\ step[1].req \in [Reqs -> EntryType])
      /\ Len(inbox) + Len(step) + Len(results) <= 2
  BY DEF TypeOK
<1>2. /\ \A x \in OutputType : x.req \in [Reqs -> EntryType]
      /\ \A x \in ResultType : x.req \in [Reqs -> EntryType]
  BY DEF OutputType, ResultType
<1>3. At(inbox, 1, r) \in EntryType /\ At(inbox, 2, r) \in EntryType BY <1>1, <1>2, AtType
<1>4. At(results, 1, r) \in EntryType /\ At(results, 2, r) \in EntryType BY <1>1, <1>2, AtType
<1>5. Len(inbox) \in Nat /\ Len(results) \in Nat BY <1>1, LenProperties
<1>6. Len(step) = IF step = <<>> THEN 0 ELSE 1
  <2>1. CASE step = <<>> BY <2>1
  <2>2. CASE step # <<>>
    <3>1. PICK s : step = <<s>> BY <1>1, <2>2
    <3> QED BY <2>2, <3>1
  <2> QED BY <2>1, <2>2
<1>7. At(step, 1, r) \in EntryType BY <1>1, <1>6, NoEntryType DEF At
<1>8. GenAt(results, 1, r) \in Nat
  <2>1. CASE At(results, 1, r).n > 0
    <3>1. GenAt(results, 1, r) \in 0 .. At(results, 1, r).spec + 1 BY <2>1 DEF ResultsOK, ResultOK
    <3> QED BY <3>1, <1>4, Fields
  <2>2. CASE ~ (At(results, 1, r).n > 0) BY <2>2 DEF GenAt, Gen, At
  <2> QED BY <2>1, <2>2
<1>9. GenAt(results, 2, r) \in Nat
  <2>1. CASE At(results, 2, r).n > 0
    <3>1. GenAt(results, 2, r) \in 0 .. At(results, 2, r).spec + 1 BY <2>1 DEF ResultsOK, ResultOK
    <3> QED BY <3>1, <1>4, Fields
  <2>2. CASE ~ (At(results, 2, r).n > 0) BY <2>2 DEF GenAt, Gen, At
  <2> QED BY <2>1, <2>2
<1> QED BY <1>1, <1>3, <1>4, <1>5, <1>6, <1>7, <1>8, <1>9

-----------------------------------------------------------------------------
(* The initial states *)

LEMMA EmptyAt == \A i, r : At(<<>>, i, r) = NoEntry /\ GenAt(<<>>, i, r) = 0
BY DEF At, GenAt

LEMMA InitInv == ASSUME Init PROVE RunnerInv
<1>1. TypeOK
  <2>1. \A T : <<>> \in Seq(T) BY EmptySeq
  <2>2. inbox \in Seq(OutputType) /\ results \in Seq(ResultType) BY <2>1 DEF Init
  <2>3. Len(inbox) + Len(step) + Len(results) <= 2 BY DEF Init
  <2>4. outs \in [Reqs -> Seq(Tok)] BY <2>1 DEF Init
  <2> QED BY <2>2, <2>3, <2>4, Constants DEF Init, TypeOK, Zeros
<1>2. ASSUME NEW r \in Reqs
      PROVE  /\ At(results, 1, r) = NoEntry /\ At(results, 2, r) = NoEntry
             /\ At(step, 1, r) = NoEntry
             /\ At(inbox, 1, r) = NoEntry /\ At(inbox, 2, r) = NoEntry
  BY EmptyAt DEF Init
<1>3. SlotsOK BY <1>2, NoEntryOK DEF SlotsOK
<1>4. ResultsOK BY <1>2, NoEntryType DEF ResultsOK, ResultOK
<1>5. GoneOK BY DEF Init, GoneOK
<1>6. NewestOK BY DEF Init, NewestOK
<1>7. ASSUME NEW r \in Reqs PROVE CountOf(r)
  BY <1>2, NoEntryType DEF Init, CountOf, InNoStep, Zeros
<1>8. ASSUME NEW r \in Reqs PROVE IdleOf(r)
  BY <1>2, NoEntryType DEF Init, IdleOf, HeadOK, Follows
<1>9. step = <<>> BY DEF Init
<1>10. StepTrue /\ CountsAgree BY <1>9 DEF StepTrue, CountsAgree
<1> QED BY <1>1, <1>3, <1>4, <1>5, <1>6, <1>7, <1>8, <1>9, <1>10 DEF RunnerInv

-----------------------------------------------------------------------------
(* Steps of the scheduler that leave the outputs, the results and the runner *)

LEMMA QuietRunner ==
    ASSUME RunnerInv, UNCHANGED <<inbox, results, lastStep, runnerVars, real, kv>>
    PROVE  /\ SlotsOK' /\ ResultsOK' /\ NewestOK'
           /\ (step = <<>> => \A r \in Reqs : IdleOf(r))'
           /\ (step # <<>> => RowsOK(step[1]) /\ \A r \in Reqs : BusyOf(r))'
           /\ StepTrue' /\ CountsAgree'
<1>0. /\ inbox' = inbox /\ results' = results /\ lastStep' = lastStep /\ step' = step
      /\ outs' = outs /\ drafted' = drafted /\ batch' = batch /\ filled' = filled
      /\ prevRow' = prevRow /\ last' = last /\ real' = real /\ kv' = kv
  BY DEF runnerVars
<1>1. SlotsOK' BY <1>0 DEF RunnerInv, SlotsOK
<1>2. ResultsOK' BY <1>0 DEF RunnerInv, ResultsOK
<1>3. NewestOK' BY <1>0 DEF RunnerInv, NewestOK
<1>4. ASSUME step' = <<>>, NEW r \in Reqs PROVE IdleOf(r)'
  <2>1. IdleOf(r) BY <1>0, <1>4 DEF RunnerInv
  <2> QED BY <1>0, <2>1 DEF IdleOf, BatchOK, HeadOK, Link, RowOK
<1>5. ASSUME step' # <<>> PROVE RowsOK(step'[1]) /\ \A r \in Reqs : BusyOf(r)'
  <2>1. RowsOK(step[1]) /\ \A r \in Reqs : BusyOf(r) BY <1>0, <1>5 DEF RunnerInv
  <2> QED BY <1>0, <2>1 DEF BusyOf, RunOK
<1>6. StepTrue' BY <1>0 DEF RunnerInv, StepTrue, Base
<1>7. CountsAgree' BY <1>0 DEF RunnerInv, CountsAgree
<1> QED BY <1>1, <1>2, <1>3, <1>4, <1>5, <1>6, <1>7

\* The counts of a request the step leaves as it is.
LEMMA SameCount ==
    ASSUME RunnerInv, NEW r \in Reqs,
           UNCHANGED <<inbox, results, lastStep, runnerVars, real, kv>>,
           UNCHANGED <<status[r], outputs[r], computed[r], holders[r], drafts[r], r \in chunk>>
    PROVE  CountOf(r)'
<1>0. /\ inbox' = inbox /\ results' = results /\ lastStep' = lastStep /\ step' = step
      /\ prevRow' = prevRow /\ real' = real /\ kv' = kv
  BY DEF runnerVars
<1>1. HeldSum(r)' = HeldSum(r) BY <1>0 DEF HeldSum
<1>2. Ahead(r)' = Ahead(r) BY <1>0 DEF Ahead
<1>3. InNoStep(r)' <=> InNoStep(r) BY <1>0 DEF InNoStep
<1>4. NewestSamples(r)' <=> NewestSamples(r) BY <1>0 DEF NewestSamples
<1>5. NumTokens(r)' = NumTokens(r) BY DEF NumTokens
<1>6. CountOf(r) BY DEF RunnerInv
<1> QED BY <1>0, <1>1, <1>2, <1>3, <1>4, <1>5, <1>6 DEF CountOf

LEMMA ArriveInv == ASSUME RunnerInv, NEW q \in Reqs, Arrive(q) PROVE RunnerInv'
<1>0. /\ status[q] = "new" /\ status' = [status EXCEPT ![q] = "waiting"]
      /\ UNCHANGED <<outputs, computed, holders, drafts, chunk, lastStep, gone, preempts,
                     inbox, results, runnerVars, real, kv>>
  BY DEF Arrive
<1>1. TypeOK' BY <1>0 DEF RunnerInv, TypeOK, runnerVars
<1>2. GoneOK'
  <2>1. GoneOK /\ status \in [Reqs -> {"new", "waiting", "preempted", "running", "done"}]
    BY DEF RunnerInv, TypeOK
  <2> QED BY <1>0, <2>1 DEF GoneOK
<1>3. ASSUME NEW r \in Reqs PROVE CountOf(r)'
  <2>1. CASE r # q
    <3>1. status'[r] = status[r] BY <1>0, <2>1 DEF RunnerInv, TypeOK
    <3> QED BY <1>0, <3>1, SameCount
  <2>2. CASE r = q
    <3>1. CountOf(q) BY DEF RunnerInv
    <3>2. status'[q] = "waiting" BY <1>0 DEF RunnerInv, TypeOK
    <3>3. InNoStep(q)' <=> InNoStep(q) BY <1>0 DEF InNoStep, runnerVars
    <3> QED BY <1>0, <2>2, <3>1, <3>2, <3>3 DEF CountOf
  <2> QED BY <2>1, <2>2
<1> QED BY <1>0, <1>1, <1>2, <1>3, QuietRunner DEF RunnerInv

LEMMA AbortInv == ASSUME RunnerInv, NEW q \in Reqs, Abort(q) PROVE RunnerInv'
<1>0. /\ status' = [status EXCEPT ![q] = "done"]
      /\ outputs' = Cleared(outputs, {q}) /\ computed' = Cleared(computed, {q})
      /\ holders' = Cleared(holders, {q}) /\ drafts' = Cleared(drafts, {q})
      /\ gone' = gone \cup {q}
      /\ UNCHANGED <<chunk, lastStep, preempts, inbox, results, runnerVars, real, kv>>
  BY DEF Abort, Free
<1>t. TypeOK BY DEF RunnerInv
<1>1. TypeOK'
  <2>1. /\ outputs' \in [Reqs -> Nat] /\ computed' \in [Reqs -> Int]
        /\ holders' \in [Reqs -> Int] /\ drafts' \in [Reqs -> Nat]
    BY <1>0, <1>t DEF TypeOK, Cleared
  <2> QED BY <1>0, <1>t, <2>1 DEF TypeOK, runnerVars
<1>2. GoneOK'
  <2>1. GoneOK /\ status \in [Reqs -> {"new", "waiting", "preempted", "running", "done"}]
    BY DEF RunnerInv, TypeOK
  <2> QED BY <1>0, <2>1 DEF GoneOK
<1>3. ASSUME NEW r \in Reqs PROVE CountOf(r)'
  <2>1. CASE r # q
    <3>1. /\ status'[r] = status[r] /\ outputs'[r] = outputs[r] /\ computed'[r] = computed[r]
          /\ holders'[r] = holders[r] /\ drafts'[r] = drafts[r]
      BY <1>0, <1>t, <2>1 DEF TypeOK, Cleared
    <3> QED BY <1>0, <3>1, SameCount
  <2>2. CASE r = q
    <3>1. status'[q] = "done" BY <1>0, <1>t DEF TypeOK
    <3> QED BY <2>2, <3>1 DEF CountOf
  <2> QED BY <2>1, <2>2
<1> QED BY <1>0, <1>1, <1>2, <1>3, QuietRunner DEF RunnerInv

-----------------------------------------------------------------------------
(* Taking a result *)

\* What update_from_output() does to one request.
UpdateOf(r) ==
    \/ status'[r] = "done" /\ r \in gone'
    \/ status'[r] = status[r] /\ status[r] = "done"
    \/ /\ status'[r] = status[r] /\ status[r] # "done"
       /\ outputs'[r] = outputs[r] + GenAt(results, 1, r)
       /\ computed'[r] = IF computed[r] = 0 THEN 0 ELSE computed[r] - Loss(results, 1, r)
       /\ holders'[r] = HoldersLeft(r, Loss(results, 1, r)) - GenAt(results, 1, r)
       /\ drafts'[r] = drafts[r] \/ (status[r] = "running" /\ r \notin chunk /\ drafts'[r] <= SpecTokens)
       /\ GenAt(results, 1, r) > 0 => NumTokens(r) + GenAt(results, 1, r) < ModelLen

LEMMA UpdateEffect ==
    ASSUME RunnerInv, Update
    PROVE  /\ TypeOK'
           /\ results # <<>> /\ results' = Tail(results)
           /\ gone \subseteq gone' /\ \A r \in gone' \ gone : status'[r] = "done"
           /\ \A r \in Reqs : status[r] = "done" => status'[r] = "done"
           /\ \A r \in Reqs : UpdateOf(r)
           /\ UNCHANGED <<chunk, lastStep, preempts, inbox, runnerVars, real, kv>>
<1> DEFINE res == Head(results)
           R == {r \in Reqs : res.req[r].n > 0 /\ status[r] # "done"}
           gen(r) == IF r \in R THEN res.counts[ResultRow(res, r)] ELSE 0
           rejected(r) == IF res.req[r].spec > 0 /\ gen(r) > 0
                          THEN res.req[r].spec + 1 - gen(r) ELSE 0
           room(r) == Least(MaxTokens[r] - outputs[r], ModelLen - NumTokens(r))
           resized(stopped) == {r \in R \ stopped : /\ res.proposed /\ gen(r) > 0
                                                    /\ r \notin chunk /\ status[r] = "running"}
<1>0. /\ results # <<>> /\ results' = Tail(results)
      /\ UNCHANGED <<chunk, lastStep, preempts, inbox, runnerVars, real, kv>>
  BY DEF Update
<1>1. PICK new \in [Reqs -> 0 .. SpecTokens + 1], stopped \in SUBSET R, length \in [Reqs -> 0 .. SpecTokens] :
        /\ \A r \in Reqs :
              /\ new[r] <= gen(r) /\ new[r] <= room(r)
              /\ gen(r) > 0 => new[r] > 0
              /\ new[r] < gen(r) \/ (gen(r) > 0 /\ new[r] = room(r)) => r \in stopped
              /\ r \in stopped => gen(r) > 0
        /\ drafts' = [r \in Reqs |-> IF r \in stopped THEN 0
                                     ELSE IF r \in resized(stopped) THEN length[r] ELSE drafts[r]]
        /\ outputs' = [r \in Reqs |-> IF r \in stopped THEN 0 ELSE outputs[r] + new[r]]
        /\ computed' = [r \in Reqs |-> IF r \in stopped \/ computed[r] = 0 THEN 0
                                       ELSE computed[r] - rejected(r)]
        /\ holders' = [r \in Reqs |-> IF r \in stopped THEN 0
                                      ELSE HoldersLeft(r, rejected(r)) - new[r]]
        /\ status' = [r \in Reqs |-> IF r \in stopped THEN "done" ELSE status[r]]
        /\ gone' = gone \cup stopped
  BY ZenonT(30) DEF Update
<1>t. TypeOK /\ ResultsOK /\ SlotsOK BY DEF RunnerInv
<1>2. /\ Len(results) \in Nat \ {0} /\ res = results[1] /\ res \in ResultType
      /\ Tail(results) \in Seq(ResultType) /\ Len(Tail(results)) = Len(results) - 1
  <2>1. results \in Seq(ResultType) BY <1>t DEF TypeOK
  <2>2. Len(results) \in Nat \ {0} BY <1>0, <2>1, EmptySeq
  <2> QED BY <1>0, <2>1, <2>2, HeadTailProperties, ElementOfSeq
<1>3. ASSUME NEW r \in Reqs
      PROVE  /\ res.req[r] = At(results, 1, r) /\ gen(r) \in Int /\ rejected(r) \in Int
             /\ status[r] # "done" => gen(r) = GenAt(results, 1, r) /\ rejected(r) = Loss(results, 1, r)
  <2>1. res.req[r] = At(results, 1, r) BY <1>2 DEF At
  <2>2. At(results, 1, r) \in EntryType /\ GenAt(results, 1, r) \in Nat BY <1>t, Types
  <2>3. At(results, 1, r).n \in Nat /\ At(results, 1, r).spec \in Nat BY <2>2, Fields
  <2>4. GenAt(results, 1, r) = IF At(results, 1, r).n > 0 THEN res.counts[res.row[r]] ELSE 0
    BY <1>2, <2>1 DEF GenAt, Gen
  <2>5. gen(r) = IF status[r] = "done" THEN 0 ELSE GenAt(results, 1, r)
    BY <2>1, <2>4 DEF ResultRow
  <2>6. ResultOK(At(results, 1, r), GenAt(results, 1, r), r) BY <1>t DEF ResultsOK
  <2>7. At(results, 1, r).spec = 0 /\ GenAt(results, 1, r) > 0 => GenAt(results, 1, r) = 1
    <3>1. At(results, 1, r).n > 0 => GenAt(results, 1, r) \in 0 .. At(results, 1, r).spec + 1
      BY <2>6 DEF ResultOK
    <3> QED BY <2>2, <2>3, <2>4, <3>1
  <2> HIDE DEF res, gen
  <2> QED BY <2>1, <2>2, <2>3, <2>5, <2>7 DEF Loss
<1> HIDE DEF res, gen, R, rejected
<1>4. TypeOK'
  <2>1. outputs' \in [Reqs -> Nat]
    <3>1. ASSUME NEW r \in Reqs PROVE outputs[r] + new[r] \in Nat BY <1>t DEF TypeOK
    <3> QED BY <1>1, <3>1
  <2>2. computed' \in [Reqs -> Int]
    <3>1. ASSUME NEW r \in Reqs PROVE computed[r] - rejected(r) \in Int BY <1>t, <1>3, SMTT(40) DEF TypeOK
    <3> QED BY <1>1, <3>1
  <2>3. holders' \in [Reqs -> Int]
    <3>1. ASSUME NEW r \in Reqs PROVE HoldersLeft(r, rejected(r)) - new[r] \in Int
      <4>1. holders[r] \in Int /\ new[r] \in Int /\ rejected(r) \in Int BY <1>t, <1>3, Constants DEF TypeOK
      <4> QED BY <4>1 DEF HoldersLeft
    <3> QED BY <1>1, <3>1
  <2>4. drafts' \in [Reqs -> Nat]
    <3>1. ASSUME NEW r \in Reqs PROVE length[r] \in Nat /\ drafts[r] \in Nat BY <1>t, Constants DEF TypeOK
    <3> QED BY <1>1, <3>1
  <2>5. status' \in [Reqs -> {"new", "waiting", "preempted", "running", "done"}] BY <1>1, <1>t DEF TypeOK
  <2>6. gone' \subseteq Reqs BY <1>1, <1>t DEF TypeOK, R
  <2>7. results' \in Seq(ResultType) /\ Len(results') = Len(results) - 1 BY <1>0, <1>2
  <2>8. Len(inbox') + Len(step') + Len(results') <= 2
    <3>1. PICK r : r = Len(inbox) OBVIOUS
    <3>2. Len(inbox) \in Nat /\ Len(step) \in Nat
      <4>1. Len(inbox) \in Nat BY <1>t, LenProperties DEF TypeOK
      <4>2. Len(step) \in Nat
        <5>1. CASE step = <<>> BY <5>1
        <5>2. CASE step # <<>>
          <6>1. PICK s : step = <<s>> BY <1>t, <5>2 DEF TypeOK
          <6> QED BY <6>1
        <5> QED BY <5>1, <5>2
      <4> QED BY <4>1, <4>2
    <3>3. Len(inbox) + Len(step) + Len(results) <= 2 BY <1>t DEF TypeOK
    <3> QED BY <1>0, <1>2, <2>7, <3>2, <3>3 DEF runnerVars
  <2> QED BY <1>0, <1>t, <2>1, <2>2, <2>3, <2>4, <2>5, <2>6, <2>7, <2>8 DEF TypeOK, runnerVars
<1>5. ASSUME NEW r \in Reqs PROVE UpdateOf(r)
  <2>1. CASE r \in stopped BY <1>1, <2>1 DEF UpdateOf
  <2>2. CASE r \notin stopped /\ status[r] = "done" BY <1>1, <2>2 DEF UpdateOf
  <2>3. CASE r \notin stopped /\ status[r] # "done"
    <3>1. /\ gen(r) = GenAt(results, 1, r) /\ rejected(r) = Loss(results, 1, r) /\ gen(r) \in Int
      BY <1>3, <2>3
    <3>2. new[r] = gen(r) /\ (gen(r) > 0 => new[r] # room(r)) /\ new[r] <= room(r)
      <4>1. new[r] \in Int BY Constants
      <4> QED BY <1>1, <2>3, <3>1, <4>1
    <3>3. gen(r) > 0 => NumTokens(r) + gen(r) < ModelLen
      <4>1. /\ MaxTokens[r] \in Int /\ outputs[r] \in Int /\ ModelLen \in Int
            /\ Prompt[r] \in Int
        BY <1>t, Constants, SMTT(40) DEF TypeOK
      <4> QED BY <3>1, <3>2, <4>1 DEF Least, NumTokens
    <3>4. drafts'[r] = drafts[r] \/ (status[r] = "running" /\ r \notin chunk /\ drafts'[r] <= SpecTokens)
      <4>1. CASE r \in resized(stopped) BY <1>1, <2>3, <4>1, Constants
      <4>2. CASE r \notin resized(stopped) BY <1>1, <2>3, <4>2
      <4> QED BY <4>1, <4>2
    <3>5. /\ status'[r] = status[r] /\ outputs'[r] = outputs[r] + new[r]
          /\ computed'[r] = IF computed[r] = 0 THEN 0 ELSE computed[r] - rejected(r)
          /\ holders'[r] = HoldersLeft(r, rejected(r)) - new[r]
      BY <1>1, <2>3
    <3> QED BY <2>3, <3>1, <3>2, <3>3, <3>4, <3>5 DEF UpdateOf
  <2> QED BY <2>1, <2>2, <2>3
<1>6. /\ gone \subseteq gone' /\ \A r \in gone' \ gone : status'[r] = "done"
      /\ \A r \in Reqs : status[r] = "done" => status'[r] = "done"
  BY <1>1 DEF R
<1> QED BY <1>0, <1>4, <1>5, <1>6

\* Results without the oldest.
LEMMA TailSlots ==
    ASSUME TypeOK, ResultsOK, results # <<>>, NEW r \in Reqs
    PROVE  /\ At(Tail(results), 1, r) = At(results, 2, r) /\ At(Tail(results), 2, r) = NoEntry
           /\ GenAt(Tail(results), 1, r) = GenAt(results, 2, r) /\ GenAt(Tail(results), 2, r) = 0
           /\ Loss(Tail(results), 1, r) = Loss(results, 2, r) /\ Loss(Tail(results), 2, r) = 0
           /\ Len(Tail(results)) = Len(results) - 1
           /\ Len(results) \in {1, 2}
<1>1. results \in Seq(ResultType) BY DEF TypeOK
<1>2. Len(results) \in {1, 2}
  <2>1. Len(results) \in Nat \ {0} BY <1>1, EmptySeq
  <2>2. Len(inbox) \in Nat /\ Len(step) \in {0, 1} /\ Len(inbox) + Len(step) + Len(results) <= 2
    BY Types
  <2>3. PICK a, b, c : a = Len(inbox) /\ b = Len(step) /\ c = Len(results) OBVIOUS
  <2>4. a \in Nat /\ (b = 0 \/ b = 1) /\ c \in Nat /\ c # 0 /\ a + b + c <= 2 BY <2>1, <2>2, <2>3
  <2>5. c = 1 \/ c = 2 BY <2>4
  <2> QED BY <2>3, <2>5
<1>3. Len(Tail(results)) = Len(results) - 1 BY <1>1, HeadTailProperties
<1>4. At(Tail(results), 1, r) = At(results, 2, r)
  <2>1. At(Tail(results), 1, r) = At(results, 1 + 1, r) BY <1>1, AtTail
  <2> QED BY <2>1
<1>5. At(Tail(results), 2, r) = NoEntry BY <1>2, <1>3 DEF At
<1>6. GenAt(Tail(results), 1, r) = GenAt(results, 2, r)
  <2>1. GenAt(Tail(results), 1, r) = GenAt(results, 1 + 1, r) BY <1>1, GenTail
  <2> QED BY <2>1
<1>7. GenAt(Tail(results), 2, r) = 0 BY <1>2, <1>3 DEF GenAt
<1> QED BY <1>2, <1>3, <1>4, <1>5, <1>6, <1>7 DEF Loss

\* A request that is added anew has no result to come.
LEMMA AddedAlone ==
    ASSUME RunnerInv, NEW r \in Reqs, results # <<>>,
           At(inbox, 1, r).kind \in Added \/ At(inbox, 2, r).kind \in Added
    PROVE  At(results, 1, r).n = 0 /\ At(results, 2, r).n = 0
<1>t. TypeOK /\ ResultsOK /\ SlotsOK BY DEF RunnerInv
<1>1. Len(inbox) # 0
  <2>1. NoEntry.kind \notin Added BY NoEntryType DEF Added
  <2> QED BY <1>t, <2>1, Types DEF At
<1>2. Len(results) \in {1, 2} BY <1>t, TailSlots
<1>3. Len(inbox) = 1 /\ Len(results) = 1 /\ step = <<>>
  <2>1. /\ Len(inbox) \in Nat /\ Len(step) = (IF step = <<>> THEN 0 ELSE 1)
        /\ Len(inbox) + Len(step) + Len(results) <= 2
    BY <1>t, Types
  <2>2. CASE step = <<>> BY <1>1, <1>2, <2>1, <2>2
  <2>3. CASE step # <<>> BY <1>1, <1>2, <2>1, <2>3
  <2> QED BY <2>2, <2>3
<1>4. At(inbox, 2, r) = NoEntry /\ At(results, 2, r) = NoEntry BY <1>3 DEF At
<1>5. At(inbox, 1, r).kind \in Added BY <1>4, NoEntryType DEF Added
<1>6. At(inbox, 1, r).n > 0
  <2>1. At(inbox, 1, r) \in EntryType /\ EntryOK(At(inbox, 1, r), r) BY <1>t, Types DEF SlotsOK
  <2> QED BY <1>5, <2>1, Fields, NoEntryType DEF EntryOK, Added
<1>7. IdleOf(r) BY <1>3 DEF RunnerInv
<1>8. r \notin batch BY <1>5, <1>6, <1>7 DEF IdleOf, HeadOK, Added
<1>9. ~ (At(results, 1, r).n > 0) BY <1>3, <1>7, <1>8 DEF IdleOf, Link
<1>10. At(results, 1, r).n \in Nat BY <1>t, Types, Fields
<1> QED BY <1>4, <1>9, <1>10, NoEntryType

\* What is held for a result is what it brings and what it rejects.
LEMMA HeldIsLossAndGain ==
    ASSUME NEW e \in EntryType, NEW g \in Nat, NEW r \in Reqs, ResultOK(e, g, r), e.n = 0 => g = 0
    PROVE  Held(e, r) = g + (IF g > 0 THEN e.spec + 1 - g ELSE 0)
<1>1. e.n \in Nat /\ e.spec \in Nat BY Fields
<1>2. CASE e.n = 0 BY <1>2 DEF Held
<1>3. CASE e.n > 0 BY <1>1, <1>3 DEF Held, ResultOK
<1> QED BY <1>1, <1>2, <1>3

LEMMA HeldType == ASSUME NEW e \in EntryType, NEW r \in Reqs PROVE Held(e, r) \in Nat
BY Fields DEF Held

\* Tokens and placeholders of the results.
LEMMA ResultFacts ==
    ASSUME TypeOK, ResultsOK, NEW r \in Reqs
    PROVE  /\ Held(At(results, 1, r), r) = GenAt(results, 1, r) + Loss(results, 1, r)
           /\ Held(At(results, 2, r), r) = GenAt(results, 2, r) + Loss(results, 2, r)
           /\ At(results, 1, r).n = 0 => GenAt(results, 1, r) = 0
           /\ At(results, 2, r).n = 0 => GenAt(results, 2, r) = 0
           /\ Loss(results, 1, r) \in Nat /\ Loss(results, 2, r) \in Nat
<1>1. /\ At(results, 1, r) \in EntryType /\ At(results, 2, r) \in EntryType
      /\ GenAt(results, 1, r) \in Nat /\ GenAt(results, 2, r) \in Nat
  BY Types
<1>2. /\ At(results, 1, r).n = 0 => GenAt(results, 1, r) = 0
      /\ At(results, 2, r).n = 0 => GenAt(results, 2, r) = 0
  BY DEF At, GenAt, Gen
<1>3. /\ ResultOK(At(results, 1, r), GenAt(results, 1, r), r)
      /\ ResultOK(At(results, 2, r), GenAt(results, 2, r), r)
  BY DEF ResultsOK
<1>4. Held(At(results, 1, r), r) = GenAt(results, 1, r) + Loss(results, 1, r)
  BY <1>1, <1>2, <1>3, HeldIsLossAndGain DEF Loss
<1>5. Held(At(results, 2, r), r) = GenAt(results, 2, r) + Loss(results, 2, r)
  BY <1>1, <1>2, <1>3, HeldIsLossAndGain DEF Loss
<1>6. Loss(results, 1, r) \in Nat
  <2>1. At(results, 1, r).n \in Nat /\ At(results, 1, r).spec \in Nat BY <1>1, Fields
  <2>2. At(results, 1, r).n > 0 => GenAt(results, 1, r) <= At(results, 1, r).spec + 1
    BY <1>3, <2>1 DEF ResultOK
  <2> QED BY <1>1, <1>2, <2>1, <2>2 DEF Loss
<1>7. Loss(results, 2, r) \in Nat
  <2>1. At(results, 2, r).n \in Nat /\ At(results, 2, r).spec \in Nat BY <1>1, Fields
  <2>2. At(results, 2, r).n > 0 => GenAt(results, 2, r) <= At(results, 2, r).spec + 1
    BY <1>3, <2>1 DEF ResultOK
  <2> QED BY <1>1, <1>2, <2>1, <2>2 DEF Loss
<1> QED BY <1>2, <1>4, <1>5, <1>6, <1>7

LEMMA UpdateInv == ASSUME RunnerInv, Update PROVE RunnerInv'
<1>t. TypeOK /\ ResultsOK /\ SlotsOK /\ NewestOK /\ GoneOK BY DEF RunnerInv
<1>0. /\ results # <<>> /\ results' = Tail(results)
      /\ UNCHANGED <<chunk, lastStep, inbox, step, outs, drafted, batch, filled, prevRow, last, real, kv>>
  BY UpdateEffect DEF runnerVars
<1>1. TypeOK' BY UpdateEffect
<1>2. ASSUME NEW r \in Reqs
      PROVE  /\ At(results', 1, r) = At(results, 2, r) /\ At(results', 2, r) = NoEntry
             /\ GenAt(results', 1, r) = GenAt(results, 2, r) /\ GenAt(results', 2, r) = 0
             /\ Loss(results', 1, r) = Loss(results, 2, r) /\ Loss(results', 2, r) = 0
             /\ Len(results') = Len(results) - 1 /\ Len(results) \in {1, 2}
  BY <1>t, <1>0, TailSlots
<1>3. SlotsOK' BY <1>t, <1>0, <1>2, NoEntryOK DEF SlotsOK
<1>4. ResultsOK' BY <1>t, <1>2, NoEntryType DEF ResultsOK, ResultOK
<1>5. GoneOK'
  <2>1. \A r \in gone' : status'[r] = "done" BY <1>t, UpdateEffect DEF TypeOK, GoneOK
  <2>2. \A j \in 1 .. Len(inbox) : inbox[j].gone \subseteq Reqs
    <3>1. ASSUME NEW j \in 1 .. Len(inbox) PROVE inbox[j].gone \subseteq Reqs
      <4>1. inbox[j] \in OutputType BY <1>t, ElementOfSeq DEF TypeOK
      <4> QED BY <4>1 DEF OutputType
    <3> QED BY <3>1
  <2>3. \A r \in Reqs : status[r] = "done" => status'[r] = "done" BY UpdateEffect
  <2> QED BY <1>t, <1>0, <2>1, <2>2, <2>3 DEF GoneOK
<1>6. NewestOK' BY <1>t, <1>0 DEF NewestOK
<1>7. ASSUME NEW r \in Reqs PROVE CountOf(r)'
  <2>0. CountOf(r) /\ UpdateOf(r) BY UpdateEffect DEF RunnerInv
  <2>1. CASE status'[r] = "done" BY <2>1 DEF CountOf
  <2>2. CASE status'[r] # "done"
    <3>0. /\ status'[r] = status[r] /\ status[r] # "done"
          /\ outputs'[r] = outputs[r] + GenAt(results, 1, r)
          /\ computed'[r] = IF computed[r] = 0 THEN 0 ELSE computed[r] - Loss(results, 1, r)
          /\ holders'[r] = (IF holders[r] > 0 THEN holders[r] - Loss(results, 1, r) ELSE 0)
                           - GenAt(results, 1, r)
          /\ drafts'[r] = drafts[r] \/ (status[r] = "running" /\ r \notin chunk /\ drafts'[r] <= SpecTokens)
          /\ GenAt(results, 1, r) > 0 => NumTokens(r) + GenAt(results, 1, r) < ModelLen
      BY <2>0, <2>2 DEF UpdateOf, HoldersLeft
    <3>1. /\ Held(At(results, 1, r), r) = GenAt(results, 1, r) + Loss(results, 1, r)
          /\ GenAt(results, 1, r) \in Nat /\ GenAt(results, 2, r) \in Nat
          /\ Loss(results, 1, r) \in Nat /\ Loss(results, 2, r) \in Nat
          /\ Held(At(results, 2, r), r) \in Nat /\ Held(At(step, 1, r), r) \in Nat
          /\ Held(At(inbox, 1, r), r) \in Nat /\ Held(At(inbox, 2, r), r) \in Nat
      BY <1>t, Types, ResultFacts, HeldType
    <3>2. /\ outputs[r] \in Nat /\ computed[r] \in Int /\ holders[r] \in Int /\ drafts[r] \in Nat
          /\ Prompt[r] \in Nat /\ ModelLen \in Nat /\ kv[r] \in Nat /\ real[r] \in Nat
      BY <1>t, Constants DEF TypeOK
    <3>3. NumTokens(r)' = NumTokens(r) + GenAt(results, 1, r) /\ NumTokens(r) = Prompt[r] + outputs[r]
      BY <3>0, <3>1, <3>2 DEF NumTokens
    <3>4. HeldSum(r)' = HeldSum(r) - GenAt(results, 1, r) - Loss(results, 1, r)
      <4>1. Held(At(results', 2, r), r) = 0 BY <1>2, NoEntryOK
      <4> QED BY <1>0, <1>2, <3>1, <4>1, SMTT(40) DEF HeldSum
    <3>5. HeldSum(r) \in Nat /\ HeldSum(r) >= GenAt(results, 1, r) + Loss(results, 1, r)
      BY <3>1 DEF HeldSum
    <3>h. HeldSum(r) = 0 => GenAt(results, 1, r) = 0 /\ Loss(results, 1, r) = 0 BY <3>1, <3>5
    <3>6. CASE status[r] \in {"new", "waiting"}
      <4>1. InNoStep(r) /\ GenAt(results, 1, r) = 0 /\ Loss(results, 1, r) = 0
        BY <1>t, <2>0, <3>6, ResultFacts DEF CountOf, InNoStep, Loss
      <4>2. InNoStep(r)' BY <1>0, <1>2, <4>1, NoEntryType DEF InNoStep
      <4>3. /\ outputs[r] = 0 /\ holders[r] = 0 /\ computed[r] = 0 /\ drafts[r] = 0
            /\ real[r] = Prompt[r] /\ r \notin lastStep
        BY <2>0, <3>6 DEF CountOf
      <4>4. /\ outputs'[r] = 0 /\ holders'[r] = 0 /\ computed'[r] = 0 /\ drafts'[r] = 0
        BY <3>0, <3>6, <4>1, <4>3
      <4> QED BY <1>0, <3>0, <3>6, <4>2, <4>3, <4>4 DEF CountOf
    <3>7. CASE status[r] \in {"preempted", "running"}
      <4>1. /\ holders[r] = HeldSum(r) /\ NumTokens(r) < ModelLen /\ drafts[r] <= SpecTokens
            /\ NumTokens(r) + GenAt(results, 1, r) + GenAt(results, 2, r) = real[r]
        BY <2>0, <3>7 DEF CountOf
      <4>2. holders'[r] = HeldSum(r)' BY <3>0, <3>1, <3>4, <3>5, <3>h, <4>1
      <4>3. NumTokens(r)' + GenAt(results', 1, r) + GenAt(results', 2, r) = real'[r]
        BY <1>0, <1>2, <3>1, <3>2, <3>3, <4>1, SMTT(40)
      <4>4. NumTokens(r)' < ModelLen /\ drafts'[r] <= SpecTokens
        <5>1. GenAt(results, 1, r) = 0 \/ GenAt(results, 1, r) > 0 BY <3>1
        <5> QED BY <3>0, <3>2, <3>3, <4>1, <5>1
      <4>5. ASSUME status[r] = "preempted" PROVE computed'[r] = 0 /\ drafts'[r] = 0 /\ r \notin lastStep'
        BY <1>0, <2>0, <3>0, <4>5 DEF CountOf
      <4>6. ASSUME status[r] = "running"
            PROVE  /\ computed'[r] = Ahead(r)' /\ computed'[r] >= 1
                   /\ r \in chunk' => holders'[r] = 0 /\ drafts'[r] = 0 /\ computed'[r] < NumTokens(r)'
                   /\ r \notin chunk' => computed'[r] = NumTokens(r)' + holders'[r] - 1
                   /\ r \in lastStep' => (r \in chunk' <=> ~ NewestSamples(r)')
        <5>1. /\ computed[r] = Ahead(r) /\ computed[r] >= 1
              /\ r \in chunk => holders[r] = 0 /\ drafts[r] = 0 /\ computed[r] < NumTokens(r)
              /\ r \notin chunk => computed[r] = NumTokens(r) + holders[r] - 1
              /\ r \in lastStep => (r \in chunk <=> ~ NewestSamples(r))
          BY <2>0, <4>6 DEF CountOf
        <5>2. computed'[r] = computed[r] - Loss(results, 1, r) BY <3>0, <3>2, <5>1
        <5>3. Ahead(r)' = Ahead(r) - Loss(results, 1, r)
          <6>1. CASE At(inbox, 1, r).kind \in Added \/ At(inbox, 2, r).kind \in Added
            <7>1. Loss(results, 1, r) = 0 BY <1>t, <1>0, <6>1, AddedAlone, ResultFacts DEF Loss
            <7>2. Ahead(r)' = Ahead(r) BY <1>0, <6>1 DEF Ahead
            <7> QED BY <3>2, <5>1, <7>1, <7>2
          <6>2. CASE ~ (At(inbox, 1, r).kind \in Added \/ At(inbox, 2, r).kind \in Added)
            <7>1. At(step, 1, r).n \in Nat /\ At(inbox, 1, r).n \in Nat /\ At(inbox, 2, r).n \in Nat
              BY <1>t, Types, Fields
            <7>2. Ahead(r) = kv[r] + At(step, 1, r).n + At(inbox, 1, r).n + At(inbox, 2, r).n
                             + Loss(results, 1, r) + Loss(results, 2, r)
              BY <6>2 DEF Ahead
            <7>3. Ahead(r)' = kv[r] + At(step, 1, r).n + At(inbox, 1, r).n + At(inbox, 2, r).n
                              + Loss(results, 2, r) + 0
              BY <1>0, <1>2, <6>2 DEF Ahead
            <7> QED BY <3>1, <3>2, <7>1, <7>2, <7>3
          <6> QED BY <6>1, <6>2
        <5>4. NewestSamples(r)' <=> NewestSamples(r) BY <1>0 DEF NewestSamples
        <5>5. CASE r \in chunk
          <6>1. GenAt(results, 1, r) = 0 /\ Loss(results, 1, r) = 0 BY <3>h, <4>1, <5>1, <5>5
          <6>2. drafts'[r] = drafts[r] BY <3>0, <5>5
          <6>3. holders'[r] = 0 BY <3>0, <5>1, <5>5, <6>1
          <6> QED BY <1>0, <3>2, <3>3, <5>1, <5>2, <5>3, <5>4, <5>5, <6>1, <6>2, <6>3
        <5>6. CASE r \notin chunk
          <6>1. holders'[r] = holders[r] - GenAt(results, 1, r) - Loss(results, 1, r)
            BY <3>4, <4>1, <4>2
          <6>2. computed'[r] = NumTokens(r)' + holders'[r] - 1
            BY <3>1, <3>2, <3>3, <5>1, <5>2, <5>6, <6>1
          <6>3. computed'[r] >= 1
            <7>1. CASE Loss(results, 1, r) = 0 BY <3>2, <5>1, <5>2, <7>1
            <7>2. CASE Loss(results, 1, r) # 0
              <8>1. GenAt(results, 1, r) >= 1 BY <3>1, <7>2 DEF Loss
              <8>2. holders'[r] >= 0 /\ holders'[r] \in Int BY <3>1, <3>2, <3>5, <4>1, <6>1
              <8>3. Prompt[r] >= 1 BY Constants
              <8> QED BY <3>1, <3>2, <3>3, <6>2, <8>1, <8>2, <8>3
            <7> QED BY <7>1, <7>2
          <6> QED BY <1>0, <5>1, <5>2, <5>3, <5>4, <5>6, <6>2, <6>3
        <5> QED BY <5>5, <5>6
      <4> QED BY <3>0, <3>7, <4>2, <4>3, <4>4, <4>5, <4>6 DEF CountOf
    <3> QED BY <1>1, <3>6, <3>7, <2>2, <3>0, <1>t DEF TypeOK
  <2> QED BY <2>1, <2>2
<1>8. ASSUME step' = <<>>, NEW r \in Reqs PROVE IdleOf(r)'
  <2>1. IdleOf(r) BY <1>0, <1>8 DEF RunnerInv
  <2>2. BatchOK(r)' <=> BatchOK(r) BY <1>0 DEF BatchOK, RowOK
  <2>3. ASSUME results' # <<>> PROVE Link(r)'
    <3>1. Len(results) = 2 /\ Len(results') = 1
      <4>1. Len(results') # 0
        <5>1. results' \in Seq(ResultType) BY <1>1 DEF TypeOK
        <5>2. PICK s : s = results' OBVIOUS
        <5> QED BY <2>3, <5>1, <5>2, EmptySeq
      <4>2. PICK a, b : a = Len(results) /\ b = Len(results') OBVIOUS
      <4>3. b = a - 1 /\ (a = 1 \/ a = 2) /\ b # 0 BY <1>2, <4>1, <4>2
      <4> QED BY <4>2, <4>3
    <3>2. Link(r) BY <1>0, <2>1 DEF IdleOf
    <3> QED BY <1>0, <1>2, <3>1, <3>2 DEF Link
  <2> QED BY <1>0, <2>1, <2>2, <2>3 DEF IdleOf, HeadOK
<1>9. ASSUME step' # <<>> PROVE RowsOK(step'[1]) /\ \A r \in Reqs : BusyOf(r)'
  <2>1. RowsOK(step[1]) /\ \A r \in Reqs : BusyOf(r) BY <1>0, <1>9 DEF RunnerInv
  <2> QED BY <1>0, <2>1 DEF BusyOf, RunOK
<1>10. StepTrue' BY <1>0 DEF RunnerInv, StepTrue, Base
<1>11. CountsAgree' BY <1>0 DEF RunnerInv, CountsAgree
<1> QED BY <1>1, <1>3, <1>4, <1>5, <1>6, <1>7, <1>8, <1>9, <1>10, <1>11 DEF RunnerInv

-----------------------------------------------------------------------------
(* Scheduling a step *)

LEMMA Lengths ==
    ASSUME TypeOK
    PROVE  /\ Len(inbox) \in Nat /\ Len(results) \in Nat
           /\ Len(step) = IF step = <<>> THEN 0 ELSE 1
           /\ Len(inbox) + Len(step) + Len(results) <= 2
           /\ Len(inbox) = 0 <=> inbox = <<>>
           /\ Len(results) = 0 <=> results = <<>>
<1>1. /\ inbox \in Seq(OutputType) /\ results \in Seq(ResultType)
      /\ step = <<>> \/ step = <<step[1]>>
      /\ Len(inbox) + Len(step) + Len(results) <= 2
  BY DEF TypeOK
<1>2. Len(inbox) \in Nat /\ Len(results) \in Nat BY <1>1, LenProperties
<1>3. Len(step) = IF step = <<>> THEN 0 ELSE 1
  <2>1. CASE step = <<>> BY <2>1
  <2>2. CASE step # <<>>
    <3>1. PICK s : step = <<s>> BY <1>1, <2>2
    <3> QED BY <2>2, <3>1
  <2> QED BY <2>1, <2>2
<1>4. Len(inbox) = 0 <=> inbox = <<>> BY <1>1, EmptySeq
<1>5. Len(results) = 0 <=> results = <<>> BY <1>1, EmptySeq
<1> QED BY <1>1, <1>2, <1>3, <1>4, <1>5

\* Where the one step in flight can be when another is scheduled.
LEMMA Room ==
    ASSUME TypeOK, Len(inbox) + Len(step) + Len(results) < 2
    PROVE  \/ inbox = <<>> /\ step = <<>> /\ results = <<>> /\ Len(inbox) = 0 /\ Len(results) = 0
           \/ inbox = <<>> /\ step = <<>> /\ Len(results) = 1 /\ results # <<>> /\ Len(inbox) = 0
           \/ inbox = <<>> /\ step # <<>> /\ results = <<>> /\ Len(inbox) = 0 /\ Len(results) = 0
           \/ Len(inbox) = 1 /\ step = <<>> /\ results = <<>> /\ Len(results) = 0 /\ inbox # <<>>
<1>1. PICK a, b, c : a = Len(inbox) /\ b = Len(step) /\ c = Len(results) OBVIOUS
<1>2. /\ a \in Nat /\ c \in Nat /\ b \in {0, 1} /\ a + b + c < 2
      /\ a = 0 <=> inbox = <<>>
      /\ b = 0 <=> step = <<>>
      /\ c = 0 <=> results = <<>>
  BY <1>1, Lengths
<1>3. \/ a = 0 /\ b = 0 /\ c = 0
      \/ a = 0 /\ b = 0 /\ c = 1
      \/ a = 0 /\ b = 1 /\ c = 0
      \/ a = 1 /\ b = 0 /\ c = 0
  BY <1>2
<1> QED BY <1>1, <1>2, <1>3

\* A request left out of the newest step has none in flight.
LEMMA LeftOut ==
    ASSUME RunnerInv, Len(inbox) + Len(step) + Len(results) < 2, NEW r \in Reqs, r \notin lastStep
    PROVE  /\ InNoStep(r)
           /\ HeldSum(r) = 0 /\ GenAt(results, 1, r) = 0 /\ GenAt(results, 2, r) = 0
           /\ Loss(results, 1, r) = 0 /\ Loss(results, 2, r) = 0
<1>t. TypeOK /\ ResultsOK /\ SlotsOK /\ NewestOK BY DEF RunnerInv
<1>n. /\ At(results, 1, r).n \in Nat /\ At(results, 2, r).n \in Nat /\ At(step, 1, r).n \in Nat
      /\ At(inbox, 1, r).n \in Nat /\ At(inbox, 2, r).n \in Nat
  BY <1>t, Types, Fields
<1>e. \A i : At(<<>>, i, r) = NoEntry BY EmptyAt
<1>1. InNoStep(r)
  <2>1. CASE inbox = <<>> /\ step = <<>> /\ results = <<>>
    BY <1>e, <2>1, NoEntryType DEF InNoStep
  <2>2. CASE inbox = <<>> /\ step = <<>> /\ Len(results) = 1 /\ results # <<>>
    <3>1. r \notin batch BY <1>t, <2>2 DEF NewestOK
    <3>2. Link(r) BY <2>2 DEF RunnerInv, IdleOf
    <3>3. At(results, 1, r).n = 0 BY <1>n, <2>2, <3>1, <3>2 DEF Link
    <3>4. At(results, 2, r) = NoEntry BY <2>2 DEF At
    <3> QED BY <1>e, <2>2, <3>3, <3>4, NoEntryType DEF InNoStep
  <2>3. CASE inbox = <<>> /\ step # <<>> /\ results = <<>>
    <3>1. At(step, 1, r).n = 0 BY <1>n, <1>t, <2>3 DEF NewestOK
    <3> QED BY <1>e, <2>3, <3>1, NoEntryType DEF InNoStep
  <2>4. CASE Len(inbox) = 1 /\ step = <<>> /\ results = <<>> /\ inbox # <<>>
    <3>1. At(inbox, 1, r).n = 0 BY <1>n, <1>t, <2>4 DEF NewestOK
    <3>2. At(inbox, 2, r) = NoEntry BY <2>4 DEF At
    <3> QED BY <1>e, <2>4, <3>1, <3>2, NoEntryType DEF InNoStep
  <2> QED BY <1>t, <2>1, <2>2, <2>3, <2>4, Room
<1>2. GenAt(results, 1, r) = 0 /\ GenAt(results, 2, r) = 0 BY <1>t, <1>1, ResultFacts DEF InNoStep
<1>3. HeldSum(r) = 0 BY <1>1 DEF HeldSum, Held, InNoStep
<1> QED BY <1>1, <1>2, <1>3 DEF Loss

\* What scheduling the entry e does to the counts of r.
After(r, e) ==
    /\ computed'[r] = e.from + e.n
    /\ IF e.from + e.n < NumTokens(r) + holders[r]
       THEN r \in chunk' /\ holders'[r] = holders[r] /\ drafts'[r] = 0
       ELSE r \notin chunk' /\ holders'[r] = holders[r] + 1 + e.spec /\ drafts'[r] = SpecTokens

Kept(r) == /\ computed'[r] = computed[r] /\ holders'[r] = holders[r] /\ drafts'[r] = drafts[r]
           /\ r \in chunk' <=> r \in chunk

ScheduleOf(r, e) ==
    \/ e = NoEntry /\ status'[r] = status[r] /\ Kept(r)
    \/ /\ e = NoEntry /\ status[r] = "running" /\ status'[r] = "preempted"
       /\ computed'[r] = 0 /\ drafts'[r] = 0 /\ holders'[r] = holders[r]
    \/ /\ status[r] = "running" /\ status'[r] = "running"
       /\ e.n > 0 /\ e.n <= Lacks(r) /\ e = Entry(r, e.n, computed[r]) /\ After(r, e)
    \/ /\ status[r] \in {"waiting", "preempted"} /\ status'[r] = "running"
       /\ e.n > 0 /\ e.from \in Nat /\ e.from + e.n <= NumTokens(r)
       /\ e = Entry(r, e.n, e.from) /\ After(r, e)

LEMMA ScheduleEffect ==
    ASSUME RunnerInv, TwoSteps, Schedule
    PROVE  /\ Len(inbox) + Len(step) + Len(results) < 2
           /\ gone' = {} /\ UNCHANGED <<outputs, results, runnerVars, real, kv>>
           /\ status' \in [Reqs -> {"new", "waiting", "preempted", "running", "done"}]
           /\ computed' = [r \in Reqs |-> computed'[r]]
           /\ holders' = [r \in Reqs |-> holders'[r]]
           /\ drafts' = [r \in Reqs |-> drafts'[r]]
           /\ chunk' \subseteq Reqs
           /\ \E req : /\ req = [r \in Reqs |-> req[r]]
                       /\ inbox' = Append(inbox, [req |-> req, gone |-> gone])
                       /\ lastStep' = {r \in Reqs : req[r].n > 0}
                       /\ \A r \in Reqs : ScheduleOf(r, req[r]) /\ req[r].n \in Nat
<1>t. TypeOK BY DEF RunnerInv
<1>0. /\ Len(inbox) + Len(step) + Len(results) < Depth
      /\ gone' = {} /\ UNCHANGED <<outputs, results, runnerVars, real, kv>>
  BY DEF Schedule
<1>1. PICK S \in SUBSET {r \in Running : ~ AtSentinel(r) /\ Lacks(r) > 0},
           P \in SUBSET Running, A \in SUBSET Waiting :
        /\ S \cap P = {}
        /\ \E n \in [S \cup A -> 1 .. ModelLen], hit \in [A -> Hits] :
           /\ \A r \in S : n[r] <= Lacks(r)
           /\ \A r \in A : n[r] <= NumTokens(r) - hit[r]
           /\ LET req == [r \in Reqs |-> IF r \in S THEN Entry(r, n[r], computed[r])
                                         ELSE IF r \in A THEN Entry(r, n[r], hit[r])
                                         ELSE NoEntry]
              IN /\ inbox' = Append(inbox, [req |-> req, gone |-> gone])
                 /\ AfterSchedule(req, P)
        /\ status' = [r \in Reqs |-> IF r \in P THEN "preempted"
                                     ELSE IF r \in A THEN "running" ELSE status[r]]
        /\ lastStep' = S \cup A
  BY DEF Schedule
<1>2. PICK n \in [S \cup A -> 1 .. ModelLen], hit \in [A -> Hits] :
        /\ \A r \in S : n[r] <= Lacks(r)
        /\ \A r \in A : n[r] <= NumTokens(r) - hit[r]
        /\ LET req == [r \in Reqs |-> IF r \in S THEN Entry(r, n[r], computed[r])
                                      ELSE IF r \in A THEN Entry(r, n[r], hit[r])
                                      ELSE NoEntry]
           IN /\ inbox' = Append(inbox, [req |-> req, gone |-> gone])
              /\ AfterSchedule(req, P)
  BY <1>1
<1> DEFINE req == [r \in Reqs |-> IF r \in S THEN Entry(r, n[r], computed[r])
                                  ELSE IF r \in A THEN Entry(r, n[r], hit[r])
                                  ELSE NoEntry]
<1>3. inbox' = Append(inbox, [req |-> req, gone |-> gone]) /\ AfterSchedule(req, P) BY <1>2
<1>4. ASSUME NEW r \in Reqs, NEW k, NEW f PROVE Entry(r, k, f).n = k /\ Entry(r, k, f).from = f
  BY DEF Entry, NoEntry
<1>5. ASSUME NEW r \in Reqs
      PROVE  /\ r \in S => /\ req[r] = Entry(r, n[r], computed[r]) /\ req[r].n = n[r] /\ n[r] \in Nat
                           /\ n[r] > 0 /\ n[r] <= Lacks(r) /\ r \notin P /\ r \notin A
                           /\ status[r] = "running" /\ req[r].from = computed[r]
             /\ r \in A => /\ req[r] = Entry(r, n[r], hit[r]) /\ req[r].n = n[r] /\ n[r] \in Nat
                           /\ n[r] > 0 /\ r \notin P /\ req[r].from = hit[r] /\ hit[r] \in Nat
                           /\ status[r] \in {"waiting", "preempted"} /\ n[r] <= NumTokens(r) - hit[r]
             /\ r \notin S /\ r \notin A => req[r] = NoEntry /\ req[r].n = 0
             /\ r \in P => status[r] = "running"
  <2>1. r \in S => n[r] \in 1 .. ModelLen BY <1>2
  <2>2. r \in A => n[r] \in 1 .. ModelLen /\ hit[r] \in Nat BY <1>2, Constants
  <2>3. /\ r \in S => status[r] = "running" /\ r \notin P /\ r \notin A
        /\ r \in A => status[r] \in {"waiting", "preempted"} /\ r \notin P /\ r \notin S
        /\ r \in P => status[r] = "running"
    BY <1>1 DEF Running, Waiting
  <2>4. /\ r \in S => req[r] = Entry(r, n[r], computed[r])
        /\ r \in A => req[r] = Entry(r, n[r], hit[r])
        /\ r \notin S /\ r \notin A => req[r] = NoEntry
    BY <2>3
  <2> HIDE DEF req
  <2> QED BY <1>2, <1>4, <2>1, <2>2, <2>3, <2>4, NoEntryType, Constants
<1> HIDE DEF req
<1>6. lastStep' = {r \in Reqs : req[r].n > 0}
  <2>1. lastStep' = S \cup A /\ S \subseteq Reqs /\ A \subseteq Reqs BY <1>1 DEF Running, Waiting
  <2>2. ASSUME NEW r \in Reqs PROVE r \in S \cup A <=> req[r].n > 0 BY <1>5
  <2> QED BY <2>1, <2>2
<1> DEFINE T == {r \in Reqs : req[r].n > 0}
           late == {r \in T : req[r].from + req[r].n < NumTokens(r) + holders[r]}
<1>7. /\ computed' = [r \in Reqs |-> IF r \in T THEN req[r].from + req[r].n
                                     ELSE IF r \in P THEN 0 ELSE computed[r]]
      /\ chunk' = (chunk \ T) \cup late
      /\ holders' = [r \in Reqs |-> IF r \in T \ late THEN holders[r] + 1 + req[r].spec ELSE holders[r]]
      /\ drafts' = [r \in Reqs |-> IF r \in T \ late THEN SpecTokens
                                   ELSE IF r \in late \cup P THEN 0 ELSE drafts[r]]
  BY <1>3 DEF AfterSchedule
<1>8. ASSUME NEW r \in Reqs PROVE ScheduleOf(r, req[r]) /\ req[r].n \in Nat
  <2>0. /\ computed'[r] = IF r \in T THEN req[r].from + req[r].n
                          ELSE IF r \in P THEN 0 ELSE computed[r]
        /\ holders'[r] = IF r \in T \ late THEN holders[r] + 1 + req[r].spec ELSE holders[r]
        /\ drafts'[r] = IF r \in T \ late THEN SpecTokens
                        ELSE IF r \in late \cup P THEN 0 ELSE drafts[r]
        /\ r \in chunk' <=> (r \in chunk /\ r \notin T) \/ r \in late
        /\ status'[r] = IF r \in P THEN "preempted" ELSE IF r \in A THEN "running" ELSE status[r]
    BY <1>1, <1>7
  <2>1. CASE r \in S
    <3>1. r \in T BY <1>5, <2>1
    <3>2. After(r, req[r]) BY <2>0, <3>1 DEF After
    <3> QED BY <1>5, <2>0, <2>1, <3>2 DEF ScheduleOf
  <2>2. CASE r \in A
    <3>1. r \in T BY <1>5, <2>2
    <3>2. After(r, req[r]) BY <2>0, <3>1 DEF After
    <3>3. hit[r] + n[r] <= NumTokens(r)
      <4>1. NumTokens(r) \in Int
        <5>1. outputs[r] \in Nat BY <1>t DEF TypeOK
        <5>2. Prompt[r] \in Nat BY Constants
        <5> QED BY <5>1, <5>2 DEF NumTokens
      <4>2. PICK h, m, t : h = hit[r] /\ m = n[r] /\ t = NumTokens(r) OBVIOUS
      <4>3. h \in Nat /\ m \in Int /\ m <= t - h BY <1>5, <2>2, <4>2
      <4>4. h + m <= t BY <4>1, <4>2, <4>3
      <4> QED BY <4>2, <4>4
    <3> QED BY <1>5, <2>0, <2>2, <3>2, <3>3 DEF ScheduleOf
  <2>3. CASE r \notin S /\ r \notin A
    <3>1. r \notin T /\ req[r] = NoEntry BY <1>5, <2>3
    <3>2. CASE r \in P BY <1>5, <2>0, <2>3, <3>1, <3>2, NoEntryType DEF ScheduleOf
    <3>3. CASE r \notin P BY <2>0, <2>3, <3>1, <3>3, NoEntryType DEF ScheduleOf, Kept
    <3> QED BY <3>2, <3>3
  <2> QED BY <2>1, <2>2, <2>3
<1>9. status' \in [Reqs -> {"new", "waiting", "preempted", "running", "done"}]
  BY <1>1, <1>t DEF TypeOK
<1>10. /\ computed' = [r \in Reqs |-> computed'[r]] /\ holders' = [r \in Reqs |-> holders'[r]]
       /\ drafts' = [r \in Reqs |-> drafts'[r]] /\ chunk' \subseteq Reqs
  BY <1>7, <1>t DEF TypeOK
<1>11. Len(inbox) + Len(step) + Len(results) < 2
  <2>1. PICK d : d = Len(inbox) + Len(step) + Len(results) OBVIOUS
  <2>2. d \in Int
    <3>1. Len(inbox) \in Int /\ Len(step) \in Int /\ Len(results) \in Int BY <1>t, Lengths
    <3> QED BY <2>1, <3>1
  <2>3. d < Depth /\ Depth <= 2 /\ Depth \in Int BY <1>0, <2>1, Constants DEF TwoSteps
  <2> QED BY <2>1, <2>2, <2>3
<1>12. req = [r \in Reqs |-> req[r]] BY DEF req
<1> QED BY <1>0, <1>3, <1>6, <1>8, <1>9, <1>10, <1>11, <1>12

\* The scheduler's numbers of a request that is not done.
LEMMA CountTypes ==
    ASSUME RunnerInv, NEW r \in Reqs, status[r] \in {"preempted", "running"}
    PROVE  /\ holders[r] \in Nat /\ outputs[r] \in Nat /\ drafts[r] \in Nat /\ computed[r] \in Nat
           /\ NumTokens(r) \in Nat /\ NumTokens(r) = Prompt[r] + outputs[r]
           /\ NumTokens(r) < ModelLen /\ drafts[r] <= SpecTokens
           /\ Prompt[r] \in Nat /\ ModelLen \in Nat /\ SpecTokens \in Nat
           /\ real[r] \in Nat /\ kv[r] \in Nat
<1>t. TypeOK /\ ResultsOK /\ CountOf(r) BY DEF RunnerInv
<1>1. /\ outputs[r] \in Nat /\ drafts[r] \in Nat /\ computed[r] \in Int
      /\ Prompt[r] \in Nat /\ ModelLen \in Nat /\ SpecTokens \in Nat /\ real[r] \in Nat /\ kv[r] \in Nat
  BY <1>t, Constants DEF TypeOK
<1>2. HeldSum(r) \in Nat
  <2>1. /\ Held(At(results, 1, r), r) \in Nat /\ Held(At(results, 2, r), r) \in Nat
        /\ Held(At(step, 1, r), r) \in Nat
        /\ Held(At(inbox, 1, r), r) \in Nat /\ Held(At(inbox, 2, r), r) \in Nat
    BY <1>t, Types, HeldType
  <2> QED BY <2>1 DEF HeldSum
<1>3. holders[r] = HeldSum(r) /\ NumTokens(r) < ModelLen /\ drafts[r] <= SpecTokens
  BY <1>t DEF CountOf
<1>4. computed[r] \in Nat
  <2>1. computed[r] = 0 \/ computed[r] >= 1 BY <1>t DEF CountOf
  <2> QED BY <1>1, <2>1
<1> QED BY <1>1, <1>2, <1>3, <1>4 DEF NumTokens

\* The entry of a running request.
LEMMA RunEntry ==
    ASSUME RunnerInv, NEW r \in Reqs, status[r] = "running",
           NEW e, e.n \in Nat, e.n > 0, e.n <= Lacks(r), e = Entry(r, e.n, computed[r])
    PROVE  /\ e \in EntryType /\ EntryOK(e, r)
           /\ e.kind = "running" /\ e.from = computed[r] /\ e.outs = outputs[r] + holders[r]
           /\ r \notin lastStep => e.all = outputs[r]
           /\ r \in chunk => Part(e, r)
           /\ r \notin chunk => Decode(e, r)
<1> DEFINE n == e.n
           sp == SpecPart(r, n)
<1>t. CountOf(r) BY DEF RunnerInv
<1>1. /\ holders[r] \in Nat /\ outputs[r] \in Nat /\ drafts[r] \in Nat /\ computed[r] \in Nat
      /\ NumTokens(r) \in Nat /\ NumTokens(r) = Prompt[r] + outputs[r]
      /\ drafts[r] <= SpecTokens
      /\ Prompt[r] \in Nat /\ ModelLen \in Nat /\ SpecTokens \in Nat
  BY CountTypes
<1>2. /\ e.kind = "running" /\ e.spec = sp /\ e.from = computed[r]
      /\ e.outs = outputs[r] + holders[r] /\ e.all = AllTokens(r)
      /\ e = [kind |-> "running", n |-> n, spec |-> sp, from |-> computed[r],
              outs |-> outputs[r] + holders[r], all |-> AllTokens(r)]
  BY DEF Entry
<1>3. n \in Nat /\ n > 0 OBVIOUS
<1>4. n <= NumTokens(r) + drafts[r] + holders[r] - computed[r] /\ n <= ModelLen - 1 - computed[r]
  BY <1>1, <1>3 DEF Lacks, Least
<1> HIDE DEF n
<1>5. AllTokens(r) \in Int BY <1>1 DEF AllTokens
<1>6. CASE r \in chunk
  <2>1. holders[r] = 0 /\ drafts[r] = 0 /\ computed[r] < NumTokens(r) BY <1>t, <1>6 DEF CountOf
  <2>2. sp = 0 BY <1>1, <1>3, <1>4, <2>1 DEF SpecPart, Greatest, Least
  <2>3. Part(e, r)
    <3>1. e.n = n BY DEF n
    <3> QED BY <1>1, <1>2, <1>3, <1>4, <2>1, <2>2, <3>1 DEF Part
  <2>4. e \in EntryType BY <1>1, <1>2, <1>3, <1>5, <2>2 DEF EntryType
  <2>5. EntryOK(e, r)
    <3>1. e.n = n BY DEF n
    <3>2. e.from + e.n < ModelLen /\ e.spec <= SpecTokens BY <1>1, <1>2, <1>3, <1>4, <2>2, <3>1
    <3> QED BY <1>2, <1>3, <2>3, <3>1, <3>2 DEF EntryOK, Added
  <2> QED BY <1>2, <1>6, <2>3, <2>4, <2>5 DEF AllTokens
<1>7. CASE r \notin chunk
  <2>1. computed[r] = NumTokens(r) + holders[r] - 1 BY <1>t, <1>7 DEF CountOf
  <2>2. sp = n - 1
    <3>1. n + computed[r] - NumTokens(r) - holders[r] = n - 1 /\ n - 1 <= drafts[r]
      BY <1>1, <1>3, <1>4, <2>1
    <3> QED BY <1>1, <1>3, <3>1 DEF SpecPart, Greatest, Least
  <2>3. Decode(e, r)
    <3>1. e.n = n BY DEF n
    <3> QED BY <1>1, <1>2, <1>3, <2>1, <2>2, <3>1 DEF Decode
  <2>4. e \in EntryType BY <1>1, <1>2, <1>3, <1>5, <2>2 DEF EntryType
  <2>5. EntryOK(e, r)
    <3>1. e.n = n BY DEF n
    <3>2. e.from + e.n < ModelLen /\ e.spec <= SpecTokens BY <1>1, <1>2, <1>3, <1>4, <2>1, <2>2, <3>1
    <3> QED BY <1>2, <1>3, <2>3, <3>1, <3>2 DEF EntryOK, Added
  <2> QED BY <1>2, <1>7, <2>3, <2>4, <2>5 DEF AllTokens
<1> QED BY <1>6, <1>7

\* The entry of a request that is admitted.
LEMMA AddEntry ==
    ASSUME RunnerInv, Len(inbox) + Len(step) + Len(results) < 2,
           NEW r \in Reqs, status[r] \in {"waiting", "preempted"},
           NEW e, e.n \in Nat, e.n > 0, e.from \in Nat, e.from + e.n <= NumTokens(r),
           e = Entry(r, e.n, e.from)
    PROVE  /\ e \in EntryType /\ EntryOK(e, r) /\ e.kind \in Added /\ Part(e, r)
           /\ r \notin lastStep /\ InNoStep(r)
           /\ holders[r] = 0 /\ e.outs = outputs[r] /\ NumTokens(r) = real[r]
           /\ Prompt[r] + e.outs = real[r] /\ (e.kind # "new" => e.all = e.outs)
           /\ NumTokens(r) < ModelLen /\ NumTokens(r) \in Nat
<1> DEFINE n == e.n
           f == e.from
<1>t. CountOf(r) BY DEF RunnerInv
<1>n. n \in Nat /\ n > 0 /\ f \in Nat /\ f + n <= NumTokens(r) OBVIOUS
<1>l. r \notin lastStep BY <1>t DEF CountOf
<1>m. InNoStep(r) BY <1>l, LeftOut
<1>1. CASE status[r] = "waiting"
  <2>1. outputs[r] = 0 /\ holders[r] = 0 /\ real[r] = Prompt[r] BY <1>t, <1>1 DEF CountOf
  <2>2. e = [kind |-> "new", n |-> n, spec |-> 0, from |-> f, outs |-> 0, all |-> -1]
    BY <1>1 DEF Entry, NoEntry
  <2>3. Prompt[r] \in Nat /\ Prompt[r] < ModelLen /\ ModelLen \in Nat /\ SpecTokens \in Nat
    BY Constants
  <2>4. NumTokens(r) = Prompt[r] BY <2>1, <2>3 DEF NumTokens
  <2> HIDE DEF n, f
  <2>5. /\ e.kind = "new" /\ e.n = n /\ e.spec = 0 /\ e.from = f /\ e.outs = 0 /\ e.all = -1
    BY <2>2
  <2>6. e \in EntryType BY <1>n, <2>2 DEF EntryType
  <2>7. Part(e, r) BY <1>n, <2>3, <2>4, <2>5 DEF Part
  <2>8. e.from + e.n < ModelLen /\ e.spec <= SpecTokens BY <1>n, <2>3, <2>4, <2>5
  <2>9. EntryOK(e, r) BY <1>n, <2>5, <2>7, <2>8 DEF EntryOK, Added
  <2> QED BY <1>l, <1>m, <2>1, <2>3, <2>4, <2>5, <2>6, <2>7, <2>9 DEF Added
<1>2. CASE status[r] = "preempted"
  <2>1. drafts[r] = 0 /\ holders[r] = HeldSum(r)
        /\ NumTokens(r) + GenAt(results, 1, r) + GenAt(results, 2, r) = real[r]
    BY <1>t, <1>2 DEF CountOf
  <2>2. HeldSum(r) = 0 /\ GenAt(results, 1, r) = 0 /\ GenAt(results, 2, r) = 0 BY <1>l, LeftOut
  <2>3. /\ outputs[r] \in Nat /\ NumTokens(r) = Prompt[r] + outputs[r] /\ NumTokens(r) < ModelLen
        /\ Prompt[r] \in Nat /\ ModelLen \in Nat /\ SpecTokens \in Nat
    BY <1>2, CountTypes
  <2>4. SpecPart(r, n) = 0
    <3>1. Least(0, n + computed[r] - NumTokens(r) - holders[r]) <= 0
      <4>1. PICK x : x = n + computed[r] - NumTokens(r) - holders[r] OBVIOUS
      <4>2. computed[r] = 0 /\ holders[r] = 0 /\ NumTokens(r) \in Int BY <1>t, <1>2, <2>1, <2>2, <2>3 DEF CountOf
      <4>3. x \in Int BY <1>n, <4>1, <4>2
      <4> QED BY <4>1, <4>3 DEF Least
    <3>2. Least(0, n + computed[r] - NumTokens(r) - holders[r]) \in Int
      <4>1. PICK x : x = n + computed[r] - NumTokens(r) - holders[r] OBVIOUS
      <4>2. computed[r] = 0 /\ holders[r] = 0 /\ NumTokens(r) \in Int BY <1>t, <1>2, <2>1, <2>2, <2>3 DEF CountOf
      <4>3. x \in Int BY <1>n, <4>1, <4>2
      <4> QED BY <4>1, <4>3 DEF Least
    <3> QED BY <2>1, <3>1, <3>2 DEF SpecPart, Greatest
  <2>5. AllTokens(r) = outputs[r] BY <1>l DEF AllTokens
  <2>6. e = [kind |-> "resumed", n |-> n, spec |-> 0, from |-> f, outs |-> outputs[r], all |-> outputs[r]]
    <3>1. e = [kind |-> "resumed", n |-> n, spec |-> SpecPart(r, n), from |-> f,
               outs |-> outputs[r] + holders[r], all |-> AllTokens(r)]
      BY <1>2 DEF Entry
    <3>2. outputs[r] + holders[r] = outputs[r] BY <2>1, <2>2, <2>3
    <3> QED BY <2>4, <2>5, <3>1, <3>2
  <2> HIDE DEF n, f
  <2>7. /\ e.kind = "resumed" /\ e.n = n /\ e.spec = 0 /\ e.from = f /\ e.outs = outputs[r] /\ e.all = outputs[r]
    BY <2>6
  <2>8. e \in EntryType BY <1>n, <2>3, <2>6 DEF EntryType
  <2>9. Part(e, r) BY <1>n, <2>3, <2>7 DEF Part
  <2>10. e.from + e.n < ModelLen /\ e.spec <= SpecTokens BY <1>n, <2>3, <2>7
  <2>11. EntryOK(e, r) BY <1>n, <2>7, <2>9, <2>10 DEF EntryOK, Added
  <2> QED BY <1>l, <1>m, <2>1, <2>2, <2>3, <2>7, <2>8, <2>9, <2>11 DEF Added
<1> QED BY <1>1, <1>2

\* A request left out of the newest step is rebuilt from what is sent of it.
LEMMA FreshMade ==
    ASSUME RunnerInv, Len(inbox) + Len(step) + Len(results) < 2,
           NEW r \in Reqs, NEW e, e.n \in Nat, e.n > 0, ScheduleOf(r, e), r \notin lastStep
    PROVE  Fresh(e, r, kv[r], real[r])
<1>t. CountOf(r) /\ TypeOK BY DEF RunnerInv
<1>1. CASE /\ status[r] = "running" /\ e.n <= Lacks(r) /\ e = Entry(r, e.n, computed[r])
  <2>1. /\ e.kind = "running" /\ e.from = computed[r] /\ e.outs = outputs[r] + holders[r]
        /\ e.all = outputs[r]
    BY <1>1, RunEntry
  <2>2. /\ InNoStep(r) /\ HeldSum(r) = 0 /\ GenAt(results, 1, r) = 0 /\ GenAt(results, 2, r) = 0
        /\ Loss(results, 1, r) = 0 /\ Loss(results, 2, r) = 0
    BY LeftOut
  <2>3. /\ holders[r] = HeldSum(r) /\ computed[r] = Ahead(r)
        /\ NumTokens(r) + GenAt(results, 1, r) + GenAt(results, 2, r) = real[r]
    BY <1>t, <1>1 DEF CountOf
  <2>4. /\ outputs[r] \in Nat /\ NumTokens(r) = Prompt[r] + outputs[r] /\ Prompt[r] \in Nat
        /\ kv[r] \in Nat /\ real[r] \in Nat
    BY <1>1, CountTypes
  <2>5. Ahead(r) = kv[r]
    <3>1. /\ EntryOK(At(inbox, 1, r), r) /\ EntryOK(At(inbox, 2, r), r) BY DEF RunnerInv, SlotsOK
    <3>2. At(inbox, 1, r).kind = "none" /\ At(inbox, 2, r).kind = "none"
      BY <2>2, <3>1, NoEntryType DEF EntryOK, InNoStep
    <3> QED BY <2>2, <2>4, <3>2 DEF Ahead, InNoStep, Added
  <2> QED BY <2>1, <2>2, <2>3, <2>4, <2>5 DEF Fresh
<1>2. CASE /\ status[r] \in {"waiting", "preempted"} /\ e.from \in Nat
           /\ e.from + e.n <= NumTokens(r) /\ e = Entry(r, e.n, e.from)
  <2>1. e.kind \in Added /\ Prompt[r] + e.outs = real[r] /\ (e.kind # "new" => e.all = e.outs)
    BY <1>2, AddEntry
  <2> QED BY <2>1 DEF Fresh, Added
<1> QED BY <1>1, <1>2, NoEntryType DEF ScheduleOf

\* A request in the newest step that is scheduled again is running.
LEMMA AgainRuns ==
    ASSUME RunnerInv, NEW r \in Reqs, NEW e, e.n \in Nat, e.n > 0, ScheduleOf(r, e), r \in lastStep
    PROVE  /\ status[r] = "running"
           /\ e \in EntryType /\ e.kind = "running" /\ e.from = Ahead(r)
           /\ e.outs = outputs[r] + holders[r]
           /\ NewestSamples(r) => Decode(e, r)
           /\ ~ NewestSamples(r) =>
                 /\ e.outs = outputs[r] /\ holders[r] = 0
                 /\ Prompt[r] + e.outs + GenAt(results, 1, r) + GenAt(results, 2, r) = real[r]
<1>t. CountOf(r) /\ TypeOK BY DEF RunnerInv
<1>1. /\ status[r] = "running" /\ e.n <= Lacks(r) /\ e = Entry(r, e.n, computed[r])
  BY <1>t, NoEntryType DEF ScheduleOf, CountOf
<1>2. /\ e \in EntryType /\ e.kind = "running" /\ e.from = computed[r]
      /\ e.outs = outputs[r] + holders[r]
      /\ r \notin chunk => Decode(e, r)
  BY <1>1, RunEntry
<1>3. /\ computed[r] = Ahead(r)
      /\ r \in chunk => holders[r] = 0
      /\ r \in chunk <=> ~ NewestSamples(r)
      /\ NumTokens(r) + GenAt(results, 1, r) + GenAt(results, 2, r) = real[r]
  BY <1>t, <1>1 DEF CountOf
<1>4. outputs[r] \in Nat /\ NumTokens(r) = Prompt[r] + outputs[r] BY <1>1, CountTypes
<1> QED BY <1>1, <1>2, <1>3, <1>4

\* The output is the next one for the runner.
LEMMA HeadMade ==
    ASSUME RunnerInv, Len(inbox) + Len(step) + Len(results) < 2, inbox = <<>>, step = <<>>,
           NEW r \in Reqs, NEW e, e.n \in Nat, ScheduleOf(r, e)
    PROVE  HeadOK(e, r)
<1>t. TypeOK /\ ResultsOK /\ SlotsOK /\ NewestOK /\ IdleOf(r) BY DEF RunnerInv
<1>b. lastStep = batch BY <1>t DEF NewestOK
<1>1. CASE e.n > 0 /\ r \in batch
  <2>1. NewestSamples(r) <=> prevRow[r] # 0 BY DEF NewestSamples
  <2>2. /\ e.kind = "running" /\ e.from = Ahead(r)
        /\ prevRow[r] # 0 => Decode(e, r)
        /\ prevRow[r] = 0 =>
              Prompt[r] + e.outs + GenAt(results, 1, r) + GenAt(results, 2, r) = real[r]
        /\ e.outs \in Nat
    <3>1. e \in EntryType BY <1>1, <1>b, AgainRuns
    <3> QED BY <1>1, <1>b, <2>1, <3>1, AgainRuns, Fields
  <2>3. BatchOK(r) BY <1>1, <1>t DEF IdleOf
  <2>4. /\ kv[r] \in Nat /\ real[r] \in Nat /\ Prompt[r] \in Nat /\ drafted[r] \in Nat
        /\ Len(outs[r]) \in Nat
    <3>1. outs[r] \in Seq(Tok) BY <1>t DEF TypeOK
    <3> QED BY <1>t, <3>1, Constants, LenProperties DEF TypeOK
  <2>5. Ahead(r) = kv[r] + Loss(results, 1, r) + Loss(results, 2, r)
    <3>1. At(inbox, 1, r) = NoEntry /\ At(inbox, 2, r) = NoEntry /\ At(step, 1, r) = NoEntry
      BY EmptyAt
    <3>2. Loss(results, 1, r) \in Nat /\ Loss(results, 2, r) \in Nat BY <1>t, ResultFacts
    <3> QED BY <2>4, <3>1, <3>2, NoEntryType DEF Ahead, Added
  <2>6. /\ GenAt(results, 2, r) = 0 /\ Loss(results, 2, r) = 0
        /\ prevRow[r] = 0 => GenAt(results, 1, r) = 0 /\ Loss(results, 1, r) = 0
        /\ prevRow[r] # 0 => \/ Loss(results, 1, r) = 0
                             \/ Loss(results, 1, r) = drafted[r] - (last[prevRow[r]].count - 1)
    <3>1. CASE results = <<>> BY <3>1, EmptyAt DEF Loss
    <3>2. CASE Len(results) = 1 /\ results # <<>>
      <4>1. GenAt(results, 2, r) = 0 BY <3>2 DEF GenAt
      <4>2. Link(r) BY <1>t, <3>2 DEF IdleOf
      <4>3. /\ At(results, 1, r).spec = drafted[r]
            /\ GenAt(results, 1, r) = IF prevRow[r] = 0 THEN 0 ELSE last[prevRow[r]].count
        BY <1>1, <3>2, <4>2 DEF Link
      <4>4. prevRow[r] # 0 => last[prevRow[r]].count \in Nat BY <2>3 DEF BatchOK, RowOK
      <4> QED BY <2>4, <4>1, <4>3, <4>4 DEF Loss
    <3> QED BY <1>t, <3>1, <3>2, Room
  <2>7. CASE prevRow[r] = 0
    <3>1. e.from = kv[r] BY <2>2, <2>4, <2>5, <2>6, <2>7
    <3>2. e.outs = Len(outs[r])
      <4>1. Prompt[r] + Len(outs[r]) = real[r] BY <2>3, <2>7 DEF BatchOK
      <4>2. Prompt[r] + e.outs = real[r] BY <2>2, <2>4, <2>6, <2>7
      <4> QED BY <2>2, <2>4, <4>1, <4>2
    <3> QED BY <1>1, <2>2, <2>7, <3>1, <3>2 DEF HeadOK
  <2>8. CASE prevRow[r] # 0
    <3>1. e.from = kv[r] + Loss(results, 1, r)
      <4>1. Loss(results, 1, r) \in Nat BY <1>t, ResultFacts
      <4> QED BY <2>2, <2>4, <2>5, <2>6, <4>1
    <3>2. e.from \in {kv[r], kv[r] + drafted[r] - (last[prevRow[r]].count - 1)}
      <4>1. last[prevRow[r]].count \in Nat BY <2>3, <2>8 DEF BatchOK, RowOK
      <4> QED BY <2>4, <2>6, <2>8, <3>1, <4>1
    <3> QED BY <1>1, <2>2, <2>8, <3>2 DEF HeadOK
  <2> QED BY <2>7, <2>8
<1>2. CASE e.n > 0 /\ r \notin batch
  <2>1. Fresh(e, r, kv[r], real[r]) BY <1>2, <1>b, FreshMade
  <2> QED BY <1>2, <2>1 DEF HeadOK
<1>3. CASE ~ (e.n > 0) BY <1>3 DEF HeadOK
<1> QED BY <1>1, <1>2, <1>3

\* The output is for after the step being run.
LEMMA NextMade ==
    ASSUME RunnerInv, Len(inbox) + Len(step) + Len(results) < 2, inbox = <<>>, step # <<>>,
           NEW r \in Reqs, NEW e, e.n \in Nat, ScheduleOf(r, e)
    PROVE  Follows(e, At(step, 1, r), r, kv[r], real[r])
<1>t. TypeOK /\ ResultsOK /\ SlotsOK /\ NewestOK /\ BusyOf(r) BY DEF RunnerInv
<1>b. lastStep = batch /\ (r \in batch <=> At(step, 1, r).n > 0) BY <1>t DEF NewestOK
<1>r. results = <<>> BY <1>t, Room
<1>1. CASE e.n > 0 /\ r \in batch
  <2>1. NewestSamples(r) <=> Samples(At(step, 1, r), r) BY DEF NewestSamples
  <2>2. GenAt(results, 1, r) = 0 /\ GenAt(results, 2, r) = 0 BY <1>r, EmptyAt
  <2>3. /\ e \in EntryType /\ e.kind = "running" /\ e.from = Ahead(r)
        /\ Samples(At(step, 1, r), r) => Decode(e, r)
        /\ ~ Samples(At(step, 1, r), r) => Prompt[r] + e.outs + 0 + 0 = real[r]
    BY <1>1, <1>b, <2>1, <2>2, AgainRuns
  <2>4. /\ kv[r] \in Nat /\ real[r] \in Nat /\ Prompt[r] \in Nat /\ e.outs \in Nat
        /\ At(step, 1, r) \in EntryType
    BY <1>t, <2>3, Types, Fields, Constants DEF TypeOK
  <2>5. Ahead(r) = kv[r] + At(step, 1, r).n
    <3>1. At(inbox, 1, r) = NoEntry /\ At(inbox, 2, r) = NoEntry BY EmptyAt
    <3>2. Loss(results, 1, r) = 0 /\ Loss(results, 2, r) = 0 BY <2>2 DEF Loss
    <3> QED BY <2>4, <3>1, <3>2, NoEntryType, Fields DEF Ahead, Added
  <2>6. ~ Samples(At(step, 1, r), r) => e.outs = At(step, 1, r).outs
    <3>1. ASSUME ~ Samples(At(step, 1, r), r) PROVE e.outs = At(step, 1, r).outs
      <4>1. RunOK(step[1], r) BY <1>1, <1>b, <1>t DEF BusyOf
      <4>2. At(step, 1, r) = step[1].req[r]
        <5>1. Len(step) = 1 BY <1>t, Lengths
        <5> QED BY <5>1 DEF At
      <4>3. Prompt[r] + At(step, 1, r).outs = real[r] BY <3>1, <4>1, <4>2 DEF RunOK
      <4>4. At(step, 1, r).outs \in Nat BY <2>4, Fields
      <4> QED BY <2>3, <2>4, <3>1, <4>3, <4>4
    <3> QED BY <3>1
  <2> QED BY <1>1, <1>b, <2>3, <2>5, <2>6 DEF Follows
<1>2. CASE e.n > 0 /\ r \notin batch
  <2>1. Fresh(e, r, kv[r], real[r]) BY <1>2, <1>b, FreshMade
  <2> QED BY <1>2, <1>b, <2>1 DEF Follows
<1>3. CASE ~ (e.n > 0) BY <1>3 DEF Follows
<1> QED BY <1>1, <1>2, <1>3

\* The output is for after the one the runner has not taken.
LEMMA SecondMade ==
    ASSUME RunnerInv, Len(inbox) + Len(step) + Len(results) < 2, Len(inbox) = 1,
           NEW r \in Reqs, NEW e, e.n \in Nat, ScheduleOf(r, e)
    PROVE  Follows(e, At(inbox, 1, r), r, Begins(At(inbox, 1, r), kv[r]), real[r])
<1> DEFINE q == At(inbox, 1, r)
<1>r. /\ step = <<>> /\ results = <<>> /\ inbox # <<>>
  <2>1. TypeOK BY DEF RunnerInv
  <2> QED BY <2>1, Room, Lengths
<1>t. TypeOK /\ ResultsOK /\ SlotsOK /\ NewestOK /\ IdleOf(r) BY <1>r DEF RunnerInv
<1>b. r \in lastStep <=> q.n > 0 BY <1>t, <1>r DEF NewestOK
<1>q. q \in EntryType /\ EntryOK(q, r) /\ HeadOK(q, r) BY <1>t, Types DEF SlotsOK, IdleOf
<1>k. /\ kv[r] \in Nat /\ real[r] \in Nat /\ Prompt[r] \in Nat BY <1>t, Constants DEF TypeOK
<1> HIDE DEF q
<1>1. CASE e.n > 0 /\ q.n > 0
  <2>1. NewestSamples(r) <=> Samples(q, r) BY <1>r DEF NewestSamples, q
  <2>2. GenAt(results, 1, r) = 0 /\ GenAt(results, 2, r) = 0 BY <1>r, EmptyAt
  <2>3. /\ e \in EntryType /\ e.kind = "running" /\ e.from = Ahead(r)
        /\ Samples(q, r) => Decode(e, r)
        /\ ~ Samples(q, r) => Prompt[r] + e.outs + 0 + 0 = real[r]
    BY <1>1, <1>b, <2>1, <2>2, AgainRuns
  <2>4. e.outs \in Nat /\ q.outs \in Nat /\ q.n \in Nat /\ q.from \in Nat BY <1>q, <2>3, Fields
  <2>5. Ahead(r) = Begins(q, kv[r]) + q.n
    <3>1. At(inbox, 2, r) = NoEntry /\ At(step, 1, r) = NoEntry BY <1>r, EmptyAt DEF At
    <3>2. Loss(results, 1, r) = 0 /\ Loss(results, 2, r) = 0 BY <2>2 DEF Loss
    <3> QED BY <1>k, <2>4, <3>1, <3>2, NoEntryType DEF Ahead, Added, Begins, q
  <2>6. ~ Samples(q, r) => e.outs = q.outs
    <3>1. ASSUME ~ Samples(q, r) PROVE e.outs = q.outs
      <4>1. Prompt[r] + q.outs = real[r]
        <5>1. CASE r \in batch
          <6>1. ~ Decode(q, r)
            <7>1. Decode(q, r) => Samples(q, r) BY <1>1, <1>k, <2>4 DEF Decode, Samples
            <7> QED BY <3>1, <7>1
          <6>2. prevRow[r] = 0 /\ q.outs = Len(outs[r]) BY <1>1, <1>q, <5>1, <6>1 DEF HeadOK
          <6>3. Prompt[r] + Len(outs[r]) = real[r] BY <1>t, <5>1, <6>2 DEF IdleOf, BatchOK
          <6> QED BY <6>2, <6>3
        <5>2. CASE r \notin batch BY <1>1, <1>q, <5>2 DEF HeadOK, Fresh
        <5> QED BY <5>1, <5>2
      <4> QED BY <1>k, <2>3, <2>4, <3>1, <4>1
    <3> QED BY <3>1
  <2> QED BY <1>1, <2>3, <2>5, <2>6 DEF Follows, q
<1>2. CASE e.n > 0 /\ ~ (q.n > 0)
  <2>1. Fresh(e, r, kv[r], real[r]) BY <1>2, <1>b, FreshMade
  <2>2. Begins(q, kv[r]) = kv[r]
    <3>1. q.n = 0 BY <1>2, <1>q, Fields
    <3> QED BY <1>q, <3>1, NoEntryType DEF EntryOK, Begins, Added
  <2> QED BY <1>2, <2>1, <2>2 DEF Follows, q
<1>3. CASE ~ (e.n > 0) BY <1>3 DEF Follows
<1> QED BY <1>1, <1>2, <1>3

\* What is scheduled for one request, as an entry.
LEMMA EntryMade ==
    ASSUME RunnerInv, Len(inbox) + Len(step) + Len(results) < 2,
           NEW r \in Reqs, NEW e, e.n \in Nat, ScheduleOf(r, e)
    PROVE  /\ e \in EntryType /\ EntryOK(e, r)
           /\ computed'[r] \in Int /\ holders'[r] \in Int /\ drafts'[r] \in Nat
           /\ status[r] = "done" => e = NoEntry /\ status'[r] = "done"
<1>t. TypeOK BY DEF RunnerInv
<1>k. computed[r] \in Int /\ holders[r] \in Int /\ drafts[r] \in Nat /\ SpecTokens \in Nat
  BY <1>t, Constants DEF TypeOK
<1>1. ASSUME e \in EntryType, After(r, e)
      PROVE  computed'[r] \in Int /\ holders'[r] \in Int /\ drafts'[r] \in Nat
  <2>1. e.from \in Nat /\ e.n \in Nat /\ e.spec \in Nat BY <1>1, Fields
  <2>2. computed'[r] = e.from + e.n BY <1>1 DEF After
  <2>3. \/ holders'[r] = holders[r] /\ drafts'[r] = 0
        \/ holders'[r] = holders[r] + 1 + e.spec /\ drafts'[r] = SpecTokens
    BY <1>1 DEF After
  <2> QED BY <1>k, <2>1, <2>2, <2>3
<1>2. CASE e = NoEntry /\ status'[r] = status[r] /\ Kept(r)
  BY <1>2, <1>k, NoEntryType, NoEntryOK DEF Kept
<1>3. CASE /\ e = NoEntry /\ status[r] = "running" /\ status'[r] = "preempted"
           /\ computed'[r] = 0 /\ drafts'[r] = 0 /\ holders'[r] = holders[r]
  BY <1>3, <1>k, NoEntryType, NoEntryOK
<1>4. CASE /\ status[r] = "running" /\ status'[r] = "running"
           /\ e.n > 0 /\ e.n <= Lacks(r) /\ e = Entry(r, e.n, computed[r]) /\ After(r, e)
  <2>1. e \in EntryType /\ EntryOK(e, r) BY <1>4, RunEntry
  <2> QED BY <1>1, <1>4, <2>1
<1>5. CASE /\ status[r] \in {"waiting", "preempted"} /\ status'[r] = "running"
           /\ e.n > 0 /\ e.from \in Nat /\ e.from + e.n <= NumTokens(r)
           /\ e = Entry(r, e.n, e.from) /\ After(r, e)
  <2>1. e \in EntryType /\ EntryOK(e, r) BY <1>5, AddEntry
  <2> QED BY <1>1, <1>5, <2>1
<1> QED BY <1>2, <1>3, <1>4, <1>5 DEF ScheduleOf

LEMMA DecodeCounts ==
    ASSUME NEW p \in Nat, NEW o \in Nat, NEW h \in Nat, NEW n \in Nat, NEW f \in Nat, NEW x \in Nat,
           n > 0, f = p + (o + h) - 1, x = n - 1
    PROVE  ~ (f + n < (p + o) + h)
OBVIOUS

LEMMA SumAssoc == ASSUME NEW h \in Nat, NEW x \in Nat PROVE h + 1 + x = h + (1 + x)
OBVIOUS

\* The counts after scheduling e, whose slots hold what they held and e.
LEMMA CountMade ==
    ASSUME RunnerInv, Len(inbox) + Len(step) + Len(results) < 2,
           NEW r \in Reqs, NEW e, e.n \in Nat, ScheduleOf(r, e),
           UNCHANGED <<outputs, results, step, real, kv>>,
           NewestSamples(r)' <=> Samples(e, r),
           r \in lastStep' <=> e.n > 0,
           HeldSum(r)' = HeldSum(r) + Held(e, r),
           InNoStep(r) /\ e.n = 0 => InNoStep(r)',
           e = NoEntry => Ahead(r)' = Ahead(r),
           e.kind = "running" => Ahead(r)' = Ahead(r) + e.n,
           e.kind \in Added /\ InNoStep(r) => Ahead(r)' = e.from + e.n
    PROVE  CountOf(r)'
<1>t. CountOf(r) /\ TypeOK /\ ResultsOK BY DEF RunnerInv
<1>e. NoEntry.n = 0 /\ Held(NoEntry, r) = 0 BY NoEntryType, NoEntryOK
<1>n. NumTokens(r)' = NumTokens(r) BY DEF NumTokens
<1>1. CASE e = NoEntry /\ status'[r] = status[r] /\ Kept(r)
  <2>1. HeldSum(r)' = HeldSum(r)
    <3>1. status[r] \in {"preempted", "running"} => HeldSum(r) \in Nat
      <4>1. status[r] \in {"preempted", "running"} => holders[r] \in Nat /\ holders[r] = HeldSum(r)
        BY <1>t, CountTypes DEF CountOf
      <4> QED BY <4>1
    <3>2. HeldSum(r) \in Nat
      <4>1. /\ Held(At(results, 1, r), r) \in Nat /\ Held(At(results, 2, r), r) \in Nat
            /\ Held(At(step, 1, r), r) \in Nat
            /\ Held(At(inbox, 1, r), r) \in Nat /\ Held(At(inbox, 2, r), r) \in Nat
        BY <1>t, Types, HeldType
      <4> QED BY <4>1 DEF HeldSum
    <3> QED BY <1>1, <1>e, <3>2
  <2>2. r \notin lastStep' BY <1>1, <1>e
  <2> QED BY <1>1, <1>t, <1>e, <1>n, <2>1, <2>2 DEF CountOf, Kept
<1>2. CASE /\ e = NoEntry /\ status[r] = "running" /\ status'[r] = "preempted"
           /\ computed'[r] = 0 /\ drafts'[r] = 0 /\ holders'[r] = holders[r]
  <2>1. /\ holders[r] = HeldSum(r) /\ NumTokens(r) < ModelLen
        /\ NumTokens(r) + GenAt(results, 1, r) + GenAt(results, 2, r) = real[r]
    BY <1>t, <1>2 DEF CountOf
  <2>2. HeldSum(r)' = HeldSum(r)
    <3>1. holders[r] \in Nat BY <1>2, CountTypes
    <3> QED BY <1>2, <1>e, <2>1, <3>1
  <2>3. r \notin lastStep' BY <1>2, <1>e
  <2>4. 0 <= SpecTokens BY Constants
  <2> QED BY <1>2, <1>n, <2>1, <2>2, <2>3, <2>4 DEF CountOf
<1> DEFINE late == e.from + e.n < NumTokens(r) + holders[r]
<1>3. ASSUME /\ e \in EntryType /\ status'[r] = "running" /\ e.n > 0 /\ After(r, e)
             /\ Decode(e, r) \/ Part(e, r)
             /\ e.outs = outputs[r] + holders[r] /\ holders[r] \in Nat /\ holders[r] = HeldSum(r)
             /\ Decode(e, r) \/ holders[r] = 0
             /\ e.from + e.n = Ahead(r)'
             /\ NumTokens(r) \in Nat /\ NumTokens(r) < ModelLen
             /\ NumTokens(r) + GenAt(results, 1, r) + GenAt(results, 2, r) = real[r]
      PROVE  CountOf(r)'
  <2>0. /\ e.n \in Nat /\ e.spec \in Nat /\ e.from \in Nat /\ e.outs \in Nat
        /\ Prompt[r] \in Nat /\ outputs[r] \in Nat /\ SpecTokens \in Nat
        /\ NumTokens(r) = Prompt[r] + outputs[r]
    BY <1>3, <1>t, Fields, Constants DEF TypeOK, NumTokens
  <2>a. e.outs = outputs[r] + holders[r] /\ holders[r] \in Nat /\ e.n > 0 BY <1>3
  <2>1. Samples(e, r) <=> ~ late BY <2>0, <2>a, SMTT(30) DEF Samples
  <2>2. Decode(e, r) => ~ late
    <3>1. ASSUME Decode(e, r) PROVE ~ late
      <4>1. e.from = Prompt[r] + (outputs[r] + holders[r]) - 1 /\ e.spec = e.n - 1
        BY <2>a, <3>1 DEF Decode
      <4>2. ~ (e.from + e.n < (Prompt[r] + outputs[r]) + holders[r])
        BY <2>0, <2>a, <4>1, DecodeCounts
      <4> QED BY <2>0, <4>2
    <3> QED BY <3>1
  <2>3. computed'[r] = e.from + e.n BY <1>3 DEF After
  <2>4. CASE late
    <3>1. r \in chunk' /\ holders'[r] = holders[r] /\ drafts'[r] = 0 BY <1>3, <2>4 DEF After
    <3>2. holders[r] = 0 BY <1>3, <2>2, <2>4
    <3>3. Held(e, r) = 0 BY <2>1, <2>4 DEF Held
    <3>4. computed'[r] < NumTokens(r)' /\ computed'[r] >= 1
      BY <1>3, <1>n, <2>0, <2>3, <2>4, <3>2
    <3>5. HeldSum(r)' = 0 BY <1>3, <3>2, <3>3
    <3>6. drafts'[r] <= SpecTokens BY <2>0, <3>1
    <3> QED BY <1>3, <1>n, <2>1, <2>3, <2>4, <3>1, <3>2, <3>4, <3>5, <3>6 DEF CountOf
  <2>5. CASE ~ late
    <3>1. r \notin chunk' /\ holders'[r] = holders[r] + 1 + e.spec /\ drafts'[r] = SpecTokens
      BY <1>3, <2>5 DEF After
    <3>2. Held(e, r) = 1 + e.spec BY <1>3, <2>1, <2>5 DEF Held
    <3>3. holders'[r] = HeldSum(r)'
      <4>1. holders[r] = HeldSum(r) BY <1>3
      <4>2. HeldSum(r)' = holders[r] + (1 + e.spec) BY <3>2, <4>1
      <4>3. holders[r] + 1 + e.spec = holders[r] + (1 + e.spec) BY <2>0, <2>a, SumAssoc
      <4> QED BY <3>1, <4>2, <4>3
    <3>4. computed'[r] = NumTokens(r)' + holders'[r] - 1
      <4>1. CASE Decode(e, r)
        <5>1. e.from = Prompt[r] + (outputs[r] + holders[r]) - 1 /\ e.spec = e.n - 1
          BY <2>a, <4>1 DEF Decode
        <5>2. e.from + e.n = (Prompt[r] + outputs[r]) + (holders[r] + 1 + e.spec) - 1
            <6>1. PICK p, o, h, n, f, x : /\ p = Prompt[r] /\ o = outputs[r] /\ h = holders[r]
                                        /\ n = e.n /\ f = e.from /\ x = e.spec
            OBVIOUS
          <6>2. /\ p \in Nat /\ o \in Nat /\ h \in Nat /\ n \in Nat /\ f \in Nat /\ x \in Nat
                /\ f = p + (o + h) - 1 /\ x = n - 1
            BY <2>0, <2>a, <5>1, <6>1
          <6>3. f + n = (p + o) + (h + 1 + x) - 1 BY <6>2
          <6> QED BY <6>1, <6>3
        <5> QED BY <1>n, <2>0, <2>3, <3>1, <5>2
      <4>2. CASE ~ Decode(e, r)
        <5>1. Part(e, r) /\ holders[r] = 0 BY <1>3, <4>2
        <5> QED BY <1>3, <1>n, <2>0, <2>3, <2>5, <3>1, <5>1 DEF Part
      <4> QED BY <4>1, <4>2
    <3>5. computed'[r] >= 1 BY <1>3, <2>0, <2>3
    <3>6. drafts'[r] <= SpecTokens BY <2>0, <3>1
    <3> QED BY <1>3, <1>n, <2>1, <2>3, <2>5, <3>1, <3>3, <3>4, <3>5, <3>6 DEF CountOf
  <2> QED BY <2>4, <2>5
<1>4. CASE /\ status[r] = "running" /\ status'[r] = "running"
           /\ e.n > 0 /\ e.n <= Lacks(r) /\ e = Entry(r, e.n, computed[r]) /\ After(r, e)
  <2>1. /\ e \in EntryType /\ EntryOK(e, r)
        /\ e.kind = "running" /\ e.from = computed[r] /\ e.outs = outputs[r] + holders[r]
        /\ r \notin chunk => Decode(e, r)
    BY <1>4, RunEntry
  <2>2. /\ holders[r] = HeldSum(r) /\ computed[r] = Ahead(r) /\ (r \in chunk => holders[r] = 0)
        /\ NumTokens(r) + GenAt(results, 1, r) + GenAt(results, 2, r) = real[r]
    BY <1>t, <1>4 DEF CountOf
  <2>3. holders[r] \in Nat /\ NumTokens(r) \in Nat /\ NumTokens(r) < ModelLen BY <1>4, CountTypes
  <2>4. e.from + e.n = Ahead(r)' BY <2>1, <2>2
  <2>5. Decode(e, r) \/ Part(e, r) BY <1>4, <2>1 DEF EntryOK
  <2> QED BY <1>3, <1>4, <2>1, <2>2, <2>3, <2>4, <2>5
<1>5. CASE /\ status[r] \in {"waiting", "preempted"} /\ status'[r] = "running"
           /\ e.n > 0 /\ e.from \in Nat /\ e.from + e.n <= NumTokens(r)
           /\ e = Entry(r, e.n, e.from) /\ After(r, e)
  <2>1. /\ e \in EntryType /\ EntryOK(e, r) /\ e.kind \in Added /\ Part(e, r)
        /\ r \notin lastStep /\ InNoStep(r)
        /\ holders[r] = 0 /\ e.outs = outputs[r] /\ NumTokens(r) = real[r]
        /\ NumTokens(r) < ModelLen /\ NumTokens(r) \in Nat
    BY <1>5, AddEntry
  <2>2. HeldSum(r) = 0 /\ GenAt(results, 1, r) = 0 /\ GenAt(results, 2, r) = 0 BY <2>1, LeftOut
  <2>3. e.from + e.n = Ahead(r)' BY <2>1
  <2>4. outputs[r] + holders[r] = outputs[r] /\ NumTokens(r) + 0 + 0 = real[r]
    BY <1>t, <2>1 DEF TypeOK
  <2> QED BY <1>3, <1>5, <2>1, <2>2, <2>3, <2>4
<1> QED BY <1>1, <1>2, <1>4, <1>5 DEF ScheduleOf

LEMMA ScheduleInv == ASSUME RunnerInv, TwoSteps, Schedule PROVE RunnerInv'
<1>t. TypeOK /\ ResultsOK /\ SlotsOK /\ NewestOK /\ GoneOK BY DEF RunnerInv
<1>0. /\ Len(inbox) + Len(step) + Len(results) < 2
      /\ gone' = {}
      /\ UNCHANGED <<outputs, results, step, outs, drafted, batch, filled, prevRow, last, real, kv>>
      /\ status' \in [Reqs -> {"new", "waiting", "preempted", "running", "done"}]
      /\ computed' = [r \in Reqs |-> computed'[r]]
      /\ holders' = [r \in Reqs |-> holders'[r]]
      /\ drafts' = [r \in Reqs |-> drafts'[r]]
      /\ chunk' \subseteq Reqs
  BY ScheduleEffect DEF runnerVars
<1>1. PICK req : /\ req = [r \in Reqs |-> req[r]]
                 /\ inbox' = Append(inbox, [req |-> req, gone |-> gone])
                 /\ lastStep' = {r \in Reqs : req[r].n > 0}
                 /\ \A r \in Reqs : ScheduleOf(r, req[r]) /\ req[r].n \in Nat
  BY ScheduleEffect
<1>2. ASSUME NEW r \in Reqs
      PROVE  /\ req[r] \in EntryType /\ EntryOK(req[r], r)
             /\ computed'[r] \in Int /\ holders'[r] \in Int /\ drafts'[r] \in Nat
             /\ status[r] = "done" => req[r] = NoEntry /\ status'[r] = "done"
  BY <1>0, <1>1, EntryMade
<1> DEFINE out == [req |-> req, gone |-> gone]
<1>3. req \in [Reqs -> EntryType] BY <1>1, <1>2
<1>4. out \in OutputType /\ inbox \in Seq(OutputType) BY <1>3, <1>t DEF TypeOK, OutputType
<1>5. inbox' = Append(inbox, out) /\ out.req = req /\ out.gone = gone BY <1>1
<1> HIDE DEF out
<1>6. /\ Len(inbox) \in Nat /\ inbox' \in Seq(OutputType)
      /\ Len(inbox') = Len(inbox) + 1 /\ inbox' # <<>>
      /\ \A k \in 1 .. Len(inbox) : inbox'[k] = inbox[k]
      /\ inbox'[Len(inbox) + 1] = out
  <2>1. /\ Len(inbox) \in Nat /\ inbox' \in Seq(OutputType) /\ Len(inbox') = Len(inbox) + 1
        /\ \A k \in 1 .. Len(inbox) : inbox'[k] = inbox[k]
        /\ inbox'[Len(inbox) + 1] = out
    BY <1>4, <1>5, AppendProperties, LenProperties
  <2>2. Len(<<>>) = 0 OBVIOUS
  <2>3. inbox' # <<>> BY <2>1, <2>2
  <2> QED BY <2>1, <2>3
<1>7. ASSUME NEW r \in Reqs
      PROVE  /\ Len(inbox) = 0 => At(inbox', 1, r) = req[r] /\ At(inbox', 2, r) = NoEntry
                                  /\ At(inbox, 1, r) = NoEntry /\ At(inbox, 2, r) = NoEntry
             /\ Len(inbox) = 1 => At(inbox', 1, r) = At(inbox, 1, r) /\ At(inbox', 2, r) = req[r]
                                  /\ At(inbox, 2, r) = NoEntry
             /\ At(inbox', Len(inbox'), r) = req[r]
             /\ Len(inbox) = 0 \/ Len(inbox) = 1
  <2>1. Len(inbox) = 0 \/ Len(inbox) = 1 BY <1>t, <1>0, Room
  <2>2. ASSUME NEW k \in Nat
        PROVE  At(inbox', k, r) = IF k = Len(inbox) + 1 THEN req[r] ELSE At(inbox, k, r)
    BY <1>4, <1>5, AtAppend
  <2>3. At(inbox', Len(inbox'), r) = req[r] BY <1>6, <2>2
  <2>4. CASE Len(inbox) = 0
    <3>1. At(inbox, 1, r) = NoEntry /\ At(inbox, 2, r) = NoEntry BY <2>4 DEF At
    <3>2. At(inbox', 1, r) = req[r] /\ At(inbox', 2, r) = At(inbox, 2, r) BY <2>2, <2>4
    <3> QED BY <2>3, <2>4, <3>1, <3>2
  <2>5. CASE Len(inbox) = 1
    <3>1. At(inbox, 2, r) = NoEntry BY <2>5 DEF At
    <3>2. At(inbox', 1, r) = At(inbox, 1, r) /\ At(inbox', 2, r) = req[r] BY <2>2, <2>5
    <3> QED BY <2>3, <2>5, <3>1, <3>2
  <2> QED BY <2>1, <2>4, <2>5
<1>8. TypeOK'
  <2>1. /\ computed' \in [Reqs -> Int] /\ holders' \in [Reqs -> Int] /\ drafts' \in [Reqs -> Nat]
    BY <1>0, <1>2
  <2>2. Len(inbox') + Len(step') + Len(results') <= 2
    <3>1. PICK a, b, c : a = Len(inbox) /\ b = Len(step) /\ c = Len(results) OBVIOUS
    <3>2. a \in Int /\ b \in Int /\ c \in Int /\ a + b + c < 2 BY <1>0, <1>t, <3>1, Lengths
    <3>3. (a + 1) + b + c <= 2 BY <3>2
    <3> QED BY <1>0, <1>6, <3>1, <3>3
  <2>3. gone' \subseteq Reqs /\ lastStep' \subseteq Reqs BY <1>0, <1>1
  <2> QED BY <1>0, <1>t, <1>6, <2>1, <2>2, <2>3 DEF TypeOK
<1>9. SlotsOK'
  <2>1. ASSUME NEW r \in Reqs PROVE EntryOK(At(inbox', 1, r), r) /\ EntryOK(At(inbox', 2, r), r)
    BY <1>2, <1>7, <1>t, NoEntryOK DEF SlotsOK
  <2> QED BY <1>0, <1>t, <2>1 DEF SlotsOK
<1>10. ResultsOK' BY <1>0, <1>t DEF ResultsOK
<1>11. GoneOK'
  <2>1. ASSUME NEW j \in 1 .. Len(inbox'), NEW r \in inbox'[j].gone
        PROVE  status'[r] = "done" /\ \A k \in j .. Len(inbox') : At(inbox', k, r).n = 0
    <3>1. /\ r \in Reqs /\ status[r] = "done"
          /\ j # Len(inbox) + 1 => r \in inbox[j].gone /\ j \in 1 .. Len(inbox)
      <4>1. CASE j = Len(inbox) + 1
        <5>1. r \in gone BY <1>5, <1>6, <2>1, <4>1
        <5> QED BY <1>t, <4>1, <5>1 DEF GoneOK, TypeOK
      <4>2. CASE j # Len(inbox) + 1
        <5>1. j \in 1 .. Len(inbox) BY <1>6, <4>2
        <5>2. inbox'[j] = inbox[j] /\ inbox[j] \in OutputType BY <1>4, <1>6, <5>1, ElementOfSeq
        <5>3. r \in inbox[j].gone /\ inbox[j].gone \subseteq Reqs BY <2>1, <5>2 DEF OutputType
        <5> QED BY <1>t, <5>1, <5>3, <4>2 DEF GoneOK
      <4> QED BY <4>1, <4>2
    <3>2. req[r] = NoEntry /\ status'[r] = "done" BY <1>2, <3>1
    <3>3. ASSUME NEW k \in j .. Len(inbox') PROVE At(inbox', k, r).n = 0
      <4>1. CASE k = Len(inbox')
        <5>1. At(inbox', k, r) = req[r] BY <1>7, <3>1, <4>1
        <5> QED BY <3>2, <5>1, NoEntryType
      <4>2. CASE k # Len(inbox')
        <5>1. k \in j .. Len(inbox) /\ k \in 1 .. Len(inbox) /\ j # Len(inbox) + 1 BY <1>6, <4>2
        <5>2. At(inbox', k, r) = At(inbox, k, r) BY <1>6, <5>1 DEF At
        <5>3. r \in inbox[j].gone /\ j \in 1 .. Len(inbox) BY <3>1, <5>1
        <5>4. At(inbox, k, r).n = 0 BY <1>t, <5>1, <5>3 DEF GoneOK
        <5> QED BY <5>2, <5>4
      <4> QED BY <4>1, <4>2
    <3> QED BY <3>2, <3>3
  <2>2. \A r \in gone' : status'[r] = "done" BY <1>0
  <2> QED BY <2>1, <2>2 DEF GoneOK
<1>12. NewestOK'
  <2>1. \A r \in Reqs : At(inbox', Len(inbox'), r) = req[r] BY <1>7
  <2>2. lastStep' = {r \in Reqs : At(inbox', Len(inbox'), r).n > 0} BY <1>1, <2>1
  <2> QED BY <1>0, <1>t, <1>6, <2>2 DEF NewestOK
<1>13. ASSUME NEW r \in Reqs PROVE CountOf(r)'
  <2> DEFINE e == req[r]
  <2>0. e \in EntryType /\ EntryOK(e, r) /\ e.n \in Nat /\ ScheduleOf(r, e) BY <1>1, <1>2
  <2>i. /\ Len(inbox) = 0 => At(inbox', 1, r) = e /\ At(inbox', 2, r) = NoEntry
                             /\ At(inbox, 1, r) = NoEntry /\ At(inbox, 2, r) = NoEntry
        /\ Len(inbox) = 1 => At(inbox', 1, r) = At(inbox, 1, r) /\ At(inbox', 2, r) = e
                             /\ At(inbox, 2, r) = NoEntry
        /\ At(inbox', Len(inbox'), r) = e
        /\ Len(inbox) = 0 \/ Len(inbox) = 1
    BY <1>7
  <2>l. r \in lastStep' <=> e.n > 0 BY <1>1
  <2> HIDE DEF e
  <2>k. /\ At(results, 1, r) \in EntryType /\ At(results, 2, r) \in EntryType
        /\ At(step, 1, r) \in EntryType
        /\ At(inbox, 1, r) \in EntryType /\ At(inbox, 2, r) \in EntryType
        /\ kv[r] \in Nat /\ Loss(results, 1, r) \in Nat /\ Loss(results, 2, r) \in Nat
    BY <1>t, Types, ResultFacts DEF TypeOK
  <2>1. NewestSamples(r)' <=> Samples(e, r) BY <1>6, <2>i DEF NewestSamples
  <2>2. HeldSum(r)' = HeldSum(r) + Held(e, r)
    <3>1. /\ Held(At(results, 1, r), r) \in Nat /\ Held(At(results, 2, r), r) \in Nat
          /\ Held(At(step, 1, r), r) \in Nat /\ Held(e, r) \in Nat /\ Held(NoEntry, r) = 0
          /\ Held(At(inbox, 1, r), r) \in Nat /\ Held(At(inbox, 2, r), r) \in Nat
      BY <2>0, <2>k, HeldType, NoEntryOK
    <3>2. Held(At(inbox', 1, r), r) + Held(At(inbox', 2, r), r)
          = Held(At(inbox, 1, r), r) + Held(At(inbox, 2, r), r) + Held(e, r)
      <4>1. CASE Len(inbox) = 0 BY <2>i, <3>1, <4>1
      <4>2. CASE Len(inbox) = 1 BY <2>i, <3>1, <4>2
      <4> QED BY <2>i, <4>1, <4>2
    <3>3. Held(At(inbox', 1, r), r) \in Nat /\ Held(At(inbox', 2, r), r) \in Nat
      BY <2>i, <3>1
    <3>4. PICK a, b, c, d, f, g, h : /\ a = Held(At(results, 1, r), r) /\ b = Held(At(results, 2, r), r)
                                     /\ c = Held(At(step, 1, r), r) /\ h = Held(e, r)
                                     /\ d = Held(At(inbox, 1, r), r) + Held(At(inbox, 2, r), r)
                                     /\ f = Held(At(inbox', 1, r), r) /\ g = Held(At(inbox', 2, r), r)
      OBVIOUS
    <3>5. HeldSum(r) = a + b + c + d
      <4>1. PICK i, j : i = Held(At(inbox, 1, r), r) /\ j = Held(At(inbox, 2, r), r) OBVIOUS
      <4>2. HeldSum(r) = a + b + c + i + j BY <3>4, <4>1 DEF HeldSum
      <4>3. a + b + c + i + j = a + b + c + (i + j)
        <5>1. a \in Nat /\ b \in Nat /\ c \in Nat /\ i \in Nat /\ j \in Nat BY <3>1, <3>4, <4>1
        <5> QED BY <5>1
      <4> QED BY <3>4, <4>1, <4>2, <4>3
    <3>6. HeldSum(r)' = a + b + c + f + g BY <1>0, <3>4 DEF HeldSum
    <3>7. a + b + c + f + g = a + b + c + d + h
      <4>1. /\ a \in Nat /\ b \in Nat /\ c \in Nat /\ d \in Nat /\ f \in Nat /\ g \in Nat /\ h \in Nat
            /\ f + g = d + h
        BY <3>1, <3>2, <3>3, <3>4
      <4> QED BY <4>1
    <3> QED BY <3>4, <3>5, <3>6, <3>7
  <2>3. InNoStep(r) /\ e.n = 0 => InNoStep(r)' BY <1>0, <2>i, NoEntryType DEF InNoStep
  <2>4. e = NoEntry => Ahead(r)' = Ahead(r) BY <1>0, <2>i DEF Ahead
  <2>5. e.kind = "running" => Ahead(r)' = Ahead(r) + e.n
    <3>1. ASSUME e.kind = "running" PROVE Ahead(r)' = Ahead(r) + e.n
      <4>0. /\ e.n \in Nat /\ At(step, 1, r).n \in Nat
            /\ At(inbox, 1, r).n \in Nat /\ At(inbox, 1, r).from \in Nat
            /\ NoEntry.n = 0 /\ NoEntry.kind \notin Added /\ e.kind \notin Added
        BY <2>0, <2>k, <3>1, Fields, NoEntryType DEF Added
      <4>1. CASE Len(inbox) = 0
        <5>1. Ahead(r) = kv[r] + At(step, 1, r).n + 0 + 0 + Loss(results, 1, r) + Loss(results, 2, r)
          BY <2>i, <4>0, <4>1 DEF Ahead
        <5>2. Ahead(r)' = kv[r] + At(step, 1, r).n + e.n + 0 + Loss(results, 1, r) + Loss(results, 2, r)
          BY <1>0, <2>i, <4>0, <4>1 DEF Ahead
        <5> QED BY <2>k, <4>0, <5>1, <5>2
      <4>2. CASE Len(inbox) = 1 /\ At(inbox, 1, r).kind \in Added
        <5>1. Ahead(r) = At(inbox, 1, r).from + At(inbox, 1, r).n + 0 BY <2>i, <4>0, <4>2 DEF Ahead
        <5>2. Ahead(r)' = At(inbox, 1, r).from + At(inbox, 1, r).n + e.n
          BY <1>0, <2>i, <4>0, <4>2 DEF Ahead
        <5> QED BY <2>k, <4>0, <5>1, <5>2
      <4>3. CASE Len(inbox) = 1 /\ At(inbox, 1, r).kind \notin Added
        <5>1. Ahead(r) = kv[r] + At(step, 1, r).n + At(inbox, 1, r).n + 0
                         + Loss(results, 1, r) + Loss(results, 2, r)
          BY <2>i, <4>0, <4>3 DEF Ahead
        <5>2. Ahead(r)' = kv[r] + At(step, 1, r).n + At(inbox, 1, r).n + e.n
                          + Loss(results, 1, r) + Loss(results, 2, r)
          BY <1>0, <2>i, <4>0, <4>3 DEF Ahead
        <5> QED BY <2>k, <4>0, <5>1, <5>2
      <4> QED BY <2>i, <4>1, <4>2, <4>3
    <3> QED BY <3>1
  <2>6. e.kind \in Added /\ InNoStep(r) => Ahead(r)' = e.from + e.n
    <3>1. ASSUME e.kind \in Added, InNoStep(r) PROVE Ahead(r)' = e.from + e.n
      <4>0. e.n \in Nat /\ e.from \in Nat /\ NoEntry.n = 0 /\ NoEntry.kind \notin Added
        BY <2>0, Fields, NoEntryType DEF Added
      <4>1. CASE Len(inbox) = 0
        <5>1. Ahead(r)' = e.from + e.n + 0 BY <2>i, <3>1, <4>0, <4>1 DEF Ahead
        <5> QED BY <4>0, <5>1
      <4>2. CASE Len(inbox) = 1
        <5>1. At(inbox, 1, r) = NoEntry BY <1>t, <3>1 DEF InNoStep, SlotsOK, EntryOK
        <5> QED BY <2>i, <3>1, <4>0, <4>2, <5>1 DEF Ahead
      <4> QED BY <2>i, <4>1, <4>2
    <3> QED BY <3>1
  <2> QED BY <1>0, <2>0, <2>l, <2>1, <2>2, <2>3, <2>4, <2>5, <2>6, CountMade
<1>14. ASSUME step' = <<>>, NEW r \in Reqs PROVE IdleOf(r)'
  <2>1. IdleOf(r) BY <1>0, <1>14 DEF RunnerInv
  <2>2. BatchOK(r)' <=> BatchOK(r) BY <1>0 DEF BatchOK, RowOK
  <2>h. ASSUME NEW q, HeadOK(q, r) PROVE HeadOK(q, r)' BY <1>0, <2>h DEF HeadOK
  <2>3. /\ HeadOK(At(inbox, 1, r), r)'
        /\ Follows(At(inbox', 2, r), At(inbox', 1, r), r, Begins(At(inbox', 1, r), kv[r]), real[r])
    <3>1. CASE Len(inbox) = 0
      <4>1. inbox = <<>> BY <1>t, <3>1, Lengths
      <4>2. HeadOK(req[r], r) BY <1>0, <1>1, <1>14, <4>1, HeadMade
      <4>3. At(inbox', 1, r) = req[r] /\ At(inbox', 2, r) = NoEntry BY <1>7, <3>1
      <4>4. PICK q : q = req[r] OBVIOUS
      <4>5. HeadOK(q, r)' BY <2>h, <4>2, <4>4
      <4>6. HeadOK(At(inbox, 1, r), r)' BY <4>3, <4>4, <4>5
      <4> QED BY <4>3, <4>6, NoEntryType DEF Follows
    <3>2. CASE Len(inbox) = 1
      <4>1. Follows(req[r], At(inbox, 1, r), r, Begins(At(inbox, 1, r), kv[r]), real[r])
        BY <1>0, <1>1, <3>2, SecondMade
      <4>2. At(inbox', 1, r) = At(inbox, 1, r) /\ At(inbox', 2, r) = req[r] BY <1>7, <3>2
      <4>3. PICK q : q = At(inbox, 1, r) OBVIOUS
      <4>4. HeadOK(q, r)' BY <2>1, <2>h, <4>3 DEF IdleOf
      <4>5. HeadOK(At(inbox, 1, r), r)' BY <4>2, <4>3, <4>4
      <4> QED BY <4>1, <4>2, <4>5
    <3> QED BY <1>7, <3>1, <3>2
  <2>4. results # <<>> => Link(r)' BY <1>0, <2>1 DEF IdleOf, Link
  <2> QED BY <1>0, <2>1, <2>2, <2>3, <2>4 DEF IdleOf
<1>15. ASSUME step' # <<>> PROVE RowsOK(step'[1]) /\ \A r \in Reqs : BusyOf(r)'
  <2>1. RowsOK(step[1]) /\ \A r \in Reqs : BusyOf(r) BY <1>0, <1>15 DEF RunnerInv
  <2>2. ASSUME NEW r \in Reqs PROVE BusyOf(r)'
    <3>1. step # <<>> /\ Len(inbox) = 0 /\ inbox = <<>> BY <1>0, <1>15, <1>t, Room
    <3>2. Follows(req[r], At(step, 1, r), r, kv[r], real[r]) BY <1>0, <1>1, <3>1, NextMade
    <3>3. At(inbox', 1, r) = req[r] BY <1>7, <3>1
    <3> QED BY <1>0, <2>1, <3>2, <3>3 DEF BusyOf, RunOK
  <2> QED BY <1>0, <2>1, <2>2
<1>16. StepTrue' BY <1>0 DEF RunnerInv, StepTrue, Base
<1>17. CountsAgree' BY <1>0 DEF RunnerInv, CountsAgree
<1> QED BY <1>8, <1>9, <1>10, <1>11, <1>12, <1>13, <1>14, <1>15, <1>16, <1>17 DEF RunnerInv

-----------------------------------------------------------------------------
(* Sampling *)

Row(s, r) == CHOOSE i \in DOMAIN s.rows : s.rows[i] = r

LEMMA RowFacts ==
    ASSUME NEW s, RowsOK(s), NEW r \in Reqs
    PROVE  /\ s.rows \in Seq(Reqs) /\ DOMAIN s.rows = 1 .. Len(s.rows) /\ Len(s.rows) \in Nat
           /\ r \in Range(s.rows) <=> s.req[r].n > 0
           /\ s.req[r].n > 0 => /\ Row(s, r) \in 1 .. Len(s.rows) /\ s.rows[Row(s, r)] = r
                                /\ Row(s, r) \in Nat /\ Row(s, r) # 0
           /\ r \in s.skip <=> s.req[r].n > 0 /\ ~ Samples(s.req[r], r)
<1>1. s.rows \in Seq(Reqs) /\ DOMAIN s.rows = 1 .. Len(s.rows) /\ Len(s.rows) \in Nat
  <2>1. s.rows \in Seq(Reqs) BY DEF RowsOK
  <2> QED BY <2>1, LenProperties
<1>2. s.req[r].n > 0 <=> \E i \in 1 .. Len(s.rows) : s.rows[i] = r BY DEF RowsOK
<1>3. r \in Range(s.rows) <=> \E i \in 1 .. Len(s.rows) : s.rows[i] = r BY <1>1 DEF Range
<1>4. (\E i \in DOMAIN s.rows : s.rows[i] = r) =>
         Row(s, r) \in DOMAIN s.rows /\ s.rows[Row(s, r)] = r
  BY DEF Row
<1>5. \A i \in 1 .. Len(s.rows) : i \in Nat /\ i # 0 BY <1>1
<1>6. r \in s.skip <=> s.req[r].n > 0 /\ ~ Samples(s.req[r], r) BY DEF RowsOK
<1> QED BY <1>1, <1>2, <1>3, <1>4, <1>5, <1>6

\* What sample_tokens() does to one request, x the result.
SampleOf(r, e, x) ==
    /\ x.req[r] = e
    /\ e.n = 0 => /\ real'[r] = real[r] /\ kv'[r] = kv[r] /\ outs'[r] = outs[r]
                  /\ filled'[r] = filled[r] /\ prevRow'[r] = 0
    /\ e.n > 0 /\ ~ Samples(e, r) =>
          /\ real'[r] = real[r] /\ kv'[r] = kv[r] + e.n - e.spec /\ outs'[r] = outs[r]
          /\ filled'[r] = filled[r] /\ prevRow'[r] = 0 /\ Gen(x, r) = 0
    /\ e.n > 0 /\ Samples(e, r) =>
          \E b \in 0 .. e.spec :
             /\ real'[r] = real[r] + b + 1 /\ kv'[r] = kv[r] + e.n - e.spec + b
             /\ outs'[r] = Append(outs[r], Hole) /\ filled'[r] = filled[r] + 1
             /\ prevRow'[r] # 0 /\ Gen(x, r) = b + 1
             /\ LET l == last'[prevRow'[r]] IN
                /\ l.start = kv[r] /\ l.count = b + 1 /\ l.token = <<r, kv'[r]>>
                /\ \A j \in 1 .. SpecTokens : l.drafts[j] \in {<<r, kv'[r] + j>>, Noise}

LEMMA SampleEffect ==
    ASSUME RunnerInv, Sample
    PROVE  /\ step # <<>> /\ step' = <<>>
           /\ UNCHANGED <<schedVars, inbox, drafted, batch>>
           /\ real' \in [Reqs -> Nat] /\ kv' \in [Reqs -> Nat] /\ outs' \in [Reqs -> Seq(Tok)]
           /\ filled' \in [Reqs -> Nat] /\ prevRow' \in [Reqs -> Nat]
           /\ \E x \in ResultType :
                 results' = Append(results, x) /\ \A r \in Reqs : SampleOf(r, At(step, 1, r), x)
<1> DEFINE s == step[1]
           R == Range(s.rows)
           sampled == R \ s.skip
<1>0. step # <<>> /\ step' = <<>> /\ UNCHANGED <<schedVars, inbox, drafted, batch>> BY DEF Sample
<1>t. TypeOK /\ RowsOK(s) /\ SlotsOK /\ \A r \in Reqs : BusyOf(r) BY <1>0 DEF RunnerInv
<1>r. s.req \in [Reqs -> EntryType] /\ \A r \in Reqs : At(step, 1, r) = s.req[r]
  <2>1. Len(step) = 1 BY <1>0, <1>t, Lengths
  <2> QED BY <1>0, <1>t, <2>1 DEF TypeOK, At
<1> DEFINE count(a, r) == IF r \in sampled THEN a[r] + 1 ELSE 0
           row(a, i) == LET r == s.rows[i]
                        IN [start |-> s.start[r], count |-> count(a, r),
                            token |-> IF r \in sampled THEN <<r, Base(s, r) + a[r]>> ELSE Noise,
                            drafts |-> [j \in 1 .. SpecTokens |->
                                          IF Fits(s) /\ r \in sampled THEN <<r, Base(s, r) + a[r] + j>>
                                          ELSE Noise]]
           out(a) == [req |-> s.req, proposed |-> Fits(s),
                      row |-> [r \in Reqs |-> IF r \in R THEN Row(s, r) ELSE 0],
                      counts |-> [i \in DOMAIN s.rows |-> count(a, s.rows[i])]]
<1>1. PICK a \in [R -> 0 .. SpecTokens] :
        /\ \A r \in R : a[r] <= IF r \in sampled THEN s.req[r].spec ELSE 0
        /\ last' = [i \in DOMAIN s.rows |-> row(a, i)]
        /\ results' = Append(results, out(a))
        /\ real' = [r \in Reqs |-> IF r \in R THEN real[r] + count(a, r) ELSE real[r]]
        /\ kv' = [r \in Reqs |-> IF r \in R THEN Base(s, r) + a[r] ELSE kv[r]]
        /\ prevRow' = [r \in Reqs |-> SampledRow(s, r)]
        /\ outs' = [r \in Reqs |-> IF r \in sampled THEN Append(outs[r], Hole) ELSE outs[r]]
        /\ filled' = [r \in Reqs |-> IF r \in sampled THEN filled[r] + 1 ELSE filled[r]]
  BY DEF Sample, Row
<1>2. ASSUME NEW r \in Reqs
      PROVE  /\ r \in R <=> s.req[r].n > 0
             /\ r \in sampled <=> s.req[r].n > 0 /\ Samples(s.req[r], r)
             /\ s.req[r].n > 0 => Row(s, r) \in DOMAIN s.rows /\ s.rows[Row(s, r)] = r
                                  /\ Row(s, r) \in Nat /\ Row(s, r) # 0
  BY <1>t, RowFacts
<1>3. ASSUME NEW r \in R
      PROVE  /\ r \in Reqs /\ a[r] \in Nat /\ s.req[r] \in EntryType /\ s.start[r] = kv[r]
             /\ s.req[r].n \in Nat /\ s.req[r].spec \in Nat /\ s.req[r].spec <= s.req[r].n
             /\ kv[r] \in Nat /\ real[r] \in Nat
             /\ r \in sampled => a[r] \in 0 .. s.req[r].spec
             /\ r \notin sampled => a[r] = 0
             /\ Base(s, r) = kv[r] + s.req[r].n - s.req[r].spec
  <2>1. r \in Reqs
    <3>1. s.rows \in Seq(Reqs) BY <1>t DEF RowsOK
    <3> QED BY <3>1, LenProperties DEF Range
  <2>2. a[r] \in 0 .. SpecTokens /\ SpecTokens \in Nat BY <1>1, Constants
  <2>3. s.req[r] \in EntryType /\ EntryOK(s.req[r], r) /\ s.req[r].n > 0
    BY <1>r, <1>2, <1>t, <2>1 DEF SlotsOK
  <2>4. s.req[r].n \in Nat /\ s.req[r].spec \in Nat BY <2>3, Fields
  <2>5. s.req[r].spec <= s.req[r].n BY <2>3, <2>4 DEF EntryOK, Decode, Part
  <2>6. s.start[r] = kv[r] /\ kv[r] \in Nat /\ real[r] \in Nat
    <3>1. RunOK(s, r) BY <1>r, <1>t, <2>1, <2>3 DEF BusyOf
    <3> QED BY <1>t, <2>1, <3>1 DEF RunOK, TypeOK
  <2>7. /\ r \in sampled => a[r] <= s.req[r].spec
        /\ r \notin sampled => a[r] <= 0
    BY <1>1
  <2> HIDE DEF sampled, s
  <2> QED BY <2>1, <2>2, <2>3, <2>4, <2>5, <2>6, <2>7 DEF Base
<1>4. real' \in [Reqs -> Nat]
  <2>1. ASSUME NEW r \in Reqs PROVE real'[r] \in Nat
    <3>1. real'[r] = IF r \in R THEN real[r] + count(a, r) ELSE real[r] BY <1>1
    <3>2. real[r] \in Nat BY <1>t DEF TypeOK
    <3> HIDE DEF R, sampled, s
    <3> QED BY <1>3, <3>1, <3>2
  <2>2. real' = [r \in Reqs |-> real'[r]] BY <1>1
  <2> QED BY <2>1, <2>2
<1>5. kv' \in [Reqs -> Nat]
  <2>1. ASSUME NEW r \in Reqs PROVE kv'[r] \in Nat
    <3>1. kv'[r] = IF r \in R THEN Base(s, r) + a[r] ELSE kv[r] BY <1>1
    <3>2. kv[r] \in Nat BY <1>t DEF TypeOK
    <3> HIDE DEF R, sampled, s
    <3> QED BY <1>3, <3>1, <3>2
  <2>2. kv' = [r \in Reqs |-> kv'[r]] BY <1>1
  <2> QED BY <2>1, <2>2
<1>6. outs' \in [Reqs -> Seq(Tok)] /\ filled' \in [Reqs -> Nat]
  <2>1. ASSUME NEW r \in Reqs PROVE Append(outs[r], Hole) \in Seq(Tok) /\ outs[r] \in Seq(Tok)
    <3>1. outs[r] \in Seq(Tok) /\ Hole \in Tok BY <1>t DEF TypeOK, Tok
    <3> QED BY <3>1, AppendProperties
  <2>2. filled \in [Reqs -> Nat] BY <1>t DEF TypeOK
  <2> HIDE DEF sampled
  <2> QED BY <1>1, <2>1, <2>2
<1>7. ASSUME NEW r \in Reqs PROVE prevRow'[r] = IF r \in sampled THEN Row(s, r) ELSE 0
  BY <1>1, <1>7 DEF SampledRow, Row
<1>8. prevRow' \in [Reqs -> Nat]
  <2>1. ASSUME NEW r \in Reqs PROVE prevRow'[r] \in Nat
    <3> HIDE DEF sampled, s
    <3> QED BY <1>2, <1>7
  <2>2. prevRow' = [r \in Reqs |-> prevRow'[r]] BY <1>1
  <2> QED BY <2>1, <2>2
<1> DEFINE x == out(a)
<1>9. x \in ResultType
  <2>1. [r \in Reqs |-> IF r \in R THEN Row(s, r) ELSE 0] \in [Reqs -> Nat]
    <3> HIDE DEF R, s
    <3> QED BY <1>2
  <2>2. Fits(s) \in BOOLEAN BY DEF Fits
  <2>3. [i \in DOMAIN s.rows |-> count(a, s.rows[i])] \in Seq(Nat)
    <3>1. DOMAIN s.rows = 1 .. Len(s.rows) /\ Len(s.rows) \in Nat
      <4>1. s.rows \in Seq(Reqs) BY <1>t DEF RowsOK
      <4> QED BY <4>1, LenProperties
    <3>2. ASSUME NEW i \in DOMAIN s.rows PROVE count(a, s.rows[i]) \in Nat
      <4>1. s.rows[i] \in R BY DEF Range
      <4> HIDE DEF R, s, sampled
      <4> QED BY <1>3, <4>1
    <3>3. [i \in DOMAIN s.rows |-> count(a, s.rows[i])] \in [1 .. Len(s.rows) -> Nat]
      <4> HIDE DEF count, s
      <4> QED BY <3>1, <3>2
    <3> QED BY <3>1, <3>3, IsASeq
  <2> QED BY <1>r, <2>1, <2>2, <2>3 DEF ResultType
<1>10. ASSUME NEW r \in Reqs PROVE SampleOf(r, s.req[r], x)
  <2>0. x.req[r] = s.req[r] OBVIOUS
  <2>1. CASE ~ (s.req[r].n > 0)
    <3>1. r \notin R /\ r \notin sampled BY <1>2, <2>1
    <3>2. /\ real'[r] = real[r] /\ kv'[r] = kv[r] /\ outs'[r] = outs[r]
          /\ filled'[r] = filled[r] /\ prevRow'[r] = 0
      BY <1>1, <1>7, <3>1
    <3> HIDE DEF x, R, sampled, s
    <3> QED BY <2>0, <2>1, <3>2 DEF SampleOf
  <2>2. CASE s.req[r].n > 0
    <3>1. /\ r \in R /\ a[r] \in Nat /\ real[r] \in Nat
          /\ Base(s, r) = kv[r] + s.req[r].n - s.req[r].spec /\ s.start[r] = kv[r]
          /\ r \in sampled <=> Samples(s.req[r], r)
          /\ r \in sampled => a[r] \in 0 .. s.req[r].spec
          /\ r \notin sampled => a[r] = 0
          /\ Row(s, r) \in DOMAIN s.rows /\ s.rows[Row(s, r)] = r /\ Row(s, r) # 0
          /\ Base(s, r) \in Int
      <4>1. r \in R BY <1>2, <2>2
      <4> HIDE DEF R, sampled, s
      <4> QED BY <1>2, <1>3, <2>2, <4>1
    <3>2. Gen(x, r) = count(a, r)
      <4>1. x.row[r] = Row(s, r) BY <3>1
      <4>2. x.counts[Row(s, r)] = count(a, s.rows[Row(s, r)]) BY <3>1
      <4> HIDE DEF x, s, count
      <4> QED BY <2>0, <2>2, <3>1, <4>1, <4>2 DEF Gen
    <3>3. real'[r] = real[r] + count(a, r) /\ kv'[r] = Base(s, r) + a[r] BY <1>1, <3>1
    <3>4. CASE r \in sampled
      <4>1. outs'[r] = Append(outs[r], Hole) /\ filled'[r] = filled[r] + 1 /\ prevRow'[r] = Row(s, r)
        BY <1>1, <1>7, <3>4
      <4>2. count(a, r) = a[r] + 1 BY <3>4
      <4>3. last'[Row(s, r)] = row(a, Row(s, r)) BY <1>1, <3>1
      <4>4. /\ last'[Row(s, r)].start = s.start[r] /\ last'[Row(s, r)].count = a[r] + 1
            /\ last'[Row(s, r)].token = <<r, Base(s, r) + a[r]>>
            /\ \A j \in 1 .. SpecTokens :
                  last'[Row(s, r)].drafts[j] \in {<<r, Base(s, r) + a[r] + j>>, Noise}
        BY <3>1, <3>4, <4>2, <4>3
      <4> HIDE DEF x, s, R, sampled, count
      <4>5. real'[r] = real[r] + a[r] + 1 BY <3>1, <3>3, <4>2
      <4>6. kv'[r] = kv[r] + s.req[r].n - s.req[r].spec + a[r] BY <3>1, <3>3
      <4>7. Samples(s.req[r], r) /\ a[r] \in 0 .. s.req[r].spec BY <3>1, <3>4
      <4>8. prevRow'[r] # 0 /\ Gen(x, r) = a[r] + 1 BY <3>1, <3>2, <4>1, <4>2
      <4>9. /\ last'[prevRow'[r]].start = kv[r] /\ last'[prevRow'[r]].count = a[r] + 1
            /\ last'[prevRow'[r]].token = <<r, kv'[r]>>
            /\ \A j \in 1 .. SpecTokens : last'[prevRow'[r]].drafts[j] \in {<<r, kv'[r] + j>>, Noise}
        BY <3>1, <3>3, <4>1, <4>4
      <4> QED BY <2>0, <2>2, <4>1, <4>5, <4>6, <4>7, <4>8, <4>9 DEF SampleOf
    <3>5. CASE r \notin sampled
      <4>1. /\ outs'[r] = outs[r] /\ filled'[r] = filled[r] /\ prevRow'[r] = 0 /\ count(a, r) = 0
        BY <1>1, <1>7, <3>5
      <4> HIDE DEF x, s, R, sampled, count
      <4>2. real'[r] = real[r] BY <3>1, <3>3, <4>1
      <4>3. kv'[r] = kv[r] + s.req[r].n - s.req[r].spec BY <3>1, <3>3, <3>5
      <4>4. ~ Samples(s.req[r], r) /\ Gen(x, r) = 0 BY <3>1, <3>2, <3>5, <4>1
      <4> QED BY <2>0, <2>2, <4>1, <4>2, <4>3, <4>4 DEF SampleOf
    <3> QED BY <3>4, <3>5
  <2> QED BY <2>1, <2>2
<1>11. results' = Append(results, x) BY <1>1
<1>12. ASSUME NEW r \in Reqs PROVE SampleOf(r, At(step, 1, r), x)
  <2>1. At(step, 1, r) = s.req[r] BY <1>r
  <2> HIDE DEF x, s
  <2> QED BY <1>10, <2>1
<1> HIDE DEF x
<1> QED BY <1>0, <1>4, <1>5, <1>6, <1>8, <1>9, <1>11, <1>12

\* What the result of a step brings and rejects, and what it leaves of the row.
LEMMA SampleSums ==
    ASSUME NEW e \in EntryType, NEW r \in Reqs, NEW x, EntryOK(e, r), SampleOf(r, e, x),
           kv[r] \in Nat, real[r] \in Nat
    PROVE  /\ Gen(x, r) \in Nat /\ ResultOK(e, Gen(x, r), r)
           /\ real'[r] = real[r] + Gen(x, r)
           /\ kv'[r] + (IF Gen(x, r) > 0 THEN e.spec + 1 - Gen(x, r) ELSE 0) = kv[r] + e.n
           /\ e.n = 0 => Gen(x, r) = 0 /\ prevRow'[r] = 0
           /\ e.n > 0 => (prevRow'[r] # 0 <=> Samples(e, r))
<1>1. e.n \in Nat /\ e.spec \in Nat /\ e.from \in Nat /\ e.outs \in Nat /\ Prompt[r] \in Nat
  BY Fields, Constants
<1>2. CASE e.n = 0
  <2>1. Gen(x, r) = 0 BY <1>2 DEF SampleOf, Gen
  <2> QED BY <1>1, <1>2, <2>1 DEF SampleOf, ResultOK
<1>3. CASE e.n > 0 /\ ~ Samples(e, r)
  <2>1. e.spec = 0 BY <1>1, <1>3 DEF EntryOK, Decode, Part, Samples
  <2>2. /\ real'[r] = real[r] /\ kv'[r] = kv[r] + e.n - e.spec /\ prevRow'[r] = 0
        /\ Gen(x, r) = 0
    BY <1>3 DEF SampleOf
  <2> QED BY <1>1, <1>3, <2>1, <2>2 DEF ResultOK
<1>4. CASE e.n > 0 /\ Samples(e, r)
  <2>1. PICK b \in 0 .. e.spec :
             /\ real'[r] = real[r] + b + 1 /\ kv'[r] = kv[r] + e.n - e.spec + b
             /\ prevRow'[r] # 0 /\ Gen(x, r) = b + 1
    BY <1>4 DEF SampleOf
  <2> QED BY <1>1, <1>4, <2>1 DEF ResultOK
<1> QED BY <1>1, <1>2, <1>3, <1>4

\* Where the sampled step goes.
LEMMA SampleSlots ==
    ASSUME TypeOK, step # <<>>, step' = <<>>, inbox' = inbox,
           NEW x \in ResultType, results' = Append(results, x), NEW r \in Reqs
    PROVE  /\ At(step', 1, r) = NoEntry /\ At(inbox, 2, r) = NoEntry
           /\ results' # <<>> /\ Len(results') = Len(results) + 1
           /\ Len(results) = 0 \/ (Len(results) = 1 /\ inbox = <<>>)
           /\ Len(results) = 0 =>
                 /\ At(results, 1, r) = NoEntry /\ At(results, 2, r) = NoEntry
                 /\ GenAt(results, 1, r) = 0 /\ GenAt(results, 2, r) = 0
                 /\ At(results', 1, r) = x.req[r] /\ At(results', 2, r) = NoEntry
                 /\ GenAt(results', 1, r) = Gen(x, r) /\ GenAt(results', 2, r) = 0
           /\ Len(results) = 1 =>
                 /\ At(results, 2, r) = NoEntry /\ GenAt(results, 2, r) = 0
                 /\ At(results', 1, r) = At(results, 1, r) /\ At(results', 2, r) = x.req[r]
                 /\ GenAt(results', 1, r) = GenAt(results, 1, r) /\ GenAt(results', 2, r) = Gen(x, r)
           /\ At(results', Len(results'), r) = x.req[r]
           /\ GenAt(results', Len(results'), r) = Gen(x, r)
<1>1. /\ results \in Seq(ResultType) /\ Len(results) \in Nat /\ Len(inbox) \in Nat
      /\ Len(results) = 0 \/ (Len(results) = 1 /\ inbox = <<>>)
      /\ Len(inbox) = 0 \/ Len(inbox) = 1
  <2>1. PICK a, c : a = Len(inbox) /\ c = Len(results) OBVIOUS
  <2>2. a \in Nat /\ c \in Nat /\ a + 1 + c <= 2 /\ (a = 0 <=> inbox = <<>>) BY <2>1, Lengths
  <2>3. (c = 0 \/ (c = 1 /\ a = 0)) /\ (a = 0 \/ a = 1) BY <2>2
  <2> QED BY <2>1, <2>2, <2>3 DEF TypeOK
<1>2. At(step', 1, r) = NoEntry /\ At(inbox, 2, r) = NoEntry BY <1>1, EmptyAt DEF At
<1>3. /\ Len(results') = Len(results) + 1
      /\ \A k \in 1 .. Len(results) : results'[k] = results[k]
      /\ results'[Len(results) + 1] = x
  BY <1>1, AppendProperties
<1>4. results' # <<>>
  <2>1. Len(<<>>) = 0 OBVIOUS
  <2> QED BY <1>1, <1>3, <2>1
<1>5. ASSUME NEW k \in Nat
      PROVE  /\ At(results', k, r) = IF k = Len(results) + 1 THEN x.req[r] ELSE At(results, k, r)
             /\ GenAt(results', k, r) = IF k = Len(results) + 1 THEN Gen(x, r) ELSE GenAt(results, k, r)
  BY <1>1, AtAppend, GenAppend
<1>6. /\ At(results', Len(results'), r) = x.req[r]
      /\ GenAt(results', Len(results'), r) = Gen(x, r)
  BY <1>1, <1>3, <1>5
<1>7. CASE Len(results) = 0
  <2>1. /\ At(results, 1, r) = NoEntry /\ At(results, 2, r) = NoEntry
        /\ GenAt(results, 1, r) = 0 /\ GenAt(results, 2, r) = 0
    BY <1>7 DEF At, GenAt
  <2>2. /\ At(results', 1, r) = x.req[r] /\ At(results', 2, r) = At(results, 2, r)
        /\ GenAt(results', 1, r) = Gen(x, r) /\ GenAt(results', 2, r) = GenAt(results, 2, r)
    BY <1>5, <1>7
  <2> QED BY <1>2, <1>3, <1>4, <1>6, <1>7, <2>1, <2>2
<1>8. CASE Len(results) = 1
  <2>1. At(results, 2, r) = NoEntry /\ GenAt(results, 2, r) = 0 BY <1>8 DEF At, GenAt
  <2>2. /\ At(results', 1, r) = At(results, 1, r) /\ At(results', 2, r) = x.req[r]
        /\ GenAt(results', 1, r) = GenAt(results, 1, r) /\ GenAt(results', 2, r) = Gen(x, r)
    BY <1>5, <1>8
  <2> QED BY <1>1, <1>2, <1>3, <1>4, <1>6, <1>8, <2>1, <2>2
<1> QED BY <1>1, <1>7, <1>8

\* The sums over the steps in flight do not change when a step moves on.
LEMMA FiveSum ==
    ASSUME NEW a \in Nat, NEW b \in Nat, NEW c \in Nat, NEW d \in Nat, NEW f \in Nat,
           NEW p, NEW q, b = 0, (p = a /\ q = c) \/ (a = 0 /\ p = c /\ q = 0)
    PROVE  p + q + 0 + d + f = a + b + c + d + f
<1>1. p \in Nat /\ q \in Nat OBVIOUS
<1> QED BY <1>1

LEMMA SampleCount ==
    ASSUME RunnerInv, Sample, NEW x \in ResultType, results' = Append(results, x), NEW r \in Reqs,
           SampleOf(r, At(step, 1, r), x)
    PROVE  CountOf(r)'
<1>t. TypeOK /\ ResultsOK /\ SlotsOK /\ NewestOK /\ CountOf(r) BY DEF RunnerInv
<1>0. /\ step # <<>> /\ step' = <<>>
      /\ status' = status /\ outputs' = outputs /\ computed' = computed /\ holders' = holders
      /\ drafts' = drafts /\ chunk' = chunk /\ lastStep' = lastStep /\ inbox' = inbox
  BY SampleEffect DEF schedVars
<1> DEFINE e == At(step, 1, r)
           g == Gen(x, r)
           loss == IF g > 0 THEN e.spec + 1 - g ELSE 0
<1>1. /\ e \in EntryType /\ e.n \in Nat /\ e.spec \in Nat /\ EntryOK(e, r)
      /\ kv[r] \in Nat /\ real[r] \in Nat /\ outputs[r] \in Nat /\ Prompt[r] \in Nat
  BY <1>t, Types, Fields, Constants DEF SlotsOK, TypeOK
<1>x. x.req[r] = e BY DEF SampleOf
<1>2. /\ g \in Nat /\ real'[r] = real[r] + g /\ kv'[r] + loss = kv[r] + e.n
      /\ e.n = 0 => g = 0 /\ prevRow'[r] = 0
      /\ e.n > 0 => (prevRow'[r] # 0 <=> Samples(e, r))
      /\ ResultOK(e, g, r)
  <2>1. SampleOf(r, e, x) OBVIOUS
  <2> HIDE DEF e
  <2> QED BY <1>1, <2>1, SampleSums
<1>3. /\ At(step', 1, r) = NoEntry /\ At(inbox', 1, r) = At(inbox, 1, r) /\ At(inbox', 2, r) = At(inbox, 2, r)
      /\ \/ /\ At(results, 1, r) = NoEntry /\ At(results, 2, r) = NoEntry
            /\ GenAt(results, 1, r) = 0 /\ GenAt(results, 2, r) = 0
            /\ At(results', 1, r) = e /\ At(results', 2, r) = NoEntry
            /\ GenAt(results', 1, r) = g /\ GenAt(results', 2, r) = 0
         \/ /\ At(results, 2, r) = NoEntry /\ GenAt(results, 2, r) = 0
            /\ At(results', 1, r) = At(results, 1, r) /\ At(results', 2, r) = e
            /\ GenAt(results', 1, r) = GenAt(results, 1, r) /\ GenAt(results', 2, r) = g
  BY <1>t, <1>0, <1>x, SampleSlots
<1>l. loss \in Nat
  <2>1. e.n > 0 => g <= e.spec + 1 BY <1>2, <1>1 DEF ResultOK
  <2> HIDE DEF e, g
  <2> QED BY <1>1, <1>2, <2>1
<1>4. \/ /\ Loss(results, 1, r) = 0 /\ Loss(results, 2, r) = 0
         /\ Loss(results', 1, r) = loss /\ Loss(results', 2, r) = 0
      \/ /\ Loss(results, 2, r) = 0
         /\ Loss(results', 1, r) = Loss(results, 1, r) /\ Loss(results', 2, r) = loss
  BY <1>3 DEF Loss
<1> HIDE DEF e, g, loss
<1>5. /\ Held(At(results, 1, r), r) \in Nat /\ Held(At(results, 2, r), r) \in Nat /\ Held(e, r) \in Nat
      /\ Held(At(inbox, 1, r), r) \in Nat /\ Held(At(inbox, 2, r), r) \in Nat /\ Held(NoEntry, r) = 0
      /\ Loss(results, 1, r) \in Nat /\ GenAt(results, 1, r) \in Nat
      /\ At(inbox, 1, r).n \in Nat /\ At(inbox, 2, r).n \in Nat /\ kv'[r] \in Nat
  BY <1>t, <1>1, Types, Fields, HeldType, NoEntryOK, ResultFacts, SampleEffect
<1>6. HeldSum(r)' = HeldSum(r)
  <2>1. PICK a, b, c, d, f, p, q :
           /\ a = Held(At(results, 1, r), r) /\ b = Held(At(results, 2, r), r) /\ c = Held(e, r)
           /\ d = Held(At(inbox, 1, r), r) /\ f = Held(At(inbox, 2, r), r)
           /\ p = Held(At(results', 1, r), r) /\ q = Held(At(results', 2, r), r)
    OBVIOUS
  <2>2. /\ a \in Nat /\ b \in Nat /\ c \in Nat /\ d \in Nat /\ f \in Nat /\ b = 0
        /\ (p = a /\ q = c) \/ (a = 0 /\ p = c /\ q = 0)
    BY <1>3, <1>5, <2>1
  <2>3. HeldSum(r) = a + b + c + d + f BY <2>1 DEF HeldSum, e
  <2>4. HeldSum(r)' = p + q + 0 + d + f BY <1>0, <1>3, <1>5, <2>1 DEF HeldSum
  <2>5. p + q + 0 + d + f = a + b + c + d + f BY <2>2, FiveSum
  <2> QED BY <2>3, <2>4, <2>5
<1>7. Ahead(r)' = Ahead(r)
  <2>1. CASE At(inbox, 1, r).kind \in Added \/ At(inbox, 2, r).kind \in Added
    BY <1>3, <2>1 DEF Ahead
  <2>2. CASE ~ (At(inbox, 1, r).kind \in Added \/ At(inbox, 2, r).kind \in Added)
    <3>1. PICK a, b, m, o, w : /\ a = Loss(results', 1, r) /\ b = Loss(results', 2, r) /\ m = Loss(results, 1, r)
                               /\ o = Loss(results, 2, r) /\ w = kv'[r]
      OBVIOUS
    <3>2. Ahead(r) = kv[r] + e.n + At(inbox, 1, r).n + At(inbox, 2, r).n + m + o
      BY <2>2, <3>1 DEF Ahead, e
    <3>3. Ahead(r)' = w + 0 + At(inbox, 1, r).n + At(inbox, 2, r).n + a + b
      BY <1>3, <2>2, <3>1, NoEntryType DEF Ahead
    <3>4. (m = 0 /\ o = 0 /\ a = loss /\ b = 0) \/ (o = 0 /\ a = m /\ b = loss)
      BY <1>4, <3>1
    <3>5. PICK i, j, k, n, l : /\ i = At(inbox, 1, r).n /\ j = At(inbox, 2, r).n /\ k = kv[r]
                               /\ n = e.n /\ l = loss
      OBVIOUS
    <3>6. /\ m \in Nat /\ w \in Nat /\ i \in Nat /\ j \in Nat /\ k \in Nat /\ n \in Nat /\ l \in Nat
          /\ w + l = k + n
      BY <1>1, <1>2, <1>5, <1>l, <3>1, <3>5
    <3>7. w + 0 + i + j + a + b = k + n + i + j + m + o
      <4>1. (m = 0 /\ o = 0 /\ a = l /\ b = 0) \/ (o = 0 /\ a = m /\ b = l) BY <3>4, <3>5
      <4>2. CASE m = 0 /\ o = 0 /\ a = l /\ b = 0 BY <3>6, <4>2
      <4>3. CASE o = 0 /\ a = m /\ b = l BY <3>6, <4>3
      <4> QED BY <4>1, <4>2, <4>3
    <3> QED BY <3>2, <3>3, <3>5, <3>7
  <2> QED BY <2>1, <2>2
<1>8. InNoStep(r) => InNoStep(r)'
  <2>1. e = At(step, 1, r) BY DEF e
  <2> QED BY <1>3, <2>1, NoEntryType DEF InNoStep
<1>9. NumTokens(r)' + GenAt(results', 1, r) + GenAt(results', 2, r) = real'[r]
      <=> NumTokens(r) + GenAt(results, 1, r) + GenAt(results, 2, r) = real[r]
  <2>1. PICK a, b, m, o : /\ a = GenAt(results', 1, r) /\ b = GenAt(results', 2, r)
                          /\ m = GenAt(results, 1, r) /\ o = GenAt(results, 2, r)
    OBVIOUS
  <2>2. (m = 0 /\ o = 0 /\ a = g /\ b = 0) \/ (o = 0 /\ a = m /\ b = g) BY <1>3, <2>1
  <2>3. m \in Nat /\ NumTokens(r)' = NumTokens(r) /\ NumTokens(r) \in Nat
    BY <1>0, <1>1, <1>5, <2>1, SMTT(40) DEF NumTokens
  <2>4. PICK y, z, t, k : y = real'[r] /\ z = real[r] /\ t = NumTokens(r) /\ k = g OBVIOUS
  <2>5. /\ y = z + k /\ z \in Nat /\ t \in Nat /\ k \in Nat /\ m \in Nat
        /\ (m = 0 /\ o = 0 /\ a = k /\ b = 0) \/ (o = 0 /\ a = m /\ b = k)
    BY <1>1, <1>2, <2>2, <2>3, <2>4
  <2>6. t + a + b = y <=> t + m + o = z
    <3>1. CASE m = 0 /\ o = 0 /\ a = k /\ b = 0 BY <2>5, <3>1
    <3>2. CASE o = 0 /\ a = m /\ b = k BY <2>5, <3>2
    <3> QED BY <2>5, <3>1, <3>2
  <2> QED BY <2>1, <2>3, <2>4, <2>6
<1>10. r \in lastStep => (NewestSamples(r)' <=> NewestSamples(r))
  <2>1. CASE inbox # <<>> BY <1>0, <2>1 DEF NewestSamples
  <2>2. CASE inbox = <<>>
    <3>1. lastStep = {q \in Reqs : At(step, 1, q).n > 0} BY <1>t, <1>0, <2>2 DEF NewestOK
    <3>2. r \in lastStep => e.n > 0 BY <3>1 DEF e
    <3>3. NewestSamples(r) <=> Samples(e, r) BY <1>0, <2>2 DEF NewestSamples, e
    <3>4. NewestSamples(r)' <=> prevRow'[r] # 0 BY <1>0, <2>2 DEF NewestSamples
    <3> QED BY <1>2, <3>2, <3>3, <3>4
  <2> QED BY <2>1, <2>2
<1>11. NumTokens(r)' = NumTokens(r) BY <1>0 DEF NumTokens
<1>12. status[r] \in {"new", "waiting"} => real'[r] = real[r]
  <2>1. status[r] \in {"new", "waiting"} => e.n = 0 BY <1>t DEF CountOf, InNoStep, e
  <2> QED BY <1>1, <1>2, <2>1
<1> QED BY <1>t, <1>0, <1>6, <1>7, <1>8, <1>9, <1>10, <1>11, <1>12 DEF CountOf

LEMMA SampleIdle ==
    ASSUME RunnerInv, Sample, NEW x \in ResultType, results' = Append(results, x), NEW r \in Reqs,
           SampleOf(r, At(step, 1, r), x)
    PROVE  IdleOf(r)'
<1>t. /\ TypeOK /\ SlotsOK /\ NewestOK /\ BusyOf(r)
      /\ step # <<>> /\ step' = <<>> /\ inbox' = inbox /\ drafted' = drafted /\ batch' = batch
  BY SampleEffect DEF RunnerInv
<1>1. PICK e, q : e = At(step, 1, r) /\ q = At(inbox, 1, r) OBVIOUS
<1>2. /\ e \in EntryType /\ EntryOK(e, r) /\ SampleOf(r, e, x) /\ x.req[r] = e
      /\ q \in EntryType /\ EntryOK(q, r) /\ Follows(q, e, r, kv[r], real[r])
      /\ r \in batch <=> e.n > 0
  <2>1. At(step, 1, r) \in EntryType /\ At(inbox, 1, r) \in EntryType
    <3>1. ResultsOK BY DEF RunnerInv
    <3> QED BY <1>t, <3>1, Types
  <2>2. EntryOK(At(step, 1, r), r) /\ EntryOK(At(inbox, 1, r), r) BY <1>t DEF SlotsOK
  <2>3. Follows(At(inbox, 1, r), At(step, 1, r), r, kv[r], real[r]) BY <1>t DEF BusyOf
  <2>4. r \in batch <=> At(step, 1, r).n > 0 BY <1>t DEF NewestOK
  <2>5. x.req[r] = At(step, 1, r) BY DEF SampleOf
  <2> QED BY <1>1, <2>1, <2>2, <2>3, <2>4, <2>5
<1>3. /\ e.n \in Nat /\ e.spec \in Nat /\ e.from \in Nat /\ e.outs \in Nat
      /\ q.n \in Nat /\ q.from \in Nat /\ q.outs \in Nat
      /\ kv[r] \in Nat /\ real[r] \in Nat /\ Prompt[r] \in Nat /\ SpecTokens \in Nat
      /\ filled[r] \in Nat /\ outs[r] \in Seq(Tok) /\ Len(outs[r]) \in Nat
  BY <1>t, <1>2, Fields, Constants, LenProperties DEF TypeOK
<1>4. ASSUME e.n > 0
      PROVE  /\ Len(outs[r]) = e.outs /\ drafted[r] = e.spec /\ filled[r] <= e.outs
             /\ Prompt[r] + e.outs >= real[r]
             /\ Samples(e, r) => kv[r] + e.n - e.spec = real[r]
             /\ ~ Samples(e, r) => Known(outs[r], r) /\ Prompt[r] + e.outs = real[r]
  <2>1. step[1].req[r] = e
    <3>1. Len(step) = 1 BY <1>t, Lengths
    <3> QED BY <1>1, <3>1 DEF At
  <2>2. RunOK(step[1], r) BY <1>t, <1>1, <1>4 DEF BusyOf
  <2> QED BY <2>1, <2>2 DEF RunOK
<1>5. ASSUME e.n > 0, ~ Samples(e, r)
      PROVE  /\ e.spec = 0 /\ prevRow'[r] = 0 /\ kv'[r] = kv[r] + e.n /\ real'[r] = real[r]
             /\ outs'[r] = outs[r] /\ filled'[r] = filled[r] /\ Gen(x, r) = 0
  <2>1. e.spec = 0 BY <1>2, <1>3, <1>5 DEF EntryOK, Decode, Part, Samples
  <2>2. /\ real'[r] = real[r] /\ kv'[r] = kv[r] + e.n - e.spec /\ prevRow'[r] = 0
        /\ outs'[r] = outs[r] /\ filled'[r] = filled[r] /\ Gen(x, r) = 0
    BY <1>2, <1>5 DEF SampleOf
  <2> QED BY <1>3, <2>1, <2>2
<1>6. ASSUME e.n > 0, Samples(e, r)
      PROVE  \E b, l :
                /\ b \in 0 .. e.spec /\ prevRow'[r] # 0 /\ l = last'[prevRow'[r]] /\ Gen(x, r) = b + 1
                /\ kv'[r] = real[r] + b /\ real'[r] = real[r] + b + 1
                /\ Len(outs'[r]) = e.outs + 1 /\ filled'[r] = filled[r] + 1
                /\ l.start = kv[r] /\ l.count = b + 1 /\ l.token = <<r, kv'[r]>>
                /\ \A j \in 1 .. SpecTokens : l.drafts[j] \in {<<r, kv'[r] + j>>, Noise}
  <2>1. PICK b \in 0 .. e.spec :
             /\ real'[r] = real[r] + b + 1 /\ kv'[r] = kv[r] + e.n - e.spec + b
             /\ outs'[r] = Append(outs[r], Hole) /\ filled'[r] = filled[r] + 1
             /\ prevRow'[r] # 0 /\ Gen(x, r) = b + 1
             /\ last'[prevRow'[r]].start = kv[r] /\ last'[prevRow'[r]].count = b + 1
             /\ last'[prevRow'[r]].token = <<r, kv'[r]>>
             /\ \A j \in 1 .. SpecTokens : last'[prevRow'[r]].drafts[j] \in {<<r, kv'[r] + j>>, Noise}
    BY <1>2, <1>6 DEF SampleOf
  <2>2. kv'[r] = real[r] + b BY <1>3, <1>4, <1>6, <2>1
  <2>3. Len(outs'[r]) = e.outs + 1
    <3>1. Hole \in Tok BY DEF Tok
    <3>2. Len(Append(outs[r], Hole)) = Len(outs[r]) + 1 BY <1>3, <3>1, AppendProperties
    <3> QED BY <1>4, <1>6, <2>1, <3>2
  <2> QED BY <2>1, <2>2, <2>3
<1>7. ASSUME e.n > 0 PROVE BatchOK(r)'
  <2>1. drafted[r] <= SpecTokens BY <1>2, <1>3, <1>4, <1>7 DEF EntryOK
  <2>2. CASE ~ Samples(e, r)
    <3>1. filled'[r] <= Len(outs'[r]) BY <1>3, <1>4, <1>5, <1>7, <2>2
    <3>2. drafted'[r] = 0 /\ Known(outs'[r], r) /\ Prompt[r] + Len(outs'[r]) = real'[r]
      BY <1>t, <1>3, <1>4, <1>5, <1>7, <2>2
    <3> QED BY <1>t, <1>5, <1>7, <2>1, <2>2, <3>1, <3>2 DEF BatchOK
  <2>3. CASE Samples(e, r)
    <3>1. PICK b, l :
                /\ b \in 0 .. e.spec /\ prevRow'[r] # 0 /\ l = last'[prevRow'[r]]
                /\ kv'[r] = real[r] + b /\ real'[r] = real[r] + b + 1
                /\ Len(outs'[r]) = e.outs + 1 /\ filled'[r] = filled[r] + 1
                /\ l.start = kv[r] /\ l.count = b + 1 /\ l.token = <<r, kv'[r]>>
                /\ \A j \in 1 .. SpecTokens : l.drafts[j] \in {<<r, kv'[r] + j>>, Noise}
      BY <1>6, <1>7, <2>3
    <3>2. filled'[r] <= Len(outs'[r])
      <4>1. PICK f, g, u : f = filled[r] /\ g = filled'[r] /\ u = e.outs OBVIOUS
      <4>2. f \in Nat /\ u \in Nat /\ f <= u /\ g = f + 1 BY <1>3, <1>4, <1>7, <3>1, <4>1
      <4>3. g <= u + 1 BY <4>2
      <4> QED BY <3>1, <4>1, <4>3
    <3>3. kv'[r] + 1 = real'[r] BY <1>3, <3>1
    <3>b. b \in Int BY <1>3, <3>1
    <3>4. l.count \in 1 .. drafted[r] + 1 /\ l.count \in Nat /\ l.start \in Nat
      <4>1. l.count \in 1 .. e.spec + 1 /\ l.count \in Nat BY <1>3, <3>1, SMTT(40)
      <4> QED BY <1>3, <1>4, <1>7, <3>1, <4>1
    <3>5. drafted[r] > 0 => l.start + l.count = kv'[r]
      <4>1. ASSUME e.spec > 0 PROVE kv[r] + (b + 1) = real[r] + b
        <5>1. e.spec = e.n - 1 BY <1>2, <1>3, <1>7, <4>1 DEF EntryOK, Decode, Part
        <5>2. kv[r] + e.n - e.spec = real[r] BY <1>4, <1>7, <2>3
        <5>3. PICK k, n, s, t : k = kv[r] /\ n = e.n /\ s = e.spec /\ t = real[r] OBVIOUS
        <5>4. /\ k \in Nat /\ n \in Nat /\ s \in Nat /\ t \in Nat /\ b \in Int
              /\ s = n - 1 /\ k + n - s = t
          BY <1>3, <3>b, <5>1, <5>2, <5>3
        <5>5. k + (b + 1) = t + b BY <5>4
        <5> QED BY <5>3, <5>5
      <4> QED BY <1>4, <1>7, <3>1, <4>1
    <3>6. kv'[r] - (l.count - 1) + 1 <= Prompt[r] + Len(outs'[r])
      <4>1. real[r] <= Prompt[r] + e.outs BY <1>4, <1>7
      <4> QED BY <1>3, <3>1, <4>1, SMTT(40)
    <3>7. RowOK(l, r)' BY <1>t, <3>1, <3>4, <3>5, <3>6 DEF RowOK
    <3> QED BY <1>t, <2>1, <3>1, <3>2, <3>3, <3>7 DEF BatchOK
  <2> QED BY <2>2, <2>3
<1>8. HeadOK(q, r)'
  <2>1. CASE q.n = 0 BY <2>1 DEF HeadOK
  <2>2. CASE q.n > 0 /\ e.n = 0
    <3>1. Fresh(q, r, kv[r], real[r]) BY <1>2, <2>2 DEF Follows
    <3>2. kv'[r] = kv[r] /\ real'[r] = real[r] BY <1>2, <2>2 DEF SampleOf
    <3> QED BY <1>t, <1>2, <2>2, <3>1, <3>2 DEF HeadOK
  <2>3. CASE q.n > 0 /\ e.n > 0 /\ ~ Samples(e, r)
    <3>1. q.kind = "running" /\ q.from = kv[r] + e.n /\ q.outs = e.outs
      BY <1>2, <2>3 DEF Follows
    <3>2. q.from = kv'[r] /\ q.outs = Len(outs'[r]) BY <1>4, <1>5, <2>3, <3>1
    <3> QED BY <1>t, <1>2, <1>5, <2>3, <3>1, <3>2 DEF HeadOK
  <2>4. CASE q.n > 0 /\ e.n > 0 /\ Samples(e, r)
    <3>1. q.kind = "running" /\ q.from = kv[r] + e.n /\ Decode(q, r)
      BY <1>2, <2>4 DEF Follows
    <3>2. PICK b, l :
                /\ b \in 0 .. e.spec /\ prevRow'[r] # 0 /\ l = last'[prevRow'[r]]
                /\ kv'[r] = real[r] + b /\ l.count = b + 1
      BY <1>6, <2>4
    <3>3. q.from = kv'[r] + drafted[r] - (l.count - 1)
      <4>1. kv[r] + e.n - e.spec = real[r] /\ drafted[r] = e.spec BY <1>4, <2>4
      <4> QED BY <1>3, <3>1, <3>2, <4>1, SMTT(40)
    <3> QED BY <1>t, <1>2, <2>4, <3>1, <3>2, <3>3 DEF HeadOK
  <2> QED BY <1>3, <2>1, <2>2, <2>3, <2>4
<1>9. Link(r)'
  <2>1. At(results', Len(results'), r) = e /\ GenAt(results', Len(results'), r) = Gen(x, r)
    BY <1>t, <1>2, SampleSlots
  <2>2. ASSUME e.n > 0
        PROVE  e.spec = drafted[r] /\ Gen(x, r) = IF prevRow'[r] = 0 THEN 0 ELSE last'[prevRow'[r]].count
    <3>1. CASE ~ Samples(e, r) BY <1>4, <1>5, <2>2, <3>1
    <3>2. CASE Samples(e, r)
      <4>1. PICK b, l :
               /\ b \in 0 .. e.spec /\ prevRow'[r] # 0 /\ l = last'[prevRow'[r]] /\ Gen(x, r) = b + 1 /\ l.count = b + 1
        BY <1>6, <2>2, <3>2
      <4> QED BY <1>4, <2>2, <4>1
    <3> QED BY <3>1, <3>2
  <2> QED BY <1>t, <1>2, <2>1, <2>2 DEF Link
<1>10. At(inbox', 2, r) = NoEntry /\ At(inbox', 1, r) = q BY <1>t, <1>1, SampleSlots
<1>11. HeadOK(At(inbox, 1, r), r)'
  <2>1. At(inbox', 1, r) = q BY <1>10
  <2> QED BY <1>8, <2>1 DEF HeadOK
<1>12. Follows(At(inbox, 2, r), At(inbox, 1, r), r, Begins(At(inbox, 1, r), kv[r]), real[r])'
  BY <1>10, NoEntryType DEF Follows
<1> QED BY <1>t, <1>2, <1>7, <1>9, <1>11, <1>12 DEF IdleOf

LEMMA SampleInv == ASSUME RunnerInv, Sample PROVE RunnerInv'
<1>t. TypeOK /\ ResultsOK /\ SlotsOK /\ NewestOK /\ GoneOK BY DEF RunnerInv
<1>0. /\ step # <<>> /\ step' = <<>>
      /\ UNCHANGED <<schedVars, inbox, drafted, batch>>
      /\ real' \in [Reqs -> Nat] /\ kv' \in [Reqs -> Nat] /\ outs' \in [Reqs -> Seq(Tok)]
      /\ filled' \in [Reqs -> Nat] /\ prevRow' \in [Reqs -> Nat]
  BY SampleEffect
<1>u. /\ status' = status /\ outputs' = outputs /\ computed' = computed /\ holders' = holders
      /\ drafts' = drafts /\ chunk' = chunk /\ lastStep' = lastStep /\ gone' = gone
      /\ inbox' = inbox /\ drafted' = drafted /\ batch' = batch
  BY <1>0 DEF schedVars
<1>1. PICK x \in ResultType :
         results' = Append(results, x) /\ \A r \in Reqs : SampleOf(r, At(step, 1, r), x)
  BY SampleEffect
<1>2. TypeOK'
  <2>1. results \in Seq(ResultType) BY <1>t DEF TypeOK
  <2>2. results' \in Seq(ResultType) /\ Len(results') = Len(results) + 1 BY <1>1, <2>1, AppendProperties
  <2>3. Len(inbox) + 0 + (Len(results) + 1) <= 2
    <3>1. PICK a, c : a = Len(inbox) /\ c = Len(results) OBVIOUS
    <3>2. a \in Nat /\ c \in Nat /\ a + 1 + c <= 2 BY <1>t, <1>0, <3>1, Lengths
    <3>3. a + 0 + (c + 1) <= 2 BY <3>2
    <3> QED BY <3>1, <3>3
  <2>4. Len(inbox') + Len(step') + Len(results') <= 2
    <3>1. Len(step') = 0 BY <1>0
    <3> QED BY <1>u, <2>2, <2>3, <3>1
  <2> QED BY <1>t, <1>0, <1>u, <2>2, <2>4 DEF TypeOK
<1>3. ASSUME NEW r \in Reqs
      PROVE  /\ At(step, 1, r) \in EntryType /\ EntryOK(At(step, 1, r), r)
             /\ x.req[r] = At(step, 1, r) /\ ResultOK(At(step, 1, r), Gen(x, r), r)
             /\ At(step', 1, r) = NoEntry
             /\ \/ /\ At(results', 1, r) = x.req[r] /\ At(results', 2, r) = NoEntry
                   /\ GenAt(results', 1, r) = Gen(x, r) /\ GenAt(results', 2, r) = 0
                \/ /\ At(results', 1, r) = At(results, 1, r) /\ At(results', 2, r) = x.req[r]
                   /\ GenAt(results', 1, r) = GenAt(results, 1, r) /\ GenAt(results', 2, r) = Gen(x, r)
  <2>1. At(step, 1, r) \in EntryType /\ EntryOK(At(step, 1, r), r) BY <1>t, Types DEF SlotsOK
  <2>2. SampleOf(r, At(step, 1, r), x) BY <1>1
  <2>3. ResultOK(At(step, 1, r), Gen(x, r), r)
    <3>1. kv[r] \in Nat /\ real[r] \in Nat BY <1>t DEF TypeOK
    <3> QED BY <2>1, <2>2, <3>1, SampleSums
  <2>4. x.req[r] = At(step, 1, r) BY <2>2 DEF SampleOf
  <2> QED BY <1>t, <1>0, <1>u, <1>1, <2>1, <2>3, <2>4, SampleSlots
<1>4. SlotsOK'
  <2>1. ASSUME NEW r \in Reqs
        PROVE  /\ EntryOK(At(results', 1, r), r) /\ EntryOK(At(results', 2, r), r)
               /\ EntryOK(At(step', 1, r), r)
    BY <1>3, <1>t, NoEntryOK DEF SlotsOK
  <2> QED BY <1>t, <1>u, <2>1 DEF SlotsOK
<1>5. ResultsOK'
  <2>1. ASSUME NEW r \in Reqs
        PROVE  /\ ResultOK(At(results', 1, r), GenAt(results', 1, r), r)
               /\ ResultOK(At(results', 2, r), GenAt(results', 2, r), r)
    <3>1. ResultOK(At(results, 1, r), GenAt(results, 1, r), r) BY <1>t DEF ResultsOK
    <3>2. ResultOK(NoEntry, 0, r) BY NoEntryType DEF ResultOK
    <3> QED BY <1>3, <3>1, <3>2
  <2> QED BY <2>1 DEF ResultsOK
<1>6. GoneOK' BY <1>t, <1>u DEF GoneOK
<1>7. NewestOK' BY <1>t, <1>0, <1>u DEF NewestOK
<1>8. ASSUME NEW r \in Reqs PROVE CountOf(r)' BY <1>1, SampleCount
<1>9. ASSUME NEW r \in Reqs PROVE IdleOf(r)' BY <1>1, SampleIdle
<1>10. StepTrue' /\ CountsAgree'
  <2>1. DOMAIN step' = {} BY <1>0
  <2> QED BY <2>1 DEF StepTrue, CountsAgree
<1> QED BY <1>0, <1>2, <1>4, <1>5, <1>6, <1>7, <1>8, <1>9, <1>10 DEF RunnerInv

-----------------------------------------------------------------------------
(* Execution *)

\* What the runner makes of r for the output q, if its states reach up to k and
\* it has t tokens.
Made(q, r, k, t) ==
    LET e == q.req[r]
        row == RowBefore(q, r)
    IN /\ NewOuts(q, r) \in Seq(Tok) /\ Len(NewOuts(q, r)) = e.outs
       /\ NewFilled(q, r) \in Nat /\ NewFilled(q, r) <= e.outs
       /\ Start(q, r) = k
       /\ e.from # k => \A any : Corrected(q, r, any) = k
       /\ row = 0 => e.from = k /\ Known(NewOuts(q, r), r) /\ Prompt[r] + e.outs = t
       /\ row # 0 => /\ Decode(e, r) /\ k + 1 = t /\ Prompt[r] + e.outs >= t
                     /\ last[row].token = <<r, k>>
                     /\ \A j \in 1 .. SpecTokens : last[row].drafts[j] \in {<<r, k + j>>, Noise}

\* The outputs of a request that stays, with its drafts taken for accepted.
LEMMA Guess ==
    ASSUME NEW o \in Seq(Tok), NEW d \in Nat, NEW m \in Nat, m <= Len(o) + d
    PROVE  /\ Len(o \o Holes(d)) = Len(o) + d
           /\ SubSeq(o \o Holes(d), 1, m) \in Seq(Tok) /\ Len(SubSeq(o \o Holes(d), 1, m)) = m
           /\ m <= Len(o) => \A i \in 1 .. m : SubSeq(o \o Holes(d), 1, m)[i] = o[i]
<1>0. PICK g : g = o \o Holes(d) OBVIOUS
<1>1. Holes(d) \in Seq(Tok) /\ Len(Holes(d)) = d
  <2>1. Holes(d) \in [1 .. d -> Tok] BY DEF Holes, Tok
  <2> QED BY <2>1, LenProperties
<1>2. /\ g \in Seq(Tok) /\ Len(g) = Len(o) + d /\ Len(o) \in Nat
      /\ \A i \in 1 .. Len(o) : g[i] = o[i]
  <2>1. Len(o) \in Nat BY LenProperties
  <2>2. /\ g \in Seq(Tok) /\ Len(g) = Len(o) + d
        /\ \A i \in 1 .. Len(o) + d : g[i] = IF i <= Len(o) THEN o[i] ELSE Holes(d)[i - Len(o)]
    BY <1>0, <1>1, ConcatProperties
  <2>3. \A i \in 1 .. Len(o) : i \in 1 .. Len(o) + d /\ i <= Len(o) BY <2>1
  <2> QED BY <2>1, <2>2, <2>3
<1>3. \A i \in 1 .. m : g[i] \in Tok
  <2>1. \A i \in 1 .. m : i \in 1 .. Len(g) BY <1>2
  <2> QED BY <1>2, <2>1, ElementOfSeq
<1>4. /\ SubSeq(g, 1, m) \in Seq(Tok)
      /\ Len(SubSeq(g, 1, m)) = IF 1 <= m THEN m - 1 + 1 ELSE 0
      /\ \A i \in 1 .. m - 1 + 1 : SubSeq(g, 1, m)[i] = g[1 + i - 1]
  <2>1. 1 \in Int /\ m \in Int OBVIOUS
  <2> QED BY <1>3, <2>1, SubSeqProperties, SMTT(30)
<1>5. Len(SubSeq(g, 1, m)) = m BY <1>4
<1>6. ASSUME m <= Len(o), NEW i \in 1 .. m PROVE SubSeq(g, 1, m)[i] = o[i]
  <2>1. i \in 1 .. m - 1 + 1 /\ 1 + i - 1 = i /\ i \in 1 .. Len(o) BY <1>2, <1>6
  <2> QED BY <1>2, <1>4, <2>1
<1> QED BY <1>0, <1>2, <1>4, <1>5, <1>6

LEMMA MadeStays ==
    ASSUME TypeOK, NEW q, NEW r \in Reqs, q.req[r] \in EntryType, q.req[r].n > 0, r \in batch,
           EntryOK(q.req[r], r), BatchOK(r), HeadOK(q.req[r], r)
    PROVE  Made(q, r, kv[r], real[r])
<1> DEFINE e == q.req[r]
           row == prevRow[r]
           l == last[row]
           guess == outs[r] \o Holes(drafted[r])
<1>1. /\ e.n \in Nat /\ e.spec \in Nat /\ e.from \in Nat /\ e.outs \in Nat
      /\ kv[r] \in Nat /\ real[r] \in Nat /\ Prompt[r] \in Nat /\ SpecTokens \in Nat
      /\ filled[r] \in Nat /\ drafted[r] \in Nat /\ outs[r] \in Seq(Tok) /\ Len(outs[r]) \in Nat
      /\ prevRow[r] \in Nat
  BY Fields, Constants, LenProperties DEF TypeOK
<1>2. e.kind = "running" /\ r \in Stay(q) BY DEF HeadOK, Stay
<1>3. RowBefore(q, r) = row BY <1>2 DEF RowBefore
<1>4. Pending(q, r) = IF row = 0 THEN 0 ELSE drafted[r] BY <1>2, <1>3 DEF Pending
<1>5. filled[r] <= Len(outs[r]) BY DEF BatchOK
<1>a. ASSUME row = 0
      PROVE  /\ drafted[r] = 0 /\ Known(outs[r], r) /\ Prompt[r] + Len(outs[r]) = real[r]
             /\ e.from = kv[r] /\ e.outs = Len(outs[r])
  BY <1>a DEF BatchOK, HeadOK
<1>b. ASSUME row # 0
      PROVE  /\ RowOK(l, r) /\ kv[r] + 1 = real[r] /\ e.from = Prompt[r] + e.outs - 1
             /\ e.from = kv[r] \/ e.from = kv[r] + drafted[r] - (l.count - 1)
             /\ l.start \in Nat /\ l.count \in Nat
             /\ l.count >= 1 /\ l.count <= drafted[r] + 1
             /\ drafted[r] > 0 => l.start + l.count = kv[r]
             /\ kv[r] - (l.count - 1) + 1 <= Prompt[r] + Len(outs[r])
             /\ Decode(e, r)
  <2>1. RowOK(l, r) /\ kv[r] + 1 = real[r] BY <1>b DEF BatchOK
  <2>2. Decode(e, r) /\ e.from \in {kv[r], kv[r] + drafted[r] - (l.count - 1)} BY <1>b DEF HeadOK
  <2>3. l.count \in 1 .. drafted[r] + 1 /\ l.start \in Nat /\ l.count \in Nat BY <2>1 DEF RowOK
  <2>4. l.count >= 1 /\ l.count <= drafted[r] + 1 BY <1>1, <2>3
  <2> QED BY <2>1, <2>2, <2>3, <2>4 DEF RowOK, Decode
<1>6. e.outs <= Len(outs[r]) + drafted[r]
  <2>1. CASE row = 0 BY <1>1, <1>a, <2>1
  <2>2. CASE row # 0
    <3>1. PICK f, k, d, c, p, o, u : /\ f = e.from /\ k = kv[r] /\ d = drafted[r] /\ c = l.count
                                     /\ p = Prompt[r] /\ o = Len(outs[r]) /\ u = e.outs
      OBVIOUS
    <3>2. /\ f \in Nat /\ k \in Nat /\ d \in Nat /\ c \in Nat /\ p \in Nat /\ o \in Nat /\ u \in Nat
          /\ f = p + u - 1 /\ (f = k \/ f = k + d - (c - 1)) /\ c <= d + 1
          /\ k - (c - 1) + 1 <= p + o
      BY <1>1, <1>b, <2>2, <3>1
    <3>3. u <= o + d BY <3>2
    <3> QED BY <3>1, <3>3
  <2> QED BY <2>1, <2>2
<1>7. /\ Len(guess) = Len(outs[r]) + drafted[r]
      /\ SubSeq(guess, 1, e.outs) \in Seq(Tok) /\ Len(SubSeq(guess, 1, e.outs)) = e.outs
      /\ e.outs <= Len(outs[r]) => \A i \in 1 .. e.outs : SubSeq(guess, 1, e.outs)[i] = outs[r][i]
  <2>1. PICK o, d, u : o = outs[r] /\ d = drafted[r] /\ u = e.outs OBVIOUS
  <2>2. o \in Seq(Tok) /\ d \in Nat /\ u \in Nat /\ u <= Len(o) + d
    BY <1>1, <1>6, <2>1
  <2>3. /\ Len(o \o Holes(d)) = Len(o) + d
        /\ SubSeq(o \o Holes(d), 1, u) \in Seq(Tok) /\ Len(SubSeq(o \o Holes(d), 1, u)) = u
        /\ u <= Len(o) => \A i \in 1 .. u : SubSeq(o \o Holes(d), 1, u)[i] = o[i]
    BY <2>2, Guess
  <2> QED BY <2>1, <2>3
<1>8. NewOuts(q, r) = SubSeq(guess, 1, e.outs)
  <2>1. Least(Len(guess), e.outs) = e.outs
    <3> HIDE DEF e, guess
    <3> QED BY <1>1, <1>6, <1>7 DEF Least
  <2> QED BY <1>2, <2>1 DEF NewOuts
<1>9. NewFilled(q, r) \in Nat /\ NewFilled(q, r) <= e.outs
  <2>1. NewFilled(q, r) = IF e.outs < Len(outs[r]) + drafted[r] THEN e.outs ELSE filled[r]
    BY <1>2 DEF NewFilled
  <2> HIDE DEF e
  <2>2. PICK f, o, d, u : f = filled[r] /\ o = Len(outs[r]) /\ d = drafted[r] /\ u = e.outs OBVIOUS
  <2>3. /\ f \in Nat /\ o \in Nat /\ d \in Nat /\ u \in Nat /\ f <= o /\ u <= o + d
    BY <1>1, <1>5, <1>6, <2>2
  <2>4. CASE u < o + d BY <2>1, <2>2, <2>3, <2>4
  <2>5. CASE ~ (u < o + d)
    <3>1. f <= u BY <2>3, <2>5
    <3> QED BY <2>1, <2>2, <2>3, <2>5, <3>1
  <2> QED BY <2>4, <2>5
<1>10. Start(q, r) = kv[r]
  <2>1. CASE row = 0 BY <1>4, <1>a, <2>1 DEF Start
  <2>2. CASE row # 0 /\ drafted[r] > 0
    <3>1. Pending(q, r) > 0 BY <1>4, <2>2
    <3> QED BY <1>3, <1>b, <2>2, <3>1 DEF Start
  <2>3. CASE row # 0 /\ drafted[r] = 0
    <3>1. Start(q, r) = e.from BY <1>4, <2>3 DEF Start
    <3>2. l.count = 1 BY <1>b, <2>3
    <3>3. e.from = kv[r] BY <1>1, <1>b, <2>3, <3>2
    <3> QED BY <3>1, <3>3
  <2> QED BY <1>1, <2>1, <2>2, <2>3
<1>11. ASSUME e.from # kv[r], NEW any PROVE Corrected(q, r, any) = kv[r]
  <2>1. row # 0 BY <1>a, <1>11
  <2>2. e.from = kv[r] + drafted[r] - (l.count - 1) BY <1>b, <1>11, <2>1
  <2>3. drafted[r] > 0
    <3>1. ASSUME drafted[r] = 0 PROVE FALSE
      <4>1. l.count = 1 BY <1>b, <2>1, <3>1
      <4> QED BY <1>1, <1>11, <2>2, <3>1, <4>1
    <3> QED BY <1>1, <3>1
  <2>4. Corrected(q, r, any) = e.from - (drafted[r] - (l.count - 1))
    <3>1. Pending(q, r) = drafted[r] BY <1>4, <2>1
    <3> QED BY <1>3, <2>3, <3>1 DEF Corrected
  <2>5. PICK f, k, d, c : f = e.from /\ k = kv[r] /\ d = drafted[r] /\ c = l.count OBVIOUS
  <2>6. k \in Nat /\ d \in Nat /\ c \in Nat /\ f = k + d - (c - 1) BY <1>1, <1>b, <2>1, <2>2, <2>5
  <2>7. f - (d - (c - 1)) = k BY <2>6
  <2>8. Corrected(q, r, any) = f - (d - (c - 1)) BY <2>4, <2>5
  <2> QED BY <2>5, <2>7, <2>8
<1>12. ASSUME row = 0
       PROVE  e.from = kv[r] /\ Known(NewOuts(q, r), r) /\ Prompt[r] + e.outs = real[r]
  <2>1. Known(NewOuts(q, r), r)
    <3>1. e.outs = Len(outs[r]) /\ Known(outs[r], r) BY <1>12, <1>a
    <3>2. \A i \in 1 .. e.outs : NewOuts(q, r)[i] = outs[r][i]
      <4>1. e.outs <= Len(outs[r]) BY <1>1, <3>1
      <4> HIDE DEF e, guess
      <4> QED BY <1>7, <1>8, <4>1
    <3>3. Len(NewOuts(q, r)) = e.outs BY <1>7, <1>8
    <3> HIDE DEF e
    <3> QED BY <3>1, <3>2, <3>3 DEF Known
  <2> QED BY <1>12, <1>a, <2>1
<1>13. ASSUME row # 0
       PROVE  /\ Decode(e, r) /\ kv[r] + 1 = real[r] /\ Prompt[r] + e.outs >= real[r]
              /\ l.token = <<r, kv[r]>>
              /\ \A j \in 1 .. SpecTokens : l.drafts[j] \in {<<r, kv[r] + j>>, Noise}
  <2>1. Prompt[r] + e.outs >= real[r]
    <3>1. PICK f, k, d, c, p, u, t : /\ f = e.from /\ k = kv[r] /\ d = drafted[r] /\ c = l.count
                                     /\ p = Prompt[r] /\ u = e.outs /\ t = real[r]
      OBVIOUS
    <3>2. /\ f \in Nat /\ k \in Nat /\ d \in Nat /\ c \in Nat /\ p \in Nat /\ u \in Nat /\ t \in Nat
          /\ f = p + u - 1 /\ (f = k \/ f = k + d - (c - 1)) /\ c <= d + 1 /\ k + 1 = t
      BY <1>1, <1>13, <1>b, <3>1
    <3>3. p + u >= t BY <3>2
    <3> QED BY <3>1, <3>3
  <2> QED BY <1>13, <1>b, <2>1 DEF RowOK
<1> QED BY <1>3, <1>7, <1>8, <1>9, <1>10, <1>11, <1>12, <1>13 DEF Made

LEMMA MadeAnew ==
    ASSUME TwoSteps, TypeOK, NEW q, NEW r \in Reqs, q.req[r] \in EntryType, q.req[r].n > 0, r \notin batch,
           EntryOK(q.req[r], r), HeadOK(q.req[r], r)
    PROVE  Made(q, r, Begins(q.req[r], kv[r]), real[r])
<1> DEFINE e == q.req[r]
<1>1. /\ e.n \in Nat /\ e.spec \in Nat /\ e.from \in Nat /\ e.outs \in Nat
      /\ e.kind \in {"none", "new", "resumed", "running"}
      /\ kv[r] \in Nat /\ real[r] \in Nat /\ Prompt[r] \in Nat /\ Prompt[r] >= 1
  BY Fields, Constants DEF TypeOK
<1>2. r \notin Stay(q) /\ RowBefore(q, r) = 0 /\ Pending(q, r) = 0
  BY DEF Stay, RowBefore, TwoSteps, Pending
<1>3. /\ Prompt[r] + e.outs = real[r]
      /\ e.kind # "new" => e.all = e.outs
      /\ e.kind = "running" => e.from = kv[r]
      /\ e.kind = "new" => e.outs = 0 /\ e.all = -1
      /\ e.kind # "none"
  BY DEF HeadOK, Fresh, EntryOK
<1>4. NewOuts(q, r) = [i \in 1 .. e.outs |-> <<r, Prompt[r] + i - 1>>]
  <2>0. NewOuts(q, r) = LastTokens(r, e.all, e.outs) BY <1>2 DEF NewOuts
  <2>1. CASE e.kind = "new"
    <3>1. e.outs = 0 /\ e.all = -1 BY <1>3, <2>1
    <3>2. Least(0, Prompt[r] + -1) = 0 BY <1>1 DEF Least
    <3>3. LastTokens(r, e.all, e.outs) = [i \in 1 .. 0 |-> <<r, Prompt[r] + -1 - 0 + i - 1>>]
      <4> HIDE DEF e
      <4> QED BY <3>1, <3>2 DEF LastTokens
    <3>4. [i \in 1 .. 0 |-> <<r, Prompt[r] + -1 - 0 + i - 1>>] = [i \in 1 .. 0 |-> <<r, Prompt[r] + i - 1>>]
      OBVIOUS
    <3> QED BY <2>0, <3>1, <3>3, <3>4
  <2>2. CASE e.kind # "new"
    <3>1. e.all = e.outs BY <1>3, <2>2
    <3>2. Least(e.outs, Prompt[r] + e.outs) = e.outs
      <4> HIDE DEF e
      <4> QED BY <1>1 DEF Least
    <3>3. LastTokens(r, e.all, e.outs) = [i \in 1 .. e.outs |-> <<r, Prompt[r] + e.outs - e.outs + i - 1>>]
      <4> HIDE DEF e
      <4> QED BY <3>1, <3>2 DEF LastTokens
    <3>4. \A i \in 1 .. e.outs : Prompt[r] + e.outs - e.outs + i - 1 = Prompt[r] + i - 1
      <4> HIDE DEF e
      <4> QED BY <1>1
    <3> HIDE DEF e
    <3> QED BY <2>0, <3>3, <3>4
  <2> QED BY <2>1, <2>2
<1> HIDE DEF e
<1>5. NewOuts(q, r) \in Seq(Tok) /\ Len(NewOuts(q, r)) = e.outs
  <2>1. \A i \in 1 .. e.outs : <<r, Prompt[r] + i - 1>> \in Tok
    <3>1. ASSUME NEW i \in 1 .. e.outs PROVE <<r, Prompt[r] + i - 1>> \in Tok
      <4>1. Prompt[r] + i - 1 \in Int BY <1>1
      <4> QED BY <4>1 DEF Tok
    <3> QED BY <3>1
  <2>2. NewOuts(q, r) \in [1 .. e.outs -> Tok] BY <1>4, <2>1
  <2> QED BY <1>1, <2>2, LenProperties
<1>6. Known(NewOuts(q, r), r) BY <1>4, <1>5 DEF Known
<1>7. NewFilled(q, r) = e.outs BY <1>2, <1>5 DEF NewFilled
<1>8. Start(q, r) = e.from BY <1>2 DEF Start, e
<1>9. Begins(e, kv[r]) = e.from BY <1>1, <1>3 DEF Begins, Added
<1> QED BY <1>1, <1>2, <1>3, <1>5, <1>6, <1>7, <1>8, <1>9 DEF Made, e

\* The inputs made so are right.
LEMMA MadeRight ==
    ASSUME NEW q, NEW r \in Reqs, NEW k \in Nat, NEW t \in Nat, q.req[r] \in EntryType,
           q.req[r].n > 0, EntryOK(q.req[r], r), Made(q, r, k, t)
    PROVE  LET e == q.req[r] IN
           /\ \A j \in 1 .. e.n - e.spec : Input(q, r)[j] = <<r, k + j - 1>>
           /\ \A j \in e.n - e.spec + 1 .. e.n : Input(q, r)[j] \in {<<r, k + j - 1>>, Hole, Noise}
           /\ Samples(e, r) => k + e.n - e.spec = t /\ Prompt[r] + NewFilled(q, r) + 1 <= ModelLen
           /\ ~ Samples(e, r) => /\ Known(NewOuts(q, r), r) /\ Prompt[r] + e.outs = t
                                 /\ k + e.n - e.spec < t /\ e.spec = 0
           /\ Prompt[r] + e.outs >= t
           /\ e.from + e.n < Prompt[r] + Len(NewOuts(q, r)) <=> ~ Samples(e, r)
<1> DEFINE e == q.req[r]
           row == RowBefore(q, r)
           O == NewOuts(q, r)
           known(p) == IF p < Prompt[r] THEN <<r, p>>
                       ELSE IF p - Prompt[r] < Len(O) THEN O[p - Prompt[r] + 1] ELSE Hole
<1>1. /\ e.n \in Nat /\ e.spec \in Nat /\ e.from \in Nat /\ e.outs \in Nat
      /\ Prompt[r] \in Nat /\ Prompt[r] >= 1 /\ ModelLen \in Nat /\ SpecTokens \in Nat
  BY Fields, Constants
<1>2. /\ Len(O) = e.outs /\ NewFilled(q, r) \in Nat /\ NewFilled(q, r) <= e.outs
      /\ row = 0 => e.from = k /\ Known(O, r) /\ Prompt[r] + e.outs = t
      /\ row # 0 => /\ Decode(e, r) /\ k + 1 = t /\ Prompt[r] + e.outs >= t
                    /\ last[row].token = <<r, k>>
                    /\ \A j \in 1 .. SpecTokens : last[row].drafts[j] \in {<<r, k + j>>, Noise}
  BY DEF Made
<1>3. /\ Decode(e, r) \/ Part(e, r)
      /\ e.from + e.n < ModelLen /\ e.spec <= SpecTokens /\ e.n > 0
  BY DEF EntryOK
<1>4. Input(q, r) = [i \in 1 .. e.n |-> IF row = 0 \/ i < e.n - e.spec THEN known(e.from + i - 1)
                                        ELSE IF i = e.n - e.spec THEN last[row].token
                                        ELSE last[row].drafts[i - e.n + e.spec]]
  BY DEF Input
<1> HIDE DEF e, row, O
<1>5. Decode(e, r) => e.from = Prompt[r] + e.outs - 1 /\ e.spec = e.n - 1 BY DEF Decode
<1>6. Part(e, r) => e.from + e.n <= Prompt[r] + e.outs /\ e.spec = 0 BY DEF Part
<1>7. Samples(e, r) <=> e.from + e.n >= Prompt[r] + e.outs BY DEF Samples
<1>8. CASE row # 0
  <2>1. /\ e.from = Prompt[r] + e.outs - 1 /\ e.spec = e.n - 1
        /\ k + 1 = t /\ Prompt[r] + e.outs >= t
        /\ last[row].token = <<r, k>>
        /\ \A j \in 1 .. SpecTokens : last[row].drafts[j] \in {<<r, k + j>>, Noise}
    BY <1>2, <1>5, <1>8
  <2>2. e.n - e.spec = 1 /\ Samples(e, r) /\ k + e.n - e.spec = t BY <1>1, <1>7, <2>1
  <2>3. \A j \in 1 .. e.n - e.spec : Input(q, r)[j] = <<r, k + j - 1>>
    <3>1. ASSUME NEW j \in 1 .. e.n - e.spec PROVE Input(q, r)[j] = <<r, k + j - 1>>
      <4>1. j = 1 /\ j \in 1 .. e.n BY <1>1, <1>3, <2>2
      <4>2. Input(q, r)[j] = last[row].token BY <1>4, <1>8, <2>2, <4>1
      <4>3. k + j - 1 = k BY <4>1
      <4> QED BY <2>1, <4>2, <4>3
    <3> QED BY <3>1
  <2>4. \A j \in e.n - e.spec + 1 .. e.n : Input(q, r)[j] \in {<<r, k + j - 1>>, Hole, Noise}
    <3>1. ASSUME NEW j \in e.n - e.spec + 1 .. e.n
          PROVE  Input(q, r)[j] \in {<<r, k + j - 1>>, Hole, Noise}
      <4>0. j \in 2 .. e.n BY <2>2
      <4>1. j \in 1 .. e.n /\ ~ (j < e.n - e.spec) /\ j # e.n - e.spec BY <1>1, <2>2, <4>0
      <4>2. Input(q, r)[j] = last[row].drafts[j - e.n + e.spec] BY <1>4, <1>8, <4>1
      <4>3. j - e.n + e.spec = j - 1 /\ j - 1 \in 1 .. SpecTokens /\ k + (j - 1) = k + j - 1
        BY <1>1, <1>3, <2>1, <4>0
      <4>4. last[row].drafts[j - 1] \in {<<r, k + (j - 1)>>, Noise} BY <2>1, <4>3
      <4> QED BY <4>2, <4>3, <4>4
    <3> QED BY <3>1
  <2>5. Prompt[r] + NewFilled(q, r) + 1 <= ModelLen
    <3>1. PICK p, w, u, f, n, m : /\ p = Prompt[r] /\ w = NewFilled(q, r) /\ u = e.outs
                                  /\ f = e.from /\ n = e.n /\ m = ModelLen
      OBVIOUS
    <3>2. /\ p \in Nat /\ w \in Nat /\ u \in Nat /\ f \in Nat /\ n \in Nat /\ m \in Nat
          /\ w <= u /\ f + n < m /\ f = p + u - 1 /\ n > 0
      BY <1>1, <1>2, <1>3, <2>1, <3>1
    <3>3. p + w + 1 <= m BY <3>2
    <3> QED BY <3>1, <3>3
  <2>6. e.from + e.n < Prompt[r] + Len(O) <=> ~ Samples(e, r) BY <1>1, <1>2, <1>7, SMTT(30)
  <2> QED BY <2>1, <2>2, <2>3, <2>4, <2>5, <2>6 DEF e, O
<1>9. CASE row = 0
  <2>1. e.from = k /\ Known(O, r) /\ Prompt[r] + e.outs = t BY <1>2, <1>9
  <2>2. ASSUME NEW j \in 1 .. e.n PROVE Input(q, r)[j] = known(k + j - 1)
    BY <1>4, <1>9, <2>1
  <2>3. ASSUME NEW p \in Nat, p < Prompt[r] + e.outs PROVE known(p) = <<r, p>>
    <3>1. CASE p < Prompt[r] BY <3>1
    <3>2. CASE ~ (p < Prompt[r])
      <4>1. PICK i : i = p - Prompt[r] + 1 OBVIOUS
      <4>2. p - Prompt[r] < Len(O) /\ i \in 1 .. Len(O) /\ Prompt[r] + i - 1 = p
        BY <1>1, <1>2, <2>3, <3>2, <4>1
      <4>3. O[i] = <<r, Prompt[r] + i - 1>> BY <2>1, <4>2 DEF Known
      <4> QED BY <3>2, <4>1, <4>2, <4>3
    <3> QED BY <3>1, <3>2
  <2>4. ASSUME NEW p \in Nat, p >= Prompt[r] + e.outs PROVE known(p) = Hole
    <3>1. ~ (p < Prompt[r]) /\ ~ (p - Prompt[r] < Len(O)) BY <1>1, <1>2, <2>4
    <3> QED BY <3>1
  <2> HIDE DEF known
  <2>5. ASSUME NEW j \in 1 .. e.n - e.spec PROVE Input(q, r)[j] = <<r, k + j - 1>>
    <3>1. k + j - 1 \in Nat /\ j \in 1 .. e.n BY <1>1
    <3>2. k + j - 1 < Prompt[r] + e.outs
      <4>1. CASE Decode(e, r)
        <5>1. j = 1 BY <1>1, <1>3, <1>5, <4>1
        <5> QED BY <1>1, <1>5, <2>1, <4>1, <5>1
      <4>2. CASE Part(e, r)
        <5>1. e.from + e.n <= Prompt[r] + e.outs /\ j <= e.n BY <1>1, <1>6, <4>2
        <5> QED BY <1>1, <2>1, <5>1
      <4> QED BY <1>3, <4>1, <4>2
    <3> QED BY <2>2, <2>3, <3>1, <3>2
  <2>6. ASSUME NEW j \in e.n - e.spec + 1 .. e.n
        PROVE  Input(q, r)[j] \in {<<r, k + j - 1>>, Hole, Noise}
    <3>1. e.spec <= e.n BY <1>1, <1>3, <1>5, <1>6
    <3>2. j \in 1 .. e.n /\ k + j - 1 \in Nat BY <1>1, <3>1
    <3>3. k + j - 1 < Prompt[r] + e.outs \/ k + j - 1 >= Prompt[r] + e.outs BY <1>1
    <3> QED BY <2>2, <2>3, <2>4, <3>2, <3>3
  <2>c. PICK n, s, f, u, p : n = e.n /\ s = e.spec /\ f = e.from /\ u = e.outs /\ p = Prompt[r] OBVIOUS
  <2>d. /\ n \in Nat /\ s \in Nat /\ f \in Nat /\ u \in Nat /\ p \in Nat
        /\ f = k /\ p + u = t /\ (Samples(e, r) <=> f + n >= p + u)
        /\ (f = p + u - 1 /\ s = n - 1) \/ (f + n <= p + u /\ s = 0)
    BY <1>1, <1>3, <1>5, <1>6, <1>7, <2>1, <2>c
  <2>7. Samples(e, r) => k + e.n - e.spec = t
    <3>1. f + n >= p + u => k + n - s = t BY <2>d
    <3> QED BY <2>c, <2>d, <3>1
  <2>8. ~ Samples(e, r) => k + e.n - e.spec < t /\ e.spec = 0
    <3>1. ~ (f + n >= p + u) => k + n - s < t /\ s = 0 BY <2>d
    <3> QED BY <2>c, <2>d, <3>1
  <2>9. Samples(e, r) => Prompt[r] + NewFilled(q, r) + 1 <= ModelLen
    <3>1. PICK p1, w, u1, f1, n1, m : /\ p1 = Prompt[r] /\ w = NewFilled(q, r) /\ u1 = e.outs
                                  /\ f1 = e.from /\ n1 = e.n /\ m = ModelLen
      OBVIOUS
    <3>2. /\ p1 \in Nat /\ w \in Nat /\ u1 \in Nat /\ f1 \in Nat /\ n1 \in Nat /\ m \in Nat
          /\ w <= u1 /\ f1 + n1 < m /\ (Samples(e, r) <=> f1 + n1 >= p1 + u1)
      BY <1>1, <1>2, <1>3, <1>7, <3>1
    <3>3. f1 + n1 >= p1 + u1 => p1 + w + 1 <= m BY <3>2
    <3> QED BY <3>1, <3>2, <3>3
  <2>10. e.from + e.n < Prompt[r] + Len(O) <=> ~ Samples(e, r) BY <1>1, <1>2, <1>7, SMTT(30)
  <2>11. Prompt[r] + e.outs >= t BY <1>1, <2>1
  <2> QED BY <2>1, <2>5, <2>6, <2>7, <2>8, <2>9, <2>10, <2>11 DEF e, O
<1> QED BY <1>8, <1>9

\* The rows of a batch, in any order.
LEMMA SetRows ==
    ASSUME NEW R, IsFiniteSet(R), NEW rows \in SetToSeqs(R)
    PROVE  /\ rows \in Seq(R)
           /\ \A x \in R : \E i \in 1 .. Len(rows) : rows[i] = x
           /\ \A i, j \in 1 .. Len(rows) : i # j => rows[i] # rows[j]
<1> DEFINE n == Cardinality(R)
<1>1. n \in Nat BY FS_CardinalityType
<1>2. rows \in [1 .. n -> R] /\ \A i, j \in 1 .. n : i # j => rows[i] # rows[j] BY DEF SetToSeqs
<1>3. rows \in Seq(R) /\ Len(rows) = n BY <1>1, <1>2, LenProperties
<1>4. IsFiniteSet(1 .. n) /\ Cardinality(1 .. n) = n
  <2>1. Cardinality(1 .. n) = IF 1 > n THEN 0 ELSE n - 1 + 1 BY <1>1, FS_Interval
  <2> QED BY <1>1, <2>1, FS_Interval
<1>5. rows \in Injection(1 .. n, R) BY <1>2 DEF Injection, IsInjective
<1>6. rows \in Surjection(1 .. n, R) BY <1>4, <1>5, FS_Injection
<1>7. \A x \in R : \E i \in 1 .. n : rows[i] = x BY <1>6 DEF Surjection
<1> QED BY <1>2, <1>3, <1>7

\* The output the runner takes next.
LEMMA HeadFacts ==
    ASSUME RunnerInv, TwoSteps, step = <<>>, inbox # <<>>, NEW q, q = Head(inbox), NEW r \in Reqs
    PROVE  /\ q \in OutputType /\ q.req[r] = At(inbox, 1, r)
           /\ q.req[r] \in EntryType /\ EntryOK(q.req[r], r) /\ q.req[r].n \in Nat
           /\ q.req[r].n = 0 => q.req[r] = NoEntry /\ q.req[r].kind = "none"
           /\ r \in q.gone => status[r] = "done" /\ At(inbox, 1, r).n = 0 /\ At(inbox, 2, r).n = 0
           /\ q.req[r].n > 0 => Made(q, r, Begins(q.req[r], kv[r]), real[r])
<1>t. TypeOK /\ ResultsOK /\ SlotsOK /\ GoneOK /\ IdleOf(r) BY DEF RunnerInv
<1>1. Len(inbox) \in Nat \ {0} /\ q = inbox[1] /\ q \in OutputType
  <2>1. inbox \in Seq(OutputType) BY <1>t DEF TypeOK
  <2>2. Len(inbox) \in Nat \ {0} BY <2>1, EmptySeq
  <2> QED BY <2>1, <2>2, HeadTailProperties, ElementOfSeq
<1>2. q.req[r] = At(inbox, 1, r) BY <1>1 DEF At
<1>3. q.req[r] \in EntryType /\ EntryOK(q.req[r], r) BY <1>t, <1>2, Types DEF SlotsOK
<1>4. q.req[r].n \in Nat BY <1>3, Fields
<1>5. q.req[r].n = 0 => q.req[r] = NoEntry /\ q.req[r].kind = "none"
  BY <1>3, NoEntryType DEF EntryOK
<1>6. ASSUME r \in q.gone PROVE status[r] = "done" /\ At(inbox, 1, r).n = 0 /\ At(inbox, 2, r).n = 0
  <2>1. 1 \in 1 .. Len(inbox) /\ r \in inbox[1].gone BY <1>1, <1>6
  <2>2. status[r] = "done" /\ \A k \in 1 .. Len(inbox) : At(inbox, k, r).n = 0 BY <1>t, <2>1 DEF GoneOK
  <2>3. At(inbox, 2, r).n = 0
    <3>1. CASE 2 \in 1 .. Len(inbox) BY <2>2, <3>1
    <3>2. CASE 2 \notin 1 .. Len(inbox) BY <3>2, NoEntryType DEF At
    <3> QED BY <3>1, <3>2
  <2> QED BY <2>1, <2>2, <2>3
<1>7. ASSUME q.req[r].n > 0 PROVE Made(q, r, Begins(q.req[r], kv[r]), real[r])
  <2>1. HeadOK(q.req[r], r) BY <1>t, <1>2 DEF IdleOf
  <2>2. CASE r \in batch
    <3>1. BatchOK(r) BY <1>t, <2>2 DEF IdleOf
    <3>2. Made(q, r, kv[r], real[r]) BY <1>t, <1>3, <1>7, <2>1, <2>2, <3>1, MadeStays
    <3>3. q.req[r].kind = "running" BY <1>7, <2>1, <2>2 DEF HeadOK
    <3>4. Begins(q.req[r], kv[r]) = kv[r] BY <3>3 DEF Begins, Added
    <3> QED BY <3>2, <3>4
  <2>3. CASE r \notin batch BY <1>t, <1>3, <1>7, <2>1, <2>3, MadeAnew
  <2> QED BY <2>2, <2>3
<1> QED BY <1>1, <1>2, <1>3, <1>4, <1>5, <1>6, <1>7

\* What execute_model() does to one request.
ExecuteOf(r, q) ==
    /\ r \in batch' <=> q.req[r].n > 0
    /\ q.req[r].n > 0 =>
          /\ outs'[r] = NewOuts(q, r) /\ drafted'[r] = q.req[r].spec /\ filled'[r] = NewFilled(q, r)
          /\ kv'[r] = Begins(q.req[r], kv[r]) /\ real'[r] = real[r]
    /\ q.req[r].n = 0 /\ r \notin q.gone => kv'[r] = kv[r] /\ real'[r] = real[r]

LEMMA ExecuteEffect ==
    ASSUME RunnerInv, TwoSteps, Execute, NEW q, q = Head(inbox)
    PROVE  /\ step = <<>> /\ inbox # <<>> /\ inbox' = Tail(inbox)
           /\ UNCHANGED <<schedVars, last>>
           /\ batch' = {r \in Reqs : q.req[r].n > 0}
           /\ outs' \in [Reqs -> Seq(Tok)] /\ drafted' \in [Reqs -> Nat] /\ filled' \in [Reqs -> Nat]
           /\ prevRow' \in [Reqs -> Nat] /\ real' \in [Reqs -> Nat] /\ kv' \in [Reqs -> Nat]
           /\ \A r \in Reqs : ExecuteOf(r, q)
<1> DEFINE R == {r \in Reqs : q.req[r].n > 0}
<1>0. /\ step = <<>> /\ inbox # <<>> /\ inbox' = Tail(inbox) /\ UNCHANGED <<schedVars, last>>
      /\ batch' = R
      /\ outs' = [r \in Reqs |-> IF r \in R THEN NewOuts(q, r)
                                 ELSE IF r \in q.gone THEN <<>> ELSE outs[r]]
      /\ drafted' = [r \in Reqs |-> IF r \in R THEN q.req[r].spec
                                    ELSE IF r \in q.gone THEN 0 ELSE drafted[r]]
      /\ filled' = [r \in Reqs |-> IF r \in R THEN NewFilled(q, r) ELSE 0]
      /\ prevRow' = [r \in Reqs |-> RowBefore(q, r)]
      /\ kv' = [r \in Reqs |-> IF q.req[r].kind \in {"new", "resumed"} THEN q.req[r].from
                                ELSE IF r \in q.gone THEN 0 ELSE kv[r]]
      /\ real' = [r \in Reqs |-> IF r \in q.gone THEN Prompt[r] ELSE real[r]]
  BY DEF Execute
<1>t. TypeOK BY DEF RunnerInv
<1>1. ASSUME NEW r \in Reqs
      PROVE  /\ outs'[r] \in Seq(Tok) /\ drafted'[r] \in Nat /\ filled'[r] \in Nat
             /\ prevRow'[r] \in Nat /\ real'[r] \in Nat /\ kv'[r] \in Nat
             /\ ExecuteOf(r, q)
  <2>0. /\ outs[r] \in Seq(Tok) /\ <<>> \in Seq(Tok) /\ drafted[r] \in Nat /\ filled[r] \in Nat
        /\ prevRow[r] \in Nat /\ real[r] \in Nat /\ kv[r] \in Nat /\ Prompt[r] \in Nat
    BY <1>t, Constants, EmptySeq DEF TypeOK
  <2>1. /\ q.req[r] \in EntryType /\ q.req[r].n \in Nat
        /\ q.req[r].n = 0 => q.req[r].kind = "none"
        /\ r \in q.gone => q.req[r].n = 0
        /\ q.req[r].n > 0 => Made(q, r, Begins(q.req[r], kv[r]), real[r])
    BY <1>0, HeadFacts
  <2>2. q.req[r].spec \in Nat /\ q.req[r].from \in Nat BY <2>1, Fields
  <2>3. prevRow'[r] \in Nat
    <3>1. prevRow'[r] = RowBefore(q, r) BY <1>0
    <3> QED BY <2>0, <3>1 DEF RowBefore
  <2>4. real'[r] \in Nat BY <1>0, <2>0
  <2>5. kv'[r] \in Nat
    <3>1. kv'[r] = IF q.req[r].kind \in {"new", "resumed"} THEN q.req[r].from
                   ELSE IF r \in q.gone THEN 0 ELSE kv[r]
      BY <1>0
    <3> QED BY <2>0, <2>2, <3>1
  <2>6. CASE q.req[r].n > 0
    <3>1. NewOuts(q, r) \in Seq(Tok) /\ NewFilled(q, r) \in Nat BY <2>1, <2>6 DEF Made
    <3>2. r \in R /\ r \notin q.gone BY <2>1, <2>6
    <3>3. outs'[r] = NewOuts(q, r) /\ drafted'[r] = q.req[r].spec /\ filled'[r] = NewFilled(q, r)
      BY <1>0, <3>2
    <3>4. kv'[r] = Begins(q.req[r], kv[r]) /\ real'[r] = real[r] BY <1>0, <3>2 DEF Begins, Added
    <3>5. r \in batch' BY <1>0, <3>2
    <3>6. ExecuteOf(r, q) BY <2>1, <2>6, <3>3, <3>4, <3>5 DEF ExecuteOf
    <3> QED BY <2>2, <2>3, <2>4, <2>5, <3>1, <3>3, <3>6
  <2>7. CASE q.req[r].n = 0
    <3>1. r \notin R BY <2>7
    <3>2. /\ outs'[r] = IF r \in q.gone THEN <<>> ELSE outs[r]
          /\ drafted'[r] = IF r \in q.gone THEN 0 ELSE drafted[r]
          /\ filled'[r] = 0 /\ r \notin batch'
      BY <1>0, <3>1
    <3>3. r \notin q.gone => kv'[r] = kv[r] /\ real'[r] = real[r] BY <1>0, <2>1, <2>7
    <3>4. ExecuteOf(r, q) BY <2>7, <3>2, <3>3 DEF ExecuteOf
    <3> QED BY <2>0, <2>3, <2>4, <2>5, <3>2, <3>4
  <2> QED BY <2>1, <2>6, <2>7
<1>2. /\ outs' = [r \in Reqs |-> outs'[r]] /\ drafted' = [r \in Reqs |-> drafted'[r]]
      /\ filled' = [r \in Reqs |-> filled'[r]] /\ prevRow' = [r \in Reqs |-> prevRow'[r]]
      /\ real' = [r \in Reqs |-> real'[r]] /\ kv' = [r \in Reqs |-> kv'[r]]
  BY <1>0
<1>3. /\ outs' \in [Reqs -> Seq(Tok)] /\ drafted' \in [Reqs -> Nat] /\ filled' \in [Reqs -> Nat]
  BY <1>1, <1>2
<1>4. prevRow' \in [Reqs -> Nat] /\ real' \in [Reqs -> Nat] /\ kv' \in [Reqs -> Nat] BY <1>1, <1>2
<1> QED BY <1>0, <1>1, <1>3, <1>4

\* The step made for a batch.
LEMMA ExecuteStep ==
    ASSUME RunnerInv, TwoSteps, Execute, NEW q, q = Head(inbox), NEW any \in Reqs, q.req[any].n > 0
    PROVE  \E s : /\ step' = <<s>> /\ results' = results /\ s.req = q.req /\ RowsOK(s)
                  /\ \A r \in Reqs : q.req[r].n > 0 =>
                        /\ s.start[r] = kv'[r] /\ s.input[r] = Input(q, r)
                        /\ q.req[r].from # kv'[r] => s.cpu[r] = kv'[r]
<1> DEFINE R == {r \in Reqs : q.req[r].n > 0}
           row(rows) == [r \in Reqs |-> IF r \in R THEN CHOOSE i \in DOMAIN rows : rows[i] = r ELSE 0]
           made(rows) == [req |-> q.req, rows |-> rows,
                          start |-> [r \in R |-> Start(q, r)],
                          cpu |-> [r \in R |-> Corrected(q, r, row(rows))],
                          input |-> [r \in R |-> Input(q, r)],
                          skip |-> {r \in R : q.req[r].from + q.req[r].n
                                              < Prompt[r] + Len(NewOuts(q, r))}]
<1>0. R # {} OBVIOUS
<1>1. PICK rows \in SetToSeqs(R) : step' = <<made(rows)>> /\ results' = results
  <2> DEFINE S(p) == {r \in Reqs : p.req[r].n > 0}
             rowIn(p, rows) == [r \in Reqs |-> IF r \in S(p) THEN CHOOSE i \in DOMAIN rows : rows[i] = r ELSE 0]
             madeOf(p, rows) == [req |-> p.req, rows |-> rows,
                                 start |-> [r \in S(p) |-> Start(p, r)],
                                 cpu |-> [r \in S(p) |-> Corrected(p, r, rowIn(p, rows))],
                                 input |-> [r \in S(p) |-> Input(p, r)],
                                 skip |-> {r \in S(p) : p.req[r].from + p.req[r].n
                                                        < Prompt[r] + Len(NewOuts(p, r))}]
  <2>1. S(Head(inbox)) # {} => results' = results
                               /\ \E rows \in SetToSeqs(S(Head(inbox))) : step' = <<madeOf(Head(inbox), rows)>>
    BY DEF Execute
  <2>2. S(q) # {} => results' = results /\ \E rows \in SetToSeqs(S(q)) : step' = <<madeOf(q, rows)>>
    <3> HIDE DEF S, madeOf
    <3> QED BY <2>1
  <2> QED BY <1>0, <2>2
<1>2. step = <<>> /\ inbox # <<>> BY ExecuteEffect
<1>3. ASSUME NEW r \in Reqs, q.req[r].n > 0
      PROVE  /\ Start(q, r) = kv'[r] /\ (q.req[r].from # kv'[r] => Corrected(q, r, row(rows)) = kv'[r])
             /\ q.req[r].from + q.req[r].n < Prompt[r] + Len(NewOuts(q, r)) <=> ~ Samples(q.req[r], r)
  <2>1. Made(q, r, Begins(q.req[r], kv[r]), real[r]) /\ q.req[r] \in EntryType /\ EntryOK(q.req[r], r)
    BY <1>2, <1>3, HeadFacts
  <2>2. kv'[r] = Begins(q.req[r], kv[r]) /\ kv'[r] \in Nat
    <3>1. ExecuteOf(r, q) /\ kv' \in [Reqs -> Nat] BY ExecuteEffect
    <3> QED BY <1>3, <3>1 DEF ExecuteOf
  <2>3. PICK k : k = Begins(q.req[r], kv[r]) OBVIOUS
  <2>4. real[r] \in Nat BY DEF RunnerInv, TypeOK
  <2>5. Made(q, r, k, real[r]) /\ k \in Nat BY <2>1, <2>2, <2>3
  <2>6. q.req[r].from + q.req[r].n < Prompt[r] + Len(NewOuts(q, r)) <=> ~ Samples(q.req[r], r)
    BY <1>3, <2>1, <2>4, <2>5, MadeRight
  <2>7. Start(q, r) = k /\ (q.req[r].from # k => \A x : Corrected(q, r, x) = k) BY <2>5 DEF Made
  <2> QED BY <2>2, <2>3, <2>6, <2>7
<1>4. IsFiniteSet(R)
  <2>1. R \subseteq Reqs OBVIOUS
  <2> QED BY <2>1, Constants, FS_Subset
<1>5. /\ rows \in Seq(R)
      /\ \A x \in R : \E i \in 1 .. Len(rows) : rows[i] = x
      /\ \A i, j \in 1 .. Len(rows) : i # j => rows[i] # rows[j]
  <2> HIDE DEF R
  <2> QED BY <1>4, SetRows
<1>6. rows \in Seq(Reqs) /\ \A i \in 1 .. Len(rows) : rows[i] \in R
  <2>1. \A i \in 1 .. Len(rows) : rows[i] \in R
    <3> HIDE DEF R
    <3> QED BY <1>5, ElementOfSeq
  <2>2. \A i \in 1 .. Len(rows) : rows[i] \in Reqs BY <2>1
  <2>3. rows \in [1 .. Len(rows) -> Reqs] /\ Len(rows) \in Nat BY <1>5, <2>2, LenProperties
  <2> QED BY <2>1, <2>3
<1> DEFINE s == made(rows)
<1>7. /\ s.req = q.req /\ s.rows = rows
      /\ s.skip = {r \in R : q.req[r].from + q.req[r].n < Prompt[r] + Len(NewOuts(q, r))}
      /\ \A r \in R : s.start[r] = Start(q, r) /\ s.input[r] = Input(q, r)
                      /\ s.cpu[r] = Corrected(q, r, row(rows))
  OBVIOUS
<1>8. s.skip = {r \in Reqs : q.req[r].n > 0 /\ ~ Samples(q.req[r], r)}
  <2> HIDE DEF s, row
  <2> QED BY <1>3, <1>7
<1>9. step' = <<s>> BY <1>1
<1> HIDE DEF s, made, row
<1>10. RowsOK(s)
  <2>1. s.rows \in Seq(Reqs) BY <1>6, <1>7
  <2>2. \A r \in Reqs : s.req[r].n > 0 <=> \E i \in 1 .. Len(s.rows) : s.rows[i] = r
    <3>1. ASSUME NEW r \in Reqs PROVE r \in R <=> \E i \in 1 .. Len(rows) : rows[i] = r
      <4> HIDE DEF R
      <4> QED BY <1>5, <1>6
    <3>2. \A r \in Reqs : r \in R <=> s.req[r].n > 0 BY <1>7
    <3> HIDE DEF R
    <3> QED BY <1>7, <3>1, <3>2
  <2>3. \A i, j \in 1 .. Len(s.rows) : i # j => s.rows[i] # s.rows[j] BY <1>5, <1>7
  <2> QED BY <1>7, <1>8, <2>1, <2>2, <2>3 DEF RowsOK
<1>11. ASSUME NEW r \in Reqs, q.req[r].n > 0
       PROVE  /\ s.start[r] = kv'[r] /\ s.input[r] = Input(q, r)
              /\ q.req[r].from # kv'[r] => s.cpu[r] = kv'[r]
  BY <1>3, <1>7, <1>11
<1>12. results' = results BY <1>1
<1> QED BY <1>7, <1>9, <1>10, <1>11, <1>12

\* The step made is the true one.
LEMMA StepMade ==
    ASSUME RunnerInv, TwoSteps, Execute, NEW q, q = Head(inbox), NEW s, step' = <<s>>, s.req = q.req,
           NEW r \in Reqs, q.req[r].n > 0,
           s.start[r] = kv'[r], s.input[r] = Input(q, r),
           q.req[r].from # kv'[r] => s.cpu[r] = kv'[r]
    PROVE  /\ RunOK(s, r)'
           /\ \A j \in 1 .. q.req[r].n - q.req[r].spec : s.input[r][j] = <<r, s.start[r] + j - 1>>
           /\ \A j \in q.req[r].n - q.req[r].spec + 1 .. q.req[r].n :
                 s.input[r][j] \in {<<r, s.start[r] + j - 1>>, Hole, Noise}
           /\ Samples(q.req[r], r) => /\ Base(s, r) = real'[r]
                                      /\ Prompt[r] + filled'[r] + 1 <= ModelLen
           /\ ~ Samples(q.req[r], r) => Base(s, r) < real'[r] /\ q.req[r].spec = 0
           /\ q.req[r].from # s.start[r] => s.cpu[r] = s.start[r]
<1>0. step = <<>> /\ inbox # <<>> BY ExecuteEffect
<1>1. PICK e, k, t : e = q.req[r] /\ k = Begins(q.req[r], kv[r]) /\ t = real[r] OBVIOUS
<1>2. /\ outs'[r] = NewOuts(q, r) /\ drafted'[r] = e.spec /\ filled'[r] = NewFilled(q, r)
      /\ kv'[r] = k /\ real'[r] = t /\ k \in Nat /\ t \in Nat
  <2>1. ExecuteOf(r, q) /\ kv' \in [Reqs -> Nat] /\ real' \in [Reqs -> Nat] BY ExecuteEffect
  <2> QED BY <1>1, <2>1 DEF ExecuteOf
<1>3. Made(q, r, k, t) /\ q.req[r] \in EntryType /\ EntryOK(q.req[r], r)
  BY <1>0, <1>1, HeadFacts
<1>4. /\ \A j \in 1 .. e.n - e.spec : Input(q, r)[j] = <<r, k + j - 1>>
      /\ \A j \in e.n - e.spec + 1 .. e.n : Input(q, r)[j] \in {<<r, k + j - 1>>, Hole, Noise}
      /\ Samples(e, r) => k + e.n - e.spec = t /\ Prompt[r] + NewFilled(q, r) + 1 <= ModelLen
      /\ ~ Samples(e, r) => /\ Known(NewOuts(q, r), r) /\ Prompt[r] + e.outs = t
                            /\ k + e.n - e.spec < t /\ e.spec = 0
      /\ Prompt[r] + e.outs >= t
  BY <1>1, <1>2, <1>3, MadeRight
<1>5. Len(NewOuts(q, r)) = e.outs /\ NewFilled(q, r) <= e.outs BY <1>1, <1>3 DEF Made
<1>6. Base(s, r) = k + e.n - e.spec BY <1>1, <1>2 DEF Base
<1>7. RunOK(s, r)' BY <1>1, <1>2, <1>4, <1>5 DEF RunOK
<1> QED BY <1>1, <1>2, <1>4, <1>6, <1>7

\* An output without requests gives an empty result at once.
Nothing(q) == [req |-> q.req, row |-> Zeros, counts |-> <<>>, proposed |-> FALSE]

LEMMA ExecuteNone ==
    ASSUME RunnerInv, TwoSteps, Execute, NEW q, q = Head(inbox), \A r \in Reqs : ~ (q.req[r].n > 0)
    PROVE  /\ step' = <<>> /\ results' = Append(results, Nothing(q)) /\ Nothing(q) \in ResultType
           /\ \A r \in Reqs : q.req[r] = NoEntry /\ Gen(Nothing(q), r) = 0
           /\ Len(results) = 0 \/ Len(results) = 1
<1>0. step = <<>> /\ inbox # <<>> BY ExecuteEffect
<1>1. {r \in Reqs : Head(inbox).req[r].n > 0} = {} =>
         results' = Append(results, Nothing(Head(inbox))) /\ step' = step
  BY DEF Execute, Nothing
<1>2. step' = <<>> /\ results' = Append(results, Nothing(q)) BY <1>0, <1>1
<1>3. ASSUME NEW r \in Reqs PROVE q.req[r] = NoEntry /\ q \in OutputType
  <2>1. q.req[r].n \in Nat /\ (q.req[r].n = 0 => q.req[r] = NoEntry) /\ q \in OutputType BY <1>0, HeadFacts
  <2> QED BY <2>1
<1>4. q \in OutputType
  <2>1. inbox \in Seq(OutputType) BY DEF RunnerInv, TypeOK
  <2>2. Len(inbox) \in Nat \ {0} /\ q = inbox[1] BY <1>0, <2>1, EmptySeq, HeadTailProperties
  <2> QED BY <2>1, <2>2, ElementOfSeq
<1>5. Nothing(q) \in ResultType
  <2>1. q.req \in [Reqs -> EntryType] BY <1>4 DEF OutputType
  <2>2. <<>> \in Seq(Nat) BY EmptySeq
  <2> QED BY <2>1, <2>2 DEF Nothing, ResultType, Zeros
<1>6. ASSUME NEW r \in Reqs PROVE Gen(Nothing(q), r) = 0 BY DEF Gen, Nothing
<1>7. Len(results) = 0 \/ Len(results) = 1
  <2>1. PICK a, c : a = Len(inbox) /\ c = Len(results) OBVIOUS
  <2>2. TypeOK BY DEF RunnerInv
  <2>3. a \in Nat /\ c \in Nat /\ a # 0 /\ a + 0 + c <= 2 BY <1>0, <2>1, <2>2, Lengths
  <2>4. c = 0 \/ c = 1 BY <2>3
  <2> QED BY <2>1, <2>4
<1> QED BY <1>2, <1>3, <1>5, <1>6, <1>7

\* Where the outputs and results are after the step.
LEMMA ExecuteSlots ==
    ASSUME RunnerInv, TwoSteps, Execute, NEW q, q = Head(inbox), NEW r \in Reqs
    PROVE  /\ At(inbox', 1, r) = At(inbox, 2, r) /\ At(inbox', 2, r) = NoEntry
           /\ At(inbox, 1, r) = q.req[r] /\ At(step, 1, r) = NoEntry /\ At(step', 1, r) = q.req[r]
           /\ At(results', 1, r) = At(results, 1, r) /\ At(results', 2, r) = At(results, 2, r)
           /\ GenAt(results', 1, r) = GenAt(results, 1, r) /\ GenAt(results', 2, r) = GenAt(results, 2, r)
           /\ \/ Len(inbox) = 1 /\ inbox' = <<>>
              \/ Len(inbox) = 2 /\ inbox' # <<>> /\ Len(inbox') = 1
<1>t. TypeOK BY DEF RunnerInv
<1>0. step = <<>> /\ inbox # <<>> /\ inbox' = Tail(inbox) BY ExecuteEffect
<1>1. inbox \in Seq(OutputType) /\ results \in Seq(ResultType) BY <1>t DEF TypeOK
<1>2. Len(inbox) = 1 \/ Len(inbox) = 2
  <2>1. PICK a, c : a = Len(inbox) /\ c = Len(results) OBVIOUS
  <2>2. a \in Nat /\ c \in Nat /\ a # 0 /\ a + 0 + c <= 2 BY <1>0, <1>t, <2>1, Lengths
  <2>3. a = 1 \/ a = 2 BY <2>2
  <2> QED BY <2>1, <2>3
<1>3. inbox' \in Seq(OutputType) /\ Len(inbox') = Len(inbox) - 1 BY <1>0, <1>1, HeadTailProperties
<1>4. At(inbox', 1, r) = At(inbox, 2, r) /\ At(inbox', 2, r) = NoEntry
  <2>1. At(inbox', 1, r) = At(inbox, 1 + 1, r) BY <1>0, <1>1, AtTail
  <2>2. At(inbox', 2, r) = NoEntry BY <1>2, <1>3 DEF At
  <2> QED BY <2>1, <2>2
<1>5. \/ Len(inbox) = 1 /\ inbox' = <<>>
      \/ Len(inbox) = 2 /\ inbox' # <<>> /\ Len(inbox') = 1
  <2>1. PICK i : i = inbox' OBVIOUS
  <2>2. i \in Seq(OutputType) /\ (Len(inbox) = 1 => Len(i) = 0) /\ (Len(inbox) = 2 => Len(i) = 1)
    <3>1. PICK n, m : n = Len(inbox) /\ m = Len(i) OBVIOUS
    <3>2. m = n - 1 BY <1>3, <2>1, <3>1
    <3>3. (n = 1 => m = 0) /\ (n = 2 => m = 1) BY <3>2
    <3> QED BY <1>3, <2>1, <3>1, <3>3
  <2>3. Len(i) = 0 => i = <<>> BY <2>2, EmptySeq
  <2>4. Len(i) = 1 => i # <<>> OBVIOUS
  <2> QED BY <1>2, <2>1, <2>2, <2>3, <2>4
<1>6. At(step, 1, r) = NoEntry BY <1>0, EmptyAt
<1>7. At(inbox, 1, r) = q.req[r] BY <1>0, HeadFacts
<1>8. /\ At(step', 1, r) = q.req[r]
      /\ At(results', 1, r) = At(results, 1, r) /\ At(results', 2, r) = At(results, 2, r)
      /\ GenAt(results', 1, r) = GenAt(results, 1, r) /\ GenAt(results', 2, r) = GenAt(results, 2, r)
  <2>1. CASE \E any \in Reqs : q.req[any].n > 0
    <3>1. PICK s : step' = <<s>> /\ results' = results /\ s.req = q.req BY <2>1, ExecuteStep
    <3>2. At(<<s>>, 1, r) = s.req[r] BY DEF At
    <3> QED BY <3>1, <3>2
  <2>2. CASE ~ \E any \in Reqs : q.req[any].n > 0
    <3>1. /\ step' = <<>> /\ results' = Append(results, Nothing(q)) /\ Nothing(q) \in ResultType
          /\ q.req[r] = NoEntry /\ Gen(Nothing(q), r) = 0
          /\ Len(results) = 0 \/ Len(results) = 1
      BY <2>2, ExecuteNone
    <3>2. At(step', 1, r) = NoEntry BY <3>1, EmptyAt
    <3>3. Nothing(q).req[r] = NoEntry BY <3>1 DEF Nothing
    <3>4. ASSUME NEW k \in Nat, k = 1 \/ k = 2
          PROVE  At(results', k, r) = At(results, k, r) /\ GenAt(results', k, r) = GenAt(results, k, r)
      <4>1. /\ At(results', k, r) = IF k = Len(results) + 1 THEN NoEntry ELSE At(results, k, r)
            /\ GenAt(results', k, r) = IF k = Len(results) + 1 THEN 0 ELSE GenAt(results, k, r)
        BY <1>1, <3>1, <3>3, AtAppend, GenAppend
      <4>2. k = Len(results) + 1 => At(results, k, r) = NoEntry /\ GenAt(results, k, r) = 0
        BY <3>1 DEF At, GenAt
      <4> QED BY <4>1, <4>2
    <3> QED BY <3>1, <3>2, <3>4
  <2> QED BY <2>1, <2>2
<1> QED BY <1>4, <1>5, <1>6, <1>7, <1>8

LEMMA ExecuteCount ==
    ASSUME RunnerInv, TwoSteps, Execute, NEW q, q = Head(inbox), NEW r \in Reqs
    PROVE  CountOf(r)'
<1>t. TypeOK /\ ResultsOK /\ SlotsOK /\ NewestOK /\ CountOf(r) /\ IdleOf(r)
  BY ExecuteEffect DEF RunnerInv
<1>0. /\ step = <<>> /\ inbox # <<>>
      /\ status' = status /\ outputs' = outputs /\ computed' = computed /\ holders' = holders
      /\ drafts' = drafts /\ chunk' = chunk /\ lastStep' = lastStep
  BY ExecuteEffect DEF schedVars
<1>1. PICK e, f : e = q.req[r] /\ f = At(inbox, 2, r) OBVIOUS
<1>2. /\ At(inbox', 1, r) = f /\ At(inbox', 2, r) = NoEntry
      /\ At(inbox, 1, r) = e /\ At(step, 1, r) = NoEntry /\ At(step', 1, r) = e
      /\ At(results', 1, r) = At(results, 1, r) /\ At(results', 2, r) = At(results, 2, r)
      /\ GenAt(results', 1, r) = GenAt(results, 1, r) /\ GenAt(results', 2, r) = GenAt(results, 2, r)
      /\ Loss(results', 1, r) = Loss(results, 1, r) /\ Loss(results', 2, r) = Loss(results, 2, r)
  BY <1>1, ExecuteSlots DEF Loss
<1>3. /\ e \in EntryType /\ f \in EntryType /\ e.n \in Nat /\ f.n \in Nat /\ e.from \in Nat
      /\ EntryOK(e, r) /\ (e.n = 0 => e = NoEntry)
      /\ Loss(results, 1, r) \in Nat /\ Loss(results, 2, r) \in Nat
      /\ Held(At(results, 1, r), r) \in Nat /\ Held(At(results, 2, r), r) \in Nat
      /\ Held(e, r) \in Nat /\ Held(f, r) \in Nat /\ Held(NoEntry, r) = 0
      /\ kv[r] \in Nat /\ kv'[r] \in Nat
  <2>1. e \in EntryType /\ f \in EntryType BY <1>t, <1>1, <1>2, Types
  <2>2. e.n \in Nat /\ f.n \in Nat /\ e.from \in Nat BY <2>1, Fields
  <2>3. EntryOK(e, r) /\ (e.n = 0 => e = NoEntry) BY <1>t, <1>1, <1>2 DEF SlotsOK, EntryOK
  <2>4. Loss(results, 1, r) \in Nat /\ Loss(results, 2, r) \in Nat BY <1>t, ResultFacts
  <2>5. /\ Held(At(results, 1, r), r) \in Nat /\ Held(At(results, 2, r), r) \in Nat
        /\ Held(e, r) \in Nat /\ Held(f, r) \in Nat /\ Held(NoEntry, r) = 0
    BY <1>t, <2>1, Types, HeldType, NoEntryOK
  <2>6. kv[r] \in Nat BY <1>t DEF TypeOK
  <2>7. kv'[r] \in Nat
    <3>1. kv' \in [Reqs -> Nat] BY ExecuteEffect
    <3> QED BY <3>1
  <2> QED BY <2>1, <2>2, <2>3, <2>4, <2>5, <2>6, <2>7
<1>4. status[r] # "done" => kv'[r] = Begins(e, kv[r]) /\ real'[r] = real[r]
  <2>1. ExecuteOf(r, q) BY ExecuteEffect
  <2>2. status[r] # "done" => r \notin q.gone BY <1>0, HeadFacts
  <2>3. e.n = 0 => Begins(e, kv[r]) = kv[r] BY <1>3, NoEntryType DEF Begins, Added
  <2>4. e.n > 0 \/ e.n = 0 BY <1>3
  <2> QED BY <1>1, <2>1, <2>2, <2>3, <2>4 DEF ExecuteOf
<1>5. HeldSum(r)' = HeldSum(r)
  <2>1. PICK a, b, c, d : /\ a = Held(At(results, 1, r), r) /\ b = Held(At(results, 2, r), r)
                          /\ c = Held(e, r) /\ d = Held(f, r)
    OBVIOUS
  <2>2. HeldSum(r) = a + b + 0 + c + d BY <1>1, <1>2, <1>3, <2>1 DEF HeldSum
  <2>3. HeldSum(r)' = a + b + c + d + 0 BY <1>2, <1>3, <2>1 DEF HeldSum
  <2>4. a + b + 0 + c + d = a + b + c + d + 0
    <3>1. a \in Nat /\ b \in Nat /\ c \in Nat /\ d \in Nat BY <1>3, <2>1
    <3> QED BY <3>1
  <2> QED BY <2>2, <2>3, <2>4
<1>6. Follows(f, e, r, Begins(e, kv[r]), real[r]) BY <1>t, <1>1, <1>2 DEF IdleOf
<1>7. status[r] # "done" => Ahead(r)' = Ahead(r)
  <2>0. NoEntry.kind \notin Added /\ NoEntry.n = 0 BY NoEntryType DEF Added
  <2>1. CASE e.kind \in Added
    <3>1. e.n > 0 BY <1>3, <2>0, <2>1
    <3>2. f.kind \notin Added
      <4>1. f.n > 0 => f.kind = "running" BY <1>6, <3>1 DEF Follows
      <4>2. f.n = 0 => f = NoEntry BY <1>t, <1>1 DEF SlotsOK, EntryOK
      <4>3. f.n > 0 \/ f.n = 0 BY <1>3
      <4> QED BY <2>0, <4>1, <4>2, <4>3 DEF Added
    <3>3. Loss(results, 1, r) = 0 /\ Loss(results, 2, r) = 0
      <4>1. CASE results = <<>> BY <4>1, EmptyAt DEF Loss
      <4>2. CASE results # <<>>
        <5>1. At(results, 1, r).n = 0 /\ At(results, 2, r).n = 0 BY <1>2, <2>1, <4>2, AddedAlone
        <5> QED BY <1>t, <5>1, ResultFacts DEF Loss
      <4> QED BY <4>1, <4>2
    <3>4. Ahead(r) = e.from + e.n + f.n BY <1>1, <1>2, <2>1 DEF Ahead
    <3>5. Ahead(r)' = kv'[r] + e.n + f.n + 0 + 0 + 0 BY <1>2, <2>0, <3>2, <3>3 DEF Ahead
    <3>6. status[r] # "done" => kv'[r] = e.from BY <1>4, <2>1 DEF Begins
    <3> QED BY <1>3, <3>4, <3>5, <3>6
  <2>2. CASE e.kind \notin Added /\ f.kind \in Added
    <3>1. Ahead(r) = f.from + f.n BY <1>1, <1>2, <2>2 DEF Ahead
    <3>2. f.n \in Nat /\ f.from \in Nat BY <1>3, Fields
    <3>3. Ahead(r)' = f.from + f.n + 0 BY <1>2, <2>0, <2>2 DEF Ahead
    <3> QED BY <3>1, <3>2, <3>3
  <2>3. CASE e.kind \notin Added /\ f.kind \notin Added
    <3>1. PICK a, b : a = Loss(results, 1, r) /\ b = Loss(results, 2, r) OBVIOUS
    <3>2. Ahead(r) = kv[r] + 0 + e.n + f.n + a + b BY <1>1, <1>2, <2>0, <2>3, <3>1 DEF Ahead
    <3>3. Ahead(r)' = kv'[r] + e.n + f.n + 0 + a + b BY <1>2, <2>0, <2>3, <3>1 DEF Ahead
    <3>4. status[r] # "done" => kv'[r] = kv[r] BY <1>4, <2>3 DEF Begins
    <3>5. a \in Nat /\ b \in Nat BY <1>3, <3>1
    <3>6. kv[r] + 0 + e.n + f.n + a + b = kv[r] + e.n + f.n + 0 + a + b BY <1>3, <3>5
    <3> QED BY <3>2, <3>3, <3>4, <3>6
  <2> QED BY <2>1, <2>2, <2>3
<1>8. InNoStep(r) => InNoStep(r)' BY <1>1, <1>2, NoEntryType DEF InNoStep
<1>9. r \in lastStep => (NewestSamples(r)' <=> NewestSamples(r))
  <2>1. CASE Len(inbox) = 2 /\ inbox' # <<>> /\ Len(inbox') = 1
    BY <1>0, <1>1, <1>2, <2>1 DEF NewestSamples
  <2>2. CASE Len(inbox) = 1 /\ inbox' = <<>>
    <3>1. NewestSamples(r) <=> Samples(e, r) BY <1>0, <1>2, <2>2 DEF NewestSamples
    <3>2. r \in lastStep => e.n > 0 BY <1>t, <1>0, <1>2, <2>2 DEF NewestOK
    <3>3. ASSUME e.n > 0 PROVE NewestSamples(r)' <=> Samples(e, r)
      <4>1. PICK s : step' = <<s>> BY <1>1, <3>3, ExecuteStep
      <4>2. step' # <<>> BY <4>1
      <4> QED BY <1>2, <2>2, <4>2 DEF NewestSamples
    <3> QED BY <3>1, <3>2, <3>3
  <2> QED BY <2>1, <2>2, ExecuteSlots
<1>10. NumTokens(r)' = NumTokens(r) BY <1>0 DEF NumTokens
<1>11. CASE status[r] = "done" BY <1>0, <1>11 DEF CountOf
<1>12. CASE status[r] # "done"
  BY <1>t, <1>0, <1>2, <1>4, <1>5, <1>7, <1>8, <1>9, <1>10, <1>12 DEF CountOf
<1> QED BY <1>11, <1>12

\* What follows the output that was taken.
LEMMA ExecuteFollows ==
    ASSUME RunnerInv, TwoSteps, Execute, NEW q, q = Head(inbox), NEW r \in Reqs
    PROVE  Follows(At(inbox, 2, r), q.req[r], r, kv'[r], real'[r])
<1>0. step = <<>> /\ inbox # <<>> BY ExecuteEffect
<1>1. PICK e, f : e = q.req[r] /\ f = At(inbox, 2, r) OBVIOUS
<1>2. IdleOf(r) BY <1>0 DEF RunnerInv
<1>3. Follows(f, e, r, Begins(e, kv[r]), real[r])
  <2>1. At(inbox, 1, r) = e BY <1>1, ExecuteSlots
  <2> QED BY <1>1, <1>2, <2>1 DEF IdleOf
<1>4. CASE r \in q.gone
  <2>1. f.n = 0 BY <1>0, <1>1, <1>4, HeadFacts
  <2>2. Follows(f, e, r, kv'[r], real'[r]) BY <2>1 DEF Follows
  <2> QED BY <1>1, <2>2
<1>5. CASE r \notin q.gone
  <2>1. ExecuteOf(r, q) BY ExecuteEffect
  <2>2. e.n \in Nat /\ (e.n = 0 => e.kind = "none") BY <1>0, <1>1, HeadFacts
  <2>3. e.n = 0 => Begins(e, kv[r]) = kv[r] BY <2>2 DEF Begins, Added
  <2>4. kv'[r] = Begins(e, kv[r]) /\ real'[r] = real[r]
    <3>1. CASE e.n = 0 BY <1>1, <1>5, <2>1, <2>3, <3>1 DEF ExecuteOf
    <3>2. CASE e.n > 0 BY <1>1, <2>1, <3>2 DEF ExecuteOf
    <3> QED BY <2>2, <3>1, <3>2
  <2> QED BY <1>1, <1>3, <2>4
<1> QED BY <1>4, <1>5

LEMMA ExecuteIdle ==
    ASSUME RunnerInv, TwoSteps, Execute, NEW q, q = Head(inbox), \A p \in Reqs : ~ (q.req[p].n > 0),
           NEW r \in Reqs
    PROVE  IdleOf(r)'
<1>1. /\ step' = <<>> /\ results' = Append(results, Nothing(q)) /\ Nothing(q) \in ResultType
      /\ q.req[r] = NoEntry /\ Gen(Nothing(q), r) = 0
  BY ExecuteNone
<1>2. r \notin batch'
  <2>1. ExecuteOf(r, q) BY ExecuteEffect
  <2> QED BY <2>1 DEF ExecuteOf
<1>3. PICK f : f = At(inbox, 2, r) OBVIOUS
<1>4. At(inbox', 1, r) = f /\ At(inbox', 2, r) = NoEntry BY <1>3, ExecuteSlots
<1>5. Follows(f, NoEntry, r, kv'[r], real'[r]) BY <1>1, <1>3, ExecuteFollows
<1>6. HeadOK(At(inbox, 1, r), r)'
  <2>1. f.n > 0 => Fresh(f, r, kv'[r], real'[r]) BY <1>5, NoEntryType DEF Follows
  <2> QED BY <1>2, <1>4, <2>1 DEF HeadOK
<1>7. Follows(At(inbox, 2, r), At(inbox, 1, r), r, Begins(At(inbox, 1, r), kv[r]), real[r])'
  BY <1>4, NoEntryType DEF Follows
<1>8. Link(r)'
  <2>1. results \in Seq(ResultType) BY DEF RunnerInv, TypeOK
  <2>2. Len(results) \in Nat /\ Len(results') = Len(results) + 1
    BY <1>1, <2>1, AppendProperties, LenProperties
  <2>3. At(results', Len(results'), r) = Nothing(q).req[r]
    <3>1. Len(results) + 1 \in Nat BY <2>2
    <3>2. At(results', Len(results) + 1, r) = Nothing(q).req[r] BY <1>1, <2>1, <3>1, AtAppend
    <3> QED BY <2>2, <3>2
  <2>4. At(results', Len(results'), r).n = 0 BY <1>1, <2>3, NoEntryType DEF Nothing
  <2> QED BY <1>2, <2>4 DEF Link
<1> QED BY <1>2, <1>6, <1>7, <1>8 DEF IdleOf

LEMMA ExecuteBusy ==
    ASSUME RunnerInv, TwoSteps, Execute, NEW q, q = Head(inbox), NEW any \in Reqs, q.req[any].n > 0
    PROVE  /\ step' # <<>> /\ step' = <<step'[1]>> /\ step'[1].req = q.req /\ results' = results
           /\ RowsOK(step[1])' /\ \A r \in Reqs : BusyOf(r)'
           /\ StepTrue' /\ CountsAgree'
<1>1. PICK s : /\ step' = <<s>> /\ results' = results /\ s.req = q.req /\ RowsOK(s)
               /\ \A r \in Reqs : q.req[r].n > 0 =>
                     /\ s.start[r] = kv'[r] /\ s.input[r] = Input(q, r)
                     /\ q.req[r].from # kv'[r] => s.cpu[r] = kv'[r]
  BY ExecuteStep
<1>2. step' # <<>> /\ step'[1] = s /\ DOMAIN step' = {1} BY <1>1
<1>3. RowsOK(step[1])' BY <1>1, <1>2 DEF RowsOK
<1>4. ASSUME NEW r \in Reqs, q.req[r].n > 0
      PROVE  /\ RunOK(s, r)'
             /\ \A j \in 1 .. q.req[r].n - q.req[r].spec : s.input[r][j] = <<r, s.start[r] + j - 1>>
             /\ \A j \in q.req[r].n - q.req[r].spec + 1 .. q.req[r].n :
                   s.input[r][j] \in {<<r, s.start[r] + j - 1>>, Hole, Noise}
             /\ Samples(q.req[r], r) => /\ Base(s, r) = real'[r]
                                        /\ Prompt[r] + filled'[r] + 1 <= ModelLen
             /\ ~ Samples(q.req[r], r) => Base(s, r) < real'[r] /\ q.req[r].spec = 0
             /\ q.req[r].from # s.start[r] => s.cpu[r] = s.start[r]
             /\ s.start[r] = kv'[r]
  BY <1>1, <1>4, StepMade
<1>5. ASSUME NEW r \in Reqs PROVE BusyOf(r)'
  <2>1. At(step', 1, r) = q.req[r] /\ At(inbox', 1, r) = At(inbox, 2, r) BY ExecuteSlots
  <2>2. Follows(At(inbox, 1, r), At(step, 1, r), r, kv[r], real[r])'
    <3>1. Follows(At(inbox, 2, r), q.req[r], r, kv'[r], real'[r]) BY ExecuteFollows
    <3> QED BY <2>1, <3>1
  <2>3. ASSUME q.req[r].n > 0 PROVE RunOK(step[1], r)'
    <3>1. RunOK(s, r)' BY <1>4, <2>3
    <3> QED BY <1>2, <3>1 DEF RunOK
  <2> QED BY <2>1, <2>2, <2>3 DEF BusyOf
<1>6. ASSUME NEW r \in Range(s.rows)
      PROVE  r \in Reqs /\ s.req[r].n > 0 /\ (r \in s.skip <=> ~ Samples(s.req[r], r))
  <2>1. r \in Reqs
    <3>1. s.rows \in Seq(Reqs) BY <1>1 DEF RowsOK
    <3> QED BY <3>1, LenProperties DEF Range
  <2> QED BY <1>1, <2>1, RowFacts
<1>7. StepTrue'
  <2>1. SUFFICES ASSUME NEW r \in Range(s.rows)
        PROVE LET n == s.req[r].n
                  spec == s.req[r].spec
              IN /\ s.start[r] = kv'[r]
                 /\ \A j \in 1 .. n - spec : s.input[r][j] = <<r, s.start[r] + j - 1>>
                 /\ \A j \in n - spec + 1 .. n :
                       s.input[r][j] \in {<<r, s.start[r] + j - 1>>, Hole, Noise}
                 /\ r \notin s.skip => /\ Base(s, r) = real'[r]
                                     /\ Prompt[r] + filled'[r] + 1 <= ModelLen
                 /\ r \in s.skip => Base(s, r) < real'[r] /\ spec = 0
    BY <1>2 DEF StepTrue, Base
  <2> QED BY <1>1, <1>4, <1>6
<1>8. CountsAgree'
  <2>1. SUFFICES ASSUME NEW r \in Range(s.rows)
        PROVE  s.req[r].from # s.start[r] => s.cpu[r] = s.start[r]
    BY <1>2 DEF CountsAgree
  <2> QED BY <1>1, <1>4, <1>6
<1> QED BY <1>1, <1>2, <1>3, <1>5, <1>7, <1>8

LEMMA ExecuteInv == ASSUME RunnerInv, TwoSteps, Execute PROVE RunnerInv'
<1>t. TypeOK /\ ResultsOK /\ SlotsOK /\ NewestOK /\ GoneOK BY DEF RunnerInv
<1>q. PICK q : q = Head(inbox) OBVIOUS
<1>0. /\ step = <<>> /\ inbox # <<>> /\ inbox' = Tail(inbox)
      /\ status' = status /\ outputs' = outputs /\ computed' = computed /\ holders' = holders
      /\ drafts' = drafts /\ chunk' = chunk /\ lastStep' = lastStep /\ gone' = gone
      /\ batch' = {r \in Reqs : q.req[r].n > 0}
      /\ outs' \in [Reqs -> Seq(Tok)] /\ drafted' \in [Reqs -> Nat] /\ filled' \in [Reqs -> Nat]
      /\ prevRow' \in [Reqs -> Nat] /\ real' \in [Reqs -> Nat] /\ kv' \in [Reqs -> Nat]
  BY <1>q, ExecuteEffect DEF schedVars
<1>1. inbox \in Seq(OutputType) /\ results \in Seq(ResultType) BY <1>t DEF TypeOK
<1>2. /\ Len(inbox) \in Nat \ {0} /\ q = inbox[1] /\ q \in OutputType
      /\ inbox' \in Seq(OutputType) /\ Len(inbox') = Len(inbox) - 1
      /\ \A k \in 1 .. Len(inbox') : inbox'[k] = inbox[k + 1]
  <2>1. Len(inbox) \in Nat \ {0} BY <1>0, <1>1, EmptySeq
  <2> QED BY <1>0, <1>1, <1>q, <2>1, HeadTailProperties, ElementOfSeq
<1>3. ASSUME NEW r \in Reqs
      PROVE  /\ At(inbox', 1, r) = At(inbox, 2, r) /\ At(inbox', 2, r) = NoEntry
             /\ At(inbox, 1, r) = q.req[r] /\ At(step', 1, r) = q.req[r]
             /\ At(results', 1, r) = At(results, 1, r) /\ At(results', 2, r) = At(results, 2, r)
             /\ GenAt(results', 1, r) = GenAt(results, 1, r) /\ GenAt(results', 2, r) = GenAt(results, 2, r)
             /\ \/ Len(inbox) = 1 /\ inbox' = <<>>
                \/ Len(inbox) = 2 /\ inbox' # <<>> /\ Len(inbox') = 1
  BY <1>q, ExecuteSlots
<1>4. \/ /\ \E any \in Reqs : q.req[any].n > 0
         /\ step' # <<>> /\ step' = <<step'[1]>> /\ step'[1].req = q.req /\ results' = results
         /\ RowsOK(step[1])' /\ \A r \in Reqs : BusyOf(r)'
         /\ StepTrue' /\ CountsAgree'
      \/ /\ \A any \in Reqs : ~ (q.req[any].n > 0)
         /\ step' = <<>> /\ results' = Append(results, Nothing(q)) /\ Nothing(q) \in ResultType
  <2>1. CASE \E any \in Reqs : q.req[any].n > 0
    <3>1. PICK any \in Reqs : q.req[any].n > 0 BY <2>1
    <3>2. /\ step' # <<>> /\ step' = <<step'[1]>> /\ step'[1].req = q.req /\ results' = results
          /\ RowsOK(step[1])' /\ \A r \in Reqs : BusyOf(r)'
          /\ StepTrue' /\ CountsAgree'
      BY <1>q, <3>1, ExecuteBusy
    <3> QED BY <2>1, <3>2
  <2>2. CASE ~ \E any \in Reqs : q.req[any].n > 0
    <3>1. step' = <<>> /\ results' = Append(results, Nothing(q)) /\ Nothing(q) \in ResultType
      BY <1>q, <2>2, ExecuteNone
    <3> QED BY <2>2, <3>1
  <2> QED BY <2>1, <2>2
<1>5. TypeOK'
  <2>1. q.req \in [Reqs -> EntryType] BY <1>2 DEF OutputType
  <2>2. /\ results' \in Seq(ResultType)
        /\ step' # <<>> => step' = <<step'[1]>> /\ step'[1].req \in [Reqs -> EntryType]
        /\ Len(step') + Len(results') = Len(results) + 1
    <3>0. Len(results) \in Nat BY <1>1, LenProperties
    <3>1. CASE step' # <<>> /\ step' = <<step'[1]>> /\ step'[1].req = q.req /\ results' = results
      <4>1. Len(step') = 1
        <5>1. PICK s : step' = <<s>> BY <3>1
        <5> QED BY <5>1
      <4>2. 1 + Len(results) = Len(results) + 1 BY <3>0
      <4> QED BY <1>1, <2>1, <3>1, <4>1, <4>2
    <3>2. CASE step' = <<>> /\ results' = Append(results, Nothing(q)) /\ Nothing(q) \in ResultType
      <4>1. results' \in Seq(ResultType) /\ Len(results') = Len(results) + 1
        BY <1>1, <3>2, AppendProperties
      <4>2. Len(step') = 0 BY <3>2
      <4>3. 0 + (Len(results) + 1) = Len(results) + 1 BY <3>0
      <4> QED BY <3>2, <4>1, <4>2, <4>3
    <3> QED BY <1>4, <3>1, <3>2
  <2>3. Len(inbox') + Len(step') + Len(results') <= 2
    <3>1. PICK a, b, c, d, e : /\ a = Len(inbox) /\ b = Len(results) /\ c = Len(step') /\ d = Len(results')
                               /\ e = Len(inbox')
      OBVIOUS
    <3>2. a \in Nat /\ b \in Nat /\ a + 0 + b <= 2 BY <1>0, <1>t, <3>1, Lengths
    <3>3. c \in Nat /\ d \in Nat
      <4>1. d \in Nat BY <2>2, <3>1, LenProperties
      <4>2. c = 0 \/ c = 1
        <5>1. CASE step' = <<>> BY <3>1, <5>1
        <5>2. CASE step' # <<>>
          <6>1. PICK s : step' = <<s>> BY <2>2, <5>2
          <6> QED BY <3>1, <6>1
        <5> QED BY <5>1, <5>2
      <4> QED BY <4>1, <4>2
    <3>4. c + d = b + 1 /\ e = a - 1 BY <1>2, <2>2, <3>1
    <3>5. e + c + d <= 2 BY <3>2, <3>3, <3>4
    <3> QED BY <3>1, <3>5
  <2>4. batch' \subseteq Reqs BY <1>0
  <2> QED BY <1>0, <1>t, <1>2, <2>2, <2>3, <2>4 DEF TypeOK
<1>6. SlotsOK'
  <2>1. ASSUME NEW r \in Reqs
        PROVE  /\ EntryOK(At(results', 1, r), r) /\ EntryOK(At(results', 2, r), r)
               /\ EntryOK(At(step', 1, r), r)
               /\ EntryOK(At(inbox', 1, r), r) /\ EntryOK(At(inbox', 2, r), r)
    <3>1. /\ EntryOK(At(results, 1, r), r) /\ EntryOK(At(results, 2, r), r)
          /\ EntryOK(At(inbox, 1, r), r) /\ EntryOK(At(inbox, 2, r), r) /\ EntryOK(NoEntry, r)
      BY <1>t, NoEntryOK DEF SlotsOK
    <3> QED BY <1>3, <3>1
  <2> QED BY <2>1 DEF SlotsOK
<1>7. ResultsOK' BY <1>3, <1>t DEF ResultsOK
<1>8. GoneOK'
  <2>1. \A r \in gone' : status'[r] = "done" BY <1>0, <1>t DEF GoneOK
  <2>2. ASSUME NEW j \in 1 .. Len(inbox'), NEW r \in inbox'[j].gone
        PROVE  status'[r] = "done" /\ \A k \in j .. Len(inbox') : At(inbox', k, r).n = 0
    <3>1. j + 1 \in 1 .. Len(inbox) /\ r \in inbox[j + 1].gone BY <1>2, <2>2
    <3>2. status[r] = "done" /\ \A k \in j + 1 .. Len(inbox) : At(inbox, k, r).n = 0
      BY <1>t, <3>1 DEF GoneOK
    <3>3. ASSUME NEW k \in j .. Len(inbox') PROVE At(inbox', k, r).n = 0
      <4>1. k \in Nat \ {0} /\ k + 1 \in j + 1 .. Len(inbox) BY <1>2
      <4>2. At(inbox', k, r) = At(inbox, k + 1, r) BY <1>0, <1>1, <4>1, AtTail
      <4> QED BY <3>2, <4>1, <4>2
    <3> QED BY <1>0, <3>2, <3>3
  <2> QED BY <2>1, <2>2 DEF GoneOK
<1>9. NewestOK'
  <2>1. step' # <<>> => batch' = {r \in Reqs : At(step', 1, r).n > 0} BY <1>0, <1>3
  <2>2. lastStep' = IF inbox' # <<>> THEN {r \in Reqs : At(inbox', Len(inbox'), r).n > 0} ELSE batch'
    <3>1. CASE Len(inbox) = 2 /\ inbox' # <<>> /\ Len(inbox') = 1
      <4>1. lastStep = {r \in Reqs : At(inbox, 2, r).n > 0} BY <1>0, <1>t, <3>1 DEF NewestOK
      <4>2. \A r \in Reqs : At(inbox', 1, r) = At(inbox, 2, r) BY <1>3
      <4> QED BY <1>0, <3>1, <4>1, <4>2
    <3>2. CASE Len(inbox) = 1 /\ inbox' = <<>>
      <4>1. lastStep = {r \in Reqs : At(inbox, 1, r).n > 0} BY <1>0, <1>t, <3>2 DEF NewestOK
      <4>2. \A r \in Reqs : At(inbox, 1, r) = q.req[r] BY <1>3
      <4> QED BY <1>0, <3>2, <4>1, <4>2
    <3>3. CASE Reqs = {} BY <1>0, <1>t, <3>3 DEF TypeOK
    <3> QED BY <1>3, <3>1, <3>2, <3>3
  <2> QED BY <2>1, <2>2 DEF NewestOK
<1>10. ASSUME NEW r \in Reqs PROVE CountOf(r)' BY <1>q, ExecuteCount
<1>11. CASE step' # <<>>
  BY <1>4, <1>5, <1>6, <1>7, <1>8, <1>9, <1>10, <1>11 DEF RunnerInv
<1>12. CASE step' = <<>>
  <2>1. \A any \in Reqs : ~ (q.req[any].n > 0) BY <1>4, <1>12
  <2>2. ASSUME NEW r \in Reqs PROVE IdleOf(r)' BY <1>q, <2>1, ExecuteIdle
  <2>3. StepTrue' /\ CountsAgree'
    <3>1. DOMAIN step' = {} BY <1>12
    <3> QED BY <3>1 DEF StepTrue, CountsAgree
  <2> QED BY <1>5, <1>6, <1>7, <1>8, <1>9, <1>10, <1>12, <2>2, <2>3 DEF RunnerInv
<1> QED BY <1>11, <1>12

-----------------------------------------------------------------------------
(* The theorems *)

LEMMA StutterInv == ASSUME RunnerInv, UNCHANGED vars PROVE RunnerInv'
<1>0. /\ UNCHANGED <<inbox, results, lastStep, runnerVars, real, kv>>
      /\ UNCHANGED <<status, outputs, computed, holders, drafts, chunk, gone>>
  BY DEF vars, schedVars
<1>1. TypeOK' BY <1>0 DEF RunnerInv, TypeOK, runnerVars
<1>2. GoneOK' BY <1>0 DEF RunnerInv, GoneOK
<1>3. ASSUME NEW r \in Reqs PROVE CountOf(r)' BY <1>0, SameCount
<1> QED BY <1>0, <1>1, <1>2, <1>3, QuietRunner DEF RunnerInv

LEMMA NextInv == ASSUME RunnerInv, TwoSteps, [Next]_vars PROVE RunnerInv'
<1>1. ASSUME NEW r \in Reqs, Arrive(r) PROVE RunnerInv' BY <1>1, ArriveInv
<1>2. ASSUME NEW r \in Reqs, Abort(r) PROVE RunnerInv' BY <1>2, AbortInv
<1>3. CASE Schedule BY <1>3, ScheduleInv
<1>4. CASE Update BY <1>4, UpdateInv
<1>5. CASE Execute BY <1>5, ExecuteInv
<1>6. CASE Sample BY <1>6, SampleInv
<1>7. CASE UNCHANGED vars BY <1>7, StutterInv
<1> QED BY <1>1, <1>2, <1>3, <1>4, <1>5, <1>6, <1>7 DEF Next

\* The inductive invariant holds in every reachable state of the engine with
\* two steps in flight.
THEOREM RunnerInvariant == ASSUME TwoSteps PROVE Spec => []RunnerInv
<1>1. Init => RunnerInv BY InitInv
<1>2. RunnerInv /\ [Next]_vars => RunnerInv' BY NextInv
<1> QED BY <1>1, <1>2, PTL DEF Spec

\* Every step the runner executes is the true one (execute_model() and
\* _prepare_inputs): rows start where the states of their requests end, the
\* inputs are the requests' own tokens, a row that samples does so at the next
\* token, and the sampled token has room in the row.
THEOREM StepIsTrue == ASSUME TwoSteps PROVE Spec => []StepTrue
<1>1. RunnerInv => StepTrue BY DEF RunnerInv
<1> QED BY <1>1, RunnerInvariant, PTL

\* The deferred correction (correct_spec_decode_token_counts) leaves the CPU with
\* the count of computed tokens the GPU has.
THEOREM CountsMatch == ASSUME TwoSteps PROVE Spec => []CountsAgree
<1>1. RunnerInv => CountsAgree BY DEF RunnerInv
<1> QED BY <1>1, RunnerInvariant, PTL

\* A request with no step in flight has no placeholder left, all its tokens in
\* the scheduler (update_from_output), and its computed tokens counted exactly.
THEOREM SettledHolds == ASSUME TwoSteps PROVE Spec => []Settled
<1>1. RunnerInv => Settled
  <2> SUFFICES ASSUME RunnerInv, NEW r \in Reqs, status[r] \in {"preempted", "running"},
                      \A i \in DOMAIN inbox : inbox[i].req[r].n = 0,
                      \A i \in DOMAIN results : results[i].req[r].n = 0,
                      \A i \in DOMAIN step : step[i].req[r].n = 0
               PROVE  /\ holders[r] = 0
                      /\ NumTokens(r) = real[r]
                      /\ status[r] = "running" => computed[r] = kv[r]
    BY DEF Settled
  <2>t. TypeOK /\ ResultsOK /\ SlotsOK /\ CountOf(r) BY DEF RunnerInv
  <2>1. ASSUME NEW s, NEW k, \A i \in DOMAIN s : s[i].req[r].n = 0, DOMAIN s = 1 .. Len(s)
        PROVE  At(s, k, r).n = 0
    BY <2>1, NoEntryType DEF At
  <2>2. /\ DOMAIN inbox = 1 .. Len(inbox) /\ DOMAIN results = 1 .. Len(results)
        /\ DOMAIN step = 1 .. Len(step)
    <3>1. inbox \in Seq(OutputType) /\ results \in Seq(ResultType) BY <2>t DEF TypeOK
    <3>2. DOMAIN step = 1 .. Len(step)
      <4>1. CASE step = <<>> BY <4>1
      <4>2. CASE step # <<>>
        <5>1. PICK s : step = <<s>> BY <2>t, <4>2 DEF TypeOK
        <5> QED BY <5>1
      <4> QED BY <4>1, <4>2
    <3> QED BY <3>1, <3>2, LenProperties
  <2>3. /\ At(inbox, 1, r).n = 0 /\ At(inbox, 2, r).n = 0
        /\ At(results, 1, r).n = 0 /\ At(results, 2, r).n = 0 /\ At(step, 1, r).n = 0
    BY <2>1, <2>2
  <2>4. At(inbox, 1, r) = NoEntry /\ At(inbox, 2, r) = NoEntry BY <2>t, <2>3 DEF SlotsOK, EntryOK
  <2>5. HeldSum(r) = 0 BY <2>3 DEF HeldSum, Held
  <2>6. /\ GenAt(results, 1, r) = 0 /\ GenAt(results, 2, r) = 0
        /\ Loss(results, 1, r) = 0 /\ Loss(results, 2, r) = 0
    BY <2>t, <2>3, ResultFacts DEF Loss
  <2>7. /\ outputs[r] \in Nat /\ Prompt[r] \in Nat /\ kv[r] \in Nat BY <2>t, Constants DEF TypeOK
  <2>8. Ahead(r) = kv[r]
    <3>1. Ahead(r) = kv[r] + 0 + 0 + 0 + 0 + 0
      BY <2>3, <2>4, <2>6, NoEntryType DEF Ahead, Added
    <3> QED BY <2>7, <3>1
  <2>9. NumTokens(r) = real[r]
    <3>1. NumTokens(r) + 0 + 0 = real[r] BY <2>t, <2>6 DEF CountOf
    <3> QED BY <2>7, <3>1 DEF NumTokens
  <2> QED BY <2>t, <2>5, <2>8, <2>9 DEF CountOf
<1> QED BY <1>1, RunnerInvariant, PTL

=============================================================================
