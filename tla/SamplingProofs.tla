--------------------------- MODULE SamplingProofs ---------------------------
(***************************************************************************)
(* Proofs about what restrains the sampler: the grammar of a request with  *)
(* structured output (GrammarTermination) and the thinking budget          *)
(* (ThinkingBudget), each for any constants of its assumption.             *)
(*                                                                         *)
(* Structured output.  The matcher stands where the output has brought it  *)
(* and never meets a token it must reject (FollowsOutput), and every row   *)
(* the sampler can reach allows exactly what the grammar does there        *)
(* (MasksExact).  A run of the grammar over a text is a sequence of states.*)
(* The matcher's history is one; while the mask is filled it is that of    *)
(* the output and the drafts up to the row, as long as all of them can be  *)
(* accepted, and the rows filled are exact by it.  What is sampled under   *)
(* exact rows has a run again, and two runs over one text agree, so that   *)
(* the matcher takes what was accepted.                                    *)
(*                                                                         *)
(* Thinking budget.  The rows of a step are laid one request after the     *)
(* other, so that the rows a row looks back on are those of its request    *)
(* and the drafts before it; with what the slots say of the requests, the  *)
(* end is forced exactly where a budget is used up.  The token accepted    *)
(* there is the end, unless a draft before it was: the budget is kept.     *)
(***************************************************************************)
EXTENDS GrammarTermination, ThinkingBudget, SequenceTheorems, FiniteSetTheorems,
        WellFoundedInduction, TLAPS

-----------------------------------------------------------------------------
(* Structured output: the invariant *)

\* h[1] .. h[p + 1] are the states of the grammar along the first p tokens of c.
Run(h, p, c) ==
    /\ p \in 0 .. Len(c) /\ h[1] = Start
    /\ \A k \in 1 .. p : h[k] # Final /\ Step(h[k], c[k]) = h[k + 1]

\* ... and these are all of c, or up to the end of the grammar.
Whole(h, p, c) == Run(h, p, c) /\ (h[p + 1] = Final \/ p = Len(c))

\* The content of the text is what the grammar allows.
Valid(text) ==
    \E h \in Seq(States), p \in Nat : Len(h) = p + 1 /\ Whole(h, p, Content(text))

Exact(text) ==
    IF InContent(text) /\ StateAfter(text) # Final THEN Allowed(StateAfter(text)) ELSE Vocabulary

\* The output and the first n drafts; all of them may be accepted.
Ahead(n) == out \o SubSeq(drafts, 1, n)
Reached(n) == \A m \in 1 .. n : drafts[m] \in rows[m]

TypeOK ==
    /\ hist \in Seq(States) /\ processed \in Nat /\ Len(hist) = processed + 1
    /\ terminated = (hist[processed + 1] = Final)
    /\ out \in Seq(Vocabulary) /\ new \in Seq(Vocabulary)
    /\ drafts \in Seq(Vocabulary \cup {Pad}) /\ rows \in Seq(SUBSET Vocabulary)
    /\ advanced \in Nat /\ endIndex \in 0 .. Len(out)
    /\ apply \in BOOLEAN /\ window \in BOOLEAN
    /\ ended = InContent(out) /\ reasons \in BOOLEAN
    /\ status \in {"running", "finished"}
    /\ pc \in {"idle", "mask", "sample", "update", "advance"}

\* The rows filled so far.
RowsExact ==
    \A k \in 1 .. Len(rows) :
        Reached(k - 1) => Valid(Ahead(k - 1)) /\ rows[k] = Exact(Ahead(k - 1))

\* A request whose reasoning is over has filtered drafts: a run, then padding.
RunThenPad(toks, n, run) ==
    /\ \A k \in 1 .. n : run[k - 1] # Final /\ Step(run[k - 1], toks[k]) = run[k]
    /\ \A k \in n + 1 .. Len(toks) : toks[k] = Pad

Filter ==
    IF ended
    THEN \E n \in 0 .. Len(drafts) : \E run \in [0 .. n -> States] :
           /\ RunThenPad(drafts, n, run)
           /\ IF Len(rows) <= n THEN apply /\ hist[processed + 1] = run[Len(rows)] ELSE ~ apply
    ELSE apply = window /\ \A k \in 1 .. Len(drafts) : drafts[k] # Pad

Masking ==
    /\ Len(rows) <= Len(drafts)
    /\ advanced \in 0 .. processed
    /\ Whole(hist, processed - advanced, Content(out))
    /\ RowsExact /\ Filter
    /\ Reached(Len(rows)) =>
         /\ Whole(hist, processed, Content(Ahead(Len(rows))))
         /\ apply = InContent(Ahead(Len(rows)))

Advancing ==
    /\ Run(hist, processed, Content(out)) /\ Valid(out)
    /\ terminated \/ new = SubSeq(Content(out), processed + 1, Len(Content(out)))

GrammarInv ==
    /\ TypeOK
    /\ pc = "mask" => Masking
    /\ pc = "advance" => Advancing
    /\ pc \in {"idle", "sample", "update"} => Whole(hist, processed, Content(out))
    /\ pc = "sample" => Len(rows) = Len(drafts) + 1 /\ RowsExact
    /\ pc = "update" => Valid(out \o new)

-----------------------------------------------------------------------------
(* Numbers, sequences and constants *)

\* The least-number principle: induction over the positions of a text.
LEMMA Least ==
    ASSUME NEW S \in SUBSET Nat, S # {}
    PROVE  \E n \in S : \A m \in S : n <= m
<1>1. PICK b \in S : TRUE OBVIOUS
<1> DEFINE K == {x \in S : x <= b}
           R == StrictSubsetOrdering(0 .. b)
           T == {0 .. x : x \in K}
<1>2. IsWellFoundedOn(R, SUBSET (0 .. b))
  <2>1. IsFiniteSet(0 .. b) BY FS_Interval
  <2> QED BY <2>1, FS_StrictSubsetOrderingWellFounded, FS_FiniteSubsetsOfFinite
<1>3. T \subseteq SUBSET (0 .. b) /\ T # {} OBVIOUS
<1>4. PICK U \in T : \A W \in T : ~ (<<W, U>> \in R)
  <2> HIDE DEF R, T
  <2> QED BY <1>2, <1>3, WFMin
<1>5. PICK n \in K : U = 0 .. n OBVIOUS
<1>6. ASSUME NEW m \in S, m < n PROVE FALSE
  <2>1. m \in K /\ 0 .. m \in T BY <1>6
  <2>2. 0 .. m \subseteq 0 .. n /\ n \in 0 .. n /\ n \notin 0 .. m BY <1>6
  <2>3. 0 .. m \subseteq 0 .. b /\ 0 .. n \subseteq 0 .. b BY <2>1
  <2>4. <<0 .. m, 0 .. n>> \in R BY <2>2, <2>3 DEF StrictSubsetOrdering
  <2> QED BY <1>4, <1>5, <2>1, <2>4
<1> QED BY <1>6

Padded == Vocabulary \cup {Pad}

LEMMA Constants ==
    /\ Start \in States /\ Final \in States /\ Start # Final /\ Reject \notin States
    /\ Marker \notin Tokens /\ Pad \notin Vocabulary /\ Tokens \subseteq Vocabulary
    /\ Marker \in Vocabulary
    /\ \A s \in States : \A t : Step(s, t) \in States \cup {Reject}
    /\ \A s, t : t \notin Tokens => Step(s, t) = Reject
    /\ \A s : Allowed(s) \subseteq Tokens /\ \A t : t \in Allowed(s) <=> Step(s, t) # Reject
<1>1. \A s \in States, t \in Tokens : Delta[s, t] \in States \cup {Reject} BY GrammarAssumption, Zenon
<1> QED BY <1>1, GrammarAssumption, Zenon DEF Step, Allowed, Vocabulary

LEMMA ToSetOf ==
    ASSUME NEW T, NEW s \in Seq(T), NEW x
    PROVE  x \in ToSet(s) <=> \E k \in 1 .. Len(s) : s[k] = x
<1> QED BY LenProperties DEF ToSet

\* What is left of a sequence after its first m elements.
LEMMA Rest ==
    ASSUME NEW T, NEW s \in Seq(T), NEW m \in Nat, m <= Len(s)
    PROVE  /\ SubSeq(s, m + 1, Len(s)) \in Seq(T)
           /\ Len(SubSeq(s, m + 1, Len(s))) = Len(s) - m
           /\ \A i \in 1 .. Len(s) - m : m + i \in 1 .. Len(s) /\ SubSeq(s, m + 1, Len(s))[i] = s[m + i]
<1>1. PICK n, r : n \in Nat /\ n = Len(s) /\ r = SubSeq(s, m + 1, n) BY LenProperties
<1>2. \A i \in m + 1 .. n : s[i] \in T
  <2>1. \A i \in m + 1 .. n : i \in 1 .. Len(s) BY <1>1
  <2> QED BY <2>1, ElementOfSeq
<1>3. m + 1 \in Int /\ n \in Int BY <1>1
<1>4. /\ r \in Seq(T) /\ Len(r) = IF m + 1 <= n THEN n - (m + 1) + 1 ELSE 0
      /\ \A i \in 1 .. n - (m + 1) + 1 : r[i] = s[m + 1 + i - 1]
  BY <1>1, <1>2, <1>3, SubSeqProperties
<1>5. Len(r) = n - m BY <1>1, <1>4
<1>6. ASSUME NEW i \in 1 .. n - m PROVE m + i \in 1 .. n /\ r[i] = s[m + i]
  <2>1. i \in 1 .. n - (m + 1) + 1 /\ m + 1 + i - 1 = m + i BY <1>1
  <2> QED BY <1>1, <1>4, <2>1
<1> QED BY <1>1, <1>4, <1>5, <1>6

-----------------------------------------------------------------------------
(* Runs *)

\* The grammar is deterministic: two runs over the same text agree.
LEMMA RunsAgree ==
    ASSUME NEW c, NEW h, NEW g, NEW p \in Nat, NEW q \in Nat, p <= q, Run(h, p, c), Run(g, q, c)
    PROVE  \A k \in 1 .. p + 1 : h[k] = g[k]
<1> DEFINE Bad == {k \in 1 .. p + 1 : h[k] # g[k]}
<1>1. SUFFICES ASSUME Bad # {} PROVE FALSE OBVIOUS
<1>2. PICK n \in Bad : \A m \in Bad : n <= m
  <2>1. Bad \in SUBSET Nat OBVIOUS
  <2> HIDE DEF Bad
  <2> QED BY <1>1, <2>1, Least
<1>3. n # 1 BY DEF Run
<1>4. n - 1 \in 1 .. p /\ n - 1 \in 1 .. q /\ n - 1 \notin Bad BY <1>2, <1>3
<1>5. h[n - 1] = g[n - 1] BY <1>4
<1>6. Step(h[n - 1], c[n - 1]) = h[n - 1 + 1] /\ Step(g[n - 1], c[n - 1]) = g[n - 1 + 1]
  BY <1>4 DEF Run
<1>7. n - 1 + 1 = n OBVIOUS
<1> QED BY <1>5, <1>6, <1>7

\* The state after a text is the last one of a run over it.
LEMMA StateOfRun ==
    ASSUME NEW text, Len(Content(text)) \in Nat, NEW h, NEW p, Whole(h, p, Content(text))
    PROVE  StateAfter(text) = h[p + 1]
<1> DEFINE c == Content(text)
           n == Len(c)
           Next1(f, k) == IF k = 0 THEN Start ELSE IF f[k - 1] = Final THEN Final ELSE Step(f[k - 1], c[k])
           F == [k \in 0 .. n |-> IF k <= p THEN h[k + 1] ELSE Final]
           f0 == CHOOSE f : f = [k \in 0 .. n |-> Next1(f, k)]
<1>1. StateAfter(text) = f0[n] BY DEF StateAfter
<1>2. /\ n \in Nat /\ p \in 0 .. n /\ h[1] = Start
      /\ \A k \in 1 .. p : h[k] # Final /\ Step(h[k], c[k]) = h[k + 1]
      /\ h[p + 1] = Final \/ p = n
  BY DEF Whole, Run
<1> HIDE DEF c, n
<1>3. \A k \in 0 .. n : F[k] = Next1(F, k)
  <2> SUFFICES ASSUME NEW k \in 0 .. n PROVE F[k] = Next1(F, k) OBVIOUS
  <2>1. CASE k = 0 BY <2>1, <1>2
  <2>2. CASE k # 0 /\ k <= p
    <3>1. k \in 1 .. p /\ k - 1 \in 0 .. n /\ k - 1 <= p /\ k - 1 + 1 = k BY <2>2, <1>2
    <3>2. F[k - 1] = h[k] /\ F[k] = h[k + 1] BY <3>1, <2>2
    <3> QED BY <3>1, <3>2, <2>2, <1>2
  <2>3. CASE k # 0 /\ k > p
    <3>1. k - 1 \in 0 .. n /\ F[k] = Final BY <2>3, <1>2
    <3>2. F[k - 1] = Final
      <4>1. CASE k - 1 = p
        <5>1. F[k - 1] = h[p + 1] /\ p # n BY <4>1, <3>1, <2>3
        <5> QED BY <5>1, <1>2
      <4>2. CASE k - 1 > p BY <4>2, <3>1, <1>2
      <4> QED BY <4>1, <4>2, <2>3, <1>2
    <3> QED BY <3>1, <3>2, <2>3
  <2> QED BY <2>1, <2>2, <2>3, <1>2
<1>4. F = [k \in 0 .. n |-> Next1(F, k)] BY <1>3
<1>5. f0 = [k \in 0 .. n |-> Next1(f0, k)]
  <2> HIDE DEF F
  <2> QED BY <1>4
<1>6. f0[n] = F[n]
  <2> DEFINE Bad == {k \in 0 .. n : f0[k] # F[k]}
  <2> HIDE DEF f0, F
  <2>1. SUFFICES ASSUME Bad # {} PROVE FALSE BY <1>2
  <2>2. PICK m \in Bad : \A k \in Bad : m <= k
    <3>1. Bad \in SUBSET Nat BY <1>2
    <3> HIDE DEF Bad
    <3> QED BY <2>1, <3>1, Least
  <2>3. f0[m] = Next1(f0, m) /\ F[m] = Next1(F, m)
    <3>1. m \in 0 .. n OBVIOUS
    <3>2. \A k \in 0 .. n : f0[k] = Next1(f0, k) BY <1>5
    <3> QED BY <3>1, <3>2, <1>3
  <2>4. m # 0 BY <2>3
  <2>5. m - 1 \in 0 .. n /\ m - 1 \notin Bad BY <2>2, <2>4, <1>2
  <2>6. f0[m - 1] = F[m - 1] BY <2>5
  <2> QED BY <2>3, <2>4, <2>6
<1>7. F[n] = h[p + 1] BY <1>2
<1> QED BY <1>1, <1>6, <1>7

\* A run goes on with a token the grammar allows, and stays where it has ended.
LEMMA RunGoesOn ==
    ASSUME NEW T, NEW c \in Seq(T), NEW t \in T, NEW h \in Seq(States), NEW p \in Nat,
           Len(h) = p + 1, Whole(h, p, c)
    PROVE  /\ h[p + 1] = Final => Whole(h, p, Append(c, t))
           /\ h[p + 1] # Final /\ Step(h[p + 1], t) # Reject =>
                Whole(Append(h, Step(h[p + 1], t)), p + 1, Append(c, t))
<1> DEFINE d == Append(c, t)
<1>1. /\ Len(c) \in Nat /\ Len(d) = Len(c) + 1
      /\ \A k \in 1 .. Len(c) : d[k] = c[k]
      /\ d[Len(c) + 1] = t
  BY AppendProperties, LenProperties
<1>2. /\ p \in 0 .. Len(c) /\ h[1] = Start
      /\ \A k \in 1 .. p : h[k] # Final /\ Step(h[k], c[k]) = h[k + 1]
      /\ h[p + 1] = Final \/ p = Len(c)
  BY DEF Whole, Run
<1> HIDE DEF d
<1>3. ASSUME h[p + 1] = Final PROVE Whole(h, p, d)
  <2>1. p \in 0 .. Len(d) BY <1>1, <1>2
  <2>2. \A k \in 1 .. p : Step(h[k], d[k]) = h[k + 1]
    <3> SUFFICES ASSUME NEW k \in 1 .. p PROVE Step(h[k], d[k]) = h[k + 1] OBVIOUS
    <3>1. k \in 1 .. Len(c) BY <1>1, <1>2
    <3>2. d[k] = c[k] BY <1>1, <3>1
    <3> QED BY <1>2, <3>2
  <2> QED BY <1>2, <1>3, <2>1, <2>2 DEF Whole, Run
<1>4. ASSUME h[p + 1] # Final, Step(h[p + 1], t) # Reject
      PROVE  Whole(Append(h, Step(h[p + 1], t)), p + 1, d)
  <2> DEFINE u == Step(h[p + 1], t)
             g == Append(h, u)
  <2>1. p = Len(c) BY <1>2, <1>4
  <2>2. h[p + 1] \in States
    <3>1. p + 1 \in 1 .. Len(h) OBVIOUS
    <3> QED BY <3>1, ElementOfSeq
  <2>3. u \in States BY <2>2, <1>4, Constants
  <2> HIDE DEF u
  <2>4. /\ \A k \in 1 .. p + 1 : g[k] = h[k]
        /\ g[p + 1 + 1] = u
    BY <2>3, AppendProperties
  <2> HIDE DEF g
  <2>5. p + 1 \in 0 .. Len(d) /\ p + 1 = Len(d) BY <1>1, <2>1
  <2>6. g[1] = Start BY <2>4, <1>2
  <2>7. \A k \in 1 .. p + 1 : g[k] # Final /\ Step(g[k], d[k]) = g[k + 1]
    <3> SUFFICES ASSUME NEW k \in 1 .. p + 1 PROVE g[k] # Final /\ Step(g[k], d[k]) = g[k + 1]
      OBVIOUS
    <3>1. CASE k = p + 1 BY <3>1, <2>1, <2>4, <1>1, <1>4 DEF u
    <3>2. CASE k # p + 1
      <4>1. k \in 1 .. p /\ k + 1 \in 1 .. p + 1 /\ k \in 1 .. Len(c) BY <3>2, <2>1
      <4>2. d[k] = c[k] /\ g[k] = h[k] /\ g[k + 1] = h[k + 1] BY <4>1, <1>1, <2>4
      <4> QED BY <4>1, <4>2, <1>2
    <3> QED BY <3>1, <3>2
  <2> QED BY <2>5, <2>6, <2>7 DEF Whole, Run, g, u
<1> QED BY <1>3, <1>4 DEF d

\* A run over a text is one over every beginning of it, as far as that goes.
LEMMA RunOfPrefix ==
    ASSUME NEW c, NEW d, Len(c) \in Nat, Len(d) \in Nat, Len(c) <= Len(d),
           \A k \in 1 .. Len(c) : c[k] = d[k],
           NEW h \in Seq(States), NEW p \in Nat, Len(h) = p + 1, Whole(h, p, d)
    PROVE  \E g \in Seq(States), q \in Nat : Len(g) = q + 1 /\ Whole(g, q, c)
<1>1. /\ p \in 0 .. Len(d) /\ h[1] = Start
      /\ \A k \in 1 .. p : h[k] # Final /\ Step(h[k], d[k]) = h[k + 1]
      /\ h[p + 1] = Final \/ p = Len(d)
  BY DEF Whole, Run
<1>2. CASE p <= Len(c)
  <2>1. h[p + 1] = Final \/ p = Len(c) BY <1>1, <1>2
  <2>2. \A k \in 1 .. p : Step(h[k], c[k]) = h[k + 1]
    <3>1. \A k \in 1 .. p : c[k] = d[k] BY <1>2
    <3> QED BY <1>1, <3>1
  <2>3. p \in 0 .. Len(c) BY <1>1, <1>2
  <2>4. Whole(h, p, c) BY <1>1, <2>1, <2>2, <2>3 DEF Whole, Run
  <2> QED BY <2>4
<1>3. CASE p > Len(c)
  <2> DEFINE q == Len(c)
             g == SubSeq(h, 1, q + 1)
  <2>1. /\ g \in Seq(States) /\ Len(g) = q + 1
        /\ \A k \in 1 .. q + 1 : g[k] = h[k]
    <3>1. \A k \in 1 .. q + 1 : h[k] \in States
      <4>1. \A k \in 1 .. q + 1 : k \in 1 .. Len(h) BY <1>3
      <4> QED BY <4>1, ElementOfSeq
    <3> QED BY <3>1, SubSeqProperties
  <2> HIDE DEF g
  <2>2. \A k \in 1 .. q : g[k] # Final /\ Step(g[k], c[k]) = g[k + 1]
    <3> SUFFICES ASSUME NEW k \in 1 .. q PROVE g[k] # Final /\ Step(g[k], c[k]) = g[k + 1] OBVIOUS
    <3>1. k \in 1 .. p /\ k \in 1 .. q + 1 /\ k + 1 \in 1 .. q + 1 BY <1>3
    <3> QED BY <1>1, <2>1, <3>1
  <2>3. g[1] = Start BY <2>1, <1>1
  <2>4. Whole(g, q, c) BY <2>2, <2>3 DEF Whole, Run
  <2> QED BY <2>1, <2>4
<1> QED BY <1>2, <1>3

-----------------------------------------------------------------------------
(* The content of a text *)

\* MarkerIn finds the first marker.
LEMMA FirstMarker ==
    ASSUME NEW T, NEW s \in Seq(T), Marker \in ToSet(s)
    PROVE  /\ MarkerIn(s) \in 1 .. Len(s) /\ s[MarkerIn(s)] = Marker
           /\ \A m \in 1 .. MarkerIn(s) - 1 : s[m] # Marker
<1> DEFINE S == {k \in 1 .. Len(s) : s[k] = Marker}
<1>1. S # {} BY ToSetOf
<1>2. Len(s) \in Nat BY LenProperties
<1>3. S \in SUBSET Nat BY <1>2
<1>4. PICK n \in S : \A m \in S : n <= m
  <2> HIDE DEF S
  <2> QED BY <1>1, <1>3, Least
<1>5. \A m \in 1 .. n - 1 : s[m] # Marker
  <2> SUFFICES ASSUME NEW m \in 1 .. n - 1, s[m] = Marker PROVE FALSE OBVIOUS
  <2>1. m \in S /\ m < n BY <1>2, <1>4
  <2> QED BY <2>1, <1>4
<1> QED BY <1>4, <1>5 DEF MarkerIn

\* ... which is unique.
LEMMA MarkerIs ==
    ASSUME NEW T, NEW s \in Seq(T), NEW n \in 1 .. Len(s), s[n] = Marker,
           \A m \in 1 .. n - 1 : s[m] # Marker
    PROVE  Marker \in ToSet(s) /\ MarkerIn(s) = n
<1>1. Marker \in ToSet(s) BY ToSetOf
<1>2. PICK m : m = MarkerIn(s) OBVIOUS
<1>3. m \in 1 .. Len(s) /\ s[m] = Marker /\ \A k \in 1 .. m - 1 : s[k] # Marker
  BY <1>1, <1>2, FirstMarker
<1>4. Len(s) \in Nat BY LenProperties
<1>5. ~ (m < n) /\ ~ (n < m) BY <1>3, <1>4
<1> QED BY <1>1, <1>2, <1>3, <1>4, <1>5

LEMMA ContentType ==
    ASSUME NEW T, NEW s \in Seq(T)
    PROVE  /\ Content(s) \in Seq(T) /\ Len(Content(s)) \in Nat /\ Len(Content(s)) <= Len(s)
           /\ ~ InContent(s) => Content(s) = <<>>
<1>1. Len(s) \in Nat BY LenProperties
<1>2. CASE ~ reasons
  <2>1. Content(s) = s BY <1>2 DEF Content
  <2> QED BY <1>1, <1>2, <2>1 DEF InContent
<1>3. CASE reasons /\ Marker \notin ToSet(s)
  <2>1. Content(s) = <<>> BY <1>3 DEF Content
  <2>2. Len(<<>>) = 0 /\ <<>> \in Seq(T) BY EmptySeq
  <2> QED BY <1>1, <2>1, <2>2
<1>4. CASE reasons /\ Marker \in ToSet(s)
  <2>1. PICK m : m = MarkerIn(s) OBVIOUS
  <2>2. m \in 1 .. Len(s) BY <1>4, <2>1, FirstMarker
  <2>3. Content(s) = SubSeq(s, m + 1, Len(s)) BY <1>4, <2>1 DEF Content
  <2>4. \A k \in m + 1 .. Len(s) : s[k] \in T
    <3>1. \A k \in m + 1 .. Len(s) : k \in 1 .. Len(s) BY <1>1, <2>2
    <3> QED BY <3>1, ElementOfSeq
  <2>5. /\ SubSeq(s, m + 1, Len(s)) \in Seq(T)
        /\ Len(SubSeq(s, m + 1, Len(s))) = IF m + 1 <= Len(s) THEN Len(s) - (m + 1) + 1 ELSE 0
    BY <1>1, <2>2, <2>4, SubSeqProperties
  <2>6. Len(Content(s)) \in Nat /\ Len(Content(s)) <= Len(s) BY <1>1, <2>2, <2>3, <2>5
  <2> QED BY <1>4, <2>3, <2>5, <2>6 DEF InContent
<1> QED BY <1>2, <1>3, <1>4

\* What is added to a text in which the reasoning is over is content; otherwise
\* the content begins after the first marker added.
LEMMA ContentGrows ==
    ASSUME NEW T, NEW s \in Seq(T), NEW u \in Seq(T)
    PROVE  /\ InContent(s) => InContent(s \o u) /\ Content(s \o u) = Content(s) \o u
           /\ ~ InContent(s) =>
                /\ InContent(s \o u) <=> Marker \in ToSet(u)
                /\ Content(s \o u) = IF Marker \in ToSet(u)
                                     THEN SubSeq(u, MarkerIn(u) + 1, Len(u)) ELSE <<>>
<1>0. PICK w, n, k : w = s \o u /\ n = Len(s) /\ k = Len(u) OBVIOUS
<1>1. /\ n \in Nat /\ k \in Nat /\ w \in Seq(T) /\ Len(w) = n + k
      /\ \A i \in 1 .. n + k : w[i] = IF i <= n THEN s[i] ELSE u[i - n]
  BY <1>0, ConcatProperties, LenProperties
<1>2. CASE ~ reasons BY <1>0, <1>2 DEF InContent, Content
<1>3. CASE reasons /\ Marker \in ToSet(s)
  <2>1. PICK m : m = MarkerIn(s) OBVIOUS
  <2>2. m \in 1 .. n /\ s[m] = Marker /\ \A i \in 1 .. m - 1 : s[i] # Marker
    BY <1>0, <1>3, <2>1, FirstMarker
  <2>3. m \in 1 .. Len(w) /\ w[m] = Marker BY <1>1, <2>2
  <2>4. \A i \in 1 .. m - 1 : w[i] # Marker BY <1>1, <2>2
  <2>5. Marker \in ToSet(w) /\ MarkerIn(w) = m BY <1>1, <2>3, <2>4, MarkerIs
  <2>6. Content(w) = SubSeq(w, m + 1, Len(w)) /\ Content(s) = SubSeq(s, m + 1, n)
    BY <1>0, <1>1, <1>3, <2>1, <2>5 DEF Content
  <2>9. PICK a, b : a = SubSeq(s, m + 1, n) /\ b = SubSeq(w, m + 1, n + k) OBVIOUS
  <2>10. /\ a \in Seq(T) /\ Len(a) = n - m /\ \A i \in 1 .. n - m : a[i] = s[m + i]
         /\ b \in Seq(T) /\ Len(b) = n + k - m /\ \A i \in 1 .. n + k - m : b[i] = w[m + i]
    <3>1. m \in Nat /\ m <= n /\ m <= n + k BY <1>1, <2>2
    <3>2. a \in Seq(T) /\ Len(a) = n - m /\ \A i \in 1 .. n - m : a[i] = s[m + i]
      BY <1>0, <2>9, <3>1, Rest
    <3>3. b \in Seq(T) /\ Len(b) = n + k - m /\ \A i \in 1 .. n + k - m : b[i] = w[m + i]
      BY <1>1, <2>9, <3>1, Rest
    <3> QED BY <3>2, <3>3
  <2>11. /\ a \o u \in Seq(T) /\ Len(a \o u) = Len(a) + k
         /\ \A i \in 1 .. Len(a) + k : (a \o u)[i] = IF i <= Len(a) THEN a[i] ELSE u[i - Len(a)]
    BY <1>0, <2>10, ConcatProperties
  <2>12. Len(a \o u) = Len(b) BY <1>1, <2>2, <2>10, <2>11
  <2>13. ASSUME NEW i \in 1 .. Len(b) PROVE (a \o u)[i] = b[i]
    <3>1. i \in 1 .. n + k - m /\ m + i \in 1 .. n + k /\ b[i] = w[m + i] BY <1>1, <2>2, <2>10
    <3>2. CASE i <= n - m
      <4>1. i \in 1 .. n - m /\ m + i <= n BY <1>1, <2>2, <3>1, <3>2
      <4>2. (a \o u)[i] = a[i] BY <2>10, <2>11, <2>12, <4>1
      <4>3. a[i] = s[m + i] /\ w[m + i] = s[m + i] BY <1>1, <2>10, <3>1, <4>1
      <4> QED BY <3>1, <4>2, <4>3
    <3>3. CASE ~ (i <= n - m)
      <4>1. ~ (m + i <= n) /\ m + i - n = i - (n - m) BY <1>1, <2>2, <3>1, <3>3
      <4>2. (a \o u)[i] = u[i - (n - m)] BY <2>10, <2>11, <2>12, <3>3
      <4>3. PICK j : j = m + i OBVIOUS
      <4>4. w[j] = u[j - n] BY <1>1, <3>1, <4>1, <4>3
      <4>5. j - n = i - (n - m) BY <1>1, <2>2, <3>1, <4>3
      <4> QED BY <3>1, <4>2, <4>3, <4>4, <4>5
    <3> QED BY <3>2, <3>3
  <2>14. a \o u = b BY <2>10, <2>11, <2>12, <2>13, SeqEqual
  <2>15. Content(w) = Content(s) \o u BY <1>1, <2>6, <2>9, <2>14
  <2> QED BY <1>0, <1>3, <2>5, <2>15 DEF InContent
<1>4. CASE reasons /\ Marker \notin ToSet(s)
  <2>1. \A i \in 1 .. n : s[i] # Marker BY <1>0, <1>4, ToSetOf
  <2>2. CASE Marker \notin ToSet(u)
    <3>1. \A i \in 1 .. k : u[i] # Marker BY <1>0, <2>2, ToSetOf
    <3>2. \A i \in 1 .. n + k : w[i] # Marker
      <4> SUFFICES ASSUME NEW i \in 1 .. n + k PROVE w[i] # Marker OBVIOUS
      <4>1. CASE i <= n BY <4>1, <1>1, <2>1
      <4>2. CASE ~ (i <= n)
        <5>1. i - n \in 1 .. k BY <4>2, <1>1
        <5> QED BY <4>2, <5>1, <3>1, <1>1
      <4> QED BY <4>1, <4>2
    <3>3. Marker \notin ToSet(w) BY <1>1, <3>2, ToSetOf
    <3> QED BY <1>0, <1>4, <2>2, <3>3 DEF InContent, Content
  <2>3. CASE Marker \in ToSet(u)
    <3>1. PICK m : m = MarkerIn(u) OBVIOUS
    <3>2. m \in 1 .. k /\ u[m] = Marker /\ \A i \in 1 .. m - 1 : u[i] # Marker
      BY <1>0, <2>3, <3>1, FirstMarker
    <3>3. n + m \in 1 .. Len(w) /\ w[n + m] = Marker
      <4>1. n + m \in 1 .. n + k /\ ~ (n + m <= n) /\ n + m - n = m BY <1>1, <3>2
      <4> QED BY <1>1, <3>2, <4>1
    <3>4. ASSUME NEW i \in 1 .. n + m - 1 PROVE w[i] # Marker
      <4>1. i \in 1 .. n + k BY <1>1, <3>2
      <4>2. CASE i <= n
        <5>1. i \in 1 .. n BY <4>2
        <5> QED BY <4>1, <4>2, <5>1, <1>1, <2>1
      <4>3. CASE ~ (i <= n)
        <5>1. i - n \in 1 .. m - 1 BY <4>3, <1>1, <3>2
        <5> QED BY <4>1, <4>3, <5>1, <1>1, <3>2
      <4> QED BY <4>2, <4>3
    <3>5. Marker \in ToSet(w) /\ MarkerIn(w) = n + m
      <4>1. PICK z \in 1 .. Len(w) : z = n + m BY <3>3
      <4>2. \A i \in 1 .. z - 1 : w[i] # Marker BY <1>1, <3>2, <3>4, <4>1
      <4>3. w[z] = Marker BY <3>3, <4>1
      <4> QED BY <1>1, <4>1, <4>2, <4>3, MarkerIs
    <3>6. Content(w) = SubSeq(w, n + m + 1, n + k) BY <1>1, <1>4, <3>5 DEF Content
    <3>7. PICK a, b : a = SubSeq(w, n + m + 1, n + k) /\ b = SubSeq(u, m + 1, k) OBVIOUS
    <3>8. a \in Seq(T) /\ Len(a) = k - m /\ \A i \in 1 .. k - m : a[i] = w[n + m + i]
      <4>1. PICK z \in Nat : z = n + m /\ z <= Len(w) BY <1>1, <3>2
      <4>2. a \in Seq(T) /\ Len(a) = Len(w) - z /\ \A i \in 1 .. Len(w) - z : a[i] = w[z + i]
        BY <1>1, <3>2, <3>7, <4>1, Rest
      <4>3. Len(w) - z = k - m BY <1>1, <3>2, <4>1
      <4> QED BY <4>1, <4>2, <4>3
    <3>9. b \in Seq(T) /\ Len(b) = k - m /\ \A i \in 1 .. k - m : b[i] = u[m + i]
      <4>1. m \in Nat /\ m <= Len(u) BY <1>0, <1>1, <3>2
      <4> QED BY <1>0, <3>7, <4>1, Rest
    <3>10. Len(a) = Len(b) BY <3>8, <3>9
    <3>11. ASSUME NEW i \in 1 .. Len(a) PROVE a[i] = b[i]
      <4>1. i \in 1 .. k - m BY <3>8
      <4>2. n + m + i \in 1 .. n + k /\ ~ (n + m + i <= n) /\ n + m + i - n = m + i
        BY <1>1, <3>2, <4>1
      <4>3. PICK j : j = n + m + i OBVIOUS
      <4>4. w[j] = u[j - n] BY <1>1, <4>2, <4>3
      <4>5. a[i] = w[j] BY <3>8, <4>1, <4>3
      <4>6. j - n = m + i BY <1>1, <3>2, <4>3
      <4>7. b[i] = u[j - n] BY <3>9, <4>1, <4>6
      <4> QED BY <4>4, <4>5, <4>7
    <3>12. a = b BY <3>8, <3>9, <3>10, <3>11, SeqEqual
    <3> QED BY <1>0, <1>4, <2>3, <3>1, <3>5, <3>6, <3>7, <3>12 DEF InContent
  <2> QED BY <2>2, <2>3
<1> QED BY <1>2, <1>3, <1>4

\* One more token.
LEMMA ContentAppend ==
    ASSUME NEW T, NEW s \in Seq(T), NEW t \in T
    PROVE  /\ InContent(s) => /\ InContent(Append(s, t))
                              /\ Content(Append(s, t)) = Append(Content(s), t)
           /\ ~ InContent(s) => /\ InContent(Append(s, t)) <=> t = Marker
                                /\ Content(Append(s, t)) = <<>>
<1> DEFINE u == <<t>>
<1>1. u \in Seq(T) /\ Len(u) = 1 /\ u[1] = t OBVIOUS
<1>2. Append(s, t) = s \o u BY AppendIsConcat
<1>3. Content(s) \in Seq(T) BY ContentType
<1>4. Append(Content(s), t) = Content(s) \o u BY <1>3, AppendIsConcat
<1> HIDE DEF u
<1>5. Marker \in ToSet(u) <=> t = Marker
  <2>1. \A k : k \in 1 .. 1 <=> k = 1 OBVIOUS
  <2> QED BY <1>1, <2>1, ToSetOf
<1>6. ASSUME t = Marker PROVE SubSeq(u, MarkerIn(u) + 1, Len(u)) = <<>>
  <2>1. MarkerIn(u) = 1 BY <1>1, <1>5, <1>6, FirstMarker
  <2>2. 1 + 1 \in Int /\ 1 \in Int /\ 1 < 1 + 1 OBVIOUS
  <2> QED BY <1>1, <2>1, <2>2, SubSeqEmpty
<1> QED BY <1>1, <1>2, <1>4, <1>5, <1>6, ContentGrows, ZenonT(30)

\* What the grammar allows of a text it allows of every beginning.
LEMMA ValidPrefix ==
    ASSUME NEW T, NEW s \in Seq(T), NEW u \in Seq(T), Valid(s \o u)
    PROVE  Valid(s)
<1>1. /\ Content(s) \in Seq(T) /\ Len(Content(s)) \in Nat
      /\ ~ InContent(s) => Content(s) = <<>>
  BY ContentType
<1>2. PICK h \in Seq(States), p \in Nat : Len(h) = p + 1 /\ Whole(h, p, Content(s \o u))
  BY DEF Valid
<1>3. CASE InContent(s)
  <2>1. Content(s \o u) = Content(s) \o u BY <1>3, ContentGrows
  <2>2. /\ Len(Content(s) \o u) = Len(Content(s)) + Len(u) /\ Len(u) \in Nat
        /\ \A i \in 1 .. Len(Content(s)) + Len(u) :
             (Content(s) \o u)[i] = IF i <= Len(Content(s)) THEN Content(s)[i] ELSE u[i - Len(Content(s))]
    BY <1>1, ConcatProperties, LenProperties
  <2>3. PICK c, d : c = Content(s) /\ d = Content(s \o u) OBVIOUS
  <2>4. /\ Len(c) \in Nat /\ Len(d) \in Nat /\ Len(c) <= Len(d)
        /\ \A k \in 1 .. Len(c) : c[k] = d[k]
    BY <1>1, <2>1, <2>2, <2>3
  <2>5. \E g \in Seq(States), q \in Nat : Len(g) = q + 1 /\ Whole(g, q, c)
    BY <1>2, <2>3, <2>4, RunOfPrefix
  <2> QED BY <2>3, <2>5 DEF Valid
<1>4. CASE ~ InContent(s)
  <2>1. Content(s) = <<>> /\ Len(<<>>) = 0 BY <1>1, <1>4
  <2>2. /\ <<Start>> \in Seq(States) /\ Len(<<Start>>) = 0 + 1 /\ <<Start>>[1] = Start
    BY Constants
  <2>3. Whole(<<Start>>, 0, Content(s)) BY <2>1, <2>2 DEF Whole, Run
  <2> QED BY <2>2, <2>3 DEF Valid
<1> QED BY <1>3, <1>4

-----------------------------------------------------------------------------
(* The invariant in the steps *)

\* What a text means depends on the kind of the request only.
LEMMA SameText ==
    ASSUME UNCHANGED reasons, NEW s
    PROVE  /\ Content(s)' = Content(s) /\ InContent(s)' = InContent(s)
           /\ Valid(s)' <=> Valid(s)
           /\ Exact(s)' = Exact(s)
<1>1. Content(s)' = Content(s) BY DEF Content
<1>2. InContent(s)' = InContent(s) BY DEF InContent
<1>3. Valid(s)' <=> Valid(s) BY <1>1 DEF Valid
<1>4. StateAfter(s)' = StateAfter(s) BY <1>1 DEF StateAfter
<1>5. Exact(s)' = Exact(s) BY <1>2, <1>4 DEF Exact
<1> QED BY <1>1, <1>2, <1>3, <1>5

\* The state after a text with a run.
LEMMA ValidState ==
    ASSUME NEW T, NEW s \in Seq(T), NEW h, NEW p, Whole(h, p, Content(s))
    PROVE  Exact(s) = IF InContent(s) /\ h[p + 1] # Final THEN Allowed(h[p + 1]) ELSE Vocabulary
<1>1. StateAfter(s) = h[p + 1] BY ContentType, StateOfRun
<1> QED BY <1>1 DEF Exact

\* A token sampled under an exact row keeps the text valid.
LEMMA ValidAppend ==
    ASSUME NEW T, NEW s \in Seq(T), NEW t \in T, Valid(s), t \in Exact(s)
    PROVE  Valid(Append(s, t))
<1>1. PICK h \in Seq(States), p \in Nat : Len(h) = p + 1 /\ Whole(h, p, Content(s)) BY DEF Valid
<1>2. CASE ~ InContent(s)
  <2>1. Content(Append(s, t)) = Content(s) BY <1>2, ContentAppend, ContentType
  <2> QED BY <1>1, <2>1 DEF Valid
<1>3. CASE InContent(s)
  <2>1. Content(Append(s, t)) = Append(Content(s), t) BY <1>3, ContentAppend
  <2>2. Content(s) \in Seq(T) BY ContentType
  <2>3. PICK c : c = Content(s) OBVIOUS
  <2>4. c \in Seq(T) /\ Whole(h, p, c) BY <1>1, <2>2, <2>3
  <2>5. CASE h[p + 1] = Final
    <3>1. Whole(h, p, Append(c, t)) BY <1>1, <2>4, <2>5, RunGoesOn
    <3> QED BY <1>1, <2>1, <2>3, <3>1 DEF Valid
  <2>6. CASE h[p + 1] # Final
    <3>1. Step(h[p + 1], t) # Reject BY <1>1, <1>3, <2>6, ValidState, Constants
    <3>2. PICK g : g = Append(h, Step(h[p + 1], t)) OBVIOUS
    <3>3. Whole(g, p + 1, Append(c, t)) BY <1>1, <2>4, <2>6, <3>1, <3>2, RunGoesOn
    <3>4. Step(h[p + 1], t) \in States
      <4>1. p + 1 \in 1 .. Len(h) BY <1>1
      <4>2. h[p + 1] \in States BY <1>1, <4>1, ElementOfSeq
      <4> QED BY <3>1, <4>2, Constants
    <3>5. g \in Seq(States) /\ Len(g) = p + 1 + 1 BY <1>1, <3>2, <3>4, AppendProperties
    <3>6. p + 1 \in Nat OBVIOUS
    <3> QED BY <2>1, <2>3, <3>3, <3>5, <3>6 DEF Valid
  <2> QED BY <2>5, <2>6
<1> QED BY <1>2, <1>3

\* The texts before the rows.
LEMMA Texts ==
    ASSUME TypeOK
    PROVE  /\ Ahead(0) = out
           /\ \A n \in 0 .. Len(drafts) : Ahead(n) \in Seq(Padded)
           /\ \A n \in 0 .. Len(drafts) - 1 :
                drafts[n + 1] \in Padded /\ Ahead(n + 1) = Append(Ahead(n), drafts[n + 1])
<1>1. PICK o, d : o = out /\ d = drafts OBVIOUS
<1>2. o \in Seq(Padded) /\ d \in Seq(Padded) /\ Len(d) \in Nat
  <2>1. out \in Seq(Vocabulary) /\ drafts \in Seq(Padded) BY DEF TypeOK, Padded
  <2>2. Vocabulary \subseteq Padded /\ out \in Seq(Padded) BY <2>1, SeqMonotonic DEF Padded
  <2> QED BY <1>1, <2>1, <2>2, LenProperties
<1>3. \A n \in 0 .. Len(d) :
        /\ SubSeq(d, 1, n) \in Seq(Padded) /\ Len(SubSeq(d, 1, n)) = n
        /\ \A k \in 1 .. n : SubSeq(d, 1, n)[k] = d[k]
  <2> SUFFICES ASSUME NEW n \in 0 .. Len(d)
      PROVE /\ SubSeq(d, 1, n) \in Seq(Padded) /\ Len(SubSeq(d, 1, n)) = n
            /\ \A k \in 1 .. n : SubSeq(d, 1, n)[k] = d[k]
    OBVIOUS
  <2>1. \A k \in 1 .. n : d[k] \in Padded
    <3>1. \A k \in 1 .. n : k \in 1 .. Len(d) BY <1>2
    <3> QED BY <1>2, <3>1, ElementOfSeq
  <2> QED BY <1>2, <2>1, SubSeqProperties
<1>4. Ahead(0) = out
  <2>1. SubSeq(d, 1, 0) = <<>> BY <1>2, SubSeqEmpty
  <2>2. o \o <<>> = o BY <1>2, ConcatEmptySeq
  <2> QED BY <1>1, <2>1, <2>2 DEF Ahead
<1>5. ASSUME NEW n \in 0 .. Len(d) PROVE Ahead(n) \in Seq(Padded)
  BY <1>1, <1>2, <1>3, ConcatProperties DEF Ahead
<1>6. ASSUME NEW n \in 0 .. Len(d) - 1
      PROVE  d[n + 1] \in Padded /\ Ahead(n + 1) = Append(Ahead(n), d[n + 1])
  <2>1. n \in 0 .. Len(d) /\ n + 1 \in 0 .. Len(d) /\ n + 1 \in 1 .. Len(d) BY <1>2
  <2>2. PICK a, t : a = SubSeq(d, 1, n) /\ t = d[n + 1] OBVIOUS
  <2>3. t \in Padded /\ a \in Seq(Padded) BY <1>2, <1>3, <2>1, <2>2, ElementOfSeq
  <2>4. <<t>> \in Seq(Padded)
    <3>1. t \in Padded BY <2>3
    <3> QED BY <3>1
  <2>5. SubSeq(d, 1, n + 1) = a \o <<t>>
    <3>1. 1 \in 1 .. Len(d) /\ n + 1 \in 1 .. Len(d) /\ n + 1 - 1 = n BY <1>2, <2>1
    <3> QED BY <1>2, <2>2, <3>1, SubSeqRecursiveSecond
  <2>6. o \o (a \o <<t>>) = (o \o a) \o <<t>> BY <1>2, <2>3, <2>4, ConcatAssociative
  <2>7. (o \o a) \o <<t>> = Append(o \o a, t)
    <3>1. o \o a \in Seq(Padded) BY <1>2, <2>3, ConcatProperties
    <3> QED BY <2>3, <3>1, AppendIsConcat
  <2> QED BY <1>1, <2>2, <2>3, <2>5, <2>6, <2>7 DEF Ahead
<1> QED BY <1>1, <1>4, <1>5, <1>6

LEMMA Matcher ==
    ASSUME TypeOK
    PROVE  /\ processed + 1 = Len(hist) /\ Last(hist) = hist[processed + 1]
           /\ Last(hist) \in States
           /\ terminated = (Last(hist) = Final)
<1>1. Last(hist) = hist[Len(hist)] BY DEF Last
<1>2. processed + 1 \in 1 .. Len(hist) BY DEF TypeOK
<1>3. hist \in Seq(States) BY DEF TypeOK
<1>4. hist[processed + 1] \in States BY <1>2, <1>3, ElementOfSeq
<1> QED BY <1>1, <1>4 DEF TypeOK

LEMMA RowType == Row(TRUE) \subseteq Vocabulary /\ Row(FALSE) \subseteq Vocabulary
BY DEF Row, Allowed, Vocabulary

\* The row of a position that can be reached is exact.
LEMMA ExactRow ==
    ASSUME GrammarInv, pc = "mask", Reached(Len(rows)), NEW on \in BOOLEAN,
           on = InContent(Ahead(Len(rows)))
    PROVE  Valid(Ahead(Len(rows))) /\ Row(on) = Exact(Ahead(Len(rows)))
<1>1. TypeOK /\ Masking BY DEF GrammarInv
<1>2. Whole(hist, processed, Content(Ahead(Len(rows)))) BY <1>1 DEF Masking
<1>3. Len(rows) \in 0 .. Len(drafts)
  <2>1. Len(rows) \in Nat BY <1>1, LenProperties DEF TypeOK
  <2>2. Len(drafts) \in Nat BY <1>1, LenProperties DEF TypeOK
  <2> QED BY <1>1, <2>1, <2>2 DEF Masking
<1>4. Ahead(Len(rows)) \in Seq(Padded) BY <1>1, <1>3, Texts
<1>5. Valid(Ahead(Len(rows))) BY <1>1, <1>2 DEF Valid, TypeOK
<1>6. PICK text : text = Ahead(Len(rows)) OBVIOUS
<1>7. Exact(text) = IF InContent(text) /\ hist[processed + 1] # Final
                    THEN Allowed(hist[processed + 1]) ELSE Vocabulary
  <2>1. text \in Seq(Padded) /\ Whole(hist, processed, Content(text)) BY <1>2, <1>4, <1>6
  <2>2. PICK h, p : h = hist /\ p = processed OBVIOUS
  <2> QED BY <2>1, <2>2, ValidState
<1>8. Row(on) = IF on /\ ~ terminated THEN Allowed(Last(hist)) ELSE Vocabulary BY DEF Row
<1>9. on = InContent(text) BY <1>6
<1>10. Row(on) = Exact(text) BY <1>1, <1>7, <1>8, <1>9, Matcher
<1> QED BY <1>5, <1>6, <1>10

\* Filling a row changes none of the rows before it, nor what is reached by them.
LEMMA RowsGrow ==
    ASSUME TypeOK, RowsExact, Len(rows) \in 0 .. Len(drafts), UNCHANGED <<reasons, out, drafts>>,
           NEW r \in SUBSET Vocabulary, rows' = Append(rows, r),
           Reached(Len(rows)) => Valid(Ahead(Len(rows))) /\ r = Exact(Ahead(Len(rows)))
    PROVE  /\ rows' \in Seq(SUBSET Vocabulary) /\ Len(rows') = Len(rows) + 1
           /\ rows'[Len(rows) + 1] = r
           /\ \A n \in 0 .. Len(rows) : Reached(n)' <=> Reached(n)
           /\ RowsExact'
<1>1. PICK R, d, n : R = rows /\ d = drafts /\ n = Len(rows) OBVIOUS
<1>2. R \in Seq(SUBSET Vocabulary) /\ n = Len(R) /\ n \in Nat BY <1>1, LenProperties DEF TypeOK
<1>3. PICK Q : Q = Append(R, r) OBVIOUS
<1>4. /\ rows' = Q /\ Q \in Seq(SUBSET Vocabulary) /\ Len(Q) = n + 1
      /\ \A k \in 1 .. n : Q[k] = R[k]
      /\ Q[n + 1] = r
  BY <1>1, <1>2, <1>3, AppendProperties
<1>5. ASSUME NEW m \in 0 .. n PROVE Reached(m)' <=> Reached(m)
  <2>1. \A k \in 1 .. m : Q[k] = R[k] BY <1>2, <1>4
  <2>2. Reached(m)' <=> \A k \in 1 .. m : d[k] \in Q[k] BY <1>1, <1>4 DEF Reached
  <2>3. Reached(m) <=> \A k \in 1 .. m : d[k] \in R[k] BY <1>1 DEF Reached
  <2> QED BY <2>1, <2>2, <2>3
<1>6. ASSUME NEW m \in 0 .. n PROVE /\ Valid(Ahead(m))' <=> Valid(Ahead(m))
                                    /\ Exact(Ahead(m))' = Exact(Ahead(m))
  <2>1. PICK text : text = Ahead(m) OBVIOUS
  <2>2. Ahead(m)' = text BY <2>1 DEF Ahead
  <2>3. (Valid(text)' <=> Valid(text)) /\ Exact(text)' = Exact(text) BY SameText
  <2> QED BY <2>1, <2>2, <2>3
<1>7. ASSUME NEW k \in 1 .. n + 1, Reached(k - 1)'
      PROVE  Valid(Ahead(k - 1))' /\ rows'[k] = Exact(Ahead(k - 1))'
  <2>1. PICK m \in 0 .. n : m = k - 1 /\ k = m + 1 BY <1>2
  <2>2. Reached(m) BY <1>5, <1>7, <2>1
  <2>3. Valid(Ahead(m)) /\ Q[k] = Exact(Ahead(m))
    <3>1. CASE m = n BY <1>1, <1>4, <2>1, <2>2, <3>1
    <3>2. CASE m # n
      <4>1. k \in 1 .. n BY <1>2, <2>1, <3>2
      <4>2. Valid(Ahead(k - 1)) /\ R[k] = Exact(Ahead(k - 1))
        BY <1>1, <2>1, <2>2, <4>1 DEF RowsExact
      <4> QED BY <1>4, <2>1, <4>1, <4>2
    <3> QED BY <3>1, <3>2
  <2> QED BY <1>4, <1>6, <2>1, <2>3
<1>8. RowsExact'
  <2>1. Len(rows') = n + 1 BY <1>4
  <2> QED BY <1>7, <2>1 DEF RowsExact
<1> QED BY <1>1, <1>4, <1>5, <1>8

LEMMA Positions ==
    ASSUME TypeOK
    PROVE  Len(rows) \in Nat /\ Len(drafts) \in Nat /\ Len(out) \in Nat /\ Len(hist) \in Nat
BY LenProperties DEF TypeOK

\* What is filled in for one draft, given what becomes of the matcher.
LEMMA MaskStep ==
    ASSUME GrammarInv, FillRow, UNCHANGED <<request, drafts, new, pc>>,
           hist' \in Seq(States), processed' \in Nat, Len(hist') = processed' + 1,
           terminated' = (hist'[processed' + 1] = Final),
           advanced' \in 0 .. processed', Whole(hist', processed' - advanced', Content(out)),
           apply' \in BOOLEAN, window' \in BOOLEAN, Filter',
           Reached(Len(rows)) /\ token \in Row(apply) =>
             /\ Whole(hist', processed', Content(Append(Ahead(Len(rows)), token)))
             /\ apply' = InContent(Append(Ahead(Len(rows)), token))
    PROVE  GrammarInv'
<1>1. TypeOK /\ Masking /\ pc = "mask" BY DEF GrammarInv, FillRow
<1>2. PICK n : n = Len(rows) OBVIOUS
<1>3. n \in Nat /\ n \in 0 .. Len(drafts) /\ n \in 0 .. Len(drafts) - 1 /\ n + 1 \in 0 .. Len(drafts)
  <2>1. n < Len(drafts) BY <1>2 DEF FillRow
  <2> QED BY <1>1, <1>2, <2>1, Positions
<1>4. apply \in BOOLEAN BY <1>1 DEF TypeOK
<1>5. Row(apply) \in SUBSET Vocabulary BY <1>4, RowType
<1>6. Reached(n) => Valid(Ahead(n)) /\ Row(apply) = Exact(Ahead(n))
  <2> SUFFICES ASSUME Reached(n) PROVE Valid(Ahead(n)) /\ Row(apply) = Exact(Ahead(n)) OBVIOUS
  <2>1. apply = InContent(Ahead(n)) BY <1>1, <1>2 DEF Masking
  <2> QED BY <1>1, <1>2, <1>4, <2>1, ExactRow
<1>7. /\ rows' \in Seq(SUBSET Vocabulary) /\ Len(rows') = n + 1 /\ rows'[n + 1] = Row(apply)
      /\ \A m \in 0 .. n : Reached(m)' <=> Reached(m)
      /\ RowsExact'
  <2>1. PICK r \in SUBSET Vocabulary : r = Row(apply) BY <1>5
  <2>2. rows' = Append(rows, r) BY <2>1 DEF FillRow
  <2>3. UNCHANGED <<reasons, out, drafts>> BY DEF request
  <2>4. RowsExact BY <1>1 DEF Masking
  <2>5. /\ rows' \in Seq(SUBSET Vocabulary) /\ Len(rows') = n + 1 /\ rows'[n + 1] = r
        /\ \A m \in 0 .. n : Reached(m)' <=> Reached(m)
        /\ RowsExact'
    BY <1>1, <1>2, <1>3, <1>6, <2>1, <2>2, <2>3, <2>4, RowsGrow
  <2> QED BY <2>1, <2>5
<1>8. PICK t, text : t = drafts[n + 1] /\ text = Append(Ahead(n), t) OBVIOUS
<1>9. Ahead(n + 1)' = text
  <2>1. Ahead(n + 1) = text BY <1>1, <1>3, <1>8, Texts
  <2>2. Ahead(n + 1)' = Ahead(n + 1) BY DEF Ahead, request
  <2> QED BY <2>1, <2>2
<1>10. ASSUME Reached(n + 1)'
       PROVE  Whole(hist', processed', Content(Ahead(n + 1))') /\ apply' = InContent(Ahead(n + 1))'
  <2>1. \A k \in 1 .. n + 1 : drafts[k] \in rows'[k] BY <1>10 DEF Reached
  <2>2. Reached(n)' BY <2>1, <1>3 DEF Reached
  <2>3. Reached(n) BY <1>3, <1>7, <2>2
  <2>4. t \in Row(apply) BY <1>3, <1>7, <1>8, <2>1
  <2>5. Whole(hist', processed', Content(text)) /\ apply' = InContent(text)
    BY <1>2, <1>8, <2>3, <2>4 DEF token
  <2>6. Content(text)' = Content(text) /\ InContent(text)' = InContent(text)
    BY SameText DEF request
  <2> QED BY <1>9, <2>5, <2>6
<1>11. Content(out)' = Content(out) /\ InContent(out)' = InContent(out)
  <2>1. PICK o : o = out OBVIOUS
  <2>2. Content(o)' = Content(o) /\ InContent(o)' = InContent(o) BY SameText DEF request
  <2> QED BY <2>1, <2>2 DEF request
<1>12. TypeOK' BY <1>1, <1>7, <1>11 DEF TypeOK, request
<1>13. Masking'
  <2>1. Len(rows)' <= Len(drafts)' BY <1>1, <1>3, <1>7, Positions
  <2>2. Reached(Len(rows))' =>
          /\ Whole(hist, processed, Content(Ahead(Len(rows))))'
          /\ (apply = InContent(Ahead(Len(rows))))'
    BY <1>7, <1>10
  <2>3. Whole(hist, processed - advanced, Content(out))' BY <1>11
  <2> QED BY <1>7, <2>1, <2>2, <2>3 DEF Masking
<1> QED BY <1>1, <1>12, <1>13 DEF GrammarInv

LEMMA AtPosition ==
    ASSUME GrammarInv, FillRow
    PROVE  /\ TypeOK /\ Masking /\ pc = "mask"
           /\ Len(rows) \in Nat /\ Len(drafts) \in Nat /\ Len(rows) + 1 \in 1 .. Len(drafts)
           /\ Ahead(Len(rows)) \in Seq(Padded) /\ token \in Padded
<1>1. TypeOK /\ Masking /\ pc = "mask" BY DEF GrammarInv, FillRow
<1>2. Len(rows) \in Nat /\ Len(drafts) \in Nat BY <1>1, Positions
<1>3. Len(rows) < Len(drafts) BY DEF FillRow
<1>4. PICK n \in Nat : n = Len(rows) BY <1>2
<1>5. n \in 0 .. Len(drafts) - 1 /\ n \in 0 .. Len(drafts) /\ n + 1 \in 1 .. Len(drafts)
  BY <1>2, <1>3, <1>4
<1>6. Ahead(n) \in Seq(Padded) /\ drafts[n + 1] \in Padded BY <1>1, <1>5, Texts
<1> QED BY <1>1, <1>2, <1>4, <1>5, <1>6 DEF token

LEMMA RowLen ==
    ASSUME TypeOK, FillRow
    PROVE  Len(rows') = Len(rows) + 1
<1>1. PICK r : r = Row(apply) OBVIOUS
<1>2. r \in SUBSET Vocabulary BY <1>1, RowType DEF TypeOK
<1> QED BY <1>1, <1>2, AppendProperties DEF TypeOK, FillRow

LEMMA RunStep ==
    ASSUME NEW toks, NEW n \in Nat, NEW run \in [0 .. n -> States], RunThenPad(toks, n, run),
           NEW r \in Nat, r + 1 <= n
    PROVE  /\ run[r] # Final /\ Step(run[r], toks[r + 1]) = run[r + 1]
           /\ run[r + 1] \in States
<1>1. PICK k : k = r + 1 OBVIOUS
<1>2. k \in 1 .. n /\ k \in 0 .. n /\ k - 1 = r BY <1>1
<1>3. run[k - 1] # Final /\ Step(run[k - 1], toks[k]) = run[k] BY <1>2 DEF RunThenPad
<1>4. run[k] \in States BY <1>2
<1> QED BY <1>1, <1>2, <1>3, <1>4

\* Where filtered drafts are, as long as the mask is applied.
LEMMA InFilter ==
    ASSUME GrammarInv, FillRow, ended, NEW n \in 0 .. Len(drafts), NEW run \in [0 .. n -> States],
           RunThenPad(drafts, n, run),
           IF Len(rows) <= n THEN apply /\ hist[processed + 1] = run[Len(rows)] ELSE ~ apply,
           token # Pad
    PROVE  /\ Len(rows) + 1 <= n /\ apply /\ Last(hist) = run[Len(rows)]
           /\ ~ terminated /\ Step(Last(hist), token) = run[Len(rows) + 1]
           /\ Step(Last(hist), token) # Reject
<1>1. PICK r : r = Len(rows) OBVIOUS
<1>2. r \in Nat /\ Len(drafts) \in Nat /\ r + 1 \in 1 .. Len(drafts) /\ TypeOK BY <1>1, AtPosition
<1>3. token = drafts[r + 1] BY <1>1 DEF token
<1>4. r + 1 <= n
  <2>1. SUFFICES ASSUME ~ (r + 1 <= n) PROVE FALSE OBVIOUS
  <2>2. r + 1 \in n + 1 .. Len(drafts) BY <1>2, <2>1
  <2> QED BY <1>3, <2>2 DEF RunThenPad
<1>5. r <= n /\ r + 1 \in 1 .. n /\ r + 1 - 1 = r BY <1>2, <1>4
<1>6. apply /\ hist[processed + 1] = run[r] BY <1>1, <1>5
<1>7. /\ run[r] # Final /\ Step(run[r], drafts[r + 1]) = run[r + 1]
      /\ run[r + 1] \in States
  BY <1>2, <1>4, RunStep
<1> QED BY <1>1, <1>2, <1>3, <1>4, <1>6, <1>7, Matcher, Constants

LEMMA MaskPadStep ==
    ASSUME GrammarInv, MaskPad
    PROVE  GrammarInv'
<1>1. FillRow /\ token = Pad /\ apply' = FALSE
      /\ UNCHANGED <<matcher, request, drafts, window, advanced, new, pc>>
  BY DEF MaskPad
<1>2. TypeOK /\ Masking /\ Len(rows) \in Nat /\ Len(drafts) \in Nat BY <1>1, AtPosition
<1>3. PICK r : r = Len(rows) OBVIOUS
<1>4. r \in Nat /\ Len(rows') = r + 1 /\ r + 1 \in 1 .. Len(drafts)
  BY <1>1, <1>2, <1>3, AtPosition, RowLen
<1>5. Filter'
  <2>1. CASE ended
    <3>1. PICK n \in 0 .. Len(drafts) : \E run \in [0 .. n -> States] :
            /\ RunThenPad(drafts, n, run)
            /\ IF Len(rows) <= n THEN apply /\ hist[processed + 1] = run[Len(rows)] ELSE ~ apply
      BY <1>2, <2>1 DEF Masking, Filter
    <3>2. PICK run \in [0 .. n -> States] : RunThenPad(drafts, n, run) BY <3>1
    <3>3. ~ (r + 1 <= n)
      <4>1. SUFFICES ASSUME r + 1 <= n PROVE FALSE OBVIOUS
      <4>2. n \in Nat BY <1>2
      <4>3. Step(run[r], drafts[r + 1]) = run[r + 1] /\ run[r + 1] \in States
        BY <1>4, <3>2, <4>1, <4>2, RunStep
      <4>4. drafts[r + 1] = Pad BY <1>1, <1>3 DEF token
      <4> QED BY <4>3, <4>4, Constants
    <3> QED BY <1>1, <1>4, <2>1, <3>2, <3>3 DEF Filter, request
  <2>2. CASE ~ ended
    <3>1. \A k \in 1 .. Len(drafts) : drafts[k] # Pad BY <1>2, <2>2 DEF Masking, Filter
    <3> QED BY <1>1, <1>3, <1>4, <3>1 DEF token
  <2> QED BY <2>1, <2>2
<1>6. ~ (token \in Row(apply))
  <2>1. Row(apply) \subseteq Vocabulary BY <1>2, RowType DEF TypeOK
  <2> QED BY <1>1, <2>1, Constants
<1>7. TypeOK /\ Whole(hist', processed' - advanced', Content(out)) /\ advanced' \in 0 .. processed'
  BY <1>1, <1>2 DEF Masking, matcher
<1>8. /\ hist' \in Seq(States) /\ processed' \in Nat /\ Len(hist') = processed' + 1
      /\ terminated' = (hist'[processed' + 1] = Final) /\ window' \in BOOLEAN
  BY <1>1, <1>2 DEF TypeOK, matcher
<1> QED BY <1>1, <1>5, <1>6, <1>7, <1>8, MaskStep

\* The content of the text before the next row.
LEMMA NextText ==
    ASSUME GrammarInv, FillRow, NEW text, text = Ahead(Len(rows)), NEW t, t = token
    PROVE  /\ Content(text) \in Seq(Padded) /\ t \in Padded
           /\ InContent(text) => /\ InContent(Append(text, t))
                                 /\ Content(Append(text, t)) = Append(Content(text), t)
           /\ ~ InContent(text) => /\ InContent(Append(text, t)) <=> t = Marker
                                   /\ Content(Append(text, t)) = Content(text)
           /\ ended => InContent(text)
           /\ Reached(Len(rows)) => Whole(hist, processed, Content(text)) /\ apply = InContent(text)
<1>1. text \in Seq(Padded) /\ t \in Padded /\ TypeOK /\ Masking BY AtPosition
<1>2. /\ InContent(text) => /\ InContent(Append(text, t))
                            /\ Content(Append(text, t)) = Append(Content(text), t)
      /\ ~ InContent(text) => /\ InContent(Append(text, t)) <=> t = Marker
                              /\ Content(Append(text, t)) = Content(text)
  BY <1>1, ContentAppend, ContentType
<1>3. Content(text) \in Seq(Padded) BY <1>1, ContentType
<1>4. ended => InContent(text)
  <2>1. PICK o, d, n : o = out /\ d = drafts /\ n = Len(rows) OBVIOUS
  <2>2. o \in Seq(Padded) /\ SubSeq(d, 1, n) \in Seq(Padded)
    <3>1. Vocabulary \subseteq Padded BY DEF Padded
    <3>2. o \in Seq(Padded) BY <1>1, <2>1, <3>1, SeqMonotonic DEF TypeOK
    <3>3. d \in Seq(Padded) /\ n \in Nat /\ n <= Len(d)
      BY <1>1, <2>1, AtPosition DEF TypeOK, Padded, Masking
    <3>4. \A k \in 1 .. n : d[k] \in Padded
      <4>1. Len(d) \in Nat BY <3>3, LenProperties
      <4>2. \A k \in 1 .. n : k \in 1 .. Len(d) BY <3>3, <4>1
      <4> QED BY <3>3, <4>2, ElementOfSeq
    <3> QED BY <3>2, <3>3, <3>4, SubSeqProperties
  <2>3. InContent(o) => InContent(o \o SubSeq(d, 1, n)) BY <2>2, ContentGrows
  <2> QED BY <1>1, <2>1, <2>3 DEF TypeOK, Ahead
<1>5. Reached(Len(rows)) => Whole(hist, processed, Content(text)) /\ apply = InContent(text)
  BY <1>1 DEF Masking
<1> QED BY <1>1, <1>2, <1>3, <1>4, <1>5

LEMMA MaskMarkerStep ==
    ASSUME GrammarInv, MaskMarker
    PROVE  GrammarInv'
<1>1. FillRow /\ ~ ended /\ ~ apply /\ token = Marker /\ apply' = TRUE /\ window' = TRUE
      /\ UNCHANGED <<matcher, request, drafts, advanced, new, pc>>
  BY DEF MaskMarker, EndsReasoning
<1>2. TypeOK /\ Masking BY <1>1, AtPosition
<1>3. Filter' BY <1>1, <1>2 DEF Filter, Masking, request
<1>4. PICK text, t : text = Ahead(Len(rows)) /\ t = token OBVIOUS
<1>5. Reached(Len(rows)) =>
        Whole(hist', processed', Content(Append(text, t))) /\ apply' = InContent(Append(text, t))
  BY <1>1, <1>4, NextText DEF matcher
<1>6. Whole(hist', processed' - advanced', Content(out)) /\ advanced' \in 0 .. processed'
  BY <1>1, <1>2 DEF Masking, matcher
<1>7. /\ hist' \in Seq(States) /\ processed' \in Nat /\ Len(hist') = processed' + 1
      /\ terminated' = (hist'[processed' + 1] = Final)
      /\ apply' \in BOOLEAN /\ window' \in BOOLEAN
  BY <1>1, <1>2 DEF TypeOK, matcher
<1> QED BY <1>1, <1>3, <1>4, <1>5, <1>6, <1>7, MaskStep

LEMMA MaskAdvanceStep ==
    ASSUME GrammarInv, MaskAdvance
    PROVE  GrammarInv'
<1>1. FillRow /\ token # Pad /\ apply /\ ~ terminated /\ Step(Last(hist), token) # Reject
      /\ AcceptToken(token) /\ advanced' = advanced + 1
      /\ UNCHANGED <<request, drafts, apply, window, new, pc>>
  BY DEF MaskAdvance
<1>2. TypeOK /\ Masking /\ Len(rows) \in Nat /\ Len(drafts) \in Nat BY <1>1, AtPosition
<1>3. PICK h, p, u : h = hist /\ p = processed /\ u = Step(Last(hist), token) OBVIOUS
<1>4. /\ h \in Seq(States) /\ p \in Nat /\ Len(h) = p + 1 /\ Last(hist) = h[p + 1]
      /\ h[p + 1] # Final /\ u \in States
  <2>1. Last(hist) \in States /\ Last(hist) = hist[processed + 1] /\ Last(hist) # Final
    BY <1>1, <1>2, Matcher
  <2> QED BY <1>1, <1>2, <1>3, <2>1, Constants DEF TypeOK
<1>5. PICK g : g = Append(h, u) OBVIOUS
<1>6. /\ hist' = g /\ processed' = p + 1 /\ terminated' = (u = Final)
      /\ g \in Seq(States) /\ Len(g) = p + 1 + 1
      /\ \A k \in 1 .. p + 1 : g[k] = h[k]
      /\ g[p + 1 + 1] = u
  BY <1>1, <1>3, <1>4, <1>5, AppendProperties DEF AcceptToken
<1>7. Filter'
  <2>1. CASE ended
    <3>0. PICK n \in 0 .. Len(drafts) : \E run \in [0 .. n -> States] :
            /\ RunThenPad(drafts, n, run)
            /\ IF Len(rows) <= n THEN apply /\ hist[processed + 1] = run[Len(rows)] ELSE ~ apply
      BY <1>2, <2>1 DEF Masking, Filter
    <3>1. PICK run \in [0 .. n -> States] :
            /\ RunThenPad(drafts, n, run)
            /\ IF Len(rows) <= n THEN apply /\ hist[processed + 1] = run[Len(rows)] ELSE ~ apply
      BY <3>0
    <3>2. Len(rows) + 1 <= n /\ u = run[Len(rows) + 1]
      BY <1>1, <1>3, <2>1, <3>1, InFilter
    <3>3. Len(rows') = Len(rows) + 1 BY <1>1, <1>2, RowLen
    <3>4. hist'[processed' + 1] = run[Len(rows')] BY <1>6, <3>2, <3>3
    <3>5. Len(rows') <= n /\ apply' BY <1>1, <3>2, <3>3
    <3> QED BY <1>1, <2>1, <3>1, <3>4, <3>5 DEF Filter, request
  <2>2. CASE ~ ended BY <1>1, <1>2, <2>2 DEF Filter, Masking, request
  <2> QED BY <2>1, <2>2
<1>8. PICK text, t : text = Ahead(Len(rows)) /\ t = token OBVIOUS
<1>9. Reached(Len(rows)) =>
        Whole(hist', processed', Content(Append(text, t))) /\ apply' = InContent(Append(text, t))
  <2> SUFFICES ASSUME Reached(Len(rows))
      PROVE  Whole(g, p + 1, Content(Append(text, t))) /\ InContent(Append(text, t))
    BY <1>1, <1>6
  <2>1. InContent(text) /\ Whole(h, p, Content(text)) BY <1>1, <1>3, <1>8, NextText
  <2>2. Content(Append(text, t)) = Append(Content(text), t) /\ InContent(Append(text, t))
        /\ Content(text) \in Seq(Padded) /\ t \in Padded
    BY <1>1, <1>8, <2>1, NextText
  <2>3. PICK c : c = Content(text) OBVIOUS
  <2>4. Step(h[p + 1], t) # Reject /\ u = Step(h[p + 1], t) BY <1>1, <1>3, <1>4, <1>8
  <2>5. Whole(g, p + 1, Append(c, t)) BY <1>4, <1>5, <2>1, <2>2, <2>3, <2>4, RunGoesOn
  <2> QED BY <2>2, <2>3, <2>5
<1>10. Whole(hist', processed' - advanced', Content(out)) /\ advanced' \in 0 .. processed'
  <2>1. PICK c, a : c = Content(out) /\ a = advanced OBVIOUS
  <2>2. a \in 0 .. p /\ Whole(h, p - a, c) BY <1>2, <1>3, <2>1 DEF Masking
  <2>3. processed' - advanced' = p - a /\ advanced' \in 0 .. processed'
    BY <1>1, <1>4, <1>6, <2>1, <2>2
  <2>4. PICK q \in Nat : q = p - a /\ q <= p BY <1>4, <2>2
  <2>5. Whole(h, q, c) BY <2>2, <2>4
  <2>6. Whole(g, q, c)
    <3>1. \A k \in 1 .. q + 1 : g[k] = h[k] BY <1>4, <1>6, <2>4
    <3>2. \A k \in 1 .. q : g[k] = h[k] /\ g[k + 1] = h[k + 1]
      <4>1. \A k \in 1 .. q : k \in 1 .. q + 1 /\ k + 1 \in 1 .. q + 1 OBVIOUS
      <4> QED BY <3>1, <4>1
    <3>3. 1 \in 1 .. q + 1 /\ q + 1 \in 1 .. q + 1 OBVIOUS
    <3> QED BY <2>5, <3>1, <3>2, <3>3 DEF Whole, Run
  <2> QED BY <1>6, <2>1, <2>3, <2>4, <2>6
<1>11. /\ hist' \in Seq(States) /\ processed' \in Nat /\ Len(hist') = processed' + 1
       /\ terminated' = (hist'[processed' + 1] = Final)
  BY <1>4, <1>6
<1>12. apply' \in BOOLEAN /\ window' \in BOOLEAN BY <1>1, <1>2 DEF TypeOK
<1> QED BY <1>1, <1>7, <1>8, <1>9, <1>10, <1>11, <1>12, MaskStep

\* Filtered drafts are never rejected, so that the exception is not raised.
LEMMA MaskRejectStep ==
    ASSUME GrammarInv, MaskReject
    PROVE  GrammarInv'
<1>1. FillRow /\ token # Pad /\ apply /\ ~ terminated /\ Step(Last(hist), token) = Reject
  BY DEF MaskReject
<1>2. TypeOK /\ Masking BY <1>1, AtPosition
<1>3. ~ ended
  <2>1. SUFFICES ASSUME ended PROVE FALSE OBVIOUS
  <2>2. PICK n \in 0 .. Len(drafts) : \E run \in [0 .. n -> States] :
          /\ RunThenPad(drafts, n, run)
          /\ IF Len(rows) <= n THEN apply /\ hist[processed + 1] = run[Len(rows)] ELSE ~ apply
    BY <1>2, <2>1 DEF Masking, Filter
  <2>3. PICK run \in [0 .. n -> States] :
          /\ RunThenPad(drafts, n, run)
          /\ IF Len(rows) <= n THEN apply /\ hist[processed + 1] = run[Len(rows)] ELSE ~ apply
    BY <2>2
  <2> QED BY <1>1, <2>1, <2>3, InFilter
<1>4. apply = window BY <1>2, <1>3 DEF Masking, Filter
<1>5. UNCHANGED <<matcher, request, drafts, apply, window, advanced, new, pc>>
  BY <1>1, <1>4 DEF MaskReject, request
<1>6. Filter' BY <1>2, <1>3, <1>5 DEF Filter, Masking, request
<1>7. ~ (token \in Row(apply)) BY <1>1, Constants DEF Row
<1>8. Whole(hist', processed' - advanced', Content(out)) /\ advanced' \in 0 .. processed'
  BY <1>2, <1>5 DEF Masking, matcher
<1>9. /\ hist' \in Seq(States) /\ processed' \in Nat /\ Len(hist') = processed' + 1
      /\ terminated' = (hist'[processed' + 1] = Final)
      /\ apply' \in BOOLEAN /\ window' \in BOOLEAN
  BY <1>2, <1>5 DEF TypeOK, matcher
<1> QED BY <1>1, <1>5, <1>6, <1>7, <1>8, <1>9, MaskStep

LEMMA MaskFreeStep ==
    ASSUME GrammarInv, MaskFree
    PROVE  GrammarInv'
<1>1. FillRow /\ token # Pad /\ ~ EndsReasoning /\ (~ apply \/ terminated)
      /\ UNCHANGED <<matcher, request, drafts, apply, window, advanced, new, pc>>
  BY DEF MaskFree
<1>2. TypeOK /\ Masking /\ Len(rows) \in Nat /\ Len(drafts) \in Nat BY <1>1, AtPosition
<1>3. Filter'
  <2>1. CASE ended
    <3>0. PICK n \in 0 .. Len(drafts) : \E run \in [0 .. n -> States] :
            /\ RunThenPad(drafts, n, run)
            /\ IF Len(rows) <= n THEN apply /\ hist[processed + 1] = run[Len(rows)] ELSE ~ apply
      BY <1>2, <2>1 DEF Masking, Filter
    <3>1. PICK run \in [0 .. n -> States] :
            /\ RunThenPad(drafts, n, run)
            /\ IF Len(rows) <= n THEN apply /\ hist[processed + 1] = run[Len(rows)] ELSE ~ apply
      BY <3>0
    <3>2. FALSE BY <1>1, <2>1, <3>1, InFilter
    <3> QED BY <3>2
  <2>2. CASE ~ ended BY <1>1, <1>2, <2>2 DEF Filter, Masking, request
  <2> QED BY <2>1, <2>2
<1>4. PICK text, t, h, p : text = Ahead(Len(rows)) /\ t = token /\ h = hist /\ p = processed OBVIOUS
<1>5. Reached(Len(rows)) =>
        Whole(hist', processed', Content(Append(text, t))) /\ apply' = InContent(Append(text, t))
  <2> SUFFICES ASSUME Reached(Len(rows))
      PROVE  Whole(h, p, Content(Append(text, t))) /\ apply = InContent(Append(text, t))
    BY <1>1, <1>4 DEF matcher
  <2>1. Whole(h, p, Content(text)) /\ apply = InContent(text) /\ Content(text) \in Seq(Padded)
        /\ t \in Padded
    BY <1>1, <1>4, NextText
  <2>2. CASE ~ apply
    <3>1. ~ ended /\ t # Marker BY <1>1, <1>4, <2>1, <2>2, NextText DEF EndsReasoning
    <3> QED BY <1>1, <1>4, <2>1, <2>2, <3>1, NextText DEF InContent
  <2>3. CASE apply
    <3>1. h[p + 1] = Final /\ h \in Seq(States) /\ p \in Nat /\ Len(h) = p + 1
      BY <1>1, <1>2, <1>4, <2>3 DEF TypeOK
    <3>2. PICK c : c = Content(text) OBVIOUS
    <3>3. Whole(h, p, Append(c, t)) BY <2>1, <3>1, <3>2, RunGoesOn
    <3>4. Content(Append(text, t)) = Append(c, t) /\ InContent(Append(text, t))
      BY <1>1, <1>4, <2>1, <2>3, <3>2, NextText
    <3> QED BY <2>3, <3>3, <3>4 DEF InContent
  <2> QED BY <1>2, <2>2, <2>3 DEF TypeOK
<1>6. Whole(hist', processed' - advanced', Content(out)) /\ advanced' \in 0 .. processed'
  BY <1>1, <1>2 DEF Masking, matcher
<1>7. /\ hist' \in Seq(States) /\ processed' \in Nat /\ Len(hist') = processed' + 1
      /\ terminated' = (hist'[processed' + 1] = Final)
      /\ apply' \in BOOLEAN /\ window' \in BOOLEAN
  BY <1>1, <1>2 DEF TypeOK, matcher
<1> QED BY <1>1, <1>3, <1>4, <1>5, <1>6, <1>7, MaskStep

\* The last row is filled where the matcher is; then the matcher is taken back
\* to where the output had brought it.
LEMMA MaskLastStep ==
    ASSUME GrammarInv, MaskLast
    PROVE  GrammarInv'
<1>1. /\ pc = "mask" /\ Len(rows) = Len(drafts) /\ rows' = Append(rows, Row(LastRowApplies))
      /\ pc' = "sample" /\ UNCHANGED <<request, drafts, apply, window, advanced, new>>
  BY DEF MaskLast
<1>2. TypeOK /\ Masking /\ Len(rows) \in Nat /\ Len(drafts) \in Nat
  BY <1>1, Positions DEF GrammarInv
<1>3. LastRowApplies \in BOOLEAN BY <1>2 DEF LastRowApplies, TypeOK, InContent
<1>4. Reached(Len(rows)) => LastRowApplies = InContent(Ahead(Len(rows)))
  <2> SUFFICES ASSUME Reached(Len(rows)) PROVE LastRowApplies = InContent(Ahead(Len(rows)))
    OBVIOUS
  <2>1. apply = InContent(Ahead(Len(rows))) BY <1>2 DEF Masking
  <2>2. ended => InContent(Ahead(Len(rows)))
    <3>1. PICK o, d, n : o = out /\ d = drafts /\ n = Len(rows) OBVIOUS
    <3>2. o \in Seq(Padded) /\ SubSeq(d, 1, n) \in Seq(Padded)
      <4>1. Vocabulary \subseteq Padded BY DEF Padded
      <4>2. o \in Seq(Padded) BY <1>2, <3>1, <4>1, SeqMonotonic DEF TypeOK
      <4>3. d \in Seq(Padded) /\ n = Len(d) BY <1>1, <1>2, <3>1 DEF TypeOK, Padded
      <4> QED BY <4>2, <4>3, SubSeqFull
    <3>3. InContent(o) => InContent(o \o SubSeq(d, 1, n)) BY <3>2, ContentGrows
    <3> QED BY <1>2, <3>1, <3>3 DEF TypeOK, Ahead
  <2> QED BY <2>1, <2>2 DEF LastRowApplies, InContent
<1>5. PICK r : r = Row(LastRowApplies) OBVIOUS
<1>6. r \in SUBSET Vocabulary BY <1>3, <1>5, RowType
<1>7. Reached(Len(rows)) => Valid(Ahead(Len(rows))) /\ r = Exact(Ahead(Len(rows)))
  BY <1>1, <1>3, <1>4, <1>5, ExactRow
<1>8. rows' \in Seq(SUBSET Vocabulary) /\ Len(rows') = Len(rows) + 1 /\ RowsExact'
  <2>1. RowsExact /\ Len(rows) \in 0 .. Len(drafts) BY <1>1, <1>2 DEF Masking
  <2>2. UNCHANGED <<reasons, out, drafts>> /\ rows' = Append(rows, r) BY <1>1, <1>5 DEF request
  <2> QED BY <1>2, <1>6, <1>7, <2>1, <2>2, RowsGrow
<1>9. PICK h, p, a, c : h = hist /\ p = processed /\ a = advanced /\ c = Content(out) OBVIOUS
<1>10. /\ h \in Seq(States) /\ p \in Nat /\ Len(h) = p + 1 /\ a \in 0 .. p /\ Whole(h, p - a, c)
       /\ terminated = (h[p + 1] = Final)
  BY <1>2, <1>9 DEF TypeOK, Masking
<1>11. /\ hist' \in Seq(States) /\ processed' \in Nat /\ Len(hist') = processed' + 1
       /\ terminated' = (hist'[processed' + 1] = Final)
       /\ Whole(hist', processed', c)
  <2>1. CASE a > 0
    <3>1. PICK q \in Nat : q = p - a /\ q <= p /\ Len(h) - a = q + 1 BY <1>10
    <3>2. PICK g : g = SubSeq(h, 1, q + 1) OBVIOUS
    <3>3. hist' = g /\ processed' = q /\ terminated' = (h[q + 1] = Final)
      BY <1>9, <2>1, <3>1, <3>2
      DEF MaskLast, ProcessedAfterRollback, TerminatedAfterRollback
    <3>4. \A k \in 1 .. q + 1 : h[k] \in States
      <4>1. \A k \in 1 .. q + 1 : k \in 1 .. Len(h) BY <1>10, <3>1
      <4> QED BY <1>10, <4>1, ElementOfSeq
    <3>5. g \in Seq(States) /\ Len(g) = q + 1 /\ \A k \in 1 .. q + 1 : g[k] = h[k]
      BY <3>2, <3>4, SubSeqProperties
    <3>6. \A k \in 1 .. q : k \in 1 .. q + 1 /\ k + 1 \in 1 .. q + 1 OBVIOUS
    <3>7. \A k \in 1 .. q : g[k] = h[k] /\ g[k + 1] = h[k + 1] BY <3>5, <3>6
    <3>8. g[1] = h[1] /\ g[q + 1] = h[q + 1] BY <3>5
    <3>9. Whole(h, q, c) BY <1>10, <3>1
    <3>10. Whole(g, q, c) BY <3>7, <3>8, <3>9 DEF Whole, Run
    <3> QED BY <3>3, <3>5, <3>8, <3>10
  <2>2. CASE ~ (a > 0)
    <3>1. UNCHANGED matcher BY <1>9, <2>2 DEF MaskLast
    <3>2. p - a = p BY <1>10, <2>2
    <3> QED BY <1>9, <1>10, <3>1, <3>2 DEF matcher
  <2> QED BY <2>1, <2>2
<1>12. Content(out)' = c /\ InContent(out)' = InContent(out)
  <2>1. PICK o : o = out OBVIOUS
  <2>2. Content(o)' = Content(o) /\ InContent(o)' = InContent(o) BY <1>1, SameText DEF request
  <2> QED BY <1>1, <1>9, <2>1, <2>2 DEF request
<1>13. TypeOK' BY <1>1, <1>2, <1>8, <1>11, <1>12 DEF TypeOK, request
<1> QED BY <1>1, <1>8, <1>11, <1>12, <1>13 DEF GrammarInv

EmptyRun(s) == [k \in 0 .. 0 |-> s]

\* validate_tokens() returns a number of tokens that the matcher can take.
LEMMA ValidLengthIs ==
    ASSUME TypeOK, NEW toks \in Seq(Vocabulary)
    PROVE  /\ ValidLength(toks) \in 0 .. Len(toks)
           /\ IsRun(Last(hist), SubSeq(toks, 1, ValidLength(toks)))
<1>1. PICK s \in States : s = Last(hist) BY Matcher
<1>2. Len(toks) \in Nat BY LenProperties
<1> DEFINE Runs(m) == IsRun(s, SubSeq(toks, 1, m))
           S == {m \in 0 .. Len(toks) : m < Len(toks) => ~ Runs(m + 1)}
<1>3. Runs(0)
  <2>1. SubSeq(toks, 1, 0) = <<>> /\ Len(<<>>) = 0 BY SubSeqEmpty, EmptySeq
  <2>2. EmptyRun(s) \in [0 .. 0 -> States] /\ EmptyRun(s)[0] = s BY DEF EmptyRun
  <2>3. \A k \in 1 .. 0 : FALSE OBVIOUS
  <2>4. IsRun(s, <<>>) BY <2>1, <2>2, <2>3 DEF IsRun
  <2> QED BY <2>1, <2>4
<1> HIDE DEF Runs
<1>4. Len(toks) \in S BY <1>2
<1>5. PICK n \in S : \A m \in S : n <= m
  <2>1. S \in SUBSET Nat BY <1>2
  <2> HIDE DEF S
  <2> QED BY <1>4, <2>1, Least
<1>6. Runs(n)
  <2>1. CASE n = 0 BY <1>3, <2>1
  <2>2. CASE n # 0
    <3>1. n - 1 \in 0 .. Len(toks) /\ n - 1 < Len(toks) /\ n - 1 \notin S /\ n - 1 + 1 = n
      BY <1>2, <1>5, <2>2, SMTT(30)
    <3> QED BY <3>1
  <2> QED BY <2>1, <2>2
<1>7. \E m \in 0 .. Len(toks) : Runs(m) /\ (m < Len(toks) => ~ Runs(m + 1)) BY <1>5, <1>6
<1>8. CASE terminated
  <2>1. ValidLength(toks) = 0 BY <1>8 DEF ValidLength
  <2> QED BY <1>1, <1>2, <1>3, <2>1 DEF Runs
<1>9. CASE ~ terminated
  <2>1. ValidLength(toks) =
          CHOOSE m \in 0 .. Len(toks) : Runs(m) /\ (m < Len(toks) => ~ Runs(m + 1))
    BY <1>1, <1>9 DEF ValidLength, Runs
  <2>2. ValidLength(toks) \in 0 .. Len(toks) /\ Runs(ValidLength(toks)) BY <1>7, <2>1
  <2> QED BY <1>1, <2>2 DEF Runs
<1> QED BY <1>8, <1>9

\* What update_draft_token_ids() makes of the drafts when the reasoning is over.
LEMMA FilteredDrafts ==
    ASSUME TypeOK, NEW toks \in Seq(Vocabulary), ended
    PROVE  /\ Filtered(toks) \in Seq(Padded)
           /\ \E n \in 0 .. Len(Filtered(toks)) : \E run \in [0 .. n -> States] :
                RunThenPad(Filtered(toks), n, run) /\ run[0] = Last(hist)
<1>1. PICK v \in Nat : v = ValidLength(toks) /\ v <= Len(toks) BY ValidLengthIs, LenProperties
<1>2. PICK L \in Nat : L = Len(toks) BY LenProperties
<1>3. PICK a : a = SubSeq(toks, 1, v) OBVIOUS
<1>4. Vocabulary \subseteq Padded /\ Pad \in Padded BY DEF Padded
<1>5. a \in Seq(Padded) /\ Len(a) = v /\ \A k \in 1 .. v : a[k] = toks[k]
  <2>1. \A k \in 1 .. v : toks[k] \in Padded
    <3>1. \A k \in 1 .. v : k \in 1 .. Len(toks) BY <1>1, <1>2
    <3>2. \A k \in 1 .. v : toks[k] \in Vocabulary BY <3>1, ElementOfSeq
    <3> QED BY <1>4, <3>2
  <2> QED BY <1>3, <2>1, SubSeqProperties
<1>6. PICK b : b = IF Async THEN [k \in 1 .. Len(toks) - v |-> Pad] ELSE <<>> OBVIOUS
<1>7. b \in Seq(Padded) /\ \A k \in 1 .. Len(b) : b[k] = Pad
  <2>1. CASE Async
    <3>1. PICK m \in Nat : m = Len(toks) - v BY <1>1, <1>2
    <3>2. b = [k \in 1 .. m |-> Pad] BY <1>6, <2>1, <3>1
    <3>3. b \in [1 .. m -> Padded] /\ DOMAIN b = 1 .. m BY <1>4, <3>2
    <3>4. b \in Seq(Padded) BY <3>3, SeqDef
    <3>5. DOMAIN b = 1 .. Len(b) BY <3>4, LenProperties
    <3> QED BY <3>2, <3>3, <3>4, <3>5
  <2>2. CASE ~ Async
    <3>1. b = <<>> BY <1>6, <2>2
    <3> QED BY <3>1
  <2> QED BY <2>1, <2>2
<1>8. PICK d : d = a \o b OBVIOUS
<1>9. Filtered(toks) = d BY <1>1, <1>3, <1>6, <1>8 DEF Filtered
<1>10. /\ d \in Seq(Padded) /\ Len(d) = v + Len(b) /\ Len(b) \in Nat
       /\ \A k \in 1 .. v + Len(b) : d[k] = IF k <= v THEN a[k] ELSE b[k - v]
  <2>1. Len(b) \in Nat BY <1>7, LenProperties
  <2>2. /\ a \o b \in Seq(Padded) /\ Len(a \o b) = Len(a) + Len(b)
        /\ \A k \in 1 .. Len(a) + Len(b) : (a \o b)[k] = IF k <= Len(a) THEN a[k] ELSE b[k - Len(a)]
    BY <1>5, <1>7, ConcatProperties
  <2>3. Len(a) = v BY <1>5
  <2> QED BY <1>8, <2>1, <2>2, <2>3
<1>11. PICK run \in [0 .. Len(a) -> States] :
          /\ run[0] = Last(hist)
          /\ \A k \in 1 .. Len(a) : run[k - 1] # Final /\ Step(run[k - 1], a[k]) = run[k]
  <2>1. IsRun(Last(hist), a) BY <1>1, <1>3, ValidLengthIs
  <2> QED BY <2>1 DEF IsRun
<1>12. run \in [0 .. v -> States] BY <1>5
<1>13. \A k \in 1 .. v : run[k - 1] # Final /\ Step(run[k - 1], d[k]) = run[k]
  <2> SUFFICES ASSUME NEW k \in 1 .. v
      PROVE run[k - 1] # Final /\ Step(run[k - 1], d[k]) = run[k]
    OBVIOUS
  <2>1. k \in 1 .. v + Len(b) /\ k <= v BY <1>10
  <2>2. d[k] = a[k] BY <1>10, <2>1
  <2> QED BY <1>5, <1>11, <2>2
<1>14. \A k \in v + 1 .. Len(d) : d[k] = Pad
  <2> SUFFICES ASSUME NEW k \in v + 1 .. Len(d) PROVE d[k] = Pad OBVIOUS
  <2>1. k \in 1 .. v + Len(b) /\ ~ (k <= v) /\ k - v \in 1 .. Len(b) BY <1>10
  <2>2. d[k] = b[k - v] BY <1>10, <2>1
  <2> QED BY <1>7, <2>1, <2>2
<1>15. RunThenPad(d, v, run) BY <1>13, <1>14 DEF RunThenPad
<1>16. v \in 0 .. Len(d) BY <1>10
<1> QED BY <1>9, <1>10, <1>11, <1>12, <1>15, <1>16

LEMMA DraftStep ==
    ASSUME GrammarInv, NEW n \in 0 .. SpecTokens, NEW toks \in [1 .. n -> Vocabulary], Draft(toks)
    PROVE  GrammarInv'
<1>1. /\ pc = "idle" /\ drafts' = Filtered(toks) /\ rows' = <<>> /\ apply' = ended
      /\ window' = FALSE /\ advanced' = 0 /\ pc' = "mask" /\ UNCHANGED <<matcher, request, new>>
  BY DEF Draft
<1>2. TypeOK /\ Whole(hist, processed, Content(out)) BY <1>1 DEF GrammarInv
<1>3. toks \in Seq(Vocabulary) /\ \A k \in 1 .. Len(toks) : toks[k] \in Vocabulary
  <2>0. SpecTokens \in Nat BY GrammarAssumption, Zenon
  <2>1. n \in Nat BY <2>0
  <2>2. toks \in Seq(Vocabulary) BY <2>1, SeqDef
  <2> QED BY <2>2, ElementOfSeq
<1>4. drafts' \in Seq(Padded) /\ Len(drafts') \in Nat
  <2>1. Filtered(toks) \in Seq(Padded)
    <3>1. CASE ended BY <1>2, <1>3, <3>1, FilteredDrafts
    <3>2. CASE ~ ended
      <4>1. Filtered(toks) = toks BY <3>2 DEF Filtered
      <4>2. Vocabulary \subseteq Padded BY DEF Padded
      <4> QED BY <1>3, <4>1, <4>2, SeqMonotonic
    <3> QED BY <3>1, <3>2
  <2> QED BY <1>1, <2>1, LenProperties
<1>5. rows' \in Seq(SUBSET Vocabulary) /\ Len(rows') = 0 BY <1>1, EmptySeq
<1>6. PICK d : d = Filtered(toks) OBVIOUS
<1>7. Filter'
  <2>1. CASE ended
    <3>1. PICK m \in 0 .. Len(d) : \E run \in [0 .. m -> States] :
            RunThenPad(d, m, run) /\ run[0] = Last(hist)
      BY <1>2, <1>3, <1>6, <2>1, FilteredDrafts
    <3>2. PICK run \in [0 .. m -> States] : RunThenPad(d, m, run) /\ run[0] = Last(hist) BY <3>1
    <3>3. hist'[processed' + 1] = run[Len(rows')] /\ Len(rows') <= m /\ apply'
      BY <1>1, <1>2, <1>5, <2>1, <3>2, Matcher DEF matcher
    <3>4. ended' /\ drafts' = d BY <1>1, <1>6, <2>1 DEF request
    <3> QED BY <3>2, <3>3, <3>4 DEF Filter
  <2>2. CASE ~ ended
    <3>0. ended = FALSE BY <1>2, <2>2 DEF TypeOK, InContent
    <3>1. drafts' = toks /\ apply' = window' /\ ~ ended' BY <1>1, <3>0 DEF Filtered, request
    <3>2. \A k \in 1 .. Len(drafts') : drafts'[k] # Pad BY <1>3, <3>1, Constants
    <3> QED BY <3>1, <3>2 DEF Filter
  <2> QED BY <2>1, <2>2
<1>8. Ahead(0)' = out
  <2>1. PICK o : o = out OBVIOUS
  <2>2. o \in Seq(Vocabulary) BY <1>2, <2>1 DEF TypeOK
  <2>3. SubSeq(d, 1, 0) = <<>> BY SubSeqEmpty
  <2>4. o \o <<>> = o BY <2>2, ConcatEmptySeq
  <2> QED BY <1>1, <1>6, <2>1, <2>3, <2>4 DEF Ahead, request
<1>9. Content(out)' = Content(out) /\ InContent(out)' = InContent(out)
  <2>1. PICK o : o = out OBVIOUS
  <2>2. Content(o)' = Content(o) /\ InContent(o)' = InContent(o) BY <1>1, SameText DEF request
  <2> QED BY <1>1, <2>1, <2>2 DEF request
<1>10. Content(Ahead(0))' = Content(out) /\ InContent(Ahead(0))' = InContent(out)
  BY <1>1, <1>8, <1>9 DEF request
<1>11. TypeOK'
  <2>1. ended \in BOOLEAN BY <1>2 DEF TypeOK, InContent
  <2>2. drafts' \in Seq(Vocabulary \cup {Pad}) BY <1>4 DEF Padded
  <2>3. UNCHANGED <<hist, processed, terminated, out, ended, endIndex, status, reasons, new>>
    BY <1>1 DEF matcher, request
  <2>4. endIndex' \in 0 .. Len(out') BY <1>2, <2>3 DEF TypeOK
  <2> QED BY <1>1, <1>2, <1>5, <1>9, <2>1, <2>2, <2>3, <2>4 DEF TypeOK
<1>12. processed \in Nat /\ processed - 0 = processed BY <1>2 DEF TypeOK
<1>13. Masking'
  <2>1. RowsExact'
    <3>1. \A k \in 1 .. Len(rows') : FALSE BY <1>5
    <3> QED BY <3>1 DEF RowsExact
  <2>2. Whole(hist', processed' - advanced', Content(out)') /\ advanced' \in 0 .. processed'
    BY <1>1, <1>2, <1>9, <1>12 DEF matcher
  <2>3. Whole(hist', processed', Content(Ahead(Len(rows)))')
    BY <1>1, <1>2, <1>5, <1>10 DEF matcher
  <2>4. apply' = InContent(Ahead(Len(rows)))' BY <1>1, <1>2, <1>5, <1>10 DEF TypeOK
  <2>5. Len(rows') <= Len(drafts') BY <1>4, <1>5
  <2> QED BY <1>7, <2>1, <2>2, <2>3, <2>4, <2>5 DEF Masking
<1> QED BY <1>1, <1>11, <1>13 DEF GrammarInv

\* What is accepted and sampled under exact rows is what the grammar allows.
LEMMA SampleStep ==
    ASSUME GrammarInv, NEW n \in 0 .. SpecTokens, NEW t \in Vocabulary, Sample(n, t)
    PROVE  GrammarInv'
<1>1. /\ pc = "sample" /\ n <= Len(drafts) /\ t \in rows[n + 1] /\ Reached(n)
      /\ new' = Append(SubSeq(drafts, 1, n), t) /\ pc' = "update"
      /\ UNCHANGED <<matcher, request, mask>>
  BY DEF Sample, Reached
<1>2. TypeOK /\ RowsExact /\ Whole(hist, processed, Content(out)) /\ Len(rows) = Len(drafts) + 1
  BY <1>1 DEF GrammarInv
<1>3. n \in Nat
  <2>1. SpecTokens \in Nat BY GrammarAssumption, Zenon
  <2> QED BY <2>1
<1>4. PICK o, d, R : o = out /\ d = drafts /\ R = rows OBVIOUS
<1>5. /\ o \in Seq(Vocabulary) /\ d \in Seq(Padded) /\ R \in Seq(SUBSET Vocabulary)
      /\ Len(d) \in Nat /\ n <= Len(d) /\ Len(R) = Len(d) + 1
  BY <1>1, <1>2, <1>4, LenProperties DEF TypeOK, Padded
<1>6. PICK a : a = SubSeq(d, 1, n) OBVIOUS
<1>7. a \in Seq(Vocabulary)
  <2>1. \A k \in 1 .. n : d[k] \in Vocabulary
    <3> SUFFICES ASSUME NEW k \in 1 .. n PROVE d[k] \in Vocabulary OBVIOUS
    <3>1. k \in 1 .. Len(R) BY <1>5
    <3>2. R[k] \in SUBSET Vocabulary BY <1>5, <3>1, ElementOfSeq
    <3>3. d[k] \in R[k] BY <1>1, <1>4 DEF Reached
    <3> QED BY <3>2, <3>3
  <2> QED BY <1>3, <1>6, <2>1, SubSeqProperties
<1>8. PICK text : text = o \o a OBVIOUS
<1>9. text \in Seq(Vocabulary) /\ text = Ahead(n)
  BY <1>4, <1>5, <1>6, <1>7, <1>8, ConcatProperties DEF Ahead
<1>10. Valid(text) /\ t \in Exact(text)
  <2>1. PICK k : k = n + 1 OBVIOUS
  <2>2. k \in 1 .. Len(rows) /\ k - 1 = n BY <1>2, <1>3, <1>4, <1>5, <2>1
  <2>3. Reached(k - 1) BY <1>1, <2>2
  <2>4. Valid(Ahead(k - 1)) /\ rows[k] = Exact(Ahead(k - 1)) BY <1>2, <2>2, <2>3 DEF RowsExact
  <2> QED BY <1>1, <1>9, <2>1, <2>2, <2>4
<1>11. Valid(Append(text, t)) BY <1>9, <1>10, ValidAppend
<1>12. new' = Append(a, t) /\ new' \in Seq(Vocabulary)
  BY <1>1, <1>4, <1>6, <1>7, AppendProperties
<1>13. o \o Append(a, t) = Append(text, t)
  <2>1. <<t>> \in Seq(Vocabulary) OBVIOUS
  <2>2. Append(a, t) = a \o <<t>> BY <1>7, AppendIsConcat
  <2>3. Append(text, t) = text \o <<t>> BY <1>9, AppendIsConcat
  <2>4. (o \o a) \o <<t>> = o \o (a \o <<t>>) BY <1>5, <1>7, <2>1, ConcatAssociative
  <2> QED BY <1>8, <2>2, <2>3, <2>4
<1>14. Valid(out \o new)'
  <2>1. PICK x : x = Append(text, t) OBVIOUS
  <2>2. (out \o new)' = x BY <1>1, <1>4, <1>12, <1>13, <2>1 DEF request
  <2>3. Valid(x)' BY <1>1, <1>11, <2>1, SameText DEF request
  <2> QED BY <2>2, <2>3
<1>15. Content(out)' = Content(out) /\ InContent(out)' = InContent(out)
  <2>1. Content(o)' = Content(o) /\ InContent(o)' = InContent(o) BY <1>1, SameText DEF request
  <2> QED BY <1>1, <1>4, <2>1 DEF request
<1>16. TypeOK' BY <1>1, <1>2, <1>12, <1>15 DEF TypeOK, matcher, request, mask
<1>17. Whole(hist, processed, Content(out))' BY <1>1, <1>2, <1>15 DEF matcher
<1> QED BY <1>1, <1>14, <1>16, <1>17 DEF GrammarInv

LEMMA DiscardStep ==
    ASSUME GrammarInv, Discard
    PROVE  GrammarInv'
<1>1. pc = "update" /\ pc' = "idle" /\ new' = <<>> /\ UNCHANGED <<matcher, request, mask>>
  BY DEF Discard
<1>2. TypeOK /\ Whole(hist, processed, Content(out)) BY <1>1 DEF GrammarInv
<1>3. Content(out)' = Content(out) /\ InContent(out)' = InContent(out)
  <2>1. PICK o : o = out OBVIOUS
  <2>2. Content(o)' = Content(o) /\ InContent(o)' = InContent(o) BY <1>1, SameText DEF request
  <2> QED BY <1>1, <2>1, <2>2 DEF request
<1>4. new' \in Seq(Vocabulary) BY <1>1, EmptySeq
<1>5. TypeOK' BY <1>1, <1>2, <1>3, <1>4 DEF TypeOK, matcher, request, mask
<1>6. Whole(hist, processed, Content(out))' BY <1>1, <1>2, <1>3 DEF matcher
<1> QED BY <1>1, <1>5, <1>6 DEF GrammarInv

\* check_stop() keeps a beginning of the tokens.
LEMMA AppendedIs ==
    ASSUME new \in Seq(Vocabulary)
    PROVE  \E j \in 0 .. Len(new) : Appended = SubSeq(new, 1, j)
<1>1. Len(new) \in Nat BY LenProperties
<1>2. CASE \E k \in 1 .. Len(new) : StopsAt(k)
  <2> DEFINE S == {k \in 1 .. Len(new) : StopsAt(k)}
  <2>1. PICK n \in S : \A m \in S : n <= m
    <3>1. S \in SUBSET Nat /\ S # {} BY <1>1, <1>2
    <3> HIDE DEF S
    <3> QED BY <3>1, Least
  <2>2. \A m \in 1 .. n - 1 : ~ StopsAt(m)
    <3> SUFFICES ASSUME NEW m \in 1 .. n - 1, StopsAt(m) PROVE FALSE OBVIOUS
    <3>1. m \in S /\ m < n BY <1>1, <2>1
    <3> QED BY <1>1, <2>1, <3>1
  <2>3. PICK j : j = CHOOSE k \in 1 .. Len(new) : StopsAt(k) /\ \A m \in 1 .. k - 1 : ~ StopsAt(m)
    OBVIOUS
  <2>4. j \in 1 .. Len(new) BY <2>1, <2>2, <2>3
  <2>5. Appended = SubSeq(new, 1, j) BY <1>2, <2>3 DEF Appended
  <2> QED BY <1>1, <2>4, <2>5
<1>3. CASE ~ \E k \in 1 .. Len(new) : StopsAt(k)
  <2>1. Appended = new BY <1>3 DEF Appended
  <2>2. SubSeq(new, 1, Len(new)) = new BY SubSeqFull
  <2>3. Len(new) \in 0 .. Len(new) BY <1>1
  <2> QED BY <2>1, <2>2, <2>3
<1> QED BY <1>2, <1>3

LEMMA RestOfConcat ==
    ASSUME NEW T, NEW c \in Seq(T), NEW a \in Seq(T)
    PROVE  SubSeq(c \o a, Len(c) + 1, Len(c \o a)) = a
<1>1. PICK m, n, w : m = Len(c) /\ n = Len(a) /\ w = c \o a OBVIOUS
<1>2. /\ m \in Nat /\ n \in Nat /\ w \in Seq(T) /\ Len(w) = m + n
      /\ \A i \in 1 .. m + n : w[i] = IF i <= m THEN c[i] ELSE a[i - m]
  BY <1>1, ConcatProperties, LenProperties
<1>3. PICK r : r = SubSeq(w, m + 1, Len(w)) OBVIOUS
<1>4. r \in Seq(T) /\ Len(r) = n /\ \A i \in 1 .. n : m + i \in 1 .. m + n /\ r[i] = w[m + i]
  <2>1. m <= Len(w) /\ Len(w) - m = n BY <1>2
  <2> QED BY <1>2, <1>3, <2>1, Rest
<1>5. \A i \in 1 .. n : r[i] = a[i]
  <2> SUFFICES ASSUME NEW i \in 1 .. n PROVE r[i] = a[i] OBVIOUS
  <2>1. PICK j : j = m + i OBVIOUS
  <2>2. j \in 1 .. m + n /\ ~ (j <= m) /\ j - m = i BY <1>2, <2>1
  <2>3. w[j] = a[j - m] BY <1>2, <2>2
  <2> QED BY <1>4, <2>1, <2>2, <2>3
<1>6. r = a BY <1>1, <1>4, <1>5, SeqEqual
<1> QED BY <1>1, <1>3, <1>6

\* What is to be advanced by is what the content has grown by.
LEMMA UpdateStep ==
    ASSUME GrammarInv, Update
    PROVE  GrammarInv'
<1>1. /\ pc = "update" /\ out' = out \o Appended /\ pc' = "advance"
      /\ status' = IF \E k \in 1 .. Len(new) : StopsAt(k) THEN "finished" ELSE status
      /\ ended' = (ended \/ Marker \in ToSet(Appended))
      /\ endIndex' = IF ~ ended /\ ended' THEN Len(out) + MarkerIn(Appended) ELSE endIndex
      /\ new' = IF ended' THEN Trimmed(Appended, endIndex') ELSE <<>>
      /\ UNCHANGED <<matcher, mask, reasons, stops>>
  BY DEF Update
<1>2. TypeOK /\ Whole(hist, processed, Content(out)) /\ Valid(out \o new) BY <1>1 DEF GrammarInv
<1>3. PICK o, N, A, h, p, c :
        o = out /\ N = new /\ A = Appended /\ h = hist /\ p = processed /\ c = Content(out)
  OBVIOUS
<1>4. /\ o \in Seq(Vocabulary) /\ N \in Seq(Vocabulary) /\ Whole(h, p, c) /\ Valid(o \o N)
      /\ h \in Seq(States) /\ p \in Nat
      /\ terminated = (h[p + 1] = Final) /\ ended = InContent(o) /\ ended \in BOOLEAN
      /\ endIndex \in 0 .. Len(o) /\ c = Content(o)
  BY <1>2, <1>3 DEF TypeOK, InContent
<1>5. PICK j \in 0 .. Len(N) : A = SubSeq(N, 1, j) BY <1>3, <1>4, AppendedIs
<1>6. PICK B : B = SubSeq(N, j + 1, Len(N)) OBVIOUS
<1>7. Len(N) \in Nat /\ j \in Nat /\ j <= Len(N) BY <1>4, LenProperties
<1>8. A \in Seq(Vocabulary) /\ B \in Seq(Vocabulary)
  <2>1. \A k \in 1 .. j : N[k] \in Vocabulary
    <3>1. \A k \in 1 .. j : k \in 1 .. Len(N) BY <1>7
    <3> QED BY <1>4, <3>1, ElementOfSeq
  <2>2. A \in Seq(Vocabulary) BY <1>5, <1>7, <2>1, SubSeqProperties
  <2> QED BY <1>4, <1>6, <1>7, <2>2, Rest
<1>9. A \o B = N
  <2>1. 1 \in 1 .. Len(N) + 1 /\ j \in 1 - 1 .. Len(N) /\ Len(N) \in j .. Len(N) BY <1>7
  <2>2. SubSeq(N, 1, j) \o SubSeq(N, j + 1, Len(N)) = SubSeq(N, 1, Len(N))
    BY <1>4, <2>1, ConcatAdjacentSubSeq
  <2> QED BY <1>4, <1>5, <1>6, <2>2, SubSeqFull
<1>10. PICK x : x = o \o A OBVIOUS
<1>11. x \in Seq(Vocabulary) /\ Valid(x)
  <2>1. x \in Seq(Vocabulary) BY <1>4, <1>8, <1>10, ConcatProperties
  <2>2. x \o B = o \o N
    <3>1. o \in Seq(Vocabulary) BY <1>4
    <3>2. (o \o A) \o B = o \o (A \o B) BY <1>8, <3>1, ConcatAssociative, SMTT(30)
    <3> QED BY <1>9, <1>10, <3>2
  <2>3. Valid(x \o B) BY <1>4, <2>2
  <2> QED BY <1>8, <2>1, <2>3, ValidPrefix
<1>12. /\ out' = x /\ Content(x)' = Content(x) /\ InContent(x)' = InContent(x)
       /\ Valid(x)'
  BY <1>1, <1>3, <1>10, <1>11, SameText
<1>13. ended' = InContent(x) /\ InContent(x) \in BOOLEAN
  <2>1. InContent(o) => InContent(x) BY <1>4, <1>8, <1>10, ContentGrows
  <2>2. ~ InContent(o) => (InContent(x) <=> Marker \in ToSet(A)) BY <1>4, <1>8, <1>10, ContentGrows
  <2>3. InContent(x) \in BOOLEAN BY DEF InContent
  <2>4. ended' = (ended \/ Marker \in ToSet(A)) BY <1>1, <1>3
  <2> QED BY <1>4, <2>1, <2>2, <2>3, <2>4
<1>14. Content(x) \in Seq(Vocabulary) /\ Len(Content(x)) \in Nat BY <1>11, ContentType
<1>15. PICK d, L : d = Content(x) /\ L = Len(o) OBVIOUS
<1>16. c \in Seq(Vocabulary) /\ Len(c) \in Nat /\ L \in Nat /\ p \in 0 .. Len(c)
  BY <1>4, <1>15, ContentType, LenProperties DEF Whole, Run
<1>17. Len(x) = L + Len(A) /\ Len(A) \in Nat
  BY <1>4, <1>8, <1>10, <1>15, ConcatProperties, LenProperties
<1>18. /\ new' \in Seq(Vocabulary) /\ endIndex' \in 0 .. L + Len(A)
       /\ Run(h, p, d)
       /\ terminated \/ new' = SubSeq(d, p + 1, Len(d))
  <2>1. CASE ended
    <3>1. ended' /\ endIndex' = endIndex BY <1>1, <2>1
    <3>2. new' = A BY <1>1, <1>3, <1>4, <1>15, <1>16, <3>1, SMTT(30) DEF Trimmed
    <3>3. d = c \o A BY <1>4, <1>8, <1>10, <1>15, <2>1, ContentGrows
    <3>4. /\ Len(d) = Len(c) + Len(A)
          /\ \A k \in 1 .. Len(c) + Len(A) : d[k] = IF k <= Len(c) THEN c[k] ELSE A[k - Len(c)]
      BY <1>8, <1>16, <3>3, ConcatProperties
    <3>5. Run(h, p, d)
      <4>1. p \in 0 .. Len(d) BY <1>16, <1>17, <3>4
      <4>2. \A k \in 1 .. p : d[k] = c[k]
        <5>1. \A k \in 1 .. p : k \in 1 .. Len(c) + Len(A) /\ k <= Len(c) BY <1>16, <1>17
        <5> QED BY <3>4, <5>1
      <4>3. Run(h, p, c) BY <1>4 DEF Whole
      <4> QED BY <4>1, <4>2, <4>3 DEF Run
    <3>6. terminated \/ SubSeq(d, p + 1, Len(d)) = A
      <4>1. SUFFICES ASSUME ~ terminated PROVE SubSeq(d, p + 1, Len(d)) = A OBVIOUS
      <4>2. p = Len(c) BY <1>4, <4>1 DEF Whole
      <4> QED BY <1>8, <1>16, <3>3, <4>2, RestOfConcat
    <3>7. endIndex' \in 0 .. L + Len(A) BY <1>4, <1>15, <1>16, <1>17, <3>1
    <3> QED BY <1>8, <3>2, <3>5, <3>6, <3>7
  <2>2. CASE ~ ended
    <3>1. c = <<>> /\ p = 0
      <4>1. c = <<>> BY <1>4, <2>2, ContentType
      <4>2. Len(c) = 0 BY <4>1, EmptySeq
      <4> QED BY <1>16, <4>1, <4>2
    <3>2. Run(h, p, d)
      <4>1. 0 \in 0 .. Len(d) BY <1>14, <1>15
      <4>2. h[1] = Start BY <1>4 DEF Whole, Run
      <4>3. \A k \in 1 .. 0 : FALSE OBVIOUS
      <4> QED BY <3>1, <4>1, <4>2, <4>3 DEF Run
    <3>3. SubSeq(d, p + 1, Len(d)) = d BY <1>14, <1>15, <3>1, SubSeqFull
    <3>4. CASE Marker \in ToSet(A)
      <4>1. PICK m : m = MarkerIn(A) OBVIOUS
      <4>2. m \in 1 .. Len(A) BY <1>8, <3>4, <4>1, FirstMarker
      <4>3. ended' /\ endIndex' = L + m BY <1>1, <1>3, <1>15, <2>2, <3>4, <4>1
      <4>4. L + m > L /\ L + m - L + 1 = m + 1 /\ L + m \in 0 .. L + Len(A)
        BY <1>16, <1>17, <4>2
      <4>5. new' = SubSeq(A, m + 1, Len(A))
        <5>1. PICK e : e = L + m OBVIOUS
        <5>2. new' = Trimmed(A, e) BY <1>1, <1>3, <4>3, <5>1
        <5>3. e > L /\ e - L + 1 = m + 1 BY <1>16, <1>17, <4>2, <5>1
        <5> QED BY <1>3, <1>15, <5>2, <5>3 DEF Trimmed
      <4>6. d = SubSeq(A, m + 1, Len(A))
        BY <1>4, <1>8, <1>10, <1>15, <2>2, <3>4, <4>1, ContentGrows
      <4>7. new' = d BY <4>5, <4>6
      <4> QED BY <1>14, <1>15, <3>2, <3>3, <4>3, <4>4, <4>7
    <3>5. CASE Marker \notin ToSet(A)
      <4>1. ~ ended' BY <1>1, <1>3, <2>2, <3>5
      <4>2. new' = <<>> /\ endIndex' = endIndex BY <1>1, <4>1
      <4>3. d = <<>> BY <1>4, <1>8, <1>10, <1>15, <2>2, <3>5, ContentGrows
      <4>4. endIndex' \in 0 .. L + Len(A) BY <1>4, <1>15, <1>16, <1>17, <4>2
      <4> QED BY <1>14, <1>15, <3>2, <3>3, <4>2, <4>3, <4>4
    <3> QED BY <3>4, <3>5
  <2> QED BY <2>1, <2>2
<1>19. TypeOK'
  <2>1. UNCHANGED <<hist, processed, terminated, drafts, rows, apply, window, advanced, reasons>>
    BY <1>1 DEF matcher, mask
  <2>2. out' \in Seq(Vocabulary) /\ new' \in Seq(Vocabulary) /\ endIndex' \in 0 .. Len(out')
    BY <1>11, <1>12, <1>17, <1>18
  <2>3. ended' = InContent(out)' BY <1>12, <1>13
  <2>4. status' \in {"running", "finished"} BY <1>1, <1>2 DEF TypeOK
  <2> QED BY <1>1, <1>2, <2>1, <2>2, <2>3, <2>4 DEF TypeOK
<1>20. Advancing'
  <2>1. Run(hist', processed', Content(out)') BY <1>1, <1>3, <1>12, <1>15, <1>18 DEF matcher
  <2>2. Valid(out)' BY <1>12
  <2>3. terminated' \/ new' = SubSeq(Content(out)', processed' + 1, Len(Content(out)'))
    BY <1>1, <1>3, <1>12, <1>15, <1>18 DEF matcher
  <2> QED BY <2>1, <2>2, <2>3 DEF Advancing
<1> QED BY <1>1, <1>19, <1>20 DEF GrammarInv

\* The matcher takes what was accepted: the text has a run, and it is on it.
LEMMA AdvanceStep ==
    ASSUME GrammarInv, Advance
    PROVE  GrammarInv'
<1>1. pc = "advance" /\ UNCHANGED <<out, ended, endIndex, reasons, stops, mask>> BY DEF Advance
<1>2. TypeOK /\ Advancing BY <1>1 DEF GrammarInv
<1>3. PICK o, h, p, c : o = out /\ h = hist /\ p = processed /\ c = Content(out) OBVIOUS
<1>4. /\ o \in Seq(Vocabulary) /\ h \in Seq(States) /\ p \in Nat /\ Len(h) = p + 1
      /\ Run(h, p, c) /\ c = Content(o)
      /\ terminated = (h[p + 1] = Final)
      /\ terminated \/ new = SubSeq(c, p + 1, Len(c))
  BY <1>2, <1>3 DEF TypeOK, Advancing
<1>5. c \in Seq(Vocabulary) /\ Len(c) \in Nat /\ p \in 0 .. Len(c)
  BY <1>4, ContentType DEF Run
<1>6. Content(out)' = c /\ InContent(out)' = InContent(out) /\ (Valid(out)' <=> Valid(out))
  <2>1. Content(o)' = Content(o) /\ InContent(o)' = InContent(o) /\ (Valid(o)' <=> Valid(o))
    BY <1>1, SameText
  <2> QED BY <1>1, <1>3, <2>1
<1>7. Last(hist) = h[p + 1] /\ h[p + 1] \in States BY <1>2, <1>3, Matcher
<1>8. CASE AdvanceEnds
  <2>1. pc' = "idle" /\ new' = <<>> /\ UNCHANGED <<matcher, status>> BY <1>8 DEF Advance
  <2>2. Whole(h, p, c)
    <3>1. CASE terminated BY <1>4, <3>1 DEF Whole
    <3>2. CASE ~ terminated
      <4>1. PICK r : r = SubSeq(c, p + 1, Len(c)) OBVIOUS
      <4>2. Len(r) = Len(c) - p BY <1>5, <4>1, Rest
      <4>3. r = <<>> BY <1>4, <1>8, <3>2, <4>1 DEF AdvanceEnds
      <4>4. Len(r) = 0 BY <4>3, EmptySeq
      <4>5. p = Len(c) BY <1>5, <4>2, <4>4
      <4> QED BY <1>4, <4>5 DEF Whole
    <3> QED BY <3>1, <3>2
  <2>3. Whole(hist, processed, Content(out))' BY <1>3, <1>6, <2>1, <2>2 DEF matcher
  <2>4. new' \in Seq(Vocabulary) BY <2>1, EmptySeq
  <2>5. TypeOK' BY <1>1, <1>2, <1>6, <2>1, <2>4 DEF TypeOK, matcher, mask
  <2> QED BY <2>1, <2>3, <2>5 DEF GrammarInv
<1>9. CASE ~ AdvanceEnds
  <2>1. ~ terminated /\ new = SubSeq(c, p + 1, Len(c)) /\ new # <<>>
    BY <1>4, <1>9 DEF AdvanceEnds
  <2>2. p + 1 <= Len(c)
    <3>1. SUFFICES ASSUME ~ (p + 1 <= Len(c)) PROVE FALSE OBVIOUS
    <3>2. p + 1 \in Int /\ Len(c) \in Int /\ Len(c) < p + 1 BY <1>5, <3>1
    <3>3. SubSeq(c, p + 1, Len(c)) = <<>> BY <3>2, SubSeqEmpty
    <3> QED BY <2>1, <3>3
  <2>3. PICK t : t = c[p + 1] OBVIOUS
  <2>4. Head(new) = t /\ Tail(new) = SubSeq(c, p + 1 + 1, Len(c))
    <3>1. p + 1 \in 1 .. Len(c) /\ Len(c) \in p + 1 .. Len(c) BY <1>5, <2>2
    <3> QED BY <1>5, <2>1, <2>3, <3>1, HeadTailOfSubSeq
  <2>5. h[p + 1] # Final BY <1>4, <2>1
  <2>6. Step(h[p + 1], t) # Reject
    <3>1. Valid(o) BY <1>2, <1>3 DEF Advancing
    <3>2. PICK g \in Seq(States), q \in Nat : Len(g) = q + 1 /\ Whole(g, q, c)
      BY <1>4, <3>1 DEF Valid
    <3>3. Run(g, q, c) /\ (g[q + 1] = Final \/ q = Len(c)) /\ q \in 0 .. Len(c)
      BY <3>2 DEF Whole, Run
    <3>4. p <= q
      <4>1. SUFFICES ASSUME q < p PROVE FALSE BY <1>4, <3>2
      <4>2. g[q + 1] = Final BY <1>5, <3>3, <4>1
      <4>3. \A k \in 1 .. q + 1 : g[k] = h[k] BY <1>4, <3>2, <3>3, <4>1, RunsAgree
      <4>4. g[q + 1] = h[q + 1] BY <3>2, <4>3
      <4>5. q + 1 \in 1 .. p BY <1>4, <3>2, <4>1
      <4>6. h[q + 1] # Final BY <1>4, <4>5 DEF Run
      <4> QED BY <4>2, <4>4, <4>6
    <3>5. \A k \in 1 .. p + 1 : h[k] = g[k] BY <1>4, <3>2, <3>3, <3>4, RunsAgree
    <3>6. h[p + 1] = g[p + 1] BY <1>4, <3>5
    <3>7. p < q
      <4>1. SUFFICES ASSUME p = q PROVE FALSE BY <1>4, <3>2, <3>4
      <4>2. g[q + 1] # Final BY <2>5, <3>6, <4>1
      <4>3. q = Len(c) BY <3>3, <4>2
      <4> QED BY <1>5, <2>2, <4>1, <4>3
    <3>8. p + 1 \in 1 .. q /\ p + 1 + 1 \in 1 .. Len(g) BY <1>4, <3>2, <3>7
    <3>9. Step(g[p + 1], c[p + 1]) = g[p + 1 + 1] BY <3>3, <3>8 DEF Run
    <3>10. g[p + 1 + 1] \in States BY <3>2, <3>8, ElementOfSeq
    <3> QED BY <2>3, <3>6, <3>9, <3>10, Constants
  <2>7. PICK u : u = Step(h[p + 1], t) OBVIOUS
  <2>8. u \in States BY <1>7, <2>6, <2>7, Constants
  <2>9. /\ hist' = Append(h, u) /\ processed' = p + 1 /\ terminated' = (u = Final)
        /\ new' = Tail(new) /\ UNCHANGED <<status, pc>>
    BY <1>3, <1>7, <1>9, <2>4, <2>6, <2>7 DEF Advance, AcceptToken
  <2>10. PICK g : g = Append(h, u) OBVIOUS
  <2>11. /\ g \in Seq(States) /\ Len(g) = p + 1 + 1 /\ g[p + 1 + 1] = u
         /\ \A k \in 1 .. p + 1 : g[k] = h[k]
    BY <1>4, <2>8, <2>10, AppendProperties
  <2>12. Run(g, p + 1, c)
    <3>1. p + 1 \in 0 .. Len(c) BY <1>5, <2>2
    <3>2. g[1] = Start BY <1>4, <2>11 DEF Run
    <3>3. \A k \in 1 .. p + 1 : g[k] # Final /\ Step(g[k], c[k]) = g[k + 1]
      <4> SUFFICES ASSUME NEW k \in 1 .. p + 1
          PROVE g[k] # Final /\ Step(g[k], c[k]) = g[k + 1]
        OBVIOUS
      <4>1. CASE k = p + 1 BY <2>3, <2>5, <2>7, <2>11, <4>1
      <4>2. CASE k # p + 1
        <5>1. k \in 1 .. p /\ k + 1 \in 1 .. p + 1 BY <1>4, <4>2
        <5>2. h[k] # Final /\ Step(h[k], c[k]) = h[k + 1] BY <1>4, <5>1 DEF Run
        <5> QED BY <2>11, <5>1, <5>2
      <4> QED BY <4>1, <4>2
    <3> QED BY <3>1, <3>2, <3>3 DEF Run
  <2>13. new' = SubSeq(c, p + 1 + 1, Len(c)) /\ new' \in Seq(Vocabulary)
    <3>1. p + 1 \in Nat /\ p + 1 <= Len(c) BY <1>4, <2>2
    <3> QED BY <1>5, <2>4, <2>9, <3>1, Rest
  <2>14. hist' = g /\ processed' \in Nat BY <1>4, <2>9, <2>10
  <2>15. TypeOK'
    BY <1>1, <1>2, <1>6, <2>9, <2>11, <2>13, <2>14 DEF TypeOK, mask
  <2>16. Advancing' BY <1>2, <1>6, <2>9, <2>12, <2>13, <2>14 DEF Advancing
  <2>17. pc' = "advance" BY <1>1, <2>9
  <2> QED BY <2>15, <2>16, <2>17 DEF GrammarInv
<1> QED BY <1>8, <1>9

-----------------------------------------------------------------------------
(* The theorems on structured output *)

LEMMA GrammarInit == Init => GrammarInv
<1> SUFFICES ASSUME Init PROVE GrammarInv OBVIOUS
<1>1. /\ hist = <<Start>> /\ processed = 0 /\ terminated = FALSE /\ out = <<>>
      /\ reasons \in BOOLEAN /\ ended = ~ reasons /\ endIndex = 0 /\ status = "running"
      /\ drafts = <<>> /\ rows = <<>> /\ apply = FALSE /\ window = FALSE /\ advanced = 0
      /\ new = <<>> /\ pc = "idle"
  BY DEF Init
<1>2. /\ <<Start>> \in Seq(States) /\ Len(<<Start>>) = 0 + 1 /\ <<Start>>[0 + 1] = Start
      /\ <<Start>>[1] = Start
  BY Constants
<1>3. Len(<<>>) = 0 /\ \A T : <<>> \in Seq(T) BY EmptySeq
<1>4. Marker \notin ToSet(<<>>)
  <2>1. <<>> \in Seq(Vocabulary) BY <1>3
  <2>2. \A k \in 1 .. Len(<<>>) : FALSE BY <1>3
  <2> QED BY <2>1, <2>2, ToSetOf
<1>5. InContent(out) = ~ reasons /\ Content(out) = <<>> BY <1>1, <1>4 DEF InContent, Content
<1>6. Whole(hist, processed, Content(out)) BY <1>1, <1>2, <1>3, <1>5 DEF Whole, Run
<1>7. hist \in Seq(States) /\ processed \in Nat /\ Len(hist) = processed + 1
      /\ terminated = (hist[processed + 1] = Final)
  BY <1>1, <1>2, Constants
<1>8. endIndex \in 0 .. Len(out) /\ advanced \in Nat BY <1>1, <1>3
<1>9. TypeOK BY <1>1, <1>3, <1>5, <1>7, <1>8 DEF TypeOK
<1> QED BY <1>1, <1>6, <1>9 DEF GrammarInv

LEMMA StutterStep ==
    ASSUME GrammarInv, UNCHANGED <<matcher, request, mask, new, pc>>
    PROVE  GrammarInv'
<1>1. UNCHANGED <<hist, processed, terminated, out, ended, endIndex, status, reasons, drafts, rows,
                  apply, window, advanced, new, pc>>
  BY DEF matcher, request, mask
<1>2. ASSUME NEW text PROVE /\ Content(text)' = Content(text) /\ InContent(text)' = InContent(text)
                            /\ (Valid(text)' <=> Valid(text)) /\ Exact(text)' = Exact(text)
  BY <1>1, SameText
<1>3. PICK o, x : o = out /\ x = out \o new OBVIOUS
<1>4. /\ Content(out)' = Content(out) /\ InContent(out)' = InContent(out)
      /\ (Valid(out)' <=> Valid(out)) /\ (Valid(out \o new)' <=> Valid(out \o new))
  <2>1. Content(o)' = Content(o) /\ InContent(o)' = InContent(o) /\ (Valid(o)' <=> Valid(o))
    BY <1>2
  <2>2. Valid(x)' <=> Valid(x) BY <1>2
  <2>3. out' = o /\ (out \o new)' = x BY <1>1, <1>3
  <2> QED BY <1>3, <2>1, <2>2, <2>3
<1>5. ASSUME NEW n
      PROVE  /\ Content(Ahead(n))' = Content(Ahead(n)) /\ InContent(Ahead(n))' = InContent(Ahead(n))
             /\ (Valid(Ahead(n))' <=> Valid(Ahead(n))) /\ Exact(Ahead(n))' = Exact(Ahead(n))
             /\ (Reached(n)' <=> Reached(n))
  <2>1. PICK text : text = Ahead(n) OBVIOUS
  <2>2. Ahead(n)' = text BY <1>1, <2>1 DEF Ahead
  <2>3. Reached(n)' <=> Reached(n) BY <1>1 DEF Reached
  <2>4. /\ Content(text)' = Content(text) /\ InContent(text)' = InContent(text)
        /\ (Valid(text)' <=> Valid(text)) /\ Exact(text)' = Exact(text)
    BY <1>2
  <2> QED BY <2>1, <2>2, <2>3, <2>4
<1>6. TypeOK' BY <1>1, <1>4 DEF TypeOK, GrammarInv
<1>7. RowsExact => RowsExact'
  <2> SUFFICES ASSUME RowsExact, NEW k \in 1 .. Len(rows), Reached(k - 1)
      PROVE  Valid(Ahead(k - 1))' /\ rows[k] = Exact(Ahead(k - 1))'
    BY <1>1, <1>5 DEF RowsExact
  <2>1. Valid(Ahead(k - 1)) /\ rows[k] = Exact(Ahead(k - 1)) BY DEF RowsExact
  <2>2. PICK n : n = k - 1 OBVIOUS
  <2> QED BY <1>5, <2>1, <2>2
<1>8. Filter => Filter' BY <1>1 DEF Filter
<1>9. Masking => Masking'
  <2> SUFFICES ASSUME Masking PROVE Masking' OBVIOUS
  <2>1. PICK n : n = Len(rows) OBVIOUS
  <2>2. Reached(n) => /\ Whole(hist, processed, Content(Ahead(n)))
                      /\ apply = InContent(Ahead(n))
    BY <2>1 DEF Masking
  <2>3. Reached(n)' => /\ Whole(hist, processed, Content(Ahead(n)))'
                       /\ (apply = InContent(Ahead(n)))'
    BY <1>1, <1>5, <2>2
  <2>4. Whole(hist, processed - advanced, Content(out))' BY <1>1, <1>4 DEF Masking
  <2>5. Len(rows)' = n BY <1>1, <2>1
  <2> QED BY <1>1, <1>7, <1>8, <2>3, <2>4, <2>5 DEF Masking
<1>10. Advancing => Advancing' BY <1>1, <1>4 DEF Advancing
<1> QED BY <1>1, <1>4, <1>6, <1>7, <1>9, <1>10 DEF GrammarInv

LEMMA GrammarNext == GrammarInv /\ [Next]_vars => GrammarInv'
<1> SUFFICES ASSUME GrammarInv, [Next]_vars PROVE GrammarInv' OBVIOUS
<1>1. ASSUME NEW n \in 0 .. SpecTokens, NEW toks \in [1 .. n -> Vocabulary], Draft(toks)
      PROVE GrammarInv'
  BY <1>1, DraftStep
<1>2. CASE MaskPad BY <1>2, MaskPadStep
<1>3. CASE MaskMarker BY <1>3, MaskMarkerStep
<1>4. CASE MaskAdvance BY <1>4, MaskAdvanceStep
<1>5. CASE MaskReject BY <1>5, MaskRejectStep
<1>6. CASE MaskFree BY <1>6, MaskFreeStep
<1>7. CASE MaskLast BY <1>7, MaskLastStep
<1>8. ASSUME NEW n \in 0 .. SpecTokens, NEW t \in Vocabulary, Sample(n, t) PROVE GrammarInv'
  BY <1>8, SampleStep
<1>9. CASE Update BY <1>9, UpdateStep
<1>10. CASE Discard BY <1>10, DiscardStep
<1>11. CASE Advance BY <1>11, AdvanceStep
<1>12. CASE UNCHANGED vars
  <2>1. UNCHANGED <<matcher, request, mask, new, pc>> BY <1>12 DEF vars
  <2> QED BY <2>1, StutterStep
<1> QED BY <1>1, <1>2, <1>3, <1>4, <1>5, <1>6, <1>7, <1>8, <1>9, <1>10, <1>11, <1>12 DEF Next

\* Runs, exact rows and filtered drafts, in every reachable state.
THEOREM GrammarInvariant == Spec => []GrammarInv
BY GrammarInit, GrammarNext, PTL DEF Spec

\* Between two steps the matcher is where the content of the output has brought
\* it: no accepted token is ever rejected by the matcher, no filtered draft
\* raises the exception of grammar_bitmask().
THEOREM MatcherFollows == Spec => []FollowsOutput
<1>1. GrammarInv => FollowsOutput
  <2> SUFFICES ASSUME GrammarInv, pc = "idle" PROVE FollowsOutput BY DEF FollowsOutput
  <2>1. TypeOK /\ Whole(hist, processed, Content(out)) BY DEF GrammarInv
  <2>2. PICK c : c = Content(out) OBVIOUS
  <2>3. processed <= Len(c) BY <2>1, <2>2 DEF Whole, Run, TypeOK
  <2> QED BY <2>1, <2>2, <2>3 DEF FollowsOutput, TypeOK, Whole, Run
<1> QED BY <1>1, GrammarInvariant, PTL

\* The sampler gets exactly what the grammar allows at every position that it
\* can reach.
THEOREM RowsAreExact == Spec => []MasksExact
<1>1. GrammarInv => MasksExact
  <2> SUFFICES ASSUME GrammarInv, pc = "sample", NEW k \in 1 .. Len(rows), Reached(k - 1)
      PROVE  rows[k] = Exact(Ahead(k - 1))
    BY DEF MasksExact, Reached, Exact, Ahead
  <2>1. RowsExact BY DEF GrammarInv
  <2> QED BY <2>1 DEF RowsExact
<1> QED BY <1>1, GrammarInvariant, PTL

-----------------------------------------------------------------------------
(* The thinking budget: the invariant *)

BudgetTypeOK ==
    /\ state \in [Reqs -> {"new", "running", "preempted"}]
    /\ wish \in [Reqs -> Budgets \cup {None}] /\ opens \in [Reqs -> BOOLEAN]
    /\ gen \in [Reqs -> Seq(TokenKinds)] /\ pend \in [Reqs -> Seq(TokenKinds)]
    /\ slot \in [Reqs -> Slots \cup {NoSlot}]
    /\ budget \in [Slots -> Budgets \cup {None}]
    /\ active \in [Slots -> BOOLEAN] /\ use \in [Slots -> BOOLEAN]
    /\ batch \in Seq(Reqs) /\ draftTokens \in [Reqs -> Seq(TokenKinds)]

\* The running requests have slots of their own.
SlotsHeld ==
    /\ \A r \in Reqs : state[r] = "running" <=> slot[r] # NoSlot
    /\ \A r, q \in Reqs : slot[r] = slot[q] /\ slot[r] # NoSlot => r = q
    /\ \A r \in Reqs : state[r] = "new" => gen[r] = <<>> /\ pend[r] = <<>>

\* The request has a budget and still reasons.
Reasons(r) == wish[r] # None /\ opens[r] /\ End \notin ToSet(Text(r))

\* A slot says of its request what is true of it.
SlotsTrue ==
    \A r \in Reqs :
        state[r] = "running" =>
            /\ budget[slot[r]] = wish[r]
            /\ use[slot[r]] = (wish[r] # None)
            /\ active[slot[r]] = Reasons(r)

\* The end is forced in a row that uses the budget up, and in no other.
UsesUp(r, row, toks) ==
    /\ Reasons(r) /\ Len(Text(r)) + row - 1 = wish[r]
    /\ \A j \in 1 .. row - 1 : toks[j] # End

BatchForced ==
    /\ IsInjective(batch)
    /\ \A k \in 1 .. Len(batch) : state[batch[k]] = "running"
    /\ \A k \in 1 .. Len(batch) : \A row \in 1 .. Len(draftTokens[batch[k]]) + 1 :
           <<batch[k], row>> \in forced <=> UsesUp(batch[k], row, draftTokens[batch[k]])

BudgetInv == BudgetTypeOK /\ SlotsHeld /\ SlotsTrue /\ BatchForced /\ BudgetKept

-----------------------------------------------------------------------------
(* Blocks laid one after the other *)

\* Blocks one after the other: off[k] rows come before block k.
LaidUpTo(rs, blocks, off, n) ==
    /\ off[1] = 0
    /\ \A k \in 1 .. n : /\ off[k + 1] = off[k] + Len(blocks[k])
                         /\ \A j \in 1 .. Len(blocks[k]) : rs[off[k] + j] = blocks[k][j]
    /\ Len(rs) = off[n + 1]
    /\ \A k \in 1 .. n + 1 : off[k] <= Len(rs)

Laid(rs, blocks, off) ==
    off \in [1 .. Len(blocks) + 1 -> Nat] /\ LaidUpTo(rs, blocks, off, Len(blocks))

\* One more block.
LEMMA LayOne ==
    ASSUME NEW T, NEW blocks \in Seq(Seq(T)), NEW n \in Nat, n + 1 <= Len(blocks),
           NEW rs \in Seq(T), NEW off \in [1 .. n + 1 -> Nat], LaidUpTo(rs, blocks, off, n)
    PROVE  /\ rs \o blocks[n + 1] \in Seq(T)
           /\ \E g \in [1 .. n + 1 + 1 -> Nat] : LaidUpTo(rs \o blocks[n + 1], blocks, g, n + 1)
<1>1. PICK b : b = blocks[n + 1] OBVIOUS
<1>2. Len(blocks) \in Nat BY LenProperties
<1>3. \A k \in 1 .. n + 1 : blocks[k] \in Seq(T) /\ Len(blocks[k]) \in Nat
  <2> SUFFICES ASSUME NEW k \in 1 .. n + 1 PROVE blocks[k] \in Seq(T) /\ Len(blocks[k]) \in Nat
    OBVIOUS
  <2>1. k \in 1 .. Len(blocks) BY <1>2
  <2>2. blocks[k] \in Seq(T) BY <2>1, ElementOfSeq
  <2> QED BY <2>2, LenProperties
<1>4. b \in Seq(T) /\ Len(b) \in Nat BY <1>1, <1>3
<1>5. PICK w, L : w = rs \o b /\ L = Len(rs) OBVIOUS
<1>6. /\ w \in Seq(T) /\ L \in Nat /\ Len(w) = L + Len(b)
      /\ \A i \in 1 .. L + Len(b) : w[i] = IF i <= L THEN rs[i] ELSE b[i - L]
  BY <1>4, <1>5, ConcatProperties, LenProperties
<1>7. /\ off[1] = 0 /\ L = off[n + 1] /\ \A k \in 1 .. n + 1 : off[k] <= L
      /\ \A k \in 1 .. n : /\ off[k + 1] = off[k] + Len(blocks[k])
                           /\ \A j \in 1 .. Len(blocks[k]) : rs[off[k] + j] = blocks[k][j]
  BY <1>5 DEF LaidUpTo
<1>8. PICK g : g = [k \in 1 .. n + 1 + 1 |-> IF k = n + 1 + 1 THEN L + Len(b) ELSE off[k]] OBVIOUS
<1>9. /\ g \in [1 .. n + 1 + 1 -> Nat] /\ g[n + 1 + 1] = L + Len(b)
      /\ \A k \in 1 .. n + 1 : g[k] = off[k]
  BY <1>4, <1>6, <1>8
<1>10. \A k \in 1 .. n + 1 + 1 : g[k] <= Len(w)
  <2> SUFFICES ASSUME NEW k \in 1 .. n + 1 + 1 PROVE g[k] <= Len(w) OBVIOUS
  <2>1. CASE k = n + 1 + 1 BY <1>4, <1>6, <1>9, <2>1
  <2>2. CASE k # n + 1 + 1
    <3>1. k \in 1 .. n + 1 BY <2>2
    <3>2. g[k] = off[k] /\ off[k] <= L /\ off[k] \in Nat BY <1>7, <1>9, <3>1
    <3> QED BY <1>4, <1>6, <3>2
  <2> QED BY <2>1, <2>2
<1>11. ASSUME NEW k \in 1 .. n + 1
       PROVE  /\ g[k + 1] = g[k] + Len(blocks[k])
              /\ \A j \in 1 .. Len(blocks[k]) : w[g[k] + j] = blocks[k][j]
  <2>1. CASE k = n + 1
    <3>1. g[k] = L /\ g[k + 1] = L + Len(b) /\ blocks[k] = b BY <1>1, <1>7, <1>9, <2>1
    <3>2. ASSUME NEW j \in 1 .. Len(b) PROVE w[L + j] = b[j]
      <4>1. PICK i : i = L + j OBVIOUS
      <4>2. i \in 1 .. L + Len(b) /\ ~ (i <= L) /\ i - L = j BY <1>4, <1>6, <4>1
      <4>3. w[i] = b[i - L] BY <1>6, <4>2
      <4> QED BY <4>1, <4>2, <4>3
    <3> QED BY <3>1, <3>2
  <2>2. CASE k # n + 1
    <3>1. k \in 1 .. n /\ k + 1 \in 1 .. n + 1 BY <2>2
    <3>2. g[k] = off[k] /\ g[k + 1] = off[k + 1] /\ off[k + 1] = off[k] + Len(blocks[k])
      BY <1>7, <1>9, <3>1
    <3>3. off[k] \in Nat /\ off[k + 1] <= L
      <4>1. k \in 1 .. n + 1 BY <3>1
      <4> QED BY <1>7, <3>1, <4>1
    <3>5. Len(blocks[k]) \in Nat BY <1>3
    <3>4. ASSUME NEW j \in 1 .. Len(blocks[k]) PROVE w[g[k] + j] = blocks[k][j]
      <4>1. PICK i : i = off[k] + j OBVIOUS
      <4>2. i \in 1 .. L + Len(b) /\ i <= L
        <5>1. PICK a, l, m : a = off[k] /\ l = Len(blocks[k]) /\ m = Len(b) OBVIOUS
        <5>2. a \in Nat /\ l \in Nat /\ m \in Nat /\ a + l <= L /\ i = a + j /\ j \in 1 .. l
          BY <1>4, <3>2, <3>3, <3>5, <4>1, <5>1
        <5>3. L \in Nat BY <1>6
        <5>4. i \in 1 .. L + m /\ i <= L BY <5>2, <5>3
        <5> QED BY <5>1, <5>4
      <4>3. w[i] = rs[i] BY <1>6, <4>2
      <4> QED BY <1>7, <3>1, <3>2, <4>1, <4>3
    <3> QED BY <3>2, <3>4
  <2> QED BY <2>1, <2>2
<1>12. g[1] = 0 BY <1>7, <1>9
<1>13. LaidUpTo(w, blocks, g, n + 1) BY <1>6, <1>9, <1>10, <1>11, <1>12 DEF LaidUpTo
<1> QED BY <1>1, <1>5, <1>6, <1>9, <1>13

\* FlattenSeq() lays its blocks one after the other.
LEMMA Flattened ==
    ASSUME NEW T, NEW blocks \in Seq(Seq(T)), Len(blocks) # 0
    PROVE  FlattenSeq(blocks) \in Seq(T) /\ \E off : Laid(FlattenSeq(blocks), blocks, off)
<1> DEFINE Next1(f, k) == IF k = 1 THEN blocks[k] ELSE f[k - 1] \o blocks[k]
           f0 == CHOOSE f : f = [k \in 1 .. Len(blocks) |-> Next1(f, k)]
           Good(f, n) == f \in [1 .. n -> Seq(T)] /\ \A k \in 1 .. n : f[k] = Next1(f, k)
           Built(n) == \E f : Good(f, n) /\
                            \E off \in [1 .. n + 1 -> Nat] : LaidUpTo(f[n], blocks, off, n)
<1>1. PICK N : N = Len(blocks) OBVIOUS
<1>2. N \in Nat /\ N # 0 /\ \A k \in 1 .. N : blocks[k] \in Seq(T)
  BY <1>1, LenProperties, ElementOfSeq
<1>3. FlattenSeq(blocks) = f0[N] BY <1>1 DEF FlattenSeq
<1>4. Built(1)
  <2>1. PICK b : b = blocks[1] OBVIOUS
  <2>2. b \in Seq(T) /\ Len(b) \in Nat
    <3>1. 1 \in 1 .. N BY <1>2
    <3> QED BY <1>2, <2>1, <3>1, LenProperties
  <2>3. PICK f : f = [k \in 1 .. 1 |-> b] OBVIOUS
  <2>4. f[1] = b /\ f \in [1 .. 1 -> Seq(T)] BY <2>2, <2>3
  <2>5. Good(f, 1)
    <3>1. \A k \in 1 .. 1 : k = 1 OBVIOUS
    <3> QED BY <2>1, <2>4, <3>1
  <2>6. PICK off : off = [k \in 1 .. 1 + 1 |-> IF k = 1 THEN 0 ELSE Len(b)] OBVIOUS
  <2>7. off \in [1 .. 1 + 1 -> Nat] /\ off[1] = 0 /\ off[1 + 1] = Len(b) BY <2>2, <2>6
  <2>8. LaidUpTo(f[1], blocks, off, 1)
    <3>1. \A k \in 1 .. 1 : k = 1 OBVIOUS
    <3>2. \A k \in 1 .. 1 + 1 : off[k] <= Len(b)
      <4>1. \A k \in 1 .. 1 + 1 : k = 1 \/ k = 1 + 1 OBVIOUS
      <4> QED BY <2>2, <2>7, <4>1
    <3>3. \A j \in 1 .. Len(b) : 0 + j = j BY <2>2
    <3>4. 0 + Len(b) = Len(b) BY <2>2
    <3> QED BY <2>1, <2>4, <2>7, <3>1, <3>2, <3>3, <3>4 DEF LaidUpTo
  <2> QED BY <2>5, <2>7, <2>8
<1>5. ASSUME NEW n \in 1 .. N, n < N, Built(n) PROVE Built(n + 1)
  <2>1. PICK f : Good(f, n) /\ \E off \in [1 .. n + 1 -> Nat] : LaidUpTo(f[n], blocks, off, n)
    BY <1>5
  <2>2. PICK off \in [1 .. n + 1 -> Nat] : LaidUpTo(f[n], blocks, off, n) BY <2>1
  <2>3. PICK rs : rs = f[n] OBVIOUS
  <2>4. rs \in Seq(T) BY <2>1, <2>3
  <2>5. PICK w : w = rs \o blocks[n + 1] OBVIOUS
  <2>6. w \in Seq(T) /\ \E g \in [1 .. n + 1 + 1 -> Nat] : LaidUpTo(w, blocks, g, n + 1)
    <3>1. n \in Nat /\ n + 1 <= Len(blocks) BY <1>1, <1>2, <1>5
    <3>2. LaidUpTo(rs, blocks, off, n) BY <2>2, <2>3
    <3> QED BY <2>4, <2>5, <3>1, <3>2, LayOne
  <2>7. PICK g : g = [k \in 1 .. n + 1 |-> IF k = n + 1 THEN w ELSE f[k]] OBVIOUS
  <2>8. g \in [1 .. n + 1 -> Seq(T)] /\ g[n + 1] = w /\ \A k \in 1 .. n : g[k] = f[k]
    BY <2>1, <2>6, <2>7, SMTT(30)
  <2>9. Good(g, n + 1)
    <3> SUFFICES ASSUME NEW k \in 1 .. n + 1 PROVE g[k] = Next1(g, k) BY <2>8
    <3>1. CASE k = n + 1
      <4>1. k # 1 /\ k - 1 = n /\ n \in 1 .. n BY <3>1
      <4>2. g[k - 1] = rs BY <2>3, <2>8, <4>1
      <4> QED BY <2>5, <2>8, <3>1, <4>1, <4>2
    <3>2. CASE k # n + 1
      <4>1. k \in 1 .. n /\ (k # 1 => k - 1 \in 1 .. n) BY <3>2
      <4>2. f[k] = Next1(f, k) BY <2>1, <4>1
      <4> QED BY <2>8, <4>1, <4>2
    <3> QED BY <3>1, <3>2
  <2> QED BY <2>6, <2>8, <2>9
<1>6. Built(N)
  <2> DEFINE S == {k \in 1 .. N : ~ Built(k)}
  <2> HIDE DEF Built
  <2>1. SUFFICES ASSUME S # {} PROVE FALSE BY <1>2
  <2>2. PICK m \in S : \A k \in S : m <= k
    <3>1. S \in SUBSET Nat OBVIOUS
    <3> HIDE DEF S
    <3> QED BY <2>1, <3>1, Least
  <2>3. m # 1 BY <1>4
  <2>4. m - 1 \in 1 .. N /\ m - 1 < N /\ m - 1 + 1 = m BY <1>2, <2>2, <2>3
  <2>5. m - 1 \notin S BY <2>2, <2>4
  <2>6. Built(m - 1) BY <2>4, <2>5
  <2> QED BY <1>5, <2>4, <2>6
<1>7. PICK F : Good(F, N) /\ \E off \in [1 .. N + 1 -> Nat] : LaidUpTo(F[N], blocks, off, N)
  BY <1>6
<1>8. f0 = [k \in 1 .. N |-> Next1(f0, k)]
  <2>1. F = [k \in 1 .. N |-> Next1(F, k)] BY <1>7
  <2> QED BY <1>1, <2>1
<1>9. f0[N] = F[N]
  <2> DEFINE Bad == {k \in 1 .. N : f0[k] # F[k]}
  <2> HIDE DEF f0
  <2>7. N \in 1 .. N BY <1>2
  <2>1. SUFFICES ASSUME Bad # {} PROVE FALSE
    <3>1. N \notin Bad => f0[N] = F[N] BY <2>7
    <3> QED BY <3>1
  <2>2. PICK m \in Bad : \A k \in Bad : m <= k
    <3>1. Bad \in SUBSET Nat BY <1>2
    <3> HIDE DEF Bad
    <3> QED BY <2>1, <3>1, Least
  <2>3. f0[m] = Next1(f0, m) /\ F[m] = Next1(F, m)
    <3>1. m \in 1 .. N OBVIOUS
    <3>2. \A k \in 1 .. N : f0[k] = Next1(f0, k) BY <1>8
    <3> QED BY <3>1, <3>2, <1>7
  <2>4. m # 1 BY <2>3
  <2>5. m - 1 \in 1 .. N /\ m - 1 \notin Bad BY <2>2, <2>4, <1>2
  <2>6. f0[m - 1] = F[m - 1] BY <2>5
  <2> QED BY <2>3, <2>4, <2>6
<1>10. F[N] \in Seq(T) BY <1>2, <1>7
<1>11. PICK off \in [1 .. N + 1 -> Nat] : LaidUpTo(F[N], blocks, off, N) BY <1>7
<1>12. Laid(F[N], blocks, off) BY <1>1, <1>11 DEF Laid
<1> QED BY <1>3, <1>9, <1>10, <1>12

\* Every place is in a block, at off[k] + j for the j-th of block k.
Placed(rs, blocks, off) ==
    /\ \A i \in 1 .. Len(rs) : \E k \in 1 .. Len(blocks) : \E j \in 1 .. Len(blocks[k]) :
           i = off[k] + j
    /\ \A k \in 1 .. Len(blocks) : \A j \in 1 .. Len(blocks[k]) :
           off[k] + j \in 1 .. Len(rs) /\ rs[off[k] + j] = blocks[k][j]

LEMMA InBlock ==
    ASSUME NEW T, NEW blocks \in Seq(Seq(T)), NEW rs \in Seq(T), NEW off, Laid(rs, blocks, off)
    PROVE  Placed(rs, blocks, off)
<1>1. PICK N, L : N = Len(blocks) /\ L = Len(rs) OBVIOUS
<1>2. N \in Nat /\ L \in Nat /\ \A k \in 1 .. N : Len(blocks[k]) \in Nat
  <2>1. \A k \in 1 .. N : blocks[k] \in Seq(T) BY <1>1, ElementOfSeq
  <2> QED BY <1>1, <2>1, LenProperties
<1>3. /\ off \in [1 .. N + 1 -> Nat] /\ off[1] = 0 /\ L = off[N + 1]
      /\ \A k \in 1 .. N + 1 : off[k] <= L
      /\ \A k \in 1 .. N : off[k + 1] = off[k] + Len(blocks[k])
      /\ \A k \in 1 .. N : \A j \in 1 .. Len(blocks[k]) : rs[off[k] + j] = blocks[k][j]
  BY <1>1 DEF Laid, LaidUpTo
<1>4. ASSUME NEW i \in 1 .. L
      PROVE  \E k \in 1 .. N : \E j \in 1 .. Len(blocks[k]) : i = off[k] + j
  <2> DEFINE S == {k \in 1 .. N + 1 : i <= off[k]}
  <2>1. PICK m \in S : \A k \in S : m <= k
    <3>1. S \in SUBSET Nat BY <1>2
    <3>2. N + 1 \in S BY <1>2, <1>3, <1>4
    <3> HIDE DEF S
    <3> QED BY <3>1, <3>2, Least
  <2>2. m \in 1 .. N + 1 /\ i <= off[m] OBVIOUS
  <2>3. m # 1 BY <1>3, <1>4, <2>2
  <2>4. PICK n : n = m - 1 OBVIOUS
  <2>5. n \in 1 .. N /\ n \in 1 .. N + 1 /\ m = n + 1 /\ n < m BY <1>2, <2>2, <2>3, <2>4
  <2>6. n \notin S BY <2>1, <2>5
  <2>7. PICK a, l : a = off[n] /\ l = Len(blocks[n]) OBVIOUS
  <2>8. ~ (i <= a)
    <3>1. ~ (i <= off[n]) BY <2>5, <2>6
    <3> QED BY <2>7, <3>1
  <2>9. off[m] = a + l /\ a \in Nat /\ l \in Nat BY <1>2, <1>3, <2>5, <2>7
  <2>10. i <= a + l BY <2>2, <2>9
  <2>11. i - a \in 1 .. l /\ i = a + (i - a) BY <1>2, <1>4, <2>8, <2>9, <2>10
  <2> QED BY <2>5, <2>7, <2>11
<1>5. ASSUME NEW k \in 1 .. N, NEW j \in 1 .. Len(blocks[k]) PROVE off[k] + j \in 1 .. L
  <2>1. PICK a, l : a = off[k] /\ l = Len(blocks[k]) OBVIOUS
  <2>2. k \in 1 .. N + 1 /\ k + 1 \in 1 .. N + 1 BY <1>2
  <2>3. a \in Nat /\ l \in Nat /\ a + l <= L BY <1>2, <1>3, <2>1, <2>2
  <2> QED BY <1>2, <2>1, <2>3, SMTT(30)
<1> QED BY <1>1, <1>3, <1>4, <1>5 DEF Placed

\* A sequence is as long as its domain says.
LEMMA LengthIs ==
    ASSUME NEW T, NEW s \in Seq(T), NEW m \in Nat, DOMAIN s = 1 .. m
    PROVE  Len(s) = m
<1>1. PICK l : l = Len(s) OBVIOUS
<1>2. l \in Nat /\ DOMAIN s = 1 .. l BY <1>1, LenProperties
<1>3. 1 .. l = 1 .. m BY <1>2
<1>4. ASSUME l < m PROVE FALSE
  <2>1. m \in 1 .. m /\ m \notin 1 .. l BY <1>2, <1>4
  <2> QED BY <1>3, <2>1
<1>5. ASSUME m < l PROVE FALSE
  <2>1. l \in 1 .. l /\ l \notin 1 .. m BY <1>2, <1>5
  <2> QED BY <1>3, <2>1
<1> QED BY <1>1, <1>2, <1>4, <1>5

-----------------------------------------------------------------------------
(* What a step is given *)

LEMMA TextIs ==
    ASSUME BudgetTypeOK, NEW r \in Reqs
    PROVE  /\ gen[r] \in Seq(TokenKinds) /\ pend[r] \in Seq(TokenKinds)
           /\ Text(r) \in Seq(TokenKinds) /\ Len(Text(r)) \in Nat
<1>1. gen[r] \in Seq(TokenKinds) /\ pend[r] \in Seq(TokenKinds) BY DEF BudgetTypeOK
<1>2. Text(r) \in Seq(TokenKinds) BY <1>1, ConcatProperties DEF Text
<1> QED BY <1>1, <1>2, LenProperties

LEMMA OrdersAre ==
    ASSUME NEW order \in Orders
    PROVE  order \in Seq(Reqs) /\ Len(order) \in Nat \ {0} /\ IsInjective(order)
<1>1. PICK m \in 0 .. Cardinality(Reqs) : order \in [1 .. m -> Reqs] BY DEF Orders, BoundedSeq, SeqOf
<1>2. Cardinality(Reqs) \in Nat
  <2>1. IsFiniteSet(Reqs) BY BudgetAssumption
  <2> QED BY <2>1, FS_CardinalityType
<1>3. m \in Nat BY <1>2
<1>4. order \in Seq(Reqs) BY <1>1, <1>3
<1>5. order # <<>> /\ IsInjective(order) BY DEF Orders
<1>6. Len(order) # 0 BY <1>4, <1>5, EmptySeq
<1> QED BY <1>4, <1>5, <1>6, LenProperties

LEMMA DraftsAre ==
    ASSUME NEW order \in Seq(Reqs), NEW toks \in DraftsFor(order)
    PROVE  /\ toks \in [Reqs -> Seq(TokenKinds)]
           /\ \A r \in Reqs : Len(toks[r]) \in 0 .. SpecSteps
<1>1. PICK f \in [ToSet(order) -> BoundedSeq(TokenKinds, SpecSteps)] :
          toks = [r \in Reqs |-> IF r \in DOMAIN f THEN f[r] ELSE <<>>]
  BY DEF DraftsFor
<1>2. SpecSteps \in Nat BY BudgetAssumption
<1>3. ASSUME NEW s \in BoundedSeq(TokenKinds, SpecSteps)
      PROVE  s \in Seq(TokenKinds) /\ Len(s) \in 0 .. SpecSteps
  <2>1. PICK m \in 0 .. SpecSteps : s \in [1 .. m -> TokenKinds] BY DEF BoundedSeq, SeqOf
  <2>2. m \in Nat /\ DOMAIN s = 1 .. m BY <1>2, <2>1
  <2>3. s \in Seq(TokenKinds) BY <2>1, <2>2
  <2>4. Len(s) = m BY <2>1, <2>2, <2>3, LengthIs
  <2> QED BY <2>3, <2>4
<1>4. <<>> \in Seq(TokenKinds) /\ Len(<<>>) \in 0 .. SpecSteps BY <1>2, EmptySeq
<1>5. ASSUME NEW r \in Reqs PROVE toks[r] \in Seq(TokenKinds) /\ Len(toks[r]) \in 0 .. SpecSteps
  <2>1. CASE r \in ToSet(order)
    <3>1. toks[r] = f[r] /\ f[r] \in BoundedSeq(TokenKinds, SpecSteps) BY <1>1, <2>1
    <3> QED BY <1>3, <3>1
  <2>2. CASE r \notin ToSet(order)
    <3>1. toks[r] = <<>> BY <1>1, <2>2
    <3> QED BY <1>4, <3>1
  <2> QED BY <2>1, <2>2
<1> QED BY <1>1, <1>5

-----------------------------------------------------------------------------
(* The rows of a step *)

RowSet == [slot : Slots \cup {NoSlot}, req : Reqs, row : Nat, index : Int, input : TokenKinds]

\* A row; its input is a draft, the last token of the text, or one of the prompt.
IsRow(x, r, t, k) ==
    /\ x.slot = slot[r] /\ x.req = r /\ x.row = k
    /\ x.index = Len(Text(r)) + k - 1
    /\ k > 1 => x.input = t[k - 1]
    /\ ~ (k > 1) /\ End \notin ToSet(Text(r)) => x.input # End

LEMMA RowsOfRequest ==
    ASSUME BudgetTypeOK, NEW r \in Reqs, NEW t \in Seq(TokenKinds)
    PROVE  /\ RowsOf(r, t) \in Seq(RowSet) /\ Len(RowsOf(r, t)) = Len(t) + 1
           /\ \A k \in 1 .. Len(t) + 1 : IsRow(RowsOf(r, t)[k], r, t, k)
<1>1. PICK x, L : x = Text(r) /\ L = Len(x) OBVIOUS
<1>2. x \in Seq(TokenKinds) /\ L \in Nat BY <1>1, TextIs
<1>3. PICK n, s : n = Len(t) /\ s = slot[r] OBVIOUS
<1>4. n \in Nat /\ s \in Slots \cup {NoSlot} /\ \A k \in 1 .. n : t[k] \in TokenKinds
  BY <1>3, LenProperties, ElementOfSeq DEF BudgetTypeOK
<1>5. PICK before : before = IF x = <<>> THEN Other ELSE Last(x) OBVIOUS
<1>6. before \in TokenKinds /\ (End \notin ToSet(x) => before # End)
  <2>1. CASE x = <<>> BY <1>5, <2>1 DEF TokenKinds, Other, End
  <2>2. CASE x # <<>>
    <3>1. L \in Nat \ {0} BY <1>1, <1>2, <2>2, EmptySeq
    <3>2. before = x[L] /\ L \in 1 .. Len(x) BY <1>1, <1>2, <1>5, <2>2, <3>1 DEF Last
    <3>3. before \in TokenKinds BY <1>2, <3>2, ElementOfSeq
    <3> QED BY <1>2, <3>2, <3>3, ToSetOf
  <2> QED BY <2>1, <2>2
<1>7. PICK In : In = [k \in 1 .. n + 1 |-> IF k > 1 THEN t[k - 1] ELSE before] OBVIOUS
<1>8. \A k \in 1 .. n + 1 : /\ In[k] \in TokenKinds
                            /\ k > 1 => In[k] = t[k - 1]
                            /\ ~ (k > 1) => In[k] = before
  <2> SUFFICES ASSUME NEW k \in 1 .. n + 1
               PROVE  /\ In[k] \in TokenKinds
                      /\ k > 1 => In[k] = t[k - 1]
                      /\ ~ (k > 1) => In[k] = before
    OBVIOUS
  <2>1. k > 1 => k - 1 \in 1 .. n BY <1>4
  <2> QED BY <1>4, <1>6, <1>7, <2>1
<1>9. PICK R : R = RowsOf(r, t) OBVIOUS
<1>10. R = [k \in 1 .. n + 1 |-> [slot |-> s, req |-> r, row |-> k, index |-> L + k - 1, input |-> In[k]]]
  <2>1. \A k \in 1 .. n + 1 : In[k] = IF k > 1 THEN t[k - 1] ELSE IF x = <<>> THEN Other ELSE Last(x)
    BY <1>5, <1>7
  <2> QED BY <1>1, <1>3, <1>9, <2>1 DEF RowsOf
<1>11. \A k \in 1 .. n + 1 : R[k] = [slot |-> s, req |-> r, row |-> k, index |-> L + k - 1, input |-> In[k]]
  BY <1>10
<1>12. \A k \in 1 .. n + 1 : R[k] \in RowSet
  <2> SUFFICES ASSUME NEW k \in 1 .. n + 1 PROVE R[k] \in RowSet OBVIOUS
  <2>1. k \in Nat /\ L + k - 1 \in Int BY <1>2, <1>4
  <2>2. PICK q, j : q = In[k] /\ j = L + k - 1 OBVIOUS
  <2>3. q \in TokenKinds /\ j \in Int BY <1>8, <2>1, <2>2
  <2>4. R[k] = [slot |-> s, req |-> r, row |-> k, index |-> j, input |-> q] BY <1>11, <2>2
  <2> QED BY <1>4, <2>1, <2>3, <2>4 DEF RowSet
<1>13. R \in [1 .. n + 1 -> RowSet] BY <1>10, <1>12
<1>14. n + 1 \in Nat BY <1>4
<1>15. R \in Seq(RowSet) BY <1>13, <1>14
<1>16. Len(R) = n + 1
  <2>1. DOMAIN R = 1 .. n + 1 BY <1>13
  <2> QED BY <1>14, <1>15, <2>1, LengthIs
<1>17. ASSUME NEW k \in 1 .. n + 1
       PROVE  /\ R[k].slot = s /\ R[k].req = r /\ R[k].row = k /\ R[k].index = L + k - 1
              /\ k > 1 => R[k].input = t[k - 1]
              /\ ~ (k > 1) /\ End \notin ToSet(x) => R[k].input # End
  <2>1. PICK q, j : q = In[k] /\ j = L + k - 1 OBVIOUS
  <2>2. R[k] = [slot |-> s, req |-> r, row |-> k, index |-> j, input |-> q] BY <1>11, <2>1
  <2>3. R[k].slot = s /\ R[k].req = r /\ R[k].row = k /\ R[k].index = j /\ R[k].input = q BY <2>2
  <2>4. (k > 1 => q = t[k - 1]) /\ (~ (k > 1) /\ End \notin ToSet(x) => q # End)
    BY <1>6, <1>8, <2>1
  <2> QED BY <2>1, <2>3, <2>4
<1>18. ASSUME NEW k \in 1 .. n + 1 PROVE IsRow(R[k], r, t, k)
  BY <1>1, <1>3, <1>17, Zenon DEF IsRow
<1> QED
  <2>1. R \in Seq(RowSet) /\ Len(R) = Len(t) + 1 BY <1>3, <1>15, <1>16
  <2>2. \A k \in 1 .. Len(t) + 1 : IsRow(R[k], r, t, k) BY <1>3, <1>18, Zenon
  <2> QED BY <1>9, <2>1, <2>2, Zenon

\* Row row of the k-th request of a step stands at its place off[k] + row.
Stands(rs, order, toks, off) ==
    /\ \A i \in 1 .. Len(rs) :
           \E k \in 1 .. Len(order) : \E row \in 1 .. Len(toks[order[k]]) + 1 : i = off[k] + row
    /\ \A k \in 1 .. Len(order) : \A row \in 1 .. Len(toks[order[k]]) + 1 :
           /\ off[k] + row \in 1 .. Len(rs)
           /\ IsRow(rs[off[k] + row], order[k], toks[order[k]], row)

LEMMA RowsStand ==
    ASSUME BudgetTypeOK, NEW order \in Seq(Reqs), Len(order) # 0,
           NEW toks \in [Reqs -> Seq(TokenKinds)], NEW rs,
           rs = FlattenSeq([k \in 1 .. Len(order) |-> RowsOf(order[k], toks[order[k]])])
    PROVE  /\ rs \in Seq(RowSet) /\ Len(rs) \in Nat
           /\ \E off \in [1 .. Len(order) + 1 -> Nat] : Stands(rs, order, toks, off)
<1>1. PICK N : N = Len(order) OBVIOUS
<1>2. N \in Nat \ {0} BY <1>1, LenProperties
<1>3. \A k \in 1 .. N : order[k] \in Reqs /\ toks[order[k]] \in Seq(TokenKinds)
  BY <1>1, ElementOfSeq
<1>4. PICK blocks : blocks = [k \in 1 .. N |-> RowsOf(order[k], toks[order[k]])] OBVIOUS
<1>5. \A k \in 1 .. N : /\ blocks[k] \in Seq(RowSet) /\ Len(blocks[k]) = Len(toks[order[k]]) + 1
                        /\ \A w \in 1 .. Len(toks[order[k]]) + 1 :
                               IsRow(blocks[k][w], order[k], toks[order[k]], w)
  <2> SUFFICES ASSUME NEW k \in 1 .. N
               PROVE  /\ blocks[k] \in Seq(RowSet) /\ Len(blocks[k]) = Len(toks[order[k]]) + 1
                        /\ \A w \in 1 .. Len(toks[order[k]]) + 1 :
                               IsRow(blocks[k][w], order[k], toks[order[k]], w)
    OBVIOUS
  <2>1. blocks[k] = RowsOf(order[k], toks[order[k]]) BY <1>4
  <2> QED BY <1>3, <2>1, RowsOfRequest
<1>6. blocks \in Seq(Seq(RowSet)) /\ Len(blocks) = N
  <2>1. blocks \in [1 .. N -> Seq(RowSet)] BY <1>4, <1>5
  <2>2. blocks \in Seq(Seq(RowSet)) BY <1>2, <2>1
  <2>3. DOMAIN blocks = 1 .. N BY <2>1
  <2> QED BY <1>2, <2>2, <2>3, LengthIs
<1>7. rs = FlattenSeq(blocks) BY <1>1, <1>4
<1>8. Len(blocks) # 0 BY <1>2, <1>6
<1>9. rs \in Seq(RowSet) BY <1>6, <1>7, <1>8, Flattened
<1>10. PICK off : Laid(rs, blocks, off) BY <1>6, <1>7, <1>8, Flattened
<1>11. Placed(rs, blocks, off) BY <1>6, <1>9, <1>10, InBlock
<1>12. off \in [1 .. N + 1 -> Nat]
  <2>1. off \in [1 .. Len(blocks) + 1 -> Nat] BY <1>10, Zenon DEF Laid
  <2> QED BY <1>6, <2>1
<1>13. ASSUME NEW k \in 1 .. N, NEW row \in 1 .. Len(toks[order[k]]) + 1
       PROVE  /\ off[k] + row \in 1 .. Len(rs)
              /\ IsRow(rs[off[k] + row], order[k], toks[order[k]], row)
  <2>1. k \in 1 .. Len(blocks) /\ row \in 1 .. Len(blocks[k]) BY <1>5, <1>6
  <2>2. off[k] + row \in 1 .. Len(rs) /\ rs[off[k] + row] = blocks[k][row]
    BY <1>11, <2>1, Zenon DEF Placed
  <2> QED BY <1>5, <2>2
<1>14. ASSUME NEW i \in 1 .. Len(rs)
       PROVE  \E k \in 1 .. N : \E row \in 1 .. Len(toks[order[k]]) + 1 : i = off[k] + row
  <2>4. PICK k \in 1 .. Len(blocks) : \E j \in 1 .. Len(blocks[k]) : i = off[k] + j
    BY <1>11, Zenon DEF Placed
  <2>1. PICK j \in 1 .. Len(blocks[k]) : i = off[k] + j BY <2>4
  <2>2. k \in 1 .. N BY <1>6
  <2>3. j \in 1 .. Len(toks[order[k]]) + 1 BY <1>5, <2>2
  <2> QED BY <2>1, <2>2, <2>3
<1>15. Stands(rs, order, toks, off)
  <2>1. \A i \in 1 .. Len(rs) :
            \E k \in 1 .. N : \E row \in 1 .. Len(toks[order[k]]) + 1 : i = off[k] + row
    BY <1>14
  <2>2. \A k \in 1 .. N : \A row \in 1 .. Len(toks[order[k]]) + 1 :
            /\ off[k] + row \in 1 .. Len(rs)
            /\ IsRow(rs[off[k] + row], order[k], toks[order[k]], row)
    BY <1>13
  <2> QED BY <1>1, <2>1, <2>2, Zenon DEF Stands
<1> QED BY <1>1, <1>9, <1>12, <1>15, LenProperties

\* A row sees the end of its own request only, and sees all the drafts before it;
\* so it forces the end just where it uses up the budget of a request that reasons.
LEMMA ForcesIs ==
    ASSUME BudgetTypeOK, SlotsHeld, SlotsTrue,
           NEW order \in Seq(Reqs), IsInjective(order),
           \A k \in 1 .. Len(order) : state[order[k]] = "running",
           NEW toks \in [Reqs -> Seq(TokenKinds)], \A r \in Reqs : Len(toks[r]) \in 0 .. SpecSteps,
           NEW rs, Len(rs) \in Nat, NEW off \in [1 .. Len(order) + 1 -> Nat],
           Stands(rs, order, toks, off),
           NEW k \in 1 .. Len(order), NEW row \in 1 .. Len(toks[order[k]]) + 1
    PROVE  Forces(rs, off[k] + row) <=> UsesUp(order[k], row, toks[order[k]])
<1>1. PICK r, t, n, a, i : /\ r = order[k] /\ t = toks[r] /\ n = Len(t)
                           /\ a = off[k] /\ i = a + row
  OBVIOUS
<1>2. Len(order) \in Nat /\ IsInjective(order) /\ DOMAIN order = 1 .. Len(order)
  BY LenProperties
<1>3. r \in Reqs /\ t \in Seq(TokenKinds) /\ n \in 0 .. SpecSteps /\ SpecSteps \in Nat
  BY <1>1, ElementOfSeq, BudgetAssumption
<1>4. a \in Nat /\ row \in 1 .. n + 1 /\ i \in Nat
  <2>1. k \in 1 .. Len(order) + 1 BY <1>2
  <2>2. a \in Nat /\ row \in 1 .. n + 1 BY <1>1, <2>1
  <2> QED BY <1>1, <1>3, <2>2
<1>5. ASSUME NEW l \in 1 .. Len(order), NEW w \in 1 .. Len(toks[order[l]]) + 1
      PROVE  /\ off[l] + w \in 1 .. Len(rs)
             /\ IsRow(rs[off[l] + w], order[l], toks[order[l]], w)
             /\ rs[off[l] + w].slot = slot[order[l]]
  <2>1. off[l] + w \in 1 .. Len(rs) /\ IsRow(rs[off[l] + w], order[l], toks[order[l]], w)
    BY Zenon DEF Stands
  <2> QED BY <2>1, Zenon DEF IsRow
<1>6. ASSUME NEW w \in 1 .. n + 1
      PROVE  /\ a + w \in 1 .. Len(rs) /\ IsRow(rs[a + w], r, t, w)
             /\ rs[a + w].slot = slot[r]
  BY <1>1, <1>5
<1>7. i \in 1 .. Len(rs) /\ IsRow(rs[i], r, t, row) /\ rs[i].slot = slot[r]
  BY <1>1, <1>4, <1>6
<1>8. rs[i].index = Len(Text(r)) + row - 1
  BY <1>7, Zenon DEF IsRow
<1>9. slot[r] \in Slots /\ state[r] = "running"
  <2>1. state[r] = "running" BY <1>1
  <2> QED BY <1>3, <2>1 DEF SlotsHeld, BudgetTypeOK
<1>10. /\ budget[slot[r]] = wish[r] /\ active[slot[r]] = Reasons(r)
       /\ wish[r] \in Budgets \cup {None} /\ Budgets \subseteq Nat
  BY <1>3, <1>9, BudgetAssumption DEF SlotsTrue, BudgetTypeOK
<1>11. ASSUME NEW l \in 1 .. Len(order), slot[order[l]] = slot[r] PROVE l = k
  <2>1. order[l] \in Reqs /\ slot[r] # NoSlot
    BY <1>3, <1>9, ElementOfSeq, BudgetAssumption
  <2>2. order[l] = r BY <1>3, <1>11, <2>1 DEF SlotsHeld
  <2> QED BY <1>1, <1>2, <2>2 DEF IsInjective
<1>12. ASSUME Reasons(r), SeenEnd(rs, i) PROVE \E j \in 1 .. row - 1 : t[j] = End
  <2>1. PICK back \in Nat :
            i - back >= 1 /\ rs[i - back].slot = rs[i].slot /\ rs[i - back].input = End
    BY <1>3, <1>12 DEF SeenEnd, MaxLookback
  <2>2. PICK h : h = i - back OBVIOUS
  <2>3. h = a + row - back BY <1>1, <2>2
  <2>4. h \in 1 .. Len(rs) /\ rs[h].slot = slot[r] /\ rs[h].input = End
    <3>1. h \in Int /\ h >= 1 /\ h <= i BY <1>4, <2>1, <2>2
    <3>2. h \in 1 .. Len(rs) BY <1>7, <3>1
    <3> QED BY <1>7, <2>1, <2>2, <3>2
  <2>5. PICK l \in 1 .. Len(order) : \E w \in 1 .. Len(toks[order[l]]) + 1 : h = off[l] + w
    BY <2>4, Zenon DEF Stands
  <2>6. PICK w \in 1 .. Len(toks[order[l]]) + 1 : h = off[l] + w BY <2>5
  <2>7. slot[order[l]] = slot[r] BY <1>5, <2>4, <2>6
  <2>8. l = k BY <1>11, <2>7
  <2>9. w \in 1 .. n + 1 /\ h = a + w BY <1>1, <2>6, <2>8
  <2>10. w <= row /\ IsRow(rs[h], r, t, w)
    <3>1. w <= row BY <1>3, <1>4, <2>3, <2>9
    <3> QED BY <1>6, <2>9, <3>1
  <2>11. rs[h].input = End BY <2>4
  <2>12. End \notin ToSet(Text(r)) BY <1>12 DEF Reasons
  <2>13. w > 1 /\ t[w - 1] = End
    <3>1. /\ w > 1 => rs[h].input = t[w - 1]
          /\ ~ (w > 1) /\ End \notin ToSet(Text(r)) => rs[h].input # End
      BY <2>10, Zenon DEF IsRow
    <3> QED BY <2>11, <2>12, <3>1
  <2>14. w - 1 \in 1 .. row - 1 BY <1>4, <2>9, <2>10, <2>13
  <2> QED BY <2>13, <2>14
<1>13. ASSUME NEW j \in 1 .. row - 1, t[j] = End PROVE SeenEnd(rs, i)
  <2>1. PICK w, back : w = j + 1 /\ back = row - w OBVIOUS
  <2>2. w \in 1 .. n + 1 /\ w > 1 /\ w - 1 = j /\ w <= row BY <1>3, <1>4, <2>1
  <2>3. back \in 0 .. MaxLookback - 1
    <3>1. back \in Nat /\ back <= SpecSteps BY <1>3, <1>4, <2>1
    <3> QED BY <1>3, <3>1 DEF MaxLookback
  <2>4. i - back = a + w BY <1>1, <1>3, <1>4, <2>1
  <2>5. rs[a + w].input = End /\ rs[a + w].slot = rs[i].slot
    <3>1. IsRow(rs[a + w], r, t, w) /\ rs[a + w].slot = slot[r] BY <1>6, <2>2
    <3>2. rs[a + w].input = t[w - 1] BY <2>2, <3>1 DEF IsRow
    <3> QED BY <1>7, <1>13, <2>2, <3>1, <3>2
  <2>6. a + w >= 1 BY <1>3, <1>4, <2>2
  <2> QED BY <2>3, <2>4, <2>5, <2>6 DEF SeenEnd
<1>14. CASE Reasons(r)
  <2>1. wish[r] >= 0
    <3>1. wish[r] # None BY <1>14 DEF Reasons
    <3>2. PICK b : b = wish[r] OBVIOUS
    <3>3. b \in Nat BY <1>10, <3>1, <3>2
    <3> QED BY <3>2, <3>3
  <2>2. SeenEnd(rs, i) <=> ~ \A j \in 1 .. row - 1 : t[j] # End BY <1>12, <1>13, <1>14
  <2>3. Forces(rs, i) <=> Len(Text(r)) + row - 1 = wish[r] /\ \A j \in 1 .. row - 1 : t[j] # End
    BY <1>7, <1>8, <1>10, <1>14, <2>1, <2>2 DEF Forces
  <2> QED BY <1>1, <1>14, <2>3 DEF UsesUp
<1>15. CASE ~ Reasons(r)
  <2>1. ~ Forces(rs, i) BY <1>7, <1>10, <1>15 DEF Forces
  <2> QED BY <1>1, <1>15, <2>1 DEF UsesUp
<1> QED BY <1>14, <1>15

LEMMA BeginForces ==
    ASSUME BudgetTypeOK, SlotsHeld, SlotsTrue,
           NEW order \in Seq(Reqs), Len(order) # 0, IsInjective(order),
           \A k \in 1 .. Len(order) : state[order[k]] = "running",
           NEW toks \in [Reqs -> Seq(TokenKinds)], \A r \in Reqs : Len(toks[r]) \in 0 .. SpecSteps,
           Apply(order, toks),
           NEW k \in 1 .. Len(order), NEW row \in 1 .. Len(toks[order[k]]) + 1
    PROVE  <<order[k], row>> \in forced' <=> UsesUp(order[k], row, toks[order[k]])
<1>1. PICK rs : rs = FlattenSeq([l \in 1 .. Len(order) |-> RowsOf(order[l], toks[order[l]])])
  OBVIOUS
<1>2. forced' = IF \E l \in 1 .. Len(order) : use[slot[order[l]]]
                THEN {<<rs[i].req, rs[i].row>> : i \in {j \in 1 .. Len(rs) : Forces(rs, j)}}
                ELSE {}
  BY <1>1 DEF Apply
<1>3. Len(rs) \in Nat /\ \E off \in [1 .. Len(order) + 1 -> Nat] : Stands(rs, order, toks, off)
  BY <1>1, RowsStand
<1>4. PICK off \in [1 .. Len(order) + 1 -> Nat] : Stands(rs, order, toks, off) BY <1>3
<1>5. Forces(rs, off[k] + row) <=> UsesUp(order[k], row, toks[order[k]]) BY <1>3, <1>4, ForcesIs
<1>6. \A l \in 1 .. Len(order) : \A w \in 1 .. Len(toks[order[l]]) + 1 :
          off[l] + w \in 1 .. Len(rs) /\ rs[off[l] + w].req = order[l] /\ rs[off[l] + w].row = w
  BY <1>4, Zenon DEF Stands, IsRow
<1>7. ASSUME <<order[k], row>> \in forced' PROVE UsesUp(order[k], row, toks[order[k]])
  <2>1. <<order[k], row>> \in {<<rs[i].req, rs[i].row>> : i \in {j \in 1 .. Len(rs) : Forces(rs, j)}}
    BY <1>2, <1>7
  <2>2. PICK i \in 1 .. Len(rs) : Forces(rs, i) /\ rs[i].req = order[k] /\ rs[i].row = row BY <2>1
  <2>3. PICK l \in 1 .. Len(order) : \E w \in 1 .. Len(toks[order[l]]) + 1 : i = off[l] + w
    BY <1>4, Zenon DEF Stands
  <2>4. PICK w \in 1 .. Len(toks[order[l]]) + 1 : i = off[l] + w BY <2>3
  <2>5. order[l] = order[k] /\ w = row BY <1>6, <2>2, <2>4
  <2>6. l = k
    <3>1. DOMAIN order = 1 .. Len(order) BY LenProperties
    <3> QED BY <2>5, <3>1 DEF IsInjective
  <2> QED BY <1>5, <2>2, <2>4, <2>5, <2>6
<1>8. ASSUME UsesUp(order[k], row, toks[order[k]]) PROVE <<order[k], row>> \in forced'
  <2>1. PICK i : i = off[k] + row OBVIOUS
  <2>2. i \in 1 .. Len(rs) /\ rs[i].req = order[k] /\ rs[i].row = row /\ Forces(rs, i)
    BY <1>5, <1>6, <1>8, <2>1
  <2>3. use[slot[order[k]]]
    <3>1. order[k] \in Reqs /\ wish[order[k]] # None BY <1>8, ElementOfSeq DEF UsesUp, Reasons
    <3> QED BY <3>1 DEF SlotsTrue
  <2>4. forced' = {<<rs[m].req, rs[m].row>> : m \in {j \in 1 .. Len(rs) : Forces(rs, j)}}
    BY <1>2, <2>3
  <2> QED BY <2>2, <2>4
<1> QED BY <1>7, <1>8

-----------------------------------------------------------------------------
(* The actions of the thinking budget *)

\* What is known of a request whose text, budget and prompt do not change.
LEMMA SameReasons ==
    ASSUME NEW r \in Reqs, gen'[r] = gen[r], pend'[r] = pend[r],
           wish'[r] = wish[r], opens'[r] = opens[r]
    PROVE  Text(r)' = Text(r) /\ Reasons(r)' = Reasons(r)
<1>1. Text(r)' = Text(r) BY DEF Text
<1> QED BY <1>1 DEF Reasons

Kept(r) ==
    wish[r] # None /\ opens[r] /\ Len(Text(r)) > wish[r] =>
        End \in ToSet(SubSeq(Text(r), 1, wish[r] + 1))

LEMMA SameKept ==
    ASSUME NEW r \in Reqs, gen'[r] = gen[r], pend'[r] = pend[r],
           wish'[r] = wish[r], opens'[r] = opens[r]
    PROVE  Kept(r)' = Kept(r)
<1>1. Text(r)' = Text(r) BY DEF Text
<1> QED BY <1>1 DEF Kept

LEMMA BeginStep ==
    ASSUME BudgetInv, NEW order \in Orders, NEW toks \in DraftsFor(order), Begin(order, toks)
    PROVE  BudgetInv'
<1> USE DEF BudgetInv
<1>1. order \in Seq(Reqs) /\ Len(order) \in Nat \ {0} /\ IsInjective(order) BY OrdersAre
<1>2. toks \in [Reqs -> Seq(TokenKinds)] /\ \A r \in Reqs : Len(toks[r]) \in 0 .. SpecSteps
  BY <1>1, DraftsAre
<1>3. /\ \A k \in 1 .. Len(order) : state[order[k]] = "running"
      /\ Apply(order, toks) /\ batch' = order /\ draftTokens' = toks
  BY DEF Begin, Apply
<1>4. UNCHANGED <<state, wish, opens, gen, pend, slot, budget, active, use>>
  BY DEF Begin, reqVars, slotVars
<1>5. BudgetTypeOK' BY <1>1, <1>2, <1>3, <1>4 DEF BudgetTypeOK
<1>6. SlotsHeld' BY <1>4 DEF SlotsHeld
<1>7. ASSUME NEW r \in Reqs
      PROVE  Text(r)' = Text(r) /\ Reasons(r)' = Reasons(r) /\ Kept(r)' = Kept(r)
  BY <1>4, SameReasons, SameKept
<1>8. SlotsTrue' BY <1>4, <1>7 DEF SlotsTrue
<1>9. BudgetKept'
  <2>1. \A r \in Reqs : Kept(r) BY DEF BudgetKept, Kept
  <2>2. \A r \in Reqs : Kept(r)' BY <1>7, <2>1
  <2> QED BY <2>2 DEF BudgetKept, Kept
<1>10. BatchForced'
  <2>1. \A k \in 1 .. Len(order) : state'[order[k]] = "running" BY <1>3, <1>4
  <2>2. ASSUME NEW k \in 1 .. Len(order), NEW row \in 1 .. Len(toks[order[k]]) + 1
        PROVE  <<order[k], row>> \in forced' <=> UsesUp(order[k], row, toks[order[k]])'
    <3>1. PICK r, t : r = order[k] /\ t = toks[r] OBVIOUS
    <3>2. r \in Reqs BY <1>1, <3>1, ElementOfSeq
    <3>3. <<r, row>> \in forced' <=> UsesUp(r, row, t)
      BY <1>1, <1>2, <1>3, <3>1, BeginForces
    <3>4. UsesUp(r, row, t)' = UsesUp(r, row, t)
      BY <1>4, <1>7, <3>2 DEF UsesUp
    <3> QED BY <3>1, <3>3, <3>4
  <2> QED BY <1>1, <1>3, <2>1, <2>2 DEF BatchForced
<1> QED BY <1>5, <1>6, <1>8, <1>9, <1>10

\* Between two steps nothing is forced that counts.
LEMMA NoBatch ==
    ASSUME batch = <<>>, UNCHANGED stepVars
    PROVE  BatchForced' /\ batch' = <<>> /\ draftTokens' = draftTokens
<1>1. batch' = <<>> /\ draftTokens' = draftTokens BY DEF stepVars
<1>2. DOMAIN <<>> = {} /\ Len(<<>>) = 0 OBVIOUS
<1>3. 1 .. 0 = {} OBVIOUS
<1>4. IsInjective(<<>>) BY <1>2 DEF IsInjective
<1> QED BY <1>1, <1>2, <1>3, <1>4 DEF BatchForced

LEMMA KeptIs == BudgetKept <=> \A r \in Reqs : Kept(r)
BY DEF BudgetKept, Kept

LEMMA AddStep ==
    ASSUME BudgetInv, NEW r \in Reqs, NEW s \in Slots, NEW b \in Budgets \cup {None},
           NEW o \in BOOLEAN, batch = <<>>, state[r] # "running", pend[r] = <<>>,
           AddRequest(r, s, b, o),
           wish' = [wish EXCEPT ![r] = b], opens' = [opens EXCEPT ![r] = o],
           gen[r] = <<>> \/ (wish[r] = b /\ opens[r] = o)
    PROVE  BudgetInv'
<1> USE DEF BudgetInv
<1>1. ActiveOnAdd(r, b, o) = (b # None /\ o /\ End \notin ToSet(gen[r])) BY DEF ActiveOnAdd
<1>2. PICK on \in BOOLEAN, asks \in BOOLEAN :
          on = (b # None /\ o /\ End \notin ToSet(gen[r])) /\ asks = (b # None)
  OBVIOUS
<1>3. /\ \A q \in Reqs : slot[q] # s
      /\ state' = [state EXCEPT ![r] = "running"] /\ slot' = [slot EXCEPT ![r] = s]
      /\ budget' = [budget EXCEPT ![s] = b] /\ active' = [active EXCEPT ![s] = on]
      /\ use' = [use EXCEPT ![s] = asks]
      /\ gen' = gen /\ pend' = pend
  BY <1>1, <1>2 DEF AddRequest
<1>4. BatchForced' /\ batch' = <<>> /\ draftTokens' = draftTokens BY NoBatch DEF AddRequest
<1>5. BudgetTypeOK' BY <1>3, <1>4 DEF BudgetTypeOK
<1>6. s # NoSlot BY BudgetAssumption
<1>7. /\ state'[r] = "running" /\ slot'[r] = s
      /\ wish'[r] = b /\ opens'[r] = o
      /\ budget'[s] = b /\ active'[s] = on /\ use'[s] = asks
  BY <1>3 DEF BudgetTypeOK
<1>8. ASSUME NEW q \in Reqs, q # r
      PROVE  /\ state'[q] = state[q] /\ slot'[q] = slot[q] /\ slot[q] # s
             /\ wish'[q] = wish[q] /\ opens'[q] = opens[q]
             /\ slot[q] \in Slots => /\ budget'[slot[q]] = budget[slot[q]]
                                     /\ active'[slot[q]] = active[slot[q]]
                                     /\ use'[slot[q]] = use[slot[q]]
  BY <1>3, <1>8 DEF BudgetTypeOK
<1>9. SlotsHeld'
  <2>1. \A q \in Reqs : state'[q] = "running" <=> slot'[q] # NoSlot BY <1>6, <1>7, <1>8 DEF SlotsHeld
  <2>2. \A p, q \in Reqs : slot'[p] = slot'[q] /\ slot'[p] # NoSlot => p = q
    <3> SUFFICES ASSUME NEW p \in Reqs, NEW q \in Reqs, slot'[p] = slot'[q], slot'[p] # NoSlot
                 PROVE  p = q
      OBVIOUS
    <3>1. CASE p = r /\ q # r BY <1>7, <1>8, <3>1
    <3>2. CASE p # r /\ q = r BY <1>7, <1>8, <3>2
    <3>3. CASE p # r /\ q # r BY <1>8, <3>3 DEF SlotsHeld
    <3> QED BY <3>1, <3>2, <3>3
  <2>3. \A q \in Reqs : state'[q] = "new" => gen'[q] = <<>> /\ pend'[q] = <<>>
    BY <1>3, <1>7, <1>8 DEF SlotsHeld
  <2> QED BY <2>1, <2>2, <2>3 DEF SlotsHeld
<1>10. gen[r] \in Seq(TokenKinds) /\ Text(r) = gen[r] /\ Text(r)' = gen[r]
  <2>1. gen[r] \in Seq(TokenKinds) BY DEF BudgetTypeOK
  <2>2. gen[r] \o <<>> = gen[r] BY <2>1, ConcatEmptySeq
  <2> QED BY <1>3, <2>1, <2>2 DEF Text
<1>11. Reasons(r)' = on BY <1>2, <1>7, <1>10 DEF Reasons
<1>12. ASSUME NEW q \in Reqs, q # r
       PROVE  Text(q)' = Text(q) /\ Reasons(q)' = Reasons(q) /\ Kept(q)' = Kept(q)
  BY <1>3, <1>8, <1>12, SameReasons, SameKept
<1>13. SlotsTrue'
  <2> SUFFICES ASSUME NEW q \in Reqs, state'[q] = "running"
               PROVE  /\ budget'[slot'[q]] = wish'[q] /\ use'[slot'[q]] = (wish'[q] # None)
                      /\ active'[slot'[q]] = Reasons(q)'
    BY DEF SlotsTrue
  <2>1. CASE q = r BY <1>2, <1>7, <1>11, <2>1
  <2>2. CASE q # r
    <3>1. state[q] = "running" /\ slot[q] \in Slots BY <1>8, <2>2 DEF SlotsHeld, BudgetTypeOK
    <3> QED BY <1>8, <1>12, <2>2, <3>1 DEF SlotsTrue
  <2> QED BY <2>1, <2>2
<1>14. Kept(r)'
  <2>1. CASE gen[r] = <<>>
    <3>1. Text(r)' = <<>> /\ wish'[r] \in Budgets \cup {None} BY <1>7, <1>10, <2>1
    <3>2. PICK L : L = Len(<<>>) OBVIOUS
    <3>3. b # None => b \in Nat BY BudgetAssumption
    <3>4. ~ (b # None /\ L > b) BY <3>2, <3>3
    <3> QED BY <1>7, <3>1, <3>2, <3>4 DEF Kept
  <2>2. CASE wish[r] = b /\ opens[r] = o
    <3>1. Kept(r) BY KeptIs
    <3> QED BY <1>3, <1>7, <2>2, <3>1, SameKept
  <2> QED BY <2>1, <2>2
<1>15. BudgetKept'
  <2>1. \A q \in Reqs : Kept(q)' BY <1>12, <1>14, KeptIs
  <2> QED BY <2>1 DEF BudgetKept, Kept
<1> QED BY <1>4, <1>5, <1>9, <1>13, <1>15

LEMMA ArriveStep ==
    ASSUME BudgetInv, NEW r \in Reqs, NEW s \in Slots, NEW b \in Budgets \cup {None},
           NEW o \in BOOLEAN, Arrive(r, s, b, o)
    PROVE  BudgetInv'
<1>1. gen[r] = <<>> /\ pend[r] = <<>> /\ state[r] # "running"
  BY DEF Arrive, BudgetInv, SlotsHeld
<1> QED BY <1>1, AddStep DEF Arrive

LEMMA ResumeStep ==
    ASSUME BudgetInv, NEW r \in Reqs, NEW s \in Slots, Resume(r, s)
    PROVE  BudgetInv'
<1>1. PICK b \in Budgets \cup {None}, o \in BOOLEAN : b = wish[r] /\ o = opens[r]
  BY DEF BudgetInv, BudgetTypeOK
<1>2. wish' = [wish EXCEPT ![r] = b] /\ opens' = [opens EXCEPT ![r] = o]
  BY <1>1 DEF Resume, BudgetInv, BudgetTypeOK
<1>3. AddRequest(r, s, b, o) /\ batch = <<>> /\ pend[r] = <<>> /\ state[r] # "running"
  BY <1>1 DEF Resume
<1> QED BY <1>1, <1>2, <1>3, AddStep

LEMMA PrefixHas ==
    ASSUME NEW T, NEW s \in Seq(T), NEW m \in 0 .. Len(s), NEW x
    PROVE  x \in ToSet(SubSeq(s, 1, m)) <=> \E k \in 1 .. m : s[k] = x
<1>1. PICK L : L = Len(s) OBVIOUS
<1>2. L \in Nat /\ m \in 0 .. L BY <1>1, LenProperties
<1>3. \A i \in 1 .. m : s[i] \in T
  <2>1. \A i \in 1 .. m : i \in 1 .. Len(s) BY <1>1, <1>2
  <2> QED BY <2>1, ElementOfSeq
<1>4. PICK u : u = SubSeq(s, 1, m) OBVIOUS
<1>5. /\ u \in Seq(T) /\ Len(u) = IF 1 <= m THEN m - 1 + 1 ELSE 0
      /\ \A i \in 1 .. m - 1 + 1 : u[i] = s[1 + i - 1]
  <2>1. 1 \in Int /\ m \in Int BY <1>2
  <2> QED BY <1>3, <1>4, <2>1, SubSeqProperties
<1>6. Len(u) = m BY <1>2, <1>5
<1>7. \A i \in 1 .. m : u[i] = s[i]
  <2> SUFFICES ASSUME NEW i \in 1 .. m PROVE u[i] = s[i] OBVIOUS
  <2>1. i \in 1 .. m - 1 + 1 /\ 1 + i - 1 = i BY <1>2
  <2> QED BY <1>5, <2>1
<1>8. x \in ToSet(u) <=> \E k \in 1 .. m : u[k] = x BY <1>5, <1>6, ToSetOf
<1> QED BY <1>4, <1>7, <1>8

\* What the text has within the budget, place by place.
LEMMA KeptAt ==
    ASSUME BudgetTypeOK, NEW r \in Reqs
    PROVE  Kept(r) <=>
               (wish[r] # None /\ opens[r] /\ Len(Text(r)) > wish[r] =>
                    \E k \in 1 .. wish[r] + 1 : Text(r)[k] = End)
<1>1. PICK x, L, b : x = Text(r) /\ L = Len(x) /\ b = wish[r] OBVIOUS
<1>2. x \in Seq(TokenKinds) /\ L \in Nat /\ (b # None => b \in Nat)
  <2>1. x \in Seq(TokenKinds) /\ L \in Nat BY <1>1, TextIs
  <2>2. b \in Budgets \cup {None} BY <1>1 DEF BudgetTypeOK
  <2> QED BY <2>1, <2>2, BudgetAssumption
<1>3. ASSUME b # None, L > b
      PROVE  End \in ToSet(SubSeq(x, 1, b + 1)) <=> \E k \in 1 .. b + 1 : x[k] = End
  <2>1. PICK m : m = b + 1 OBVIOUS
  <2>2. m \in 0 .. L BY <1>2, <1>3, <2>1
  <2> QED BY <1>1, <1>2, <2>1, <2>2, PrefixHas
<1> QED BY <1>1, <1>3 DEF Kept

\* A request gives its slot back, or nothing happens to it.
Leaves(q) ==
    /\ state'[q] # "running" /\ slot'[q] = NoSlot
    /\ state'[q] = "new" => gen'[q] = <<>> /\ pend'[q] = <<>>
    /\ Kept(q)'
Stays(q) ==
    /\ state'[q] = state[q] /\ slot'[q] = slot[q]
    /\ wish'[q] = wish[q] /\ opens'[q] = opens[q] /\ gen'[q] = gen[q] /\ pend'[q] = pend[q]

LEMMA LeaveStep ==
    ASSUME BudgetInv, batch = <<>>, BudgetTypeOK', UNCHANGED slotVars, UNCHANGED stepVars,
           \A q \in Reqs : Leaves(q) \/ Stays(q)
    PROVE  BudgetInv'
<1> USE DEF BudgetInv
<1>1. BatchForced' BY NoBatch
<1>2. SlotsHeld'
  <2>1. ASSUME NEW q \in Reqs
        PROVE  /\ state'[q] = "running" <=> slot'[q] # NoSlot
               /\ state'[q] = "new" => gen'[q] = <<>> /\ pend'[q] = <<>>
    BY DEF Leaves, Stays, SlotsHeld
  <2>2. ASSUME NEW p \in Reqs, NEW q \in Reqs, slot'[p] = slot'[q], slot'[p] # NoSlot
        PROVE  p = q
    <3>1. slot'[p] = slot[p] /\ slot'[q] = slot[q] BY <2>2 DEF Leaves, Stays
    <3> QED BY <2>2, <3>1 DEF SlotsHeld
  <2> QED BY <2>1, <2>2 DEF SlotsHeld
<1>3. SlotsTrue'
  <2> SUFFICES ASSUME NEW q \in Reqs, state'[q] = "running"
               PROVE  /\ budget'[slot'[q]] = wish'[q] /\ use'[slot'[q]] = (wish'[q] # None)
                      /\ active'[slot'[q]] = Reasons(q)'
    BY DEF SlotsTrue
  <2>1. Stays(q) BY DEF Leaves
  <2>2. Reasons(q)' = Reasons(q) BY <2>1, SameReasons DEF Stays
  <2> QED BY <2>1, <2>2 DEF SlotsTrue, Stays, slotVars
<1>4. BudgetKept'
  <2>1. ASSUME NEW q \in Reqs PROVE Kept(q)'
    <3>1. CASE Leaves(q) BY <3>1 DEF Leaves
    <3>2. CASE Stays(q)
      <4>1. Kept(q) BY KeptIs
      <4> QED BY <3>2, <4>1, SameKept DEF Stays
    <3> QED BY <3>1, <3>2
  <2> QED BY <2>1 DEF BudgetKept, Kept
<1> QED BY <1>1, <1>2, <1>3, <1>4

LEMMA PreemptStep ==
    ASSUME BudgetInv, NEW r \in Reqs, Preempt(r)
    PROVE  BudgetInv'
<1> USE DEF BudgetInv
<1>1. BudgetTypeOK' BY DEF BudgetTypeOK, Preempt, slotVars, stepVars
<1>2. Leaves(r)
  <2>1. Kept(r) BY KeptIs
  <2>2. Kept(r)' = Kept(r) BY SameKept DEF Preempt
  <2> QED BY <2>1, <2>2 DEF Leaves, Preempt, BudgetTypeOK
<1>3. \A q \in Reqs \ {r} : Stays(q) BY DEF Stays, Preempt, BudgetTypeOK
<1> QED BY <1>1, <1>2, <1>3, LeaveStep DEF Preempt

LEMMA FinishStep ==
    ASSUME BudgetInv, NEW r \in Reqs, Finish(r)
    PROVE  BudgetInv'
<1> USE DEF BudgetInv
<1>1. <<>> \in Seq(TokenKinds) BY EmptySeq
<1>2. BudgetTypeOK' BY <1>1 DEF BudgetTypeOK, Finish, slotVars, stepVars
<1>3. Leaves(r)
  <2>1. wish'[r] = None BY DEF Finish, BudgetTypeOK
  <2>2. Kept(r)' BY <2>1 DEF Kept
  <2> QED BY <2>2 DEF Leaves, Finish, BudgetTypeOK
<1>4. \A q \in Reqs \ {r} : Stays(q) BY DEF Stays, Finish, BudgetTypeOK
<1> QED BY <1>2, <1>3, <1>4, LeaveStep DEF Finish

\* What was kept within the budget is kept by any part of the text that is longer.
LEMMA ResetRunningStep ==
    ASSUME BudgetInv, ResetRunning
    PROVE  BudgetInv'
<1> USE DEF BudgetInv
<1>1. <<>> \in Seq(TokenKinds) BY EmptySeq
<1>2. /\ batch = <<>> /\ UNCHANGED <<wish, opens, gen>>
      /\ UNCHANGED slotVars /\ UNCHANGED stepVars
      /\ state' = [q \in Reqs |-> IF state[q] = "running" THEN "preempted" ELSE state[q]]
      /\ slot' = [q \in Reqs |-> IF state[q] = "running" THEN NoSlot ELSE slot[q]]
      /\ pend' = [q \in Reqs |-> IF state[q] = "running" THEN <<>> ELSE pend[q]]
  BY DEF ResetRunning
<1>3. BudgetTypeOK' BY <1>1, <1>2 DEF BudgetTypeOK, slotVars, stepVars
<1>4. ASSUME NEW q \in Reqs PROVE Leaves(q) \/ Stays(q)
  <2>1. CASE state[q] # "running" BY <1>2, <2>1 DEF Stays
  <2>2. CASE state[q] = "running"
    <3>1. state'[q] = "preempted" /\ slot'[q] = NoSlot /\ pend'[q] = <<>> BY <1>2, <2>2
    <3>2. PICK g, p, L, M, b : /\ g = gen[q] /\ p = pend[q] /\ b = wish[q]
                               /\ L = Len(g) /\ M = Len(g \o p)
      OBVIOUS
    <3>3. /\ g \in Seq(TokenKinds) /\ p \in Seq(TokenKinds) /\ L \in Nat
          /\ b # None => b \in Nat
      BY <3>2, LenProperties, BudgetAssumption DEF BudgetTypeOK
    <3>4. M \in Nat /\ L <= M /\ \A k \in 1 .. L : (g \o p)[k] = g[k]
      <4>1. /\ M = L + Len(p) /\ Len(p) \in Nat
            /\ \A k \in 1 .. L + Len(p) : (g \o p)[k] = IF k <= L THEN g[k] ELSE p[k - L]
        <5>1. /\ Len(g \o p) = Len(g) + Len(p)
              /\ \A k \in 1 .. Len(g) + Len(p) :
                     (g \o p)[k] = IF k <= Len(g) THEN g[k] ELSE p[k - Len(g)]
          BY <3>3, ConcatProperties
        <5>2. Len(p) \in Nat BY <3>3, LenProperties
        <5> QED BY <3>2, <5>1, <5>2
      <4>2. PICK N, y : N = Len(p) /\ y = g \o p OBVIOUS
      <4>3. /\ M = L + N /\ N \in Nat
            /\ \A k \in 1 .. L + N : y[k] = IF k <= L THEN g[k] ELSE p[k - L]
        BY <4>1, <4>2
      <4>4. ASSUME NEW k \in 1 .. L PROVE y[k] = g[k]
        <5>1. k \in 1 .. L + N /\ k <= L BY <3>3, <4>3
        <5> QED BY <4>3, <5>1
      <4>5. M \in Nat /\ L <= M BY <3>3, <4>3
      <4> QED BY <4>2, <4>4, <4>5
    <3>5. Text(q) = g \o p /\ Text(q)' = g /\ wish'[q] = b /\ opens'[q] = opens[q]
      <4>1. g \o <<>> = g BY <3>3, ConcatEmptySeq
      <4> QED BY <1>2, <3>1, <3>2, <4>1 DEF Text
    <3>6. b # None /\ opens[q] /\ M > b => \E k \in 1 .. b + 1 : (g \o p)[k] = End
      <4>1. Kept(q) BY KeptIs
      <4> QED BY <3>2, <3>5, <4>1, KeptAt
    <3>7. b # None /\ opens[q] /\ L > b => \E k \in 1 .. b + 1 : g[k] = End
      <4> SUFFICES ASSUME b # None, opens[q], L > b PROVE \E k \in 1 .. b + 1 : g[k] = End
        OBVIOUS
      <4>3. M > b
        <5>1. b \in Nat BY <3>3
        <5> QED BY <3>3, <3>4, <5>1
      <4>1. PICK k \in 1 .. b + 1 : (g \o p)[k] = End BY <3>6, <4>3
      <4>2. k \in 1 .. L BY <3>3
      <4> QED BY <3>4, <4>1, <4>2
    <3>8. Kept(q)'
      <4>1. ASSUME b # None, opens[q], L > b PROVE End \in ToSet(SubSeq(g, 1, b + 1))
        <5>1. PICK m : m = b + 1 OBVIOUS
        <5>2. m \in 0 .. L BY <3>3, <4>1, <5>1
        <5> QED BY <3>2, <3>3, <3>7, <4>1, <5>1, <5>2, PrefixHas
      <4> QED BY <3>2, <3>5, <4>1 DEF Kept
    <3> QED BY <3>1, <3>8 DEF Leaves
  <2> QED BY <2>1, <2>2
<1> QED BY <1>2, <1>3, <1>4, LeaveStep

LEMMA SameTextSameRest ==
    ASSUME NEW r \in Reqs, Text(r)' = Text(r), wish'[r] = wish[r], opens'[r] = opens[r]
    PROVE  Reasons(r)' = Reasons(r) /\ Kept(r)' = Kept(r)
BY DEF Reasons, Kept

LEMMA DeliverStep ==
    ASSUME BudgetInv, NEW r \in Reqs, Deliver(r)
    PROVE  BudgetInv'
<1> USE DEF BudgetInv
<1>1. PICK x : x = Text(r) OBVIOUS
<1>2. x \in Seq(TokenKinds) /\ <<>> \in Seq(TokenKinds) BY <1>1, TextIs, EmptySeq
<1>3. /\ gen' = [gen EXCEPT ![r] = x] /\ pend' = [pend EXCEPT ![r] = <<>>]
      /\ UNCHANGED <<state, wish, opens, slot>> /\ UNCHANGED slotVars /\ UNCHANGED stepVars
      /\ batch = <<>> /\ pend[r] # <<>>
  BY <1>1 DEF Deliver
<1>4. BudgetTypeOK' BY <1>2, <1>3 DEF BudgetTypeOK, slotVars, stepVars
<1>5. BatchForced' BY <1>3, NoBatch
<1>6. ASSUME NEW q \in Reqs
      PROVE  Text(q)' = Text(q) /\ Reasons(q)' = Reasons(q) /\ Kept(q)' = Kept(q)
  <2>1. Text(q)' = Text(q)
    <3>1. CASE q = r
      <4>1. x \o <<>> = x BY <1>2, ConcatEmptySeq
      <4>2. gen'[r] = x /\ pend'[r] = <<>> BY <1>3 DEF BudgetTypeOK
      <4>3. Text(r)' = x BY <4>1, <4>2 DEF Text
      <4> QED BY <1>1, <3>1, <4>3
    <3>2. CASE q # r
      <4>1. gen'[q] = gen[q] /\ pend'[q] = pend[q] BY <1>3, <3>2 DEF BudgetTypeOK
      <4> QED BY <4>1 DEF Text
    <3> QED BY <3>1, <3>2
  <2> QED BY <1>3, <2>1, SameTextSameRest
<1>7. SlotsHeld'
  <2>1. ASSUME NEW q \in Reqs, state'[q] = "new" PROVE gen'[q] = <<>> /\ pend'[q] = <<>>
    <3>1. gen[q] = <<>> /\ pend[q] = <<>> /\ q # r BY <1>3, <2>1 DEF SlotsHeld
    <3> QED BY <1>3, <3>1 DEF BudgetTypeOK
  <2> QED BY <1>3, <2>1 DEF SlotsHeld
<1>8. SlotsTrue' BY <1>3, <1>6 DEF SlotsTrue, slotVars
<1>9. BudgetKept'
  <2>1. \A q \in Reqs : Kept(q)' BY <1>6, KeptIs
  <2> QED BY <2>1 DEF BudgetKept, Kept
<1> QED BY <1>4, <1>5, <1>7, <1>8, <1>9

\* What a request is given: n drafts and the token in the place after them.
LEMMA Accepted ==
    ASSUME NEW d \in Seq(TokenKinds), NEW n \in 0 .. Len(d), NEW t \in TokenKinds
    PROVE  /\ Append(SubSeq(d, 1, n), t) \in Seq(TokenKinds)
           /\ Len(Append(SubSeq(d, 1, n), t)) = n + 1
           /\ \A j \in 1 .. n : Append(SubSeq(d, 1, n), t)[j] = d[j]
           /\ Append(SubSeq(d, 1, n), t)[n + 1] = t
<1>1. PICK m : m = Len(d) OBVIOUS
<1>2. m \in Nat /\ n \in 0 .. m BY <1>1, LenProperties
<1>3. \A i \in 1 .. n : d[i] \in TokenKinds
  <2>1. \A i \in 1 .. n : i \in 1 .. Len(d) BY <1>1, <1>2
  <2> QED BY <2>1, ElementOfSeq
<1>4. PICK u : u = SubSeq(d, 1, n) OBVIOUS
<1>5. /\ u \in Seq(TokenKinds) /\ Len(u) = IF 1 <= n THEN n - 1 + 1 ELSE 0
      /\ \A i \in 1 .. n - 1 + 1 : u[i] = d[1 + i - 1]
  <2>1. 1 \in Int /\ n \in Int BY <1>2
  <2> QED BY <1>3, <1>4, <2>1, SubSeqProperties
<1>6. Len(u) = n BY <1>2, <1>5
<1>7. \A i \in 1 .. n : u[i] = d[i]
  <2> SUFFICES ASSUME NEW i \in 1 .. n PROVE u[i] = d[i] OBVIOUS
  <2>1. i \in 1 .. n - 1 + 1 /\ 1 + i - 1 = i BY <1>2
  <2> QED BY <1>5, <2>1
<1>8. PICK w : w = Append(u, t) OBVIOUS
<1>9. /\ w \in Seq(TokenKinds) /\ Len(w) = n + 1 /\ w[n + 1] = t
      /\ \A i \in 1 .. n : w[i] = u[i]
  BY <1>5, <1>6, <1>8, AppendProperties
<1> QED BY <1>4, <1>7, <1>8, <1>9

\* The end comes within the budget: it is in the text, in the drafts before the row
\* that uses the budget up, or in that row.
LEMMA EndInTime ==
    ASSUME NEW x \in Seq(TokenKinds), NEW toks \in Seq(TokenKinds), NEW b \in Nat,
           Len(x) + Len(toks) > b,
           Len(x) > b => \E k \in 1 .. b + 1 : x[k] = End,
           NEW row \in Int, row = b - Len(x) + 1,
           Len(x) <= b /\ End \notin ToSet(x) => \E j \in 1 .. row : toks[j] = End
    PROVE  \E k \in 1 .. b + 1 : (x \o toks)[k] = End
<1>1. PICK L, M, y : L = Len(x) /\ M = Len(toks) /\ y = x \o toks OBVIOUS
<1>2. /\ L \in Nat /\ M \in Nat
      /\ \A i \in 1 .. L + M : y[i] = IF i <= L THEN x[i] ELSE toks[i - L]
  BY <1>1, ConcatProperties, LenProperties
<1>3. L + M > b /\ row = b - L + 1 BY <1>1
<1>4. CASE L > b
  <2>1. PICK k \in 1 .. b + 1 : x[k] = End BY <1>1, <1>4
  <2>2. k \in 1 .. L + M /\ k <= L BY <1>2, <1>4
  <2> QED BY <1>1, <1>2, <2>1, <2>2
<1>5. CASE L <= b /\ End \in ToSet(x)
  <2>1. PICK k \in 1 .. L : x[k] = End BY <1>1, <1>5, ToSetOf
  <2>2. k \in 1 .. L + M /\ k <= L /\ k \in 1 .. b + 1 BY <1>2, <1>5
  <2> QED BY <1>1, <1>2, <2>1, <2>2
<1>6. CASE L <= b /\ End \notin ToSet(x)
  <2>1. PICK j \in 1 .. row : toks[j] = End BY <1>1, <1>6
  <2>2. PICK k : k = L + j OBVIOUS
  <2>3. k \in 1 .. L + M /\ ~ (k <= L) /\ k - L = j /\ k \in 1 .. b + 1
    BY <1>2, <1>3, <1>6, <2>2
  <2>4. y[k] = End BY <1>2, <2>1, <2>3
  <2> QED BY <1>1, <2>3, <2>4
<1> QED BY <1>2, <1>4, <1>5, <1>6

LEMMA HasConcat ==
    ASSUME NEW x \in Seq(TokenKinds), NEW toks \in Seq(TokenKinds), NEW e
    PROVE  e \in ToSet(x \o toks) <=> e \in ToSet(x) \/ e \in ToSet(toks)
<1>1. PICK L, M, y : L = Len(x) /\ M = Len(toks) /\ y = x \o toks OBVIOUS
<1>2. /\ L \in Nat /\ M \in Nat /\ y \in Seq(TokenKinds) /\ Len(y) = L + M
      /\ \A i \in 1 .. L + M : y[i] = IF i <= L THEN x[i] ELSE toks[i - L]
  BY <1>1, ConcatProperties, LenProperties
<1>3. ASSUME e \in ToSet(y) PROVE e \in ToSet(x) \/ e \in ToSet(toks)
  <2>1. PICK k \in 1 .. L + M : y[k] = e BY <1>2, <1>3, ToSetOf
  <2>2. CASE k <= L
    <3>1. k \in 1 .. L /\ x[k] = e BY <1>2, <2>1, <2>2
    <3> QED BY <1>1, <3>1, ToSetOf
  <2>3. CASE ~ (k <= L)
    <3>1. PICK j : j = k - L OBVIOUS
    <3>2. j \in 1 .. M /\ toks[j] = e BY <1>2, <2>1, <2>3, <3>1
    <3> QED BY <1>1, <3>2, ToSetOf
  <2> QED BY <2>2, <2>3
<1>4. ASSUME e \in ToSet(x) PROVE e \in ToSet(y)
  <2>1. PICK k \in 1 .. L : x[k] = e BY <1>1, <1>4, ToSetOf
  <2>2. k \in 1 .. L + M /\ y[k] = e BY <1>2, <2>1
  <2> QED BY <1>2, <2>2, ToSetOf
<1>5. ASSUME e \in ToSet(toks) PROVE e \in ToSet(y)
  <2>1. PICK j \in 1 .. M : toks[j] = e BY <1>1, <1>5, ToSetOf
  <2>2. PICK k : k = L + j OBVIOUS
  <2>3. k \in 1 .. L + M /\ ~ (k <= L) /\ k - L = j BY <1>2, <2>2
  <2>4. y[k] = e BY <1>2, <2>1, <2>3
  <2> QED BY <1>2, <2>3, <2>4, ToSetOf
<1> QED BY <1>1, <1>3, <1>4, <1>5

LEMMA AcceptStep ==
    ASSUME BudgetInv, NEW n \in 0 .. SpecSteps, NEW t \in TokenKinds, Accept(n, t)
    PROVE  BudgetInv'
<1> USE DEF BudgetInv
<1>1. PICK r, d, toks, s : /\ r = Head(batch) /\ d = draftTokens[r]
                           /\ toks = Append(SubSeq(d, 1, n), t) /\ s = slot[r]
  OBVIOUS
<1>2. batch \in Seq(Reqs) /\ batch # <<>> BY DEF Accept, BudgetTypeOK
<1>3. Len(batch) \in Nat \ {0} /\ r = batch[1] BY <1>1, <1>2, EmptySeq
<1>4. r \in Reqs /\ d \in Seq(TokenKinds) /\ s \in Slots /\ state[r] = "running"
  <2>1. 1 \in 1 .. Len(batch) BY <1>3
  <2>2. r \in Reqs /\ state[r] = "running"
    <3>1. r \in Reqs BY <1>2, <1>3, <2>1, ElementOfSeq
    <3>2. state[batch[1]] = "running" BY <2>1 DEF BatchForced
    <3> QED BY <1>3, <3>1, <3>2
  <2>3. d \in Seq(TokenKinds) BY <1>1, <2>2 DEF BudgetTypeOK
  <2>4. s \in Slots BY <1>1, <2>2 DEF BudgetTypeOK, SlotsHeld
  <2> QED BY <2>2, <2>3, <2>4
<1>5. /\ n <= Len(d) /\ \A k \in 1 .. n + 1 : Fits(r, k, toks[k])
      /\ pend' = [pend EXCEPT ![r] = @ \o toks]
      /\ active' = [active EXCEPT ![s] = ActiveAfter(r, toks)]
      /\ forced' = {f \in forced : f[1] # r}
      /\ draftTokens' = [draftTokens EXCEPT ![r] = <<>>]
      /\ batch' = Tail(batch)
      /\ UNCHANGED <<state, wish, opens, gen, slot, budget, use>>
  BY <1>1 DEF Accept
<1>6. PICK D : D = Len(d) OBVIOUS
<1>7. D \in Nat /\ n \in Nat /\ n <= D
  <2>1. D \in Nat BY <1>4, <1>6, LenProperties
  <2>2. n \in Nat BY BudgetAssumption
  <2> QED BY <1>5, <1>6, <2>1, <2>2
<1>8. /\ toks \in Seq(TokenKinds) /\ Len(toks) = n + 1
      /\ \A j \in 1 .. n : toks[j] = d[j]
  <2>1. n \in 0 .. Len(d) BY <1>6, <1>7
  <2> QED BY <1>1, <1>4, <2>1, Accepted
<1>9. PICK x, b, L : x = Text(r) /\ b = wish[r] /\ L = Len(x) OBVIOUS
<1>10. x \in Seq(TokenKinds) /\ L \in Nat /\ (b # None => b \in Nat)
  <2>1. x \in Seq(TokenKinds) /\ L \in Nat BY <1>4, <1>9, TextIs
  <2>2. b \in Budgets \cup {None} BY <1>4, <1>9 DEF BudgetTypeOK
  <2> QED BY <2>1, <2>2, BudgetAssumption
<1>11. Text(r)' = x \o toks
  <2>1. gen[r] \in Seq(TokenKinds) /\ pend[r] \in Seq(TokenKinds) BY <1>4, TextIs
  <2>2. gen'[r] = gen[r] /\ pend'[r] = pend[r] \o toks BY <1>4, <1>5 DEF BudgetTypeOK
  <2>3. PICK g, p : g = gen[r] /\ p = pend[r] OBVIOUS
  <2>4. g \in Seq(TokenKinds) /\ p \in Seq(TokenKinds) BY <2>1, <2>3
  <2>5. (g \o p) \o toks = g \o (p \o toks) BY <1>8, <2>4, ConcatAssociative
  <2>6. Text(r)' = g \o (p \o toks) BY <2>2, <2>3 DEF Text
  <2>7. x = g \o p BY <1>9, <2>3 DEF Text
  <2> QED BY <2>5, <2>6, <2>7
<1>12. PICK still \in BOOLEAN : still = (active[s] /\ End \notin ToSet(toks)) OBVIOUS
<1>13. active' = [active EXCEPT ![s] = still] BY <1>1, <1>5, <1>12 DEF ActiveAfter
<1>14. BudgetTypeOK'
  <2>1. pend[r] \o toks \in Seq(TokenKinds)
    <3>1. pend[r] \in Seq(TokenKinds) BY <1>4, TextIs
    <3> QED BY <1>8, <3>1, ConcatProperties
  <2>2. Tail(batch) \in Seq(Reqs) /\ <<>> \in Seq(TokenKinds) BY <1>2, HeadTailProperties, EmptySeq
  <2>3. pend' \in [Reqs -> Seq(TokenKinds)] BY <1>5, <2>1 DEF BudgetTypeOK
  <2> QED BY <1>5, <1>13, <2>2, <2>3 DEF BudgetTypeOK
<1>15. SlotsHeld'
  <2>1. ASSUME NEW q \in Reqs, state'[q] = "new" PROVE gen'[q] = <<>> /\ pend'[q] = <<>>
    <3>1. q # r /\ gen[q] = <<>> /\ pend[q] = <<>> BY <1>4, <1>5, <2>1 DEF SlotsHeld
    <3> QED BY <1>5, <3>1 DEF BudgetTypeOK
  <2> QED BY <1>5, <2>1 DEF SlotsHeld
<1>16. ASSUME NEW q \in Reqs, q # r
       PROVE  Text(q)' = Text(q) /\ Reasons(q)' = Reasons(q) /\ Kept(q)' = Kept(q)
  <2>1. gen'[q] = gen[q] /\ pend'[q] = pend[q] BY <1>5, <1>16 DEF BudgetTypeOK
  <2> QED BY <1>5, <2>1, SameReasons, SameKept
<1>17. Reasons(r)' = still
  <2>1. active[s] = Reasons(r) BY <1>1, <1>4 DEF SlotsTrue
  <2>2. Reasons(r)' = (b # None /\ opens[r] /\ End \notin ToSet(x \o toks))
    BY <1>5, <1>9, <1>11 DEF Reasons
  <2>3. Reasons(r) = (b # None /\ opens[r] /\ End \notin ToSet(x)) BY <1>9 DEF Reasons
  <2>4. End \in ToSet(x \o toks) <=> End \in ToSet(x) \/ End \in ToSet(toks)
    BY <1>8, <1>10, HasConcat
  <2> QED BY <1>12, <2>1, <2>2, <2>3, <2>4
<1>18. SlotsTrue'
  <2> SUFFICES ASSUME NEW q \in Reqs, state'[q] = "running"
               PROVE  /\ budget'[slot'[q]] = wish'[q] /\ use'[slot'[q]] = (wish'[q] # None)
                      /\ active'[slot'[q]] = Reasons(q)'
    BY DEF SlotsTrue
  <2>1. CASE q = r
    <3>1. active'[slot'[r]] = still BY <1>1, <1>4, <1>5, <1>13 DEF BudgetTypeOK
    <3>2. budget'[slot'[r]] = wish'[r] /\ use'[slot'[r]] = (wish'[r] # None)
      BY <1>4, <1>5 DEF SlotsTrue
    <3> QED BY <1>17, <2>1, <3>1, <3>2
  <2>2. CASE q # r
    <3>1. state[q] = "running" /\ slot[q] # s
      BY <1>1, <1>4, <1>5, <2>2, BudgetAssumption DEF SlotsHeld
    <3>2. active'[slot[q]] = active[slot[q]]
      <4>1. slot[q] \in Slots BY <3>1 DEF SlotsHeld, BudgetTypeOK
      <4> QED BY <1>13, <3>1, <4>1 DEF BudgetTypeOK
    <3> QED BY <1>5, <1>16, <2>2, <3>1, <3>2 DEF SlotsTrue
  <2> QED BY <2>1, <2>2
<1>19. Kept(r)'
  <2>1. ASSUME b # None, opens[r], L + (n + 1) > b
        PROVE  \E k \in 1 .. b + 1 : (x \o toks)[k] = End
    <3>1. b \in Nat BY <1>10, <2>1
    <3>2. PICK row : row = b - L + 1 OBVIOUS
    <3>3. row \in Int BY <1>10, <3>1, <3>2
    <3>4. L > b => \E k \in 1 .. b + 1 : x[k] = End
      <4>1. Kept(r) BY <1>4, KeptIs
      <4> QED BY <1>4, <1>9, <2>1, <4>1, KeptAt
    <3>5. ASSUME L <= b, End \notin ToSet(x) PROVE \E j \in 1 .. row : toks[j] = End
      <4>1. row \in 1 .. n + 1 /\ L + row - 1 = b BY <1>7, <1>10, <2>1, <3>1, <3>2, <3>5
      <4>2. Reasons(r) BY <1>9, <2>1, <3>5 DEF Reasons
      <4>3. CASE \E j \in 1 .. row - 1 : d[j] = End
        <5>1. PICK j \in 1 .. row - 1 : d[j] = End BY <4>3
        <5>2. j \in 1 .. n /\ j \in 1 .. row BY <1>7, <4>1
        <5> QED BY <1>8, <5>1, <5>2
      <4>4. CASE ~ \E j \in 1 .. row - 1 : d[j] = End
        <5>1. UsesUp(r, row, d) BY <1>9, <4>1, <4>2, <4>4 DEF UsesUp
        <5>2. row \in 1 .. D + 1 BY <1>7, <4>1
        <5>3. <<r, row>> \in forced <=> UsesUp(r, row, d)
          <6>1. 1 \in 1 .. Len(batch) BY <1>3
          <6>2. \A w \in 1 .. Len(draftTokens[batch[1]]) + 1 :
                    <<batch[1], w>> \in forced <=> UsesUp(batch[1], w, draftTokens[batch[1]])
            BY <6>1 DEF BatchForced
          <6> QED BY <1>1, <1>3, <1>6, <5>2, <6>2
        <5>4. toks[row] = End BY <1>5, <4>1, <5>1, <5>3 DEF Fits
        <5>5. row \in 1 .. row BY <4>1
        <5> QED BY <5>4, <5>5
      <4> QED BY <4>3, <4>4
    <3>6. Len(x) + Len(toks) > b BY <1>8, <1>9, <2>1
    <3> QED BY <1>8, <1>9, <1>10, <3>1, <3>2, <3>3, <3>4, <3>5, <3>6, EndInTime, ZenonT(30)
  <2>2. PICK y : y = x \o toks OBVIOUS
  <2>3. y \in Seq(TokenKinds) /\ Len(y) = L + (n + 1)
    <3>1. y \in Seq(TokenKinds) /\ Len(y) = Len(x) + Len(toks)
      BY <1>8, <1>10, <2>2, ConcatProperties
    <3> QED BY <1>8, <1>9, <3>1
  <2>4. ASSUME b # None, opens[r], Len(y) > b PROVE End \in ToSet(SubSeq(y, 1, b + 1))
    <3>1. PICK m : m = b + 1 OBVIOUS
    <3>2. m \in 0 .. Len(y) BY <1>7, <1>10, <2>3, <2>4, <3>1
    <3>3. \E k \in 1 .. m : y[k] = End BY <2>1, <2>2, <2>3, <2>4, <3>1
    <3> QED BY <2>3, <3>1, <3>2, <3>3, PrefixHas
  <2> QED BY <1>5, <1>9, <1>11, <2>2, <2>4 DEF Kept
<1>20. BudgetKept'
  <2>1. \A q \in Reqs : Kept(q)' BY <1>16, <1>19, KeptIs
  <2> QED BY <2>1 DEF BudgetKept, Kept
<1>21. BatchForced'
  <2>1. PICK N, u : N = Len(batch) /\ u = Tail(batch) OBVIOUS
  <2>2. /\ N \in Nat \ {0} /\ u \in Seq(Reqs) /\ Len(u) = N - 1
        /\ DOMAIN u = 1 .. Len(u) /\ DOMAIN batch = 1 .. N
        /\ \A i \in 1 .. Len(u) : u[i] = batch[i + 1]
    BY <1>2, <1>3, <2>1, HeadTailProperties, LenProperties
  <2>3. IsInjective(batch) BY DEF BatchForced
  <2>4. ASSUME NEW i \in 1 .. N - 1
        PROVE  /\ i + 1 \in 1 .. N /\ u[i] = batch[i + 1] /\ u[i] \in Reqs
               /\ batch[i + 1] # batch[1]
    <3>1. i + 1 \in 1 .. N /\ 1 \in 1 .. N /\ i + 1 # 1 BY <2>2
    <3>2. batch[i + 1] # batch[1] BY <2>2, <2>3, <3>1 DEF IsInjective
    <3>3. u[i] = batch[i + 1] BY <2>2
    <3>4. batch[i + 1] \in Reqs BY <1>2, <2>1, <3>1, ElementOfSeq
    <3> QED BY <3>1, <3>2, <3>3, <3>4
  <2>5. IsInjective(u)
    <3> SUFFICES ASSUME NEW i \in 1 .. N - 1, NEW j \in 1 .. N - 1, u[i] = u[j] PROVE i = j
      BY <2>2 DEF IsInjective
    <3>1. batch[i + 1] = batch[j + 1] /\ i + 1 \in 1 .. N /\ j + 1 \in 1 .. N BY <2>4
    <3>2. i + 1 = j + 1 BY <2>2, <2>3, <3>1 DEF IsInjective
    <3> QED BY <3>2
  <2>6. PICK f : f = draftTokens' OBVIOUS
  <2>7. ASSUME NEW i \in 1 .. N - 1
        PROVE  /\ state'[u[i]] = "running"
               /\ \A w \in 1 .. Len(f[u[i]]) + 1 :
                      <<u[i], w>> \in forced' <=> UsesUp(u[i], w, f[u[i]])'
    <3>1. PICK q, h : q = u[i] /\ h = draftTokens[q] OBVIOUS
    <3>2. q = batch[i + 1] /\ q # r /\ q \in Reqs /\ i + 1 \in 1 .. Len(batch)
      BY <1>3, <2>1, <2>4, <3>1
    <3>3. state[q] = "running" /\ \A w \in 1 .. Len(h) + 1 :
              <<q, w>> \in forced <=> UsesUp(q, w, h)
      BY <3>1, <3>2 DEF BatchForced
    <3>4. f[q] = h /\ wish'[q] = wish[q] /\ state'[q] = state[q]
      BY <1>5, <2>6, <3>1, <3>2 DEF BudgetTypeOK
    <3>5. ASSUME NEW w PROVE <<q, w>> \in forced' <=> <<q, w>> \in forced
      <4>1. <<q, w>>[1] = q OBVIOUS
      <4> QED BY <1>5, <3>2, <4>1
    <3>6. ASSUME NEW w PROVE UsesUp(q, w, h)' = UsesUp(q, w, h)
      BY <1>16, <3>2, <3>4 DEF UsesUp
    <3> QED BY <3>1, <3>3, <3>4, <3>5, <3>6
  <2> QED
    <3>1. batch' = u /\ draftTokens' = f /\ 1 .. Len(u) = 1 .. N - 1 BY <1>5, <2>1, <2>2, <2>6
    <3>2. \A k \in 1 .. Len(u) :
              /\ state'[u[k]] = "running"
              /\ \A w \in 1 .. Len(f[u[k]]) + 1 :
                     <<u[k], w>> \in forced' <=> UsesUp(u[k], w, f[u[k]])'
      BY <2>7, <3>1
    <3> QED BY <2>5, <3>1, <3>2 DEF BatchForced
<1> QED BY <1>14, <1>15, <1>18, <1>20, <1>21

-----------------------------------------------------------------------------
(* The theorems on the thinking budget *)

LEMMA BudgetStart == BudgetInit => BudgetInv
<1> SUFFICES ASSUME BudgetInit PROVE BudgetInv OBVIOUS
<1> USE DEF BudgetInit
<1>1. <<>> \in Seq(TokenKinds) /\ <<>> \in Seq(Reqs) BY EmptySeq
<1>2. BudgetTypeOK BY <1>1 DEF BudgetTypeOK
<1>3. SlotsHeld BY DEF SlotsHeld
<1>4. SlotsTrue BY DEF SlotsTrue
<1>5. BatchForced
  <2>1. DOMAIN <<>> = {} /\ Len(<<>>) = 0 OBVIOUS
  <2>2. 1 .. 0 = {} OBVIOUS
  <2>3. IsInjective(<<>>) BY <2>1 DEF IsInjective
  <2> QED BY <2>1, <2>2, <2>3 DEF BatchForced
<1>6. BudgetKept BY DEF BudgetKept
<1> QED BY <1>2, <1>3, <1>4, <1>5, <1>6 DEF BudgetInv

LEMMA BudgetStutter ==
    ASSUME BudgetInv, UNCHANGED budgetVars
    PROVE  BudgetInv'
<1> USE DEF BudgetInv
<1>1. /\ UNCHANGED <<state, wish, opens, gen, pend, slot, budget, active, use>>
      /\ UNCHANGED <<batch, draftTokens, forced>>
  BY DEF budgetVars, reqVars, slotVars, stepVars
<1>2. BudgetTypeOK' BY <1>1 DEF BudgetTypeOK
<1>3. SlotsHeld' BY <1>1 DEF SlotsHeld
<1>4. ASSUME NEW r \in Reqs
      PROVE  Text(r)' = Text(r) /\ Reasons(r)' = Reasons(r) /\ Kept(r)' = Kept(r)
  BY <1>1, SameReasons, SameKept
<1>5. SlotsTrue' BY <1>1, <1>4 DEF SlotsTrue
<1>6. BudgetKept'
  <2>1. \A r \in Reqs : Kept(r)' BY <1>4, KeptIs
  <2> QED BY <2>1 DEF BudgetKept, Kept
<1>7. BatchForced'
  <2>1. PICK u, f, F : u = batch /\ f = draftTokens /\ F = forced OBVIOUS
  <2>2. /\ IsInjective(u) /\ \A k \in 1 .. Len(u) : state[u[k]] = "running"
        /\ \A k \in 1 .. Len(u) : \A row \in 1 .. Len(f[u[k]]) + 1 :
               <<u[k], row>> \in F <=> UsesUp(u[k], row, f[u[k]])
    BY <2>1 DEF BatchForced
  <2>3. ASSUME NEW k \in 1 .. Len(u), NEW row \in 1 .. Len(f[u[k]]) + 1
        PROVE  UsesUp(u[k], row, f[u[k]])' = UsesUp(u[k], row, f[u[k]])
    <3>1. PICK q, h : q = u[k] /\ h = f[q] OBVIOUS
    <3>2. q \in Reqs BY <2>1, <3>1, ElementOfSeq DEF BudgetTypeOK
    <3>3. UsesUp(q, row, h)' = UsesUp(q, row, h) BY <1>1, <1>4, <3>2 DEF UsesUp
    <3> QED BY <3>1, <3>3
  <2>4. \A k \in 1 .. Len(u) : \A row \in 1 .. Len(f[u[k]]) + 1 :
            <<u[k], row>> \in F <=> UsesUp(u[k], row, f[u[k]])'
    BY <2>2, <2>3
  <2>5. batch' = u /\ draftTokens' = f /\ forced' = F /\ state' = state BY <1>1, <2>1
  <2> QED BY <2>2, <2>4, <2>5 DEF BatchForced
<1> QED BY <1>2, <1>3, <1>5, <1>6, <1>7

LEMMA BudgetStep == BudgetInv /\ [BudgetNext]_budgetVars => BudgetInv'
<1> SUFFICES ASSUME BudgetInv, [BudgetNext]_budgetVars PROVE BudgetInv' OBVIOUS
<1>1. CASE \E r \in Reqs, s \in Slots, b \in Budgets \cup {None}, o \in BOOLEAN : Arrive(r, s, b, o)
  BY <1>1, ArriveStep
<1>2. CASE \E r \in Reqs, s \in Slots : Resume(r, s) BY <1>2, ResumeStep
<1>3. CASE \E r \in Reqs : Preempt(r) BY <1>3, PreemptStep
<1>4. CASE \E r \in Reqs : Finish(r) BY <1>4, FinishStep
<1>5. CASE \E r \in Reqs : Deliver(r) BY <1>5, DeliverStep
<1>6. CASE ResetRunning BY <1>6, ResetRunningStep
<1>7. CASE \E order \in Orders : \E toks \in DraftsFor(order) : Begin(order, toks)
  BY <1>7, BeginStep
<1>8. CASE \E n \in 0 .. SpecSteps, t \in TokenKinds : Accept(n, t) BY <1>8, AcceptStep
<1>9. CASE UNCHANGED budgetVars BY <1>9, BudgetStutter
<1> QED BY <1>1, <1>2, <1>3, <1>4, <1>5, <1>6, <1>7, <1>8, <1>9 DEF BudgetNext

\* The slots of the sampler say of the running requests what is true of them, the
\* rows of a step force the end where a budget is used up and nowhere else, and the
\* budget is kept, whoever arrives, leaves, is preempted and comes back.
THEOREM BudgetInvariant == BudgetSpec => []BudgetInv
<1> QED BY BudgetStart, BudgetStep, PTL DEF BudgetSpec

\* A request let in with a budget, after a prompt that opens the reasoning, ends it
\* within the budget: for any number of requests, slots, drafts and budgets.
THEOREM BudgetIsKept == BudgetSpec => []BudgetKept
<1>1. BudgetInv => BudgetKept BY DEF BudgetInv
<1> QED BY <1>1, BudgetInvariant, PTL

\* The end is forced only on a request with a budget that reasons still, where the
\* drafts before the forced row can all be accepted.
THEOREM ForcedOnlyInReasoning == BudgetSpec => []ForcedWhileReasoning
<1>1. BudgetInv => ForcedWhileReasoning
  <2> SUFFICES ASSUME BudgetInv, NEW k \in 1 .. Len(batch),
                      NEW row \in 1 .. Len(draftTokens[batch[k]]) + 1, <<batch[k], row>> \in forced
               PROVE  /\ wish[batch[k]] # None /\ opens[batch[k]]
                      /\ End \notin ToSet(Text(batch[k]) \o SubSeq(draftTokens[batch[k]], 1, row - 1))
    BY DEF ForcedWhileReasoning
  <2>1. PICK r, d, D : r = batch[k] /\ d = draftTokens[r] /\ D = Len(d) OBVIOUS
  <2>2. r \in Reqs /\ d \in Seq(TokenKinds) /\ D \in Nat /\ row \in 1 .. D + 1
    <3>1. r \in Reqs BY <2>1, ElementOfSeq DEF BudgetInv, BudgetTypeOK
    <3>2. d \in Seq(TokenKinds) BY <2>1, <3>1 DEF BudgetInv, BudgetTypeOK
    <3> QED BY <2>1, <3>1, <3>2, LenProperties
  <2>3. UsesUp(r, row, d) BY <2>1 DEF BudgetInv, BatchForced
  <2>4. PICK m, u, x : m = row - 1 /\ u = SubSeq(d, 1, m) /\ x = Text(r) OBVIOUS
  <2>5. m \in 0 .. Len(d) /\ x \in Seq(TokenKinds)
    <3>1. m \in 0 .. D BY <2>2, <2>4
    <3>2. x \in Seq(TokenKinds) BY <2>2, <2>4, TextIs DEF BudgetInv
    <3> QED BY <2>1, <3>1, <3>2
  <2>6. End \notin ToSet(u)
    <3>1. \A j \in 1 .. m : d[j] # End BY <2>3, <2>4 DEF UsesUp
    <3> QED BY <2>2, <2>4, <2>5, <3>1, PrefixHas
  <2>7. u \in Seq(TokenKinds)
    <3>1. \A i \in 1 .. m : d[i] \in TokenKinds
      <4>1. \A i \in 1 .. m : i \in 1 .. Len(d) BY <2>1, <2>2, <2>5
      <4> QED BY <2>2, <4>1, ElementOfSeq
    <3>2. 1 \in Int /\ m \in Int BY <2>2, <2>4
    <3> QED BY <2>4, <3>1, <3>2, SubSeqProperties
  <2>8. wish[r] # None /\ opens[r] /\ End \notin ToSet(x) BY <2>3, <2>4 DEF UsesUp, Reasons
  <2>9. End \notin ToSet(x \o u) BY <2>5, <2>6, <2>7, <2>8, HasConcat
  <2> QED BY <2>1, <2>4, <2>8, <2>9
<1> QED BY <1>1, BudgetInvariant, PTL

=============================================================================
