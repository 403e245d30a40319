------------------------- MODULE DraftContextProofs -------------------------
(***************************************************************************)
(* Proofs about the draft context, for every number of requests, slots,    *)
(* drafts and every window: the slot map is a partition of the slots that  *)
(* always has one left for a row that needs it, and the drafts of a        *)
(* request read its own states.                                            *)
(***************************************************************************)
EXTENDS DraftContext, FiniteSetTheorems, TLAPS

-----------------------------------------------------------------------------
(* The slot map *)

\* What the slot map needs of the scheduler and of the batch.
Shape ==
    /\ waiting \subseteq Reqs
    /\ running \subseteq Reqs
    /\ Cardinality(running) <= MaxSeqs
    /\ phase \in {"idle", "propose"}
    /\ batch \in Injection(DOMAIN batch, Reqs)
    /\ phase = "propose" => Members \subseteq running
    /\ slotOf \in [Reqs -> Slots \cup {NoSlot}]
    /\ free \subseteq Slots

SlotInv == Shape /\ SlotsPartitioned

LEMMA ReqsSubsets == ASSUME NEW S, S \subseteq Reqs PROVE IsFiniteSet(S)
<1> QED BY DraftAssumption, FS_Subset

LEMMA SlotInvInit == Init => SlotInv
<1> SUFFICES ASSUME Init PROVE SlotInv OBVIOUS
<1>1. Cardinality(running) = 0 BY FS_EmptySet DEF Init
<1>2. MaxSeqs \in Nat BY DraftAssumption
<1>3. batch \in Injection(DOMAIN batch, Reqs) BY DEF Init, Injection, IsInjective
<1>4. Owners = {} BY DEF Init, Owners
<1> QED BY <1>1, <1>2, <1>3, <1>4 DEF Init, SlotInv, Shape, SlotsPartitioned, NoSlot

\* A step that neither ends nor starts in a batch keeps the map.
LEMMA SlotsKept ==
    ASSUME SlotInv, UNCHANGED <<slotOf, free>>
    PROVE  SlotsPartitioned'
<1> QED BY DEF SlotInv, SlotsPartitioned, Owners, NoSlot, Slots

LEMMA QueuesSlotInv ==
    ASSUME SlotInv, NEW r \in Reqs, Arrive(r) \/ Finish(r) \/ Preempt(r)
    PROVE  SlotInv'
<1>1. SlotsPartitioned' BY SlotsKept DEF Arrive, Finish, Preempt
<1>2. waiting' \subseteq Reqs /\ running' \subseteq Reqs
  BY DEF Arrive, Finish, Preempt, SlotInv, Shape
<1>3. Cardinality(running') <= MaxSeqs
  <2>1. running' \subseteq running BY DEF Arrive, Finish, Preempt
  <2>2. IsFiniteSet(running) BY ReqsSubsets DEF SlotInv, Shape
  <2>3. Cardinality(running') <= Cardinality(running) BY <2>1, <2>2, FS_Subset
  <2>4. Cardinality(running) \in Nat /\ Cardinality(running') \in Nat /\ MaxSeqs \in Nat
    BY <2>2, <1>2, ReqsSubsets, FS_CardinalityType, DraftAssumption
  <2> QED BY <2>3, <2>4 DEF SlotInv, Shape
<1>4. phase = "idle" /\ UNCHANGED <<phase, batch, slotOf, free>>
  BY DEF Arrive, Finish, Preempt
<1> QED BY <1>1, <1>2, <1>3, <1>4 DEF SlotInv, Shape, Slots, NoSlot, Injection, IsInjective

LEMMA ScheduleSlotInv == ASSUME SlotInv, Schedule PROVE SlotInv'
<1>1. SlotsPartitioned' BY SlotsKept DEF Schedule
<1>2. PICK S \in SUBSET Live \ {{}} :
        /\ Cardinality(running \cup S) <= MaxSeqs
        /\ batch' \in Bijection(1 .. Cardinality(S), S)
        /\ running' = running \cup S
        /\ waiting' = waiting \ S
  BY DEF Schedule
<1>3. S \subseteq Reqs BY <1>2 DEF Live, SlotInv, Shape
<1>4. batch' \in Injection(DOMAIN batch', Reqs)
  BY <1>2, <1>3 DEF Bijection, Injection, Surjection, IsInjective
<1>5. Range(batch') \subseteq S BY <1>2 DEF Range, Bijection, Injection
<1> QED BY <1>1, <1>2, <1>3, <1>4, <1>5 DEF Schedule, SlotInv, Shape, Members, Slots, NoSlot

\* The end of a step leaves an empty batch.
LEMMA VerifyShape ==
    ASSUME SlotInv, NEW v, Verify(v)
    PROVE  /\ waiting' \subseteq Reqs /\ running' \subseteq Reqs
           /\ Cardinality(running') <= MaxSeqs
           /\ phase' = "idle"
           /\ batch' \in Injection(DOMAIN batch', Reqs)
<1>1. batch' \in Injection(DOMAIN batch', Reqs) BY DEF Verify, Injection, IsInjective
<1> QED BY <1>1 DEF Verify, SlotInv, Shape

LEMMA SkippedSlotInv == ASSUME SlotInv, DrafterTooShort \/ SkipNonUniform PROVE SlotInv'
<1>1. SlotsPartitioned' BY SlotsKept DEF DrafterTooShort, SkipNonUniform
<1>2. PICK v : Verify(v) BY DEF DrafterTooShort, SkipNonUniform
<1>3. UNCHANGED <<slotOf, free>> BY DEF DrafterTooShort, SkipNonUniform
<1> QED BY <1>1, <1>2, <1>3, VerifyShape DEF SlotInv, Shape, Slots, NoSlot

\* A row's slot after _row_to_slot() is the one it had, or one picked from
\* those that were free or given back.
LEMMA RowToSlotPartitions ==
    ASSUME SlotInv, RowToSlot
    PROVE  /\ slotOf' \in [Reqs -> Slots \cup {NoSlot}]
           /\ free' \subseteq Slots
           /\ Owners' = Members
           /\ \A r \in Members \cap Owners : slotOf'[r] = slotOf[r]
           /\ SlotsPartitioned'
<1>1. PICK pick \in Injection(Newcomers, Reclaimed) :
        /\ slotOf' = [r \in Reqs |-> IF r \in Newcomers THEN pick[r]
                                     ELSE IF r \in Stale THEN NoSlot
                                     ELSE slotOf[r]]
        /\ free' = Reclaimed \ Range(pick)
  BY DEF RowToSlot
<1>2. Members \subseteq Reqs BY DEF SlotInv, Shape, Members, Range, Injection
<1>3. \A r \in Owners : slotOf[r] \in Slots BY DEF Owners, SlotInv, Shape
<1>4. Reclaimed \subseteq Slots BY <1>3 DEF Reclaimed, Stale, SlotInv, Shape
<1>5. \A r \in Newcomers : pick[r] \in Reclaimed /\ pick[r] \in Range(pick)
  BY <1>1 DEF Injection, Range
<1>6. slotOf' \in [Reqs -> Slots \cup {NoSlot}]
  BY <1>1, <1>4, <1>5 DEF SlotInv, Shape
<1>7. \A r \in Newcomers : slotOf'[r] = pick[r]
  BY <1>1, <1>2 DEF Newcomers
<1>8. \A r \in Members \cap Owners : slotOf'[r] = slotOf[r]
  BY <1>1, <1>2 DEF Newcomers, Stale
<1>9. \A s \in Slots : s # NoSlot BY DraftAssumption DEF Slots, NoSlot
<1>10. Owners' = Members
  <2>1. \A r \in Newcomers : slotOf'[r] # NoSlot BY <1>4, <1>5, <1>7, <1>9
  <2>2. \A r \in Members \cap Owners : slotOf'[r] # NoSlot BY <1>8 DEF Owners
  <2>3. \A r \in Reqs \ Members : slotOf'[r] = NoSlot
    BY <1>1 DEF Newcomers, Stale, Owners
  <2> QED BY <1>2, <2>1, <2>2, <2>3 DEF Owners, Newcomers
<1>11. \A r \in Members \cap Owners : slotOf[r] \notin Reclaimed
  BY <1>3 DEF Reclaimed, Stale, SlotInv, SlotsPartitioned
<1>12. \A r, q \in Owners' : slotOf'[r] = slotOf'[q] => r = q
  <2>1. SUFFICES ASSUME NEW r \in Members, NEW q \in Members, slotOf'[r] = slotOf'[q]
                 PROVE  r = q
    BY <1>10 DEF NoSlot
  <2>2. CASE r \in Newcomers /\ q \in Newcomers
    BY <1>1, <1>7, <2>1, <2>2 DEF Injection, IsInjective
  <2>3. CASE r \in Owners /\ q \in Owners
    BY <1>8, <2>1, <2>3 DEF SlotInv, SlotsPartitioned
  <2>4. CASE r \in Newcomers /\ q \in Owners BY <1>5, <1>7, <1>8, <1>11, <2>1, <2>4
  <2>5. CASE r \in Owners /\ q \in Newcomers BY <1>5, <1>7, <1>8, <1>11, <2>1, <2>5
  <2> QED BY <2>2, <2>3, <2>4, <2>5 DEF Newcomers
<1>13. {slotOf'[r] : r \in Owners'} = Slots \ free'
  <2>1. ASSUME NEW r \in Members PROVE slotOf'[r] \in Slots \ free'
    <3>1. CASE r \in Newcomers BY <1>1, <1>4, <1>5, <1>7, <3>1
    <3>2. CASE r \in Owners BY <1>1, <1>3, <1>8, <1>11, <2>1, <3>2
    <3> QED BY <3>1, <3>2 DEF Newcomers
  <2>2. ASSUME NEW s \in Slots \ free' PROVE \E r \in Members : slotOf'[r] = s
    <3>1. CASE s \in Reclaimed
      <4>1. s \in Range(pick) BY <1>1, <2>2, <3>1
      <4>2. PICK r \in Newcomers : s = pick[r] BY <1>1, <4>1 DEF Range, Injection
      <4> QED BY <1>7, <4>2 DEF Newcomers
    <3>2. CASE s \notin Reclaimed
      <4>1. s \notin free BY <3>2 DEF Reclaimed
      <4>2. PICK r \in Owners : s = slotOf[r] BY <2>2, <4>1 DEF SlotInv, SlotsPartitioned
      <4>3. r \in Members BY <3>2, <4>2 DEF Reclaimed, Stale
      <4> QED BY <1>8, <4>2, <4>3
    <3> QED BY <3>1, <3>2
  <2> QED BY <1>10, <2>1, <2>2
<1>14. free' \subseteq Slots BY <1>1, <1>4
<1>15. SlotsPartitioned' BY <1>12, <1>13 DEF SlotsPartitioned, Slots
<1> QED BY <1>6, <1>8, <1>10, <1>14, <1>15

LEMMA ProposeSlotInv == ASSUME SlotInv, Propose PROVE SlotInv'
<1>1. RowToSlot BY DEF Propose
<1>2. PICK v : Verify(v) BY DEF Propose
<1> QED BY <1>1, <1>2, VerifyShape, RowToSlotPartitions DEF SlotInv, Shape, Slots, NoSlot

LEMMA SlotInvNext == SlotInv /\ [Next]_vars => SlotInv'
<1> SUFFICES ASSUME SlotInv, [Next]_vars PROVE SlotInv' OBVIOUS
<1>1. CASE \E r \in Reqs : Arrive(r) \/ Finish(r) \/ Preempt(r)
  BY <1>1, QueuesSlotInv
<1>2. CASE Schedule BY <1>2, ScheduleSlotInv
<1>3. CASE DrafterTooShort \/ SkipNonUniform BY <1>3, SkippedSlotInv
<1>4. CASE Propose BY <1>4, ProposeSlotInv
<1>5. CASE UNCHANGED vars
  BY <1>5 DEF vars, SlotInv, Shape, SlotsPartitioned, Owners, Members, Slots, NoSlot
<1> QED BY <1>1, <1>2, <1>3, <1>4, <1>5 DEF Next

\* The slots given back and the free ones are at least as many as the rows
\* without one: the others are held, one each, by rows of the batch.
LEMMA SlotInvSuffices == SlotInv => SlotsSuffice
<1> SUFFICES ASSUME SlotInv, phase = "propose"
             PROVE  Cardinality(Newcomers) <= Cardinality(Reclaimed)
  BY DEF SlotsSuffice
<1> DEFINE Keepers == Members \cap Owners
           Held == {slotOf[r] : r \in Keepers}
           f == [r \in Keepers |-> slotOf[r]]
<1>1. Members \subseteq running /\ running \subseteq Reqs BY DEF SlotInv, Shape
<1>2. IsFiniteSet(Members) /\ IsFiniteSet(running) /\ IsFiniteSet(Keepers)
  BY <1>1, ReqsSubsets
<1>3. f \in Surjection(Keepers, Held) BY DEF Surjection
<1>4. IsFiniteSet(Held) /\ Cardinality(Held) <= Cardinality(Keepers)
  BY <1>2, <1>3, FS_Surjection
<1>5. MaxSeqs \in Nat BY DraftAssumption
<1>6. IsFiniteSet(Slots) /\ Cardinality(Slots) = MaxSeqs
  BY <1>5, FS_Interval DEF Slots
<1>7. Held \subseteq Slots BY DEF SlotInv, Shape, Owners
<1>8. Reclaimed = Slots \ Held
  <2>1. Reclaimed \subseteq Slots BY DEF Reclaimed, Stale, SlotInv, Shape, Owners
  <2>2. \A r \in Keepers : slotOf[r] \notin Reclaimed
    BY DEF Reclaimed, Stale, SlotInv, SlotsPartitioned
  <2>3. \A s \in Slots \ Held : s \in Reclaimed
    <3>1. SUFFICES ASSUME NEW s \in Slots \ Held, s \notin free PROVE s \in Reclaimed
      BY DEF Reclaimed
    <3>2. PICK r \in Owners : s = slotOf[r] BY <3>1 DEF SlotInv, SlotsPartitioned
    <3> QED BY <3>1, <3>2 DEF Reclaimed, Stale
  <2> QED BY <2>1, <2>2, <2>3
<1>9. Cardinality(Reclaimed) = MaxSeqs - Cardinality(Held)
  <2>1. Cardinality(Slots \ Held) = Cardinality(Slots) - Cardinality(Slots \cap Held)
    BY <1>6, <1>4, FS_Difference
  <2>2. Slots \cap Held = Held BY <1>7
  <2> QED BY <2>1, <2>2, <1>6, <1>8
<1>10. Cardinality(Newcomers) = Cardinality(Members) - Cardinality(Keepers)
  <2>1. IsFiniteSet(Owners) BY ReqsSubsets DEF Owners
  <2> QED BY <1>2, <2>1, FS_Difference DEF Newcomers
<1>11. Cardinality(Members) <= Cardinality(running) BY <1>1, <1>2, FS_Subset
<1>12. Cardinality(running) <= MaxSeqs BY DEF SlotInv, Shape
<1>13. /\ Cardinality(Members) \in Nat /\ Cardinality(running) \in Nat
       /\ Cardinality(Keepers) \in Nat /\ Cardinality(Held) \in Nat
  BY <1>2, <1>4, FS_CardinalityType
<1> HIDE DEF Keepers, Held, f
<1> QED BY <1>4, <1>5, <1>9, <1>10, <1>11, <1>12, <1>13

\* Whatever leaves the batch or skips propose(), two requests never hold one
\* slot of the context cache and no slot is lost (_row_to_slot()).
THEOREM SlotsNeverShared == Spec => []SlotsPartitioned
<1>1. SlotInv => SlotsPartitioned BY DEF SlotInv
<1> QED BY <1>1, SlotInvInit, SlotInvNext, PTL DEF Spec

\* _row_to_slot() never takes a slot from an empty list, for any number of
\* slots and requests.
THEOREM SlotsNeverShort == Spec => []SlotsSuffice
<1> QED BY SlotInvInit, SlotInvNext, SlotInvSuffices, PTL DEF Spec

-----------------------------------------------------------------------------
(* Arithmetic of the ring: positions less than a window apart differ in cell *)

LEMMA DivMod ==
    ASSUME NEW W \in Nat \ {0}, NEW p \in Nat
    PROVE  p = W * (p \div W) + (p % W) /\ p % W \in 0 .. W - 1 /\ p \div W \in Nat
<1> QED BY SMT

LEMMA MulGap ==
    ASSUME NEW W \in Nat \ {0}, NEW x \in Nat, NEW y \in Nat, y > x
    PROVE  W * y >= W * x + W
<1>1. PICK d \in Nat : y = x + 1 + d
  <2>1. y - x - 1 \in Nat /\ y = x + 1 + (y - x - 1) OBVIOUS
  <2> QED BY <2>1
<1>2. W * y = W * x + W + W * d BY <1>1, SMT
<1>3. W * d \in Nat BY <1>1, SMT
<1>4. W * x \in Nat BY SMT
<1> QED BY <1>2, <1>3, <1>4

LEMMA CellsApart ==
    ASSUME NEW W \in Nat \ {0}, NEW p \in Nat, NEW q \in Nat, p < q, q - p < W
    PROVE  p % W # q % W
<1>1. SUFFICES ASSUME p % W = q % W PROVE FALSE OBVIOUS
<1> DEFINE x == p \div W
           y == q \div W
           c == p % W
<1>2. p = W * x + c /\ q = W * y + c /\ x \in Nat /\ y \in Nat /\ c \in 0 .. W - 1
  BY DivMod, <1>1
<1>3. W * x \in Nat /\ W * y \in Nat BY <1>2, SMT
<1> HIDE DEF x, y, c
<1>4. CASE y > x
  <2>1. W * y >= W * x + W BY <1>2, <1>4, MulGap
  <2> QED BY <2>1, <1>2, <1>3
<1>5. CASE x >= y
  <2>1. CASE x = y BY <2>1, <1>2
  <2>2. CASE x > y
    <3>1. W * x >= W * y + W BY <1>2, <2>2, MulGap
    <3> QED BY <3>1, <1>2, <1>3
  <2> QED BY <2>1, <2>2, <1>2, <1>5
<1> QED BY <1>2, <1>4, <1>5

-----------------------------------------------------------------------------
(* Counts of a step, and the types *)

\* A request has drafts only while all but its last token is computed; only
\* rows of the batch have tokens scheduled, and never more than they lack.
Counts ==
    /\ \A r \in Reqs : spec[r] > 0 => tokens[r] = computed[r] + 1
    /\ \A r \in Reqs \ Members : rows[r] = 0
    /\ \A r \in Reqs \ Live : computed[r] = 0 /\ spec[r] = 0
    /\ phase = "propose" => \A r \in Members : 1 <= rows[r] /\ rows[r] <= Wanted(r)

\* The stored window without its guard on the phase and for waiting requests
\* too, which have nothing computed.
OwnWindows ==
    \A r \in Live \cap Owners : \A p \in WindowOf(r) :
      p >= since[r] => cache[slotOf[r]][p % Window] = [req |-> r, gen |-> gen[r], pos |-> p]

IInv == TypeOK /\ SlotsPartitioned /\ Counts /\ OwnWindows

LEMMA IInvSlots == IInv => SlotInv
<1> QED BY DEF IInv, TypeOK, SlotInv, Shape

LEMMA IInvInit == Init => IInv
<1> SUFFICES ASSUME Init PROVE IInv OBVIOUS
<1>1. SlotInv BY SlotInvInit
<1>2. /\ MaxSeqs \in Nat /\ ModelLen \in Nat /\ SpecTokens \in Nat
      /\ Budget \in Nat /\ MaxGen \in Nat
  BY DraftAssumption
<1>3. cache \in [Slots -> [Cells -> Entries]] BY DEF Init, Entries
<1>4. TypeOK BY <1>1, <1>2, <1>3 DEF TypeOK, SlotInv, Shape, Init
<1>5. Counts BY DEF Init, Counts
<1>6. OwnWindows BY DEF Init, OwnWindows, Live
<1> QED BY <1>1, <1>4, <1>5, <1>6 DEF IInv, SlotInv

\* What verification may do to the rows of a batch: at least one survives,
\* all of them if there are no drafts.
LEMMA Survivors ==
    ASSUME IInv, phase = "propose", NEW v \in Outcomes, NEW r \in Members
    PROVE  /\ r \in Reqs
           /\ v[r] \in 1 .. rows[r]
           /\ rows[r] > Window => v[r] = rows[r]
           /\ rows[r] \in Nat
           /\ computed[r] + rows[r] <= ModelLen - 1
<1>1. r \in Reqs BY DEF IInv, TypeOK, Members, Range, Injection
<1>2. /\ computed[r] \in Nat /\ tokens[r] \in Nat /\ spec[r] \in 0 .. SpecTokens
      /\ rows[r] \in Nat /\ ModelLen \in Nat /\ SpecTokens \in Nat /\ Window \in Nat
      /\ SpecTokens < Window
  BY <1>1, DraftAssumption DEF IInv, TypeOK
<1>3. 1 <= rows[r] /\ rows[r] <= Wanted(r) BY DEF IInv, Counts
<1>4. rows[r] <= tokens[r] + spec[r] - computed[r] /\ rows[r] <= ModelLen - 1 - computed[r]
  BY <1>2, <1>3 DEF Wanted, AtMost
<1>5. v[r] \in (IF rows[r] = 0 THEN {0}
                ELSE IF Drafted(r) > 0 THEN rows[r] - Drafted(r) .. rows[r]
                ELSE {rows[r]})
  BY <1>1 DEF Outcomes
<1>6. CASE spec[r] = 0
  <2>1. Drafted(r) <= 0 BY <1>2, <1>4, <1>6 DEF Drafted
  <2>2. v[r] = rows[r] BY <1>2, <1>3, <1>5, <2>1 DEF Drafted
  <2> QED BY <1>1, <1>2, <1>3, <1>4, <2>2
<1>7. CASE spec[r] > 0
  <2>1. tokens[r] = computed[r] + 1 BY <1>1, <1>7 DEF IInv, Counts
  <2>2. rows[r] <= Window BY <1>2, <1>4, <2>1
  <2>3. rows[r] - Drafted(r) = 1 BY <1>2, <2>1 DEF Drafted
  <2>4. Drafted(r) \in Int BY <1>2 DEF Drafted
  <2>5. v[r] \in 1 .. rows[r] BY <1>2, <1>3, <1>5, <2>3, <2>4
  <2> QED BY <1>1, <1>2, <1>4, <2>2, <2>5
<1> QED BY <1>2, <1>6, <1>7

LEMMA NoRows ==
    ASSUME IInv, NEW v \in Outcomes, NEW r \in Reqs \ Members
    PROVE  v[r] = 0
<1> QED BY DEF IInv, Counts, Outcomes

\* The part of TypeOK and Counts that verification touches.
LEMMA VerifyCounts ==
    ASSUME IInv, phase = "propose", NEW v \in Outcomes, Verify(v)
    PROVE  /\ computed' \in [Reqs -> 0 .. ModelLen]
           /\ tokens' \in [Reqs -> 0 .. ModelLen]
           /\ spec' \in [Reqs -> 0 .. SpecTokens]
           /\ rows' \in [Reqs -> 0 .. Budget]
           /\ Counts'
           /\ \A r \in Reqs : computed'[r] = computed[r] + v[r]
<1>1. /\ ModelLen \in Nat /\ SpecTokens \in Nat /\ Budget \in Nat
  BY DraftAssumption
<1>2. \A r \in Reqs : computed[r] \in 0 .. ModelLen /\ tokens[r] \in 0 .. ModelLen
                      /\ spec[r] \in 0 .. SpecTokens
  BY DEF IInv, TypeOK
<1>3. \A r \in Reqs : computed'[r] = computed[r] + v[r] BY DEF Verify
<1>4. \A r \in Members : computed[r] + v[r] \in 0 .. ModelLen - 1
  BY Survivors, <1>1, <1>2
<1>5. \A r \in Reqs \ Members : computed'[r] = computed[r] BY NoRows, <1>2, <1>3
<1>6. computed' \in [Reqs -> 0 .. ModelLen]
  BY <1>1, <1>2, <1>3, <1>4, <1>5 DEF Verify
<1>7. tokens' \in [Reqs -> 0 .. ModelLen]
  BY <1>1, <1>2, <1>4 DEF Verify, Sampled
<1>8. spec' \in [Reqs -> 0 .. SpecTokens] BY <1>1, <1>2 DEF Verify
<1>9. rows' \in [Reqs -> 0 .. Budget] BY <1>1 DEF Verify
<1>10. Counts'
  <2>1. ASSUME NEW r \in Reqs, spec'[r] > 0 PROVE tokens'[r] = computed'[r] + 1
    <3>1. CASE Sampled(r, v) BY <1>3, <3>1 DEF Verify
    <3>2. CASE ~ Sampled(r, v) /\ r \in Members
      <4>1. spec'[r] = 0 BY <3>2 DEF Verify
      <4> QED BY <2>1, <4>1
    <3>3. CASE r \notin Members
      <4>1. tokens'[r] = tokens[r] /\ spec'[r] = spec[r] BY <3>3 DEF Verify, Sampled
      <4> QED BY <1>5, <2>1, <3>3, <4>1 DEF IInv, Counts
    <3> QED BY <3>1, <3>2, <3>3
  <2>2. \A r \in Reqs : rows'[r] = 0 BY DEF Verify
  <2>3. Live' = Live BY DEF Verify, Live
  <2>4. Members \subseteq Live BY DEF IInv, TypeOK, Live
  <2>5. \A r \in Reqs \ Live' : computed'[r] = 0 /\ spec'[r] = 0
    <3>1. \A r \in Reqs \ Members : spec'[r] = spec[r] BY DEF Verify, Sampled
    <3> QED BY <1>5, <2>3, <2>4, <3>1 DEF IInv, Counts
  <2>6. phase' # "propose" BY DEF Verify
  <2> QED BY <2>1, <2>2, <2>5, <2>6 DEF Counts
<1> QED BY <1>3, <1>6, <1>7, <1>8, <1>9, <1>10

-----------------------------------------------------------------------------
(* One step *)

\* Between two steps every row is empty and the queues change by one request;
\* a request that arrives, ends or is preempted has nothing computed.
LEMMA QueuesIInv ==
    ASSUME IInv, NEW r \in Reqs, Arrive(r) \/ Finish(r) \/ Preempt(r)
    PROVE  IInv'
<1>1. SlotInv' BY IInvSlots, QueuesSlotInv
<1>2. /\ phase = "idle" /\ phase' = "idle"
      /\ UNCHANGED <<batch, rows, slotOf, free, cache>>
  BY DEF Arrive, Finish, Preempt
<1>3. /\ ModelLen \in Nat /\ SpecTokens \in Nat /\ MaxGen \in Nat
      /\ Prompts \subseteq 0 .. ModelLen
  BY DraftAssumption
<1>4. \A q \in Reqs : computed[q] \in 0 .. ModelLen /\ tokens[q] \in 0 .. ModelLen
                      /\ since[q] \in 0 .. ModelLen /\ spec[q] \in 0 .. SpecTokens
                      /\ gen[q] \in 0 .. MaxGen
  BY DEF IInv, TypeOK
<1>5. running' \subseteq Reqs \ waiting'
  BY DEF Arrive, Finish, Preempt, Live, IInv, TypeOK
<1>6. /\ gen' \in [Reqs -> 0 .. MaxGen]
      /\ computed' \in [Reqs -> 0 .. ModelLen]
      /\ tokens' \in [Reqs -> 0 .. ModelLen]
      /\ spec' \in [Reqs -> 0 .. SpecTokens]
      /\ since' \in [Reqs -> 0 .. ModelLen]
  <2>1. CASE Arrive(r)
    <3>1. gen[r] + 1 \in 0 .. MaxGen BY <1>3, <1>4, <2>1 DEF Arrive
    <3>2. PICK n \in Prompts : tokens' = [tokens EXCEPT ![r] = n] BY <2>1 DEF Arrive
    <3> QED BY <1>3, <2>1, <3>1, <3>2 DEF Arrive, IInv, TypeOK
  <2>2. CASE Finish(r) BY <1>3, <2>2 DEF Finish, IInv, TypeOK
  <2>3. CASE Preempt(r) BY <1>3, <2>3 DEF Preempt, IInv, TypeOK
  <2> QED BY <2>1, <2>2, <2>3
<1>7. TypeOK' BY <1>1, <1>2, <1>5, <1>6 DEF SlotInv, Shape, IInv, TypeOK, Entries, Slots, Cells, Empty, NoSlot
<1>8. computed'[r] = 0 /\ \A q \in Reqs \ {r} :
        computed'[q] = computed[q] /\ tokens'[q] = tokens[q] /\ spec'[q] = spec[q]
        /\ gen'[q] = gen[q] /\ since'[q] = since[q]
  <2>1. CASE Arrive(r)
    <3>1. computed[r] = 0 BY <2>1 DEF Arrive, IInv, Counts
    <3> QED BY <2>1, <3>1 DEF Arrive, IInv, TypeOK
  <2>2. CASE Finish(r) BY <2>2 DEF Finish, IInv, TypeOK
  <2>3. CASE Preempt(r) BY <2>3 DEF Preempt, IInv, TypeOK
  <2> QED BY <2>1, <2>2, <2>3
<1>9. Live' \subseteq Live \cup {r} /\ Live \ {r} \subseteq Live'
  BY DEF Live, Arrive, Finish, Preempt
<1>10. spec'[r] = 0 \/ tokens'[r] = computed'[r] + 1
  <2>1. CASE Arrive(r)
    <3>1. r \notin Live /\ spec'[r] = spec[r] BY <2>1 DEF Arrive
    <3> QED BY <3>1 DEF IInv, Counts
  <2>2. CASE Finish(r) BY <2>2 DEF Finish, IInv, TypeOK
  <2>3. CASE Preempt(r) BY <2>3 DEF Preempt, IInv, TypeOK
  <2> QED BY <2>1, <2>2, <2>3
<1>11. Counts'
  <2>1. \A q \in Reqs : spec'[q] > 0 => tokens'[q] = computed'[q] + 1
    BY <1>8, <1>10 DEF IInv, Counts
  <2>2. \A q \in Reqs \ Live' : computed'[q] = 0 /\ spec'[q] = 0
    <3>1. r \notin Live' => spec'[r] = 0
      BY DEF Arrive, Finish, Preempt, Live, IInv, TypeOK
    <3> QED BY <1>8, <1>9, <3>1 DEF IInv, Counts
  <2> QED BY <1>2, <2>1, <2>2 DEF IInv, Counts, Members
<1>12. OwnWindows'
  <2>1. SUFFICES ASSUME NEW q \in Live' \cap Owners', NEW p \in WindowOf(q)', p >= since'[q]
                 PROVE  cache'[slotOf'[q]][p % Window] = [req |-> q, gen |-> gen'[q], pos |-> p]
    BY DEF OwnWindows
  <2>2. q \in Reqs /\ q \in Owners BY <1>2, <2>1 DEF Owners
  <2>3. q # r BY <1>8, <2>1 DEF WindowOf
  <2>4. q \in Live \cap Owners /\ p \in WindowOf(q)
    BY <1>8, <1>9, <2>1, <2>2, <2>3 DEF WindowOf
  <2> QED BY <1>2, <1>8, <2>1, <2>2, <2>3, <2>4 DEF IInv, OwnWindows
<1> QED BY <1>1, <1>7, <1>11, <1>12 DEF IInv, SlotInv

LEMMA ScheduleIInv == ASSUME IInv, Schedule PROVE IInv'
<1>1. SlotInv' BY IInvSlots, ScheduleSlotInv
<1>2. PICK S \in SUBSET Live \ {{}} :
        /\ batch' \in Bijection(1 .. Cardinality(S), S)
        /\ running' = running \cup S
        /\ waiting' = waiting \ S
        /\ \E n \in [S -> 1 .. Budget] :
             /\ \A r \in S : n[r] <= Wanted(r)
             /\ rows' = [r \in Reqs |-> IF r \in S THEN n[r] ELSE 0]
  BY DEF Schedule
<1>3. PICK n \in [S -> 1 .. Budget] :
        /\ \A r \in S : n[r] <= Wanted(r)
        /\ rows' = [r \in Reqs |-> IF r \in S THEN n[r] ELSE 0]
  BY <1>2
<1>4. UNCHANGED <<gen, computed, tokens, spec, slotOf, free, cache, since>> BY DEF Schedule
<1>5. S \subseteq Reqs BY <1>2 DEF Live, IInv, TypeOK
<1>6. Live' = Live BY <1>2 DEF Live, IInv, TypeOK
<1>7. Members' = S BY <1>2 DEF Members, Range, Bijection, Surjection, Injection
<1>8. rows' \in [Reqs -> 0 .. Budget] BY <1>3, DraftAssumption
<1>9. running' \subseteq Reqs \ waiting' BY <1>2, <1>5 DEF IInv, TypeOK
<1>10. TypeOK'
  BY <1>1, <1>4, <1>8, <1>9 DEF SlotInv, Shape, IInv, TypeOK, Entries, Slots, Cells, Empty, NoSlot
<1>11. Counts'
  <2>1. \A r \in Reqs \ Members' : rows'[r] = 0 BY <1>3, <1>7
  <2>2. \A r \in Members' : 1 <= rows'[r] /\ rows'[r] <= Wanted(r)
    BY <1>3, <1>5, <1>7
  <2>3. \A r : Wanted(r)' = Wanted(r) BY <1>4 DEF Wanted, AtMost
  <2> QED BY <1>4, <1>6, <2>1, <2>2, <2>3 DEF IInv, Counts
<1>12. OwnWindows' BY <1>4, <1>6 DEF IInv, OwnWindows, Owners, WindowOf, NoSlot
<1> QED BY <1>1, <1>10, <1>11, <1>12 DEF IInv, SlotInv

LEMMA SkippedIInv == ASSUME IInv, DrafterTooShort \/ SkipNonUniform PROVE IInv'
<1>1. SlotInv' BY IInvSlots, SkippedSlotInv
<1>2. PICK v \in Outcomes : Verify(v) /\ Missed(v) BY DEF DrafterTooShort, SkipNonUniform
<1>3. phase = "propose" /\ UNCHANGED <<slotOf, free, cache>>
  BY DEF DrafterTooShort, SkipNonUniform
<1>4. UNCHANGED <<waiting, running, gen>> /\ phase' = "idle" BY <1>2 DEF Verify
<1>5. /\ computed' \in [Reqs -> 0 .. ModelLen]
      /\ tokens' \in [Reqs -> 0 .. ModelLen]
      /\ spec' \in [Reqs -> 0 .. SpecTokens]
      /\ rows' \in [Reqs -> 0 .. Budget]
      /\ Counts'
      /\ \A r \in Reqs : computed'[r] = computed[r] + v[r]
  BY <1>2, <1>3, VerifyCounts
<1>6. \A r \in Reqs : since'[r] = IF r \in Members THEN computed'[r] ELSE since[r]
  BY <1>2, <1>5 DEF Missed
<1>7. since' \in [Reqs -> 0 .. ModelLen] BY <1>2, <1>5, <1>6 DEF Missed, IInv, TypeOK
<1>8. TypeOK'
  BY <1>1, <1>3, <1>4, <1>5, <1>7 DEF SlotInv, Shape, IInv, TypeOK, Entries, Slots, Cells, Empty, NoSlot
<1>9. OwnWindows'
  <2>1. SUFFICES ASSUME NEW q \in Live' \cap Owners', NEW p \in WindowOf(q)', p >= since'[q]
                 PROVE  cache'[slotOf'[q]][p % Window] = [req |-> q, gen |-> gen'[q], pos |-> p]
    BY DEF OwnWindows
  <2>2. q \in Reqs /\ q \in Owners /\ q \in Live
    BY <1>3, <1>4, <2>1 DEF Owners, Live
  <2>3. q \notin Members
    <3>1. p < computed'[q] /\ computed'[q] \in Nat /\ p \in Nat
      BY <1>5, <2>1, <2>2, DraftAssumption DEF WindowOf
    <3> QED BY <1>6, <2>1, <2>2, <3>1
  <2>4. computed'[q] = computed[q] BY <1>2, <1>5, <2>2, <2>3, NoRows DEF IInv, TypeOK
  <2>5. p \in WindowOf(q) BY <2>1, <2>4 DEF WindowOf
  <2> QED BY <1>3, <1>4, <1>6, <2>1, <2>2, <2>3, <2>5 DEF IInv, OwnWindows
<1> QED BY <1>1, <1>5, <1>8, <1>9 DEF IInv, SlotInv

\* What a step stores for a request lies within one window, ends with the
\* last position that survived and begins no later than the window that the
\* next drafts will read, as far as this step computed it.
LEMMA KeptRange ==
    ASSUME IInv, phase = "propose", NEW v \in Outcomes, NEW r \in Members
    PROVE  \E first \in Nat :
             /\ Kept(r, v) = first .. computed[r] + v[r] - 1
             /\ computed[r] <= first /\ first < computed[r] + v[r]
             /\ computed[r] + v[r] - first <= Window
             /\ first = computed[r] \/ first = computed[r] + v[r] - Window
<1> DEFINE first == IF rows[r] > Window THEN SeqLen(r) - Window ELSE computed[r]
<1>1. /\ v[r] \in 1 .. rows[r]
      /\ rows[r] > Window => v[r] = rows[r]
      /\ rows[r] \in Nat /\ computed[r] \in Nat /\ Window \in Nat \ {0}
  BY Survivors, DraftAssumption DEF IInv, TypeOK
<1>2. /\ first \in Nat
      /\ computed[r] <= first /\ first < computed[r] + v[r]
      /\ computed[r] + v[r] - first <= Window
      /\ first = computed[r] \/ first = computed[r] + v[r] - Window
  BY <1>1 DEF SeqLen
<1>3. Kept(r, v) = first .. computed[r] + v[r] - 1 BY <1>1, <1>2 DEF Kept, FirstKept
<1> QED BY <1>2, <1>3

\* The ring of a row's slot after the step: what the step kept, and elsewhere
\* what was there.
LEMMA StoredRing ==
    ASSUME IInv, phase = "propose", NEW v \in Outcomes, RowToSlot, StoreMainKV(v),
           NEW r \in Members, NEW c \in Cells
    PROVE  /\ slotOf'[r] \in Slots
           /\ cache'[slotOf'[r]][c] =
                IF \E p \in Kept(r, v) : p % Window = c
                THEN [req |-> r, gen |-> gen[r], pos |-> CHOOSE p \in Kept(r, v) : p % Window = c]
                ELSE cache[slotOf'[r]][c]
<1>1. /\ slotOf' \in [Reqs -> Slots \cup {NoSlot}]
      /\ Owners' = Members
      /\ SlotsPartitioned'
  BY IInvSlots, RowToSlotPartitions
<1>2. \A q \in Members : slotOf'[q] \in Slots BY <1>1 DEF Owners
<1>3. \A q \in Members : slotOf'[q] = slotOf'[r] => q = r
  BY <1>1 DEF SlotsPartitioned
<1>4. PICK i \in DOMAIN batch : batch[i] = r BY DEF Members, Range
<1>5. \A j \in DOMAIN batch : batch[j] \in Members BY DEF Members, Range
<1>6. \A j \in DOMAIN batch : SlotOfRow(j) = slotOf'[r] <=> j = i
  BY <1>3, <1>4, <1>5 DEF SlotOfRow, IInv, TypeOK, Injection, IsInjective
<1>7. (CHOOSE j \in DOMAIN batch : SlotOfRow(j) = slotOf'[r]) = i BY <1>6
<1> DEFINE s == slotOf'[r]
<1>8. cache'[s][c] =
        IF \E j \in DOMAIN batch : SlotOfRow(j) = s /\ \E p \in Kept(batch[j], v) : p % Window = c
        THEN LET q == batch[CHOOSE j \in DOMAIN batch : SlotOfRow(j) = s]
             IN [req |-> q, gen |-> gen[q], pos |-> CHOOSE p \in Kept(q, v) : p % Window = c]
        ELSE cache[s][c]
  BY <1>2 DEF StoreMainKV
<1>9. (\E j \in DOMAIN batch : SlotOfRow(j) = s /\ \E p \in Kept(batch[j], v) : p % Window = c)
        <=> \E p \in Kept(r, v) : p % Window = c
  BY <1>4, <1>6
<1> QED BY <1>2, <1>4, <1>7, <1>8, <1>9

LEMMA ProposeIInv == ASSUME IInv, Propose PROVE IInv'
<1>1. SlotInv' BY IInvSlots, ProposeSlotInv
<1>2. PICK v \in Outcomes : Verify(v) /\ StoreMainKV(v) BY DEF Propose
<1>3. phase = "propose" /\ RowToSlot BY DEF Propose
<1>4. UNCHANGED <<waiting, running, gen>> /\ phase' = "idle" BY <1>2 DEF Verify
<1>5. /\ computed' \in [Reqs -> 0 .. ModelLen]
      /\ tokens' \in [Reqs -> 0 .. ModelLen]
      /\ spec' \in [Reqs -> 0 .. SpecTokens]
      /\ rows' \in [Reqs -> 0 .. Budget]
      /\ Counts'
      /\ \A r \in Reqs : computed'[r] = computed[r] + v[r]
  BY <1>2, <1>3, VerifyCounts
<1>6. since' = [r \in Reqs |-> IF r \in Stale \cup Newcomers THEN computed[r] ELSE since[r]]
  BY DEF Propose
<1>7. since' \in [Reqs -> 0 .. ModelLen] BY <1>6 DEF IInv, TypeOK
<1>8. /\ Owners' = Members
      /\ \A r \in Members \cap Owners : slotOf'[r] = slotOf[r]
  BY <1>3, IInvSlots, RowToSlotPartitions
<1>9. Window \in Nat \ {0} /\ ModelLen \in Nat BY DraftAssumption
<1>10. cache' \in [Slots -> [Cells -> Entries]]
  <2>1. ASSUME NEW s \in Slots, NEW c \in Cells PROVE cache'[s][c] \in Entries
    <3>1. CASE \E i \in DOMAIN batch : SlotOfRow(i) = s
                                       /\ \E p \in Kept(batch[i], v) : p % Window = c
      <4>1. PICK i \in DOMAIN batch : SlotOfRow(i) = s
                                      /\ \E p \in Kept(batch[i], v) : p % Window = c
        BY <3>1
      <4>2. batch[i] \in Members BY <4>1 DEF Members, Range
      <4>3. slotOf'[batch[i]] = s BY <4>1 DEF SlotOfRow
      <4>4. cache'[s][c] = [req |-> batch[i], gen |-> gen[batch[i]],
                            pos |-> CHOOSE p \in Kept(batch[i], v) : p % Window = c]
        BY <1>2, <1>3, <4>1, <4>2, <4>3, StoredRing
      <4>5. batch[i] \in Reqs /\ gen[batch[i]] \in Nat
        BY <4>1, DraftAssumption DEF IInv, TypeOK, Injection
      <4>6. Kept(batch[i], v) \subseteq Nat
        <5>1. PICK first \in Nat : Kept(batch[i], v) = first .. computed[batch[i]] + v[batch[i]] - 1
          BY <1>3, <4>2, KeptRange
        <5>2. computed[batch[i]] + v[batch[i]] - 1 \in Int
          BY <1>3, <4>2, <4>5, Survivors DEF IInv, TypeOK
        <5> QED BY <5>1, <5>2
      <4>7. (CHOOSE p \in Kept(batch[i], v) : p % Window = c) \in Nat BY <4>1, <4>6
      <4> QED BY <4>4, <4>5, <4>7 DEF Entries
    <3>2. CASE ~ \E i \in DOMAIN batch : SlotOfRow(i) = s
                                         /\ \E p \in Kept(batch[i], v) : p % Window = c
      <4>1. cache'[s][c] = cache[s][c] BY <1>2, <3>2 DEF StoreMainKV
      <4> QED BY <4>1 DEF IInv, TypeOK
    <3> QED BY <3>1, <3>2
  <2>2. \A s \in Slots : cache'[s] = [c \in Cells |-> cache'[s][c]] BY <1>2 DEF StoreMainKV
  <2>3. cache' = [s \in Slots |-> cache'[s]] BY <1>2 DEF StoreMainKV
  <2> QED BY <2>1, <2>2, <2>3
<1>11. TypeOK'
  BY <1>1, <1>4, <1>5, <1>7, <1>10 DEF SlotInv, Shape, IInv, TypeOK, Entries, Slots, Cells, Empty, NoSlot
<1>12. OwnWindows'
  <2>1. SUFFICES ASSUME NEW r \in Live' \cap Owners', NEW p \in WindowOf(r)', p >= since'[r]
                 PROVE  cache'[slotOf'[r]][p % Window] = [req |-> r, gen |-> gen'[r], pos |-> p]
    BY DEF OwnWindows
  <2>2. r \in Members /\ r \in Reqs /\ r \in Live
    BY <1>3, <1>4, <1>8, <2>1, Survivors, <1>2 DEF Live
  <2>3. v[r] \in Nat /\ computed[r] \in Nat /\ since[r] \in Nat
    BY <1>2, <1>3, <2>2, Survivors DEF IInv, TypeOK
  <2>4. p \in Nat /\ p <= ModelLen /\ computed[r] + v[r] - Window <= p /\ p < computed[r] + v[r]
    <3>1. p \in 0 .. ModelLen /\ computed'[r] - Window <= p /\ p < computed'[r]
      BY <2>1 DEF WindowOf
    <3>2. computed'[r] = computed[r] + v[r] BY <1>5, <2>2
    <3> QED BY <1>9, <2>3, <3>1, <3>2
  <2>5. p % Window \in Cells BY <1>9, <2>4, DivMod DEF Cells
  <2>6. PICK first \in Nat :
          /\ Kept(r, v) = first .. computed[r] + v[r] - 1
          /\ computed[r] <= first /\ first < computed[r] + v[r]
          /\ computed[r] + v[r] - first <= Window
          /\ first = computed[r] \/ first = computed[r] + v[r] - Window
    BY <1>2, <1>3, <2>2, KeptRange
  <2>7. \A q \in Kept(r, v) : q # p => q % Window # p % Window
    <3>1. SUFFICES ASSUME NEW q \in Nat, first <= q, q <= computed[r] + v[r] - 1, q # p
                   PROVE  q % Window # p % Window
      BY <2>3, <2>6
    <3>2. CASE q > p
      <4>1. q - p < Window BY <1>9, <2>3, <2>4, <3>1
      <4> QED BY <1>9, <2>4, <3>1, <3>2, <4>1, CellsApart
    <3>3. CASE q < p
      <4>1. p - q < Window
        <5>1. computed[r] + v[r] - first <= Window BY <2>6
        <5>2. first <= q BY <3>1
        <5> QED BY <1>9, <2>3, <2>4, <5>1, <5>2
      <4> QED BY <1>9, <2>4, <3>1, <3>3, <4>1, CellsApart
    <3> QED BY <2>4, <3>1, <3>2, <3>3
  <2>8. CASE p >= computed[r]
    <3>1. p \in Kept(r, v) BY <1>9, <2>3, <2>4, <2>6, <2>8
    <3>2. (CHOOSE q \in Kept(r, v) : q % Window = p % Window) = p BY <2>7, <3>1
    <3> QED BY <1>2, <1>3, <1>4, <2>2, <2>5, <3>1, <3>2, StoredRing
  <2>9. CASE p < computed[r]
    <3>1. since'[r] = since[r] /\ r \in Owners
      <4>1. since'[r] # computed[r] BY <1>7, <2>1, <2>2, <2>3, <2>4, <2>9
      <4>2. r \notin Newcomers BY <1>6, <2>2, <4>1
      <4> QED BY <1>6, <2>2, <4>1, <4>2 DEF Newcomers
    <3>2. p \in WindowOf(r) BY <1>9, <2>3, <2>4, <2>9 DEF WindowOf
    <3>3. cache[slotOf[r]][p % Window] = [req |-> r, gen |-> gen[r], pos |-> p]
      BY <2>1, <2>2, <3>1, <3>2 DEF IInv, OwnWindows
    <3>4. p \notin Kept(r, v) BY <2>3, <2>4, <2>6, <2>9
    <3>5. ~ \E q \in Kept(r, v) : q % Window = p % Window BY <2>7, <3>4
    <3>6. slotOf'[r] = slotOf[r] BY <1>8, <2>2, <3>1
    <3> QED BY <1>2, <1>3, <1>4, <2>2, <2>5, <3>3, <3>5, <3>6, StoredRing
  <2> QED BY <2>3, <2>4, <2>8, <2>9
<1> QED BY <1>1, <1>5, <1>11, <1>12 DEF IInv, SlotInv

LEMMA IInvNext == IInv /\ [Next]_vars => IInv'
<1> SUFFICES ASSUME IInv, [Next]_vars PROVE IInv' OBVIOUS
<1>1. CASE \E r \in Reqs : Arrive(r) \/ Finish(r) \/ Preempt(r) BY <1>1, QueuesIInv
<1>2. CASE Schedule BY <1>2, ScheduleIInv
<1>3. CASE DrafterTooShort \/ SkipNonUniform BY <1>3, SkippedIInv
<1>4. CASE Propose BY <1>4, ProposeIInv
<1>5. CASE UNCHANGED vars
  <2>1. TypeOK'
    BY <1>5 DEF vars, IInv, TypeOK, Members, Entries, Slots, Cells, Empty, NoSlot
  <2>2. SlotsPartitioned'
    BY <1>5 DEF vars, IInv, SlotsPartitioned, Owners, Slots, NoSlot
  <2>3. Counts' BY <1>5 DEF vars, IInv, Counts, Members, Live, Wanted, AtMost
  <2>4. OwnWindows' BY <1>5 DEF vars, IInv, OwnWindows, Live, Owners, WindowOf, NoSlot
  <2> QED BY <2>1, <2>2, <2>3, <2>4 DEF IInv
<1> QED BY <1>1, <1>2, <1>3, <1>4, <1>5 DEF Next

\* Every variable keeps its type: in particular no request outgrows the model
\* length by drafts that are verified.
THEOREM DraftTypeCorrect == Spec => []TypeOK
<1>1. IInv => TypeOK BY DEF IInv
<1> QED BY <1>1, IInvInit, IInvNext, PTL DEF Spec

\* A request that drafts reads its own states and no other: neither a rejected
\* draft, a moved row, another request nor a former one with the same id has
\* replaced a position of its window that was stored since it got its slot,
\* for every window and number of drafts below it (prefill_main(),
\* store_main_kv(), _row_to_slot()).
THEOREM DraftReadsOwnStates == Spec => []DraftSeesOwnWindow
<1>1. IInv => DraftSeesOwnWindow
  BY DEF IInv, OwnWindows, DraftSeesOwnWindow, Live
<1> QED BY <1>1, IInvInit, IInvNext, PTL DEF Spec

=============================================================================
