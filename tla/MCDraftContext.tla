--------------------------- MODULE MCDraftContext ---------------------------
(* DraftContext for TLC: one kind of request stops at ShortLimit and comes and *)
(* goes, the others run to LongLimit and past the drafter's length.  The short *)
(* ones are alike, so that they may be permuted.                               *)
EXTENDS DraftContext, TLC

CONSTANTS Short, ShortLimit, LongLimit

Alike == Permutations(Short)
Limits == [r \in Reqs |-> IF r \in Short THEN ShortLimit ELSE LongLimit]
=============================================================================
