-------------------------- MODULE MCResponsesStore --------------------------
(* ResponsesStore for TLC: without readers, ids may be permuted. *)
EXTENDS ResponsesStore, TLC

AlikeIds == Permutations(Ids)
=============================================================================
