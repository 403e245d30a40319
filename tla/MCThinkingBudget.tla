-------------------------- MODULE MCThinkingBudget --------------------------
(* ThinkingBudget for TLC. *)
EXTENDS ThinkingBudget

MCSymmetry == Permutations(Reqs) \cup Permutations(Slots)
=============================================================================
