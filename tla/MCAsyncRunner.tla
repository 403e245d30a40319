---------------------------- MODULE MCAsyncRunner ----------------------------
(* Requests that are all alike. *)
EXTENDS AsyncRunner, TLC

MCPrompt == [r \in Reqs |-> 1]
MCMaxTokens == [r \in Reqs |-> 3]
Symmetry == Permutations(Reqs)
=============================================================================
