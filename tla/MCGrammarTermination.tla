------------------------ MODULE MCGrammarTermination ------------------------
(* GrammarTermination for TLC: a list of items, closed, then the stop token. *)
EXTENDS GrammarTermination

Moves == (<<"open", "item">> :> "more") @@ (<<"more", "item">> :> "more")
         @@ (<<"more", "close">> :> "shut") @@ (<<"shut", "eos">> :> "done")

MCStates == {"open", "more", "shut", "done"}
MCTokens == {"item", "close", "eos"}
MCDelta == [m \in MCStates \X MCTokens |-> IF m \in DOMAIN Moves THEN Moves[m] ELSE "none"]
=============================================================================
