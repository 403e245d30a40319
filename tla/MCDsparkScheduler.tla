------------------------- MODULE MCDsparkScheduler -------------------------
(* Instances of DsparkScheduler for TLC: a few requests whose prompts and    *)
(* limits differ, a budget of a few tokens and a pool that is short of       *)
(* blocks when all of them run.                                              *)
EXTENDS DsparkScheduler

\* Short and long prompts in turn: decode lanes before and behind a prefill,
\* and three prefills that compete for two places.
Prompts == <<1, 6, 1, 5, 4>>
Limits == <<3, 2, 4, 2, 2>>
=============================================================================
