---------------------------- MODULE MCHotfixBoot ----------------------------
(* HotfixBoot for TLC, with the chain of the compose file. *)
EXTENDS HotfixBoot, DsparkChain
=============================================================================
