----------------------------- MODULE MCCluster -----------------------------
(* Cluster for TLC: one worker. *)
EXTENDS Cluster

MCWorkers == <<"worker">>
=============================================================================
